---------------------------- MODULE Competition ----------------------------
(***************************************************************************)
(* What every competition of the platform promises (a cargo request, a     *)
(* consolidated request): bids are anonymous while the lot is open, one    *)
(* bid wins, winning is one atomic step that closes the lot and reveals    *)
(* the identity of the winner's author alone, and it is never undone.      *)
(***************************************************************************)
CONSTANTS Lot, Bid, NoBid,
          LotOf,              \* [Bid -> Lot] the lot a bid is made on
          AuthorOf            \* the author of each bid

VARIABLES winner,             \* [Lot -> Bid \cup {NoBid}]
          bids,               \* the bids submitted so far
          revealed            \* pairs <<lot, author>> disclosed to the lot's owner

compVars == <<winner, bids, revealed>>

Init == /\ winner = [l \in Lot |-> NoBid]
        /\ bids = {}
        /\ revealed = {}

Submit(b) == /\ bids' = bids \cup {b}
             /\ UNCHANGED <<winner, revealed>>

Award(b) == /\ winner[LotOf[b]] = NoBid
            /\ b \in bids
            /\ winner' = [winner EXCEPT ![LotOf[b]] = b]
            /\ revealed' = revealed \cup {<<LotOf[b], AuthorOf[b]>>}
            /\ UNCHANGED bids

Next == \E b \in Bid : Submit(b) \/ Award(b)

Spec == Init /\ [][Next]_compVars
=============================================================================
