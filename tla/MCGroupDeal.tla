----------------------------- MODULE MCGroupDeal -----------------------------
(***************************************************************************)
(* Instances of GroupDeal: up to four member clients; carrier eva bids     *)
(* with o1, and fox with o2.                                               *)
(***************************************************************************)
EXTENDS GroupDeal, TLC

CONSTANTS r1, r2, ana, bob, cai, dan, eva, fox, o1, o2

BothBid == o1 :> eva @@ o2 :> fox
Requests == Permutations(Req)
OfferAuthor == [o \in Offer |-> BothBid[o]]
=============================================================================
