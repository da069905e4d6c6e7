----------------------------- MODULE MCAfterDeal -----------------------------
(***************************************************************************)
(* Three members with subscriptions; carriers eva (o1) and fox (o2); the   *)
(* representatives gil (x1, x3) and hal (x2).  Ana and eva have completed  *)
(* a deal before; fox has bid on a cargo of his own and selected himself.  *)
(***************************************************************************)
EXTENDS Disclosure, RatingScore, TLC

CONSTANTS q1, q2, r1, ana, bob, cai, eva, fox, gil, hal, o1, o2, x1, x2, x3, p1, p2

OfferAuthor == o1 :> eva @@ o2 :> fox
OfferRep == x1 :> gil @@ x2 :> hal @@ x3 :> gil
PastClients == p1 :> ana @@ p2 :> fox
PastCarriers == p1 :> eva @@ p2 :> fox
Interchangeable == Permutations(CReq) \cup Permutations({bob, cai})

-----------------------------------------------------------------------------
(* Scores.                                                                 *)

\* Inputs around each cap, with and without reviews and chats.
Inputs ==
    {c \in [reviewCount : 0..1, reviewAvg : {0, 10, 37, 50},
            completedDeals : {0, 1, 19, 20, 25}, daysOnPlatform : {0, 36, 364, 365, 400},
            chatMessages : {0, 1, 25, 50, 60}, chatsTotal : {0, 1, 4},
            chatsActive : {0, 1, 3, 4}] :
        /\ c.chatsActive <= c.chatsTotal
        /\ (c.reviewCount = 0) <=> (c.reviewAvg = 0)}

Bare == [reviewCount |-> 0, reviewAvg |-> 0, completedDeals |-> 0,
         daysOnPlatform |-> 0, chatMessages |-> 0, chatsTotal |-> 0, chatsActive |-> 0]

\* The score over the inputs: see Bounded, ReviewsPull and WorkHelps.
ASSUME CompositeBounded == \A c \in Inputs : Bounded(c)
ASSUME ReviewPulls == \A c \in Inputs : ReviewsPull(c)
ASSUME WorkHelped == \A c \in Inputs : WorkHelps(c)

\* The cases of rating_composite_test.go.
ASSUME TestedScores ==
    /\ NoSignal([Bare EXCEPT !.daysOnPlatform = 100])
    /\ compositeFromComponents([Bare EXCEPT !.reviewCount = 1, !.reviewAvg = 50]) = 25
    /\ compositeFromComponents([Bare EXCEPT !.completedDeals = 10, !.daysOnPlatform = 36,
           !.chatMessages = 25, !.chatsTotal = 4, !.chatsActive = 4]) = 26
    /\ compositeFromComponents([reviewCount |-> 10, reviewAvg |-> 50,
           completedDeals |-> 20, daysOnPlatform |-> 365, chatMessages |-> 50,
           chatsTotal |-> 10, chatsActive |-> 10]) = 50
=============================================================================
