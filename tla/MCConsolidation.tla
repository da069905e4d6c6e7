--------------------------- MODULE MCConsolidation ---------------------------
(***************************************************************************)
(* Instances of Consolidation: each client owns one cargo, a carrier bids  *)
(* on the first one.  The matcher is checked beside them, on cargos at     *)
(* three places along a line, where one country has the smaller radius.    *)
(***************************************************************************)
EXTENDS Consolidation, Matcher, TLC

CONSTANTS ana, bob, cai, dan, c1, c2, c3, o1

AllOwners == c1 :> ana @@ c2 :> bob @@ c3 :> cai
PairOwner == [c \in Cargo |-> AllOwners[c]]
OneCargoOf == [o \in Offer |-> c1]
OneAuthor == [o \in Offer |-> dan]

-----------------------------------------------------------------------------
(* Pools of the matcher.                                                   *)

Meridian == [p \in Place \X Place |-> IF p[1] < p[2] THEN p[2] - p[1] ELSE p[1] - p[2]]

Points == {p \in [at : Place, radius : 1..2] : p.radius = (IF p.at = 2 THEN 2 ELSE 1)}
Limits == [max_volume_m3 |-> 4, max_weight_kg |-> 3]
Cargos == [client_id : 1..2, origin : Points, destination : Points,
           volume_m3 : 1..3, weight_kg : 1..2]
Alike == {b \in [client_id : 1..3, origin : Points, destination : Points,
                 volume_m3 : 1..2, weight_kg : {1}] : b.destination.at = 0}

\* All pairs, and up to four cargos bound for one place.
Pools == [1..2 -> Cargos] \cup [1..3 -> Alike]
         \cup {items \in [1..4 -> Alike] : items[1].client_id = 1}

\* The answers to them keep the contract Consolidation relies on.
ASSUME GroupsKeepTheContract ==
    \A items \in Pools : KeepsTheContract(Match(items, Limits), items, Limits)

\* Nothing that fits is left out of them.
ASSUME NoneLeftThatFit ==
    \A items \in Pools : NoneLeft(Match(items, Limits), items, Limits)
=============================================================================
