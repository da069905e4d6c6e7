-------------------------- MODULE MCOfferSelection --------------------------
(***************************************************************************)
(* Instances of OfferSelection.  ana owns two cargos (and bob one, in the  *)
(* mutual instance); carriers bid on them.                                 *)
(***************************************************************************)
EXTENDS OfferSelection, TLC

CONSTANTS ana, bob, c1, c2, o1, o2, o3

\* Two cargos of ana; bob made o1 and o2 on c1 and o3 on c2.
RaceOwner == c1 :> ana @@ c2 :> ana
RaceCargoOf == o1 :> c1 @@ o2 :> c1 @@ o3 :> c2
RaceAuthor == o1 :> bob @@ o2 :> bob @@ o3 :> bob

\* ana and bob each own a cargo and bid on the other's.
MutualOwner == c1 :> ana @@ c2 :> bob
MutualCargoOf == o1 :> c1 @@ o2 :> c2
MutualAuthor == o1 :> bob @@ o2 :> ana
=============================================================================
