----------------------------- MODULE MCDispatch -----------------------------
(***************************************************************************)
(* Instances of Dispatch: cargos k1 and k2 of ana, k3 of bob; drivers eva  *)
(* and fox.                                                                *)
(***************************************************************************)
EXTENDS Dispatch, TLC

CONSTANTS ana, bob, hub, eva, fox, k1, k2, k3, d1, d2, b1, b2, s1, s2

Owners == k1 :> ana @@ k2 :> ana @@ k3 :> bob
CargoOwner == [k \in Cargo |-> Owners[k]]
Names == Permutations(Batch) \cup Permutations(Driver)
=============================================================================
