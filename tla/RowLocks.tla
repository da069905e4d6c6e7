------------------------------ MODULE RowLocks ------------------------------
(***************************************************************************)
(* The row locks of PostgreSQL (READ COMMITTED), as far as the services    *)
(* rely on them.  A lock table is a set of records [tx, row, mode]:        *)
(*   "forUpdate"   SELECT ... FOR UPDATE (GetByIDForUpdate), DELETE        *)
(*   "noKeyUpdate" UPDATE of columns no foreign key refers to              *)
(*   "keyShare"    the foreign-key check of an INSERT, on the parent row   *)
(* A statement waits until its row is available; a transaction keeps its   *)
(* locks to its end.  Plain SELECTs take no lock.                          *)
(***************************************************************************)

LockMode == {"forUpdate", "noKeyUpdate", "keyShare"}

\* keyShare coexists with itself and with noKeyUpdate; nothing else coexists.
Compatible(m, n) ==
    \/ m = "keyShare" /\ n # "forUpdate"
    \/ n = "keyShare" /\ m # "forUpdate"

Available(held, t, row, mode) ==
    \A l \in held : (l.row = row /\ l.tx # t) => Compatible(l.mode, mode)

Grant(held, t, row, mode) ==
    held \cup {[tx |-> t, row |-> row, mode |-> mode]}

Release(held, t) == {l \in held : l.tx # t}

Holds(held, t, row, mode) == [tx |-> t, row |-> row, mode |-> mode] \in held

(***************************************************************************)
(* The deadlock detector: S is a set of transactions each of which waits   *)
(* for another one of S and is waited for by one of S.  want[t] is the set *)
(* of [row, mode] the next statement of t asks for.                        *)
(***************************************************************************)
WaitsFor(held, want, t, u) ==
    \E l \in held, w \in want[t] :
        /\ l.tx = u /\ u # t /\ l.row = w.row
        /\ ~Compatible(l.mode, w.mode)

Deadlocked(held, want, t) ==
    \E S \in SUBSET DOMAIN want :
        /\ t \in S
        /\ \A x \in S : /\ \E y \in S : WaitsFor(held, want, x, y)
                        /\ \E y \in S : WaitsFor(held, want, y, x)
=============================================================================
