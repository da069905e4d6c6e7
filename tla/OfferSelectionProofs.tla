------------------------ MODULE OfferSelectionProofs ------------------------
(***************************************************************************)
(* Proofs about OfferSelection, for any users, cargos, offers, limits and  *)
(* number of concurrent requests.  Everything rests on one inductive       *)
(* invariant: what the row locks guarantee to the request that holds them. *)
(***************************************************************************)
EXTENDS OfferSelection, FiniteSetTheorems, TLAPS

-----------------------------------------------------------------------------
(* Type correctness.                                                       *)

\* A request that ends leaves the request variables well typed.
LEMMA FinishType ==
    ASSUME TypeOK, NEW r \in Req, Finish(r)
    PROVE  /\ held' \subseteq [tx : Req, row : User \cup Cargo, mode : LockMode]
           /\ pc' \in [Req -> PC]
           /\ arg' \in [Req -> Arg \cup {NoArg}]
           /\ limit' \in [Req -> Nat]
           /\ \A q \in Req : pc'[q] # "idle" => arg'[q] \in Arg
BY DEF TypeOK, Finish, Release, PC

\* A request that is refused or lost changes no row.
LEMMA RejectType ==
    ASSUME TypeOK, NEW r \in Req, Reject(r)
    PROVE  TypeOK'
<1>1. UNCHANGED dbVars /\ Finish(r)
  BY DEF Reject
<1> QED
  BY <1>1, FinishType DEF TypeOK, dbVars

\* The initial states are well typed.
LEMMA InitType == Init => TypeOK
BY LimitsType DEF Init, TypeOK, PC

\* Every step keeps the types (the type invariant is inductive by itself).
LEMMA NextType == TypeOK /\ [Next]_vars => TypeOK'
<1> SUFFICES ASSUME TypeOK, [Next]_vars PROVE TypeOK'
  OBVIOUS
<1> USE DEF TypeOK, PC, InTx, LockMode, Grant, Goto
<1>1. CASE UNCHANGED vars
  BY <1>1 DEF vars, dbVars, reqVars
<1>2. ASSUME NEW c \in Cargo, CreateCargo(c) PROVE TypeOK'
  BY <1>2 DEF CreateCargo, reqVars
<1>3. ASSUME NEW u \in User, SetUserSubscription(u) PROVE TypeOK'
  BY <1>3 DEF SetUserSubscription, reqVars
<1>4. ASSUME NEW u \in User, SetUserStatus(u) PROVE TypeOK'
  BY <1>4 DEF SetUserStatus, reqVars
<1>5. ASSUME NEW r \in Req, NEW o \in Offer, BeginOffer(r, o) PROVE TypeOK'
  BY <1>5, AuthorType, CargoOfType DEF BeginOffer, dbVars, Arg
<1>6. ASSUME NEW r \in Req, NEW u \in User, NEW c \in Cargo, NEW o \in Offer,
             BeginSelect(r, u, c, o) PROVE TypeOK'
  BY <1>6 DEF BeginSelect, dbVars, Arg
<1>7. ASSUME NEW r \in Req, LockClient(r) PROVE TypeOK'
  BY <1>7, LimitsType DEF LockClient, dbVars, RevealLimit, Arg
<1>8. ASSUME NEW r \in Req, LockCargo(r) PROVE TypeOK'
  <2>1. CASE MaySelect(r)
    BY <1>8, <2>1 DEF LockCargo, dbVars, Arg
  <2>2. CASE ~MaySelect(r)
    BY <1>8, <2>2, RejectType DEF LockCargo
  <2> QED BY <2>1, <2>2
<1>9. ASSUME NEW r \in Req, CheckLimit(r) PROVE TypeOK'
  <2>1. CASE WithinLimit(r)
    BY <1>9, <2>1 DEF CheckLimit, dbVars
  <2>2. CASE ~WithinLimit(r)
    BY <1>9, <2>2, RejectType DEF CheckLimit
  <2> QED BY <2>1, <2>2
<1>10. ASSUME NEW r \in Req, InsertReveal(r) PROVE TypeOK'
  BY <1>10, AuthorType DEF InsertReveal, dbVars, Arg
<1>11. ASSUME NEW r \in Req, InsertOffer(r) PROVE TypeOK'
  <2>1. Finish(r) /\ arg[r] \in Arg
    BY <1>11 DEF InsertOffer
  <2> QED
    BY <1>11, <2>1, FinishType DEF InsertOffer, Arg
<1>12. ASSUME NEW r \in Req, CommitSelect(r) PROVE TypeOK'
  <2>1. Finish(r) /\ arg[r] \in Arg
    BY <1>12 DEF CommitSelect
  <2>2. /\ arg[r].user \in User /\ arg[r].cargo \in Cargo /\ arg[r].offer \in Offer
        /\ Author[arg[r].offer] \in User
    BY <2>1, AuthorType DEF Arg
  <2>3. /\ reveals' \subseteq [client : User, participant : User, cargo : Cargo]
        /\ chats' \subseteq [cargo : Cargo, members : SUBSET User]
    BY <1>12, <2>2 DEF CommitSelect
  <2>4. asked' \subseteq Cargo \X User
    BY <1>12, <2>2 DEF CommitSelect, NotifyRepeatDeal
  <2>5. /\ cargoStatus' \in [Cargo -> {"absent", "open", "matched", "closed"}]
        /\ offerStatus' \in [Offer -> {"absent", "submitted", "selected"}]
        /\ UNCHANGED <<subscribed, eligible>>
    BY <1>12, <2>2 DEF CommitSelect
  <2> QED
    BY <2>1, <2>3, <2>4, <2>5, FinishType
<1>13. ASSUME NEW r \in Req, Abort(r) PROVE TypeOK'
  BY <1>13, RejectType DEF Abort
<1> QED
  BY <1>1, <1>2, <1>3, <1>4, <1>5, <1>6, <1>7, <1>8, <1>9, <1>10, <1>11, <1>12, <1>13
  DEF Next, RequestStep, SelectStep

\* In every reachable state, for any number of users, cargos, offers and
\* concurrent requests, each variable ranges over its type.
THEOREM TypeCorrect == Spec => []TypeOK
<1>1. Init => TypeOK
  BY InitType
<1>2. TypeOK /\ [Next]_vars => TypeOK'
  BY NextType
<1> QED
  BY <1>1, <1>2, PTL DEF Spec

-----------------------------------------------------------------------------
(* The row locks.                                                          *)

\* A row that one transaction holds for update is available to no other.
LEMMA ForUpdateExcludes ==
    ASSUME NEW q, NEW t, q # t, NEW row, NEW mode, Holds(held, q, row, "forUpdate")
    PROVE  ~Available(held, t, row, mode)
BY DEF Holds, Available, Compatible

\* A grant after waiting leaves all locks compatible.
LEMMA GrantCompatible ==
    ASSUME LocksCompatible, NEW t, NEW row, NEW mode,
           Available(held, t, row, mode), held' = Grant(held, t, row, mode)
    PROVE  LocksCompatible'
BY DEF LocksCompatible, Available, Grant, Compatible

\* The end of a request leaves the locks of the others as they were.
LEMMA ReleaseLocks ==
    ASSUME LocksCompatible, NEW r, held' = Release(held, r)
    PROVE  /\ LocksCompatible'
           /\ \A q, row, mode : q # r /\ Holds(held, q, row, mode) => Holds(held', q, row, mode)
BY DEF LocksCompatible, Release, Holds

-----------------------------------------------------------------------------
(* The inductive invariant.                                                *)

\* Initially no request runs and there is no deal.
LEMMA InitInv == Init => IndInv
<1> SUFFICES ASSUME Init PROVE IndInv
  OBVIOUS
<1>1. LocksCompatible /\ ClientLocked /\ CargoLocked /\ ChecksHold /\ OfferFresh
  BY DEF Init, LocksCompatible, ClientLocked, CargoLocked, ChecksHold, OfferFresh,
         InTx, Guarded
<1>2. IsFiniteSet(reveals) /\ DealIsWhole
  BY FS_EmptySet DEF Init, DealIsWhole, SelectedOffers, RevealsFor, ChatsFor
<1> QED BY <1>1, <1>2 DEF IndInv

\* A request that is refused or lost disturbs nothing the others rely on.
LEMMA RejectInv ==
    ASSUME TypeOK, IndInv, NEW r \in Req, Reject(r)
    PROVE  IndInv'
<1>1. /\ UNCHANGED dbVars /\ held' = Release(held, r)
      /\ \A q \in Req : q # r => pc'[q] = pc[q] /\ arg'[q] = arg[q] /\ limit'[q] = limit[q]
      /\ pc'[r] = "idle"
  BY DEF Reject, Finish, TypeOK
<1>2. LocksCompatible' /\ \A q, row, mode :
        q # r /\ Holds(held, q, row, mode) => Holds(held', q, row, mode)
  BY <1>1, ReleaseLocks DEF IndInv
<1>3. ClientLocked'
  BY <1>1, <1>2 DEF IndInv, ClientLocked, InTx, RevealLimit, dbVars
<1>4. CargoLocked'
  BY <1>1, <1>2 DEF IndInv, CargoLocked, Guarded, MaySelect, dbVars
<1>5. ChecksHold'
  BY <1>1 DEF IndInv, ChecksHold, WithinLimit, dbVars
<1>6. OfferFresh'
  BY <1>1 DEF IndInv, OfferFresh, dbVars
<1>7. IsFiniteSet(reveals') /\ DealIsWhole'
  BY <1>1 DEF IndInv, DealIsWhole, SelectedOffers, RevealsFor, ChatsFor, dbVars
<1> QED BY <1>2, <1>3, <1>4, <1>5, <1>6, <1>7 DEF IndInv

\* What the invariant says of the deals and of the others' requests needs only
\* the rows, the locks and the requests themselves.
LEMMA StutterInv ==
    ASSUME TypeOK, IndInv, UNCHANGED vars
    PROVE  IndInv'
<1> USE DEF vars, dbVars, reqVars, IndInv
<1>1. LocksCompatible' /\ ClientLocked'
  BY DEF LocksCompatible, ClientLocked, RevealLimit, Holds
<1>2. CargoLocked' /\ OfferFresh'
  BY DEF CargoLocked, OfferFresh, MaySelect, Holds
<1>3. ChecksHold'
  BY DEF ChecksHold, WithinLimit
<1>4. IsFiniteSet(reveals') /\ DealIsWhole'
  BY DEF DealIsWhole, SelectedOffers, RevealsFor, ChatsFor
<1> QED BY <1>1, <1>2, <1>3, <1>4

\* A request that takes a lock or moves on, and changes no row, keeps the
\* invariant when it has established what its next statement relies on.
LEMMA MoveInv ==
    ASSUME TypeOK, TypeOK', IndInv, NEW r \in Req, UNCHANGED dbVars,
           held \subseteq held', LocksCompatible',
           \A q \in Req : q # r => pc'[q] = pc[q] /\ arg'[q] = arg[q] /\ limit'[q] = limit[q],
           pc'[r] \in InTx => /\ Holds(held', r, arg'[r].user, "forUpdate")
                              /\ limit'[r] = RevealLimit(arg'[r].user),
           pc'[r] \in Guarded => /\ Holds(held', r, arg'[r].cargo, "forUpdate")
                                 /\ MaySelect(r)',
           pc'[r] \in {"insertReveal", "commit"} => WithinLimit(r)',
           pc'[r] # "insertOffer"
    PROVE  IndInv'
<1>1. ClientLocked'
  BY DEF IndInv, ClientLocked, Holds, RevealLimit, dbVars
<1>2. CargoLocked'
  BY DEF IndInv, CargoLocked, Holds, MaySelect, dbVars
<1>3. ChecksHold'
  BY DEF IndInv, ChecksHold, WithinLimit, dbVars
<1>4. OfferFresh'
  BY DEF IndInv, OfferFresh, dbVars
<1>5. IsFiniteSet(reveals') /\ DealIsWhole'
  BY DEF IndInv, DealIsWhole, SelectedOffers, RevealsFor, ChatsFor, dbVars
<1> QED BY <1>1, <1>2, <1>3, <1>4, <1>5 DEF IndInv

\* Waiting for the client's row makes its limit known and stable.
LEMMA LockClientInv ==
    ASSUME TypeOK, TypeOK', IndInv, NEW r \in Req, LockClient(r)
    PROVE  IndInv'
<1>1. LocksCompatible'
  BY GrantCompatible DEF LockClient, IndInv
<1>2. /\ UNCHANGED dbVars /\ held \subseteq held' /\ pc'[r] = "lockCargo"
      /\ \A q \in Req : q # r => pc'[q] = pc[q] /\ arg'[q] = arg[q] /\ limit'[q] = limit[q]
  BY DEF LockClient, Goto, Grant, TypeOK
<1>3. /\ Holds(held', r, arg'[r].user, "forUpdate")
      /\ limit'[r] = RevealLimit(arg'[r].user)
  BY DEF LockClient, Holds, Grant, TypeOK
<1> QED BY <1>1, <1>2, <1>3, MoveInv DEF Guarded

\* Waiting for the cargo's row makes the checks on the cargo stable.
LEMMA LockCargoInv ==
    ASSUME TypeOK, TypeOK', IndInv, NEW r \in Req, LockCargo(r)
    PROVE  IndInv'
<1>1. CASE ~MaySelect(r)
  BY <1>1, RejectInv DEF LockCargo
<1>2. CASE MaySelect(r)
  <2>1. LocksCompatible'
    BY <1>2, GrantCompatible DEF LockCargo, IndInv
  <2>2. /\ UNCHANGED dbVars /\ held \subseteq held' /\ pc'[r] = "checkLimit"
        /\ UNCHANGED <<arg, limit>>
        /\ \A q \in Req : q # r => pc'[q] = pc[q] /\ arg'[q] = arg[q] /\ limit'[q] = limit[q]
    BY <1>2 DEF LockCargo, Goto, Grant, TypeOK
  <2>3. /\ Holds(held', r, arg'[r].user, "forUpdate")
        /\ limit'[r] = RevealLimit(arg'[r].user)
    BY <2>2 DEF LockCargo, IndInv, ClientLocked, InTx, Holds, RevealLimit, dbVars
  <2>4. Holds(held', r, arg'[r].cargo, "forUpdate") /\ MaySelect(r)'
    BY <1>2, <2>2 DEF LockCargo, Holds, Grant, MaySelect, dbVars
  <2> QED BY <2>1, <2>2, <2>3, <2>4, MoveInv
<1> QED BY <1>1, <1>2

\* The limit check and the insertion of the reveal keep what they found.
LEMMA CheckLimitInv ==
    ASSUME TypeOK, TypeOK', IndInv, NEW r \in Req, CheckLimit(r)
    PROVE  IndInv'
<1>1. CASE ~WithinLimit(r)
  BY <1>1, RejectInv DEF CheckLimit
<1>2. CASE WithinLimit(r)
  <2>1. /\ UNCHANGED <<dbVars, held, arg, limit>> /\ pc'[r] = "insertReveal"
        /\ \A q \in Req : q # r => pc'[q] = pc[q]
    BY <1>2 DEF CheckLimit, Goto, TypeOK
  <2>2. pc[r] = "checkLimit" /\ LocksCompatible'
    BY <2>1 DEF CheckLimit, IndInv, LocksCompatible
  <2>3. /\ Holds(held', r, arg'[r].user, "forUpdate")
        /\ limit'[r] = RevealLimit(arg'[r].user)
        /\ Holds(held', r, arg'[r].cargo, "forUpdate") /\ MaySelect(r)'
    BY <2>1, <2>2 DEF IndInv, ClientLocked, CargoLocked, InTx, Guarded, Holds, MaySelect, dbVars
  <2>4. WithinLimit(r)'
    BY <1>2, <2>1 DEF WithinLimit, dbVars
  <2> QED BY <2>1, <2>2, <2>3, <2>4, MoveInv
<1> QED BY <1>1, <1>2

LEMMA InsertRevealInv ==
    ASSUME TypeOK, TypeOK', IndInv, NEW r \in Req, InsertReveal(r)
    PROVE  IndInv'
<1>1. /\ UNCHANGED <<dbVars, arg, limit>> /\ pc'[r] = "commit" /\ held \subseteq held'
      /\ \A q \in Req : q # r => pc'[q] = pc[q]
      /\ pc[r] = "insertReveal"
  BY DEF InsertReveal, Goto, Grant, TypeOK
<1>2. LocksCompatible'
  BY GrantCompatible DEF InsertReveal, IndInv
<1>3. /\ Holds(held', r, arg'[r].user, "forUpdate")
      /\ limit'[r] = RevealLimit(arg'[r].user)
      /\ Holds(held', r, arg'[r].cargo, "forUpdate") /\ MaySelect(r)'
  BY <1>1 DEF IndInv, ClientLocked, CargoLocked, InTx, Guarded, Holds, MaySelect, dbVars
<1>4. WithinLimit(r)'
  BY <1>1 DEF IndInv, ChecksHold, WithinLimit, dbVars
<1> QED BY <1>1, <1>2, <1>3, <1>4, MoveInv

\* A new cargo is nobody's under selection: it was absent.
LEMMA CreateCargoInv ==
    ASSUME TypeOK, IndInv, NEW c \in Cargo, CreateCargo(c)
    PROVE  IndInv'
<1>1. /\ cargoStatus[c] = "absent" /\ cargoStatus' = [cargoStatus EXCEPT ![c] = "open"]
      /\ UNCHANGED <<offerStatus, reveals, chats, subscribed, held, pc, arg, limit>>
  BY DEF CreateCargo, reqVars
<1>2. LocksCompatible' /\ ClientLocked'
  BY <1>1 DEF IndInv, LocksCompatible, ClientLocked, RevealLimit
<1>3. CargoLocked'
  BY <1>1 DEF IndInv, CargoLocked, MaySelect, TypeOK
<1>4. ChecksHold' /\ OfferFresh'
  BY <1>1 DEF IndInv, ChecksHold, OfferFresh, WithinLimit
<1>5. IsFiniteSet(reveals')
  BY <1>1 DEF IndInv
<1>6. \A d \in Cargo : (cargoStatus'[d] = "matched") <=> (cargoStatus[d] = "matched")
  BY <1>1 DEF TypeOK
<1>7. \A d \in Cargo : /\ SelectedOffers(d)' = SelectedOffers(d)
                       /\ RevealsFor(d)' = RevealsFor(d)
                       /\ ChatsFor(d)' = ChatsFor(d)
  BY <1>1 DEF SelectedOffers, RevealsFor, ChatsFor
<1>8. DealIsWhole'
  BY <1>6, <1>7 DEF IndInv, DealIsWhole
<1> QED BY <1>2, <1>3, <1>4, <1>5, <1>8 DEF IndInv

\* A subscription cannot change under a selection of its user.
LEMMA SubscriptionInv ==
    ASSUME TypeOK, IndInv, NEW u \in User, SetUserSubscription(u)
    PROVE  IndInv'
<1>1. /\ UNCHANGED <<cargoStatus, offerStatus, reveals, chats, held, pc, arg, limit>>
      /\ \A v \in User : v # u => (v \in subscribed' <=> v \in subscribed)
      /\ Available(held, "autocommit", u, "noKeyUpdate")
  BY DEF SetUserSubscription, reqVars
<1>2. ASSUME NEW r \in Req, pc[r] \in InTx PROVE arg[r].user # u /\ arg[r].user \in User
  <2>1. Holds(held, r, arg[r].user, "forUpdate") /\ r # "autocommit"
    BY <1>2, NamesFresh DEF IndInv, ClientLocked
  <2>2. arg[r].user # u
    BY <1>1, <2>1, ForUpdateExcludes
  <2>3. arg[r].user \in User
    BY <1>2 DEF TypeOK, InTx, Arg
  <2> QED BY <2>2, <2>3
<1>3. LocksCompatible' /\ ClientLocked'
  BY <1>1, <1>2 DEF IndInv, LocksCompatible, ClientLocked, RevealLimit
<1>4. CargoLocked'
  BY <1>1 DEF IndInv, CargoLocked, MaySelect
<1>5. ChecksHold' /\ OfferFresh'
  BY <1>1 DEF IndInv, ChecksHold, OfferFresh, WithinLimit
<1>6. IsFiniteSet(reveals') /\ DealIsWhole'
  BY <1>1 DEF IndInv, DealIsWhole, SelectedOffers, RevealsFor, ChatsFor
<1> QED BY <1>3, <1>4, <1>5, <1>6 DEF IndInv

\* Blocking or unblocking a user touches nothing a selection relies on.
LEMMA StatusInv ==
    ASSUME TypeOK, IndInv, NEW u \in User, SetUserStatus(u)
    PROVE  IndInv'
<1>1. UNCHANGED <<cargoStatus, offerStatus, reveals, chats, subscribed, held, pc, arg, limit>>
  BY DEF SetUserStatus, reqVars
<1>2. LocksCompatible' /\ ClientLocked'
  BY <1>1 DEF IndInv, LocksCompatible, ClientLocked, RevealLimit
<1>3. CargoLocked' /\ OfferFresh'
  BY <1>1 DEF IndInv, CargoLocked, OfferFresh, MaySelect
<1>4. ChecksHold'
  BY <1>1 DEF IndInv, ChecksHold, WithinLimit
<1>5. IsFiniteSet(reveals') /\ DealIsWhole'
  BY <1>1 DEF IndInv, DealIsWhole, SelectedOffers, RevealsFor, ChatsFor
<1> QED BY <1>2, <1>3, <1>4, <1>5 DEF IndInv

\* A new offer has an id that no other request uses.
LEMMA BeginOfferInv ==
    ASSUME TypeOK, IndInv, NEW r \in Req, NEW o \in Offer, BeginOffer(r, o)
    PROVE  IndInv'
<1>1. /\ UNCHANGED <<dbVars, held, limit>> /\ pc'[r] = "insertOffer" /\ arg'[r].offer = o
      /\ \A q \in Req : q # r => pc'[q] = pc[q] /\ arg'[q] = arg[q]
      /\ offerStatus[o] = "absent"
      /\ \A q \in Req : pc[q] = "insertOffer" => arg[q].offer # o
  BY DEF BeginOffer, Goto, TypeOK
<1>2. LocksCompatible' /\ ClientLocked'
  BY <1>1 DEF IndInv, LocksCompatible, ClientLocked, RevealLimit, InTx, dbVars
<1>3. CargoLocked'
  BY <1>1 DEF IndInv, CargoLocked, MaySelect, Guarded, dbVars
<1>4. ChecksHold'
  BY <1>1 DEF IndInv, ChecksHold, WithinLimit, dbVars
<1>5. OfferFresh'
  BY <1>1 DEF IndInv, OfferFresh, dbVars
<1>6. IsFiniteSet(reveals') /\ DealIsWhole'
  BY <1>1 DEF IndInv, DealIsWhole, SelectedOffers, RevealsFor, ChatsFor, dbVars
<1> QED BY <1>2, <1>3, <1>4, <1>5, <1>6 DEF IndInv

\* A selection that starts has no lock and has checked nothing yet.
LEMMA BeginSelectInv ==
    ASSUME TypeOK, TypeOK', IndInv, NEW r \in Req, NEW u \in User, NEW c \in Cargo,
           NEW o \in Offer, BeginSelect(r, u, c, o)
    PROVE  IndInv'
<1>1. /\ UNCHANGED <<dbVars, held, limit>> /\ pc'[r] = "lockClient"
      /\ \A q \in Req : q # r => pc'[q] = pc[q] /\ arg'[q] = arg[q]
  BY DEF BeginSelect, Goto, TypeOK
<1>2. LocksCompatible'
  BY <1>1 DEF IndInv, LocksCompatible
<1> QED BY <1>1, <1>2, MoveInv DEF InTx, Guarded

\* An offer appears on its cargo without having been selected.
LEMMA InsertOfferInv ==
    ASSUME TypeOK, IndInv, NEW r \in Req, InsertOffer(r)
    PROVE  IndInv'
<1> DEFINE o == arg[r].offer
<1>1. /\ held' = Release(held, r) /\ pc'[r] = "idle"
      /\ \A q \in Req : q # r => pc'[q] = pc[q] /\ arg'[q] = arg[q] /\ limit'[q] = limit[q]
      /\ UNCHANGED <<cargoStatus, reveals, chats, subscribed>>
      /\ pc[r] = "insertOffer"
      /\ offerStatus' = [offerStatus EXCEPT ![o] = "submitted"]
  BY DEF InsertOffer, Finish, TypeOK
<1>2. LocksCompatible' /\ \A q, row, mode :
        q # r /\ Holds(held, q, row, mode) => Holds(held', q, row, mode)
  BY <1>1, ReleaseLocks DEF IndInv
<1>3. offerStatus[o] = "absent"
  BY <1>1 DEF IndInv, OfferFresh
<1>4. ClientLocked'
  BY <1>1, <1>2 DEF IndInv, ClientLocked, InTx, RevealLimit
<1>5. CargoLocked'
  BY <1>1, <1>2 DEF IndInv, CargoLocked, Guarded, MaySelect
<1>6. ChecksHold'
  BY <1>1, <1>3 DEF IndInv, ChecksHold, WithinLimit, TypeOK
<1>7. OfferFresh'
  BY <1>1, <1>3 DEF IndInv, OfferFresh, TypeOK
<1>8. \A c \in Cargo : SelectedOffers(c)' = SelectedOffers(c)
  BY <1>1, <1>3 DEF SelectedOffers, TypeOK
<1>9. IsFiniteSet(reveals') /\ DealIsWhole'
  BY <1>1, <1>8 DEF IndInv, DealIsWhole, RevealsFor, ChatsFor
<1> QED BY <1>2, <1>4, <1>5, <1>6, <1>7, <1>9 DEF IndInv

\* What a request about to commit knows, and what its commit does.
LEMMA CommitFacts ==
    ASSUME TypeOK, IndInv, NEW r \in Req, CommitSelect(r)
    PROVE  LET u == arg[r].user  c == arg[r].cargo  o == arg[r].offer
           IN /\ u \in User /\ c \in Cargo /\ o \in Offer
              /\ Owner[c] = u /\ CargoOf[o] = c
              /\ cargoStatus[c] = "open" /\ offerStatus[o] # "absent"
              /\ Cardinality(RevealsOf(reveals, u)) < RevealLimit(u)
              /\ Holds(held, r, u, "forUpdate") /\ Holds(held, r, c, "forUpdate")
              /\ cargoStatus' = [cargoStatus EXCEPT ![c] = "matched"]
              /\ offerStatus' = [offerStatus EXCEPT ![o] = "selected"]
              /\ reveals' = reveals \cup {[client |-> u, participant |-> Author[o], cargo |-> c]}
              /\ chats' = chats \cup {[cargo |-> c, members |-> {u, Author[o]}]}
              /\ UNCHANGED subscribed
<1>1. pc[r] = "commit"
  BY DEF CommitSelect
<1>2. arg[r].user \in User /\ arg[r].cargo \in Cargo /\ arg[r].offer \in Offer
  BY <1>1 DEF TypeOK, Arg
<1>3. /\ Holds(held, r, arg[r].user, "forUpdate") /\ limit[r] = RevealLimit(arg[r].user)
      /\ Holds(held, r, arg[r].cargo, "forUpdate") /\ MaySelect(r) /\ WithinLimit(r)
  BY <1>1 DEF IndInv, ClientLocked, CargoLocked, ChecksHold, InTx, Guarded
<1> QED BY <1>2, <1>3 DEF CommitSelect, MaySelect, WithinLimit

\* The deal that a commit closes is whole, and the other deals stay so.
LEMMA CommitWhole ==
    ASSUME TypeOK, IndInv, NEW r \in Req, CommitSelect(r)
    PROVE  DealIsWhole'
<1>1. PICK u \in User, c \in Cargo, o \in Offer :
        /\ Owner[c] = u /\ CargoOf[o] = c
        /\ cargoStatus[c] = "open"
        /\ cargoStatus' = [cargoStatus EXCEPT ![c] = "matched"]
        /\ offerStatus' = [offerStatus EXCEPT ![o] = "selected"]
        /\ reveals' = reveals \cup {[client |-> u, participant |-> Author[o], cargo |-> c]}
        /\ chats' = chats \cup {[cargo |-> c, members |-> {u, Author[o]}]}
  BY CommitFacts
<1>2. SelectedOffers(c) = {} /\ RevealsFor(c) = {} /\ ChatsFor(c) = {}
  BY <1>1 DEF IndInv, DealIsWhole
<1>3. /\ SelectedOffers(c)' = {o}
      /\ RevealsFor(c)' = {[client |-> Owner[c], participant |-> Author[o], cargo |-> c]}
      /\ ChatsFor(c)' = {[cargo |-> c, members |-> {Owner[c], Author[o]}]}
  <2>1. SelectedOffers(c)' = {o}
    <3>1. \A p \in Offer : CargoOf[p] = c => offerStatus[p] # "selected"
      BY <1>2 DEF SelectedOffers
    <3>2. \A p \in Offer : offerStatus'[p] = IF p = o THEN "selected" ELSE offerStatus[p]
      BY <1>1 DEF TypeOK
    <3> QED BY <1>1, <3>1, <3>2 DEF SelectedOffers
  <2>2. RevealsFor(c)' = {[client |-> Owner[c], participant |-> Author[o], cargo |-> c]}
    <3> DEFINE x == [client |-> u, participant |-> Author[o], cargo |-> c]
    <3>1. \A y \in reveals : y.cargo # c
      BY <1>2 DEF RevealsFor
    <3>2. reveals' = reveals \cup {x} /\ x.cargo = c
      BY <1>1
    <3> HIDE DEF x
    <3>3. RevealsFor(c)' = {x}
      BY <3>1, <3>2 DEF RevealsFor
    <3> QED BY <1>1, <3>3 DEF x
  <2>3. ChatsFor(c)' = {[cargo |-> c, members |-> {Owner[c], Author[o]}]}
    <3> DEFINE x == [cargo |-> c, members |-> {u, Author[o]}]
    <3>1. \A y \in chats : y.cargo # c
      BY <1>2 DEF ChatsFor
    <3>2. chats' = chats \cup {x} /\ x.cargo = c
      BY <1>1
    <3> HIDE DEF x
    <3>3. ChatsFor(c)' = {x}
      BY <3>1, <3>2 DEF ChatsFor
    <3> QED BY <1>1, <3>3 DEF x
  <2> QED BY <2>1, <2>2, <2>3
<1>4. cargoStatus'[c] = "matched"
  BY <1>1 DEF TypeOK
<1>5. ASSUME NEW d \in Cargo, d # c
      PROVE  /\ SelectedOffers(d)' = SelectedOffers(d) /\ RevealsFor(d)' = RevealsFor(d)
             /\ ChatsFor(d)' = ChatsFor(d) /\ cargoStatus'[d] = cargoStatus[d]
  <2>1. SelectedOffers(d)' = SelectedOffers(d)
    BY <1>1, <1>5 DEF SelectedOffers, TypeOK
  <2>2. RevealsFor(d)' = RevealsFor(d)
    BY <1>1, <1>5 DEF RevealsFor
  <2>3. ChatsFor(d)' = ChatsFor(d)
    BY <1>1, <1>5 DEF ChatsFor
  <2>4. cargoStatus'[d] = cargoStatus[d]
    BY <1>1, <1>5 DEF TypeOK
  <2> QED BY <2>1, <2>2, <2>3, <2>4
<1> SUFFICES ASSUME NEW d \in Cargo
             PROVE  IF cargoStatus'[d] = "matched"
                    THEN \E p \in Offer :
                           /\ SelectedOffers(d)' = {p}
                           /\ RevealsFor(d)' = {[client |-> Owner[d], participant |-> Author[p],
                                                 cargo |-> d]}
                           /\ ChatsFor(d)' = {[cargo |-> d, members |-> {Owner[d], Author[p]}]}
                    ELSE SelectedOffers(d)' = {} /\ RevealsFor(d)' = {} /\ ChatsFor(d)' = {}
  BY DEF DealIsWhole
<1>6. CASE d = c
  BY <1>1, <1>3, <1>4, <1>6
<1>7. CASE d # c
  BY <1>5, <1>7 DEF IndInv, DealIsWhole
<1> QED BY <1>6, <1>7

\* A commit disturbs no request that waits or has checked something: those
\* that could be hold neither the same client nor the same cargo.
LEMMA CommitInv ==
    ASSUME TypeOK, IndInv, NEW r \in Req, CommitSelect(r)
    PROVE  IndInv'
<1> DEFINE u == arg[r].user
           c == arg[r].cargo
           o == arg[r].offer
           x == [client |-> u, participant |-> Author[o], cargo |-> c]
<1>1. /\ u \in User /\ c \in Cargo /\ o \in Offer /\ offerStatus[o] # "absent"
      /\ Holds(held, r, u, "forUpdate") /\ Holds(held, r, c, "forUpdate")
      /\ cargoStatus' = [cargoStatus EXCEPT ![c] = "matched"]
      /\ offerStatus' = [offerStatus EXCEPT ![o] = "selected"]
      /\ reveals' = reveals \cup {x}
      /\ UNCHANGED subscribed
  BY CommitFacts
<1>2. /\ held' = Release(held, r) /\ pc'[r] = "idle"
      /\ \A q \in Req : q # r => pc'[q] = pc[q] /\ arg'[q] = arg[q] /\ limit'[q] = limit[q]
  BY DEF CommitSelect, Finish, TypeOK
<1>3. LocksCompatible' /\ \A q, row, mode :
        q # r /\ Holds(held, q, row, mode) => Holds(held', q, row, mode)
  BY <1>2, ReleaseLocks DEF IndInv
<1>4. ASSUME NEW q \in Req, q # r, NEW row, Holds(held, q, row, "forUpdate")
      PROVE  row # u /\ row # c
  BY <1>1, <1>4 DEF IndInv, LocksCompatible, Holds, Compatible
<1>5. ClientLocked'
  BY <1>1, <1>2, <1>3 DEF IndInv, ClientLocked, InTx, RevealLimit
<1>6. CargoLocked'
  BY <1>1, <1>2, <1>3, <1>4 DEF IndInv, CargoLocked, Guarded, MaySelect, TypeOK, Arg
<1>7. ChecksHold'
  <2> SUFFICES ASSUME NEW q \in Req, pc'[q] \in {"insertReveal", "commit"}
               PROVE  WithinLimit(q)'
    BY DEF ChecksHold
  <2>1. q # r /\ pc[q] = pc'[q] /\ arg'[q] = arg[q] /\ limit'[q] = limit[q]
    BY <1>2
  <2>2. WithinLimit(q) /\ arg[q].offer \in Offer
    BY <2>1 DEF IndInv, ChecksHold, TypeOK, Arg
  <2>3. arg[q].user # u
    BY <1>4, <2>1 DEF IndInv, ClientLocked, InTx
  <2>4. RevealsOf(reveals', arg[q].user) = RevealsOf(reveals, arg[q].user)
    BY <1>1, <2>3 DEF RevealsOf
  <2>5. offerStatus'[arg[q].offer] # "absent"
    BY <1>1, <2>2 DEF WithinLimit, TypeOK
  <2> QED BY <2>1, <2>2, <2>4, <2>5 DEF WithinLimit
<1>8. OfferFresh'
  BY <1>1, <1>2 DEF IndInv, OfferFresh, TypeOK
<1>9. IsFiniteSet(reveals')
  BY <1>1, FS_AddElement DEF IndInv
<1>10. DealIsWhole'
  BY CommitWhole
<1> QED BY <1>3, <1>5, <1>6, <1>7, <1>8, <1>9, <1>10 DEF IndInv

\* Every step keeps the inductive invariant.
LEMMA NextInv == TypeOK /\ IndInv /\ [Next]_vars => IndInv'
<1> SUFFICES ASSUME TypeOK, IndInv, [Next]_vars PROVE IndInv'
  OBVIOUS
<1>1. TypeOK'
  BY NextType
<1>2. CASE UNCHANGED vars
  BY <1>2, StutterInv
<1>3. ASSUME NEW c \in Cargo, CreateCargo(c) PROVE IndInv'
  BY <1>3, CreateCargoInv
<1>4. ASSUME NEW u \in User, SetUserSubscription(u) \/ SetUserStatus(u) PROVE IndInv'
  BY <1>4, SubscriptionInv, StatusInv
<1>5. ASSUME NEW r \in Req, NEW o \in Offer, BeginOffer(r, o) PROVE IndInv'
  BY <1>5, BeginOfferInv
<1>6. ASSUME NEW r \in Req, NEW u \in User, NEW c \in Cargo, NEW o \in Offer,
             BeginSelect(r, u, c, o) PROVE IndInv'
  BY <1>1, <1>6, BeginSelectInv
<1>7. ASSUME NEW r \in Req, LockClient(r) \/ LockCargo(r) PROVE IndInv'
  BY <1>1, <1>7, LockClientInv, LockCargoInv
<1>8. ASSUME NEW r \in Req, CheckLimit(r) \/ InsertReveal(r) PROVE IndInv'
  BY <1>1, <1>8, CheckLimitInv, InsertRevealInv
<1>9. ASSUME NEW r \in Req, CommitSelect(r) \/ InsertOffer(r) PROVE IndInv'
  BY <1>9, CommitInv, InsertOfferInv
<1>10. ASSUME NEW r \in Req, Abort(r) PROVE IndInv'
  BY <1>10, RejectInv DEF Abort
<1> QED
  BY <1>2, <1>3, <1>4, <1>5, <1>6, <1>7, <1>8, <1>9, <1>10 DEF Next, RequestStep, SelectStep

\* The row locks protect what a selection has read until it commits.
THEOREM LocksProtect == Spec => []IndInv
<1>1. Init => TypeOK /\ IndInv
  BY InitType, InitInv
<1>2. TypeOK /\ IndInv /\ [Next]_vars => (TypeOK /\ IndInv)'
  BY NextType, NextInv
<1> QED
  BY <1>1, <1>2, PTL DEF Spec

\* A matched cargo always has exactly one selected offer, one reveal and one
\* chat, and any other cargo none, however many selections race.
THEOREM DealsAreWhole == Spec => []DealIsWhole
<1>1. IndInv => DealIsWhole
  BY DEF IndInv
<1> QED
  BY <1>1, LocksProtect, PTL

-----------------------------------------------------------------------------
(* The contact limit.                                                      *)

\* Only a commit adds reveals; every other step leaves them alone.
LEMMA OnlyCommitReveals ==
    ASSUME [Next]_vars, ~\E r \in Req : CommitSelect(r)
    PROVE  UNCHANGED reveals
<1> USE DEF vars, dbVars, reqVars
<1>1. CASE UNCHANGED vars
  BY <1>1
<1>2. ASSUME NEW c \in Cargo, CreateCargo(c) PROVE UNCHANGED reveals
  BY <1>2 DEF CreateCargo
<1>3. ASSUME NEW u \in User, SetUserSubscription(u) \/ SetUserStatus(u)
      PROVE  UNCHANGED reveals
  BY <1>3 DEF SetUserSubscription, SetUserStatus
<1>4. ASSUME NEW r \in Req, RequestStep(r) \/ Abort(r) PROVE UNCHANGED reveals
  BY <1>4 DEF RequestStep, SelectStep, LockClient, LockCargo, CheckLimit, InsertReveal,
     InsertOffer, Reject, Abort
<1>5. ASSUME NEW r \in Req, NEW o \in Offer, BeginOffer(r, o) PROVE UNCHANGED reveals
  BY <1>5 DEF BeginOffer
<1>6. ASSUME NEW r \in Req, NEW u \in User, NEW c \in Cargo, NEW o \in Offer,
             BeginSelect(r, u, c, o)
      PROVE  UNCHANGED reveals
  BY <1>6 DEF BeginSelect
<1> QED BY <1>1, <1>2, <1>3, <1>4, <1>5, <1>6 DEF Next

\* A commit gives its own client one contact more, within the limit.
LEMMA CommitWithinLimit ==
    ASSUME TypeOK, IndInv, NEW r \in Req, CommitSelect(r)
    PROVE  RevealStep
<1>1. PICK u \in User : \E y : /\ y.client = u
                               /\ reveals' = reveals \cup {y}
                               /\ Cardinality(RevealsOf(reveals, u)) < RevealLimit(u)
  <2> DEFINE y == [client |-> arg[r].user, participant |-> Author[arg[r].offer],
                   cargo |-> arg[r].cargo]
  <2>1. y.client = arg[r].user
    OBVIOUS
  <2> QED BY <2>1, CommitFacts
<1> PICK x : /\ x.client = u
             /\ reveals' = reveals \cup {x}
             /\ Cardinality(RevealsOf(reveals, u)) < RevealLimit(u)
  BY <1>1
<1>2. ASSUME NEW v \in User, v # u PROVE RevealsOf(reveals', v) = RevealsOf(reveals, v)
  BY <1>1, <1>2 DEF RevealsOf
<1>3. RevealsOf(reveals', u) = RevealsOf(reveals, u) \cup {x}
  BY <1>1 DEF RevealsOf
<1>4. IsFiniteSet(RevealsOf(reveals, u))
  BY FS_Subset DEF IndInv, RevealsOf
<1>5. RevealLimit(u) \in Nat /\ Cardinality(RevealsOf(reveals, u)) \in Nat
  BY <1>4, LimitsType, FS_CardinalityType DEF RevealLimit
<1>6. Cardinality(RevealsOf(reveals', u)) <= RevealLimit(u)
  <2> DEFINE R == RevealsOf(reveals, u)
             n == Cardinality(R)
             m == Cardinality(R \cup {x})
  <2>1. m = n \/ m = n + 1
    BY <1>4, FS_AddElement
  <2>2. n < RevealLimit(u) /\ n \in Nat /\ RevealLimit(u) \in Nat
    BY <1>1, <1>5
  <2>3. m <= RevealLimit(u)
    <3> HIDE DEF n, m
    <3> QED BY <2>1, <2>2
  <2> QED BY <1>3, <2>3
<1> QED BY <1>2, <1>6 DEF RevealStep

\* However many selections of one client run in parallel, none of them takes
\* the client past the limit of its subscription.
THEOREM LimitKept == Spec => RevealWithinLimit
<1>1. TypeOK /\ IndInv /\ [Next]_vars => [RevealStep]_vars
  <2> SUFFICES ASSUME TypeOK, IndInv, [Next]_vars PROVE RevealStep
    OBVIOUS
  <2>1. CASE \E r \in Req : CommitSelect(r)
    BY <2>1, CommitWithinLimit
  <2>2. CASE ~\E r \in Req : CommitSelect(r)
    BY <2>2, OnlyCommitReveals DEF RevealStep
  <2> QED BY <2>1, <2>2
<1> QED
  BY <1>1, TypeCorrect, LocksProtect, PTL DEF Spec, RevealWithinLimit

-----------------------------------------------------------------------------
(* The competition.                                                        *)

WinnerMap == [c \in Cargo |-> TheOne(SelectedOffers(c))]
Bids == {o \in Offer : offerStatus[o] # "absent"}
Revealed == {<<r.cargo, r.participant>> : r \in reveals}

\* An offer that is inserted is submitted in the abstract competition.
LEMMA InsertSubmits ==
    ASSUME TypeOK, IndInv, NEW r \in Req, InsertOffer(r)
    PROVE  \E o \in Offer : Comp!Submit(o)
<1>1. PICK o \in Offer :
        /\ offerStatus[o] = "absent"
        /\ offerStatus' = [offerStatus EXCEPT ![o] = "submitted"]
        /\ UNCHANGED reveals
  BY DEF InsertOffer, IndInv, OfferFresh, TypeOK, Arg
<1>2. Bids' = Bids \cup {o}
  BY <1>1 DEF Bids, TypeOK
<1>3. \A c \in Cargo : SelectedOffers(c)' = SelectedOffers(c)
  BY <1>1 DEF SelectedOffers, TypeOK
<1>4. WinnerMap' = WinnerMap
  BY <1>3, Zenon DEF WinnerMap
<1>5. Revealed' = Revealed
  BY <1>1 DEF Revealed
<1> QED
  BY <1>1, <1>2, <1>4, <1>5 DEF Comp!Submit, WinnerMap, Bids, Revealed

\* A commit awards the lot: it had no winner, and gets the selected offer.
LEMMA CommitAwards ==
    ASSUME TypeOK, IndInv, NEW r \in Req, CommitSelect(r)
    PROVE  \E o \in Offer : Comp!Award(o)
<1>1. PICK u \in User, c \in Cargo, o \in Offer :
        /\ CargoOf[o] = c /\ cargoStatus[c] = "open" /\ offerStatus[o] # "absent"
        /\ offerStatus' = [offerStatus EXCEPT ![o] = "selected"]
        /\ reveals' = reveals \cup {[client |-> u, participant |-> Author[o], cargo |-> c]}
  BY CommitFacts
<1>2. SelectedOffers(c) = {}
  BY <1>1 DEF IndInv, DealIsWhole
<1>3. SelectedOffers(c)' = {o}
  <2>1. \A p \in Offer : CargoOf[p] = c => offerStatus[p] # "selected"
    BY <1>2 DEF SelectedOffers
  <2>2. \A p \in Offer : offerStatus'[p] = IF p = o THEN "selected" ELSE offerStatus[p]
    BY <1>1 DEF TypeOK
  <2> QED BY <1>1, <2>1, <2>2 DEF SelectedOffers
<1>4. ASSUME NEW d \in Cargo, d # c PROVE SelectedOffers(d)' = SelectedOffers(d)
  BY <1>1, <1>4 DEF SelectedOffers, TypeOK
<1>5. WinnerMap[c] = NoBid /\ WinnerMap' = [WinnerMap EXCEPT ![c] = o]
  <2>1. TheOne({}) = NoBid /\ TheOne({o}) = o
    BY DEF TheOne
  <2> QED BY <1>2, <1>3, <1>4, <2>1 DEF WinnerMap
<1>6. Bids' = Bids /\ o \in Bids
  BY <1>1 DEF Bids, TypeOK
<1>7. Revealed' = Revealed \cup {<<c, Author[o]>>}
  <2> DEFINE x == [client |-> u, participant |-> Author[o], cargo |-> c]
  <2>1. reveals' = reveals \cup {x} /\ x.cargo = c /\ x.participant = Author[o]
    BY <1>1
  <2> HIDE DEF x
  <2> QED BY <2>1 DEF Revealed
<1> QED
  BY <1>1, <1>5, <1>6, <1>7 DEF Comp!Award, WinnerMap, Bids, Revealed

\* Every other step is invisible to the competition.
LEMMA OtherStutters ==
    ASSUME [Next]_vars, ~\E r \in Req : CommitSelect(r) \/ InsertOffer(r)
    PROVE  UNCHANGED <<offerStatus, reveals>>
<1> USE DEF vars, dbVars, reqVars
<1>1. CASE UNCHANGED vars
  BY <1>1
<1>2. ASSUME NEW c \in Cargo, CreateCargo(c) PROVE UNCHANGED <<offerStatus, reveals>>
  BY <1>2 DEF CreateCargo
<1>3. ASSUME NEW u \in User, SetUserSubscription(u) \/ SetUserStatus(u)
      PROVE  UNCHANGED <<offerStatus, reveals>>
  BY <1>3 DEF SetUserSubscription, SetUserStatus
<1>4. ASSUME NEW r \in Req, RequestStep(r) \/ Abort(r)
      PROVE  UNCHANGED <<offerStatus, reveals>>
  BY <1>4 DEF RequestStep, SelectStep, LockClient, LockCargo, CheckLimit, InsertReveal,
     Reject, Abort
<1>5. ASSUME NEW r \in Req, NEW o \in Offer, BeginOffer(r, o)
      PROVE  UNCHANGED <<offerStatus, reveals>>
  BY <1>5 DEF BeginOffer
<1>6. ASSUME NEW r \in Req, NEW u \in User, NEW c \in Cargo, NEW o \in Offer,
             BeginSelect(r, u, c, o)
      PROVE  UNCHANGED <<offerStatus, reveals>>
  BY <1>6 DEF BeginSelect
<1> QED BY <1>1, <1>2, <1>3, <1>4, <1>5, <1>6 DEF Next

\* Initially no lot has a winner, a bid or a revealed author.
LEMMA InitCompetition == Init => Comp!Init
<1> SUFFICES ASSUME Init PROVE Comp!Init
  OBVIOUS
<1>1. \A c \in Cargo : SelectedOffers(c) = {}
  BY DEF Init, SelectedOffers
<1>2. Bids = {} /\ Revealed = {}
  BY DEF Init, Bids, Revealed
<1>3. TheOne({}) = NoBid
  BY DEF TheOne
<1> QED BY <1>1, <1>2, <1>3 DEF Comp!Init, Bids, Revealed

\* Selection implements the abstract competition: bids are anonymous until
\* one wins, the award is one step, and it is final.
THEOREM SelectionImplementsCompetition == Spec => ImplementsCompetition
<1>1. TypeOK /\ IndInv /\ [Next]_vars => [Comp!Next]_(Comp!compVars)
  <2> SUFFICES ASSUME TypeOK, IndInv, [Next]_vars
               PROVE  [Comp!Next]_(Comp!compVars)
    OBVIOUS
  <2>1. CASE \E r \in Req : CommitSelect(r)
    BY <2>1, CommitAwards DEF Comp!Next
  <2>2. CASE \E r \in Req : InsertOffer(r)
    BY <2>2, InsertSubmits DEF Comp!Next
  <2>3. CASE ~\E r \in Req : CommitSelect(r) \/ InsertOffer(r)
    <3>1. UNCHANGED <<offerStatus, reveals>>
      BY <2>3, OtherStutters
    <3>2. UNCHANGED <<WinnerMap, Bids, Revealed>>
      BY <3>1 DEF WinnerMap, SelectedOffers, Bids, Revealed
    <3> QED BY <3>2 DEF Comp!compVars, WinnerMap, Bids, Revealed
  <2> QED BY <2>1, <2>2, <2>3
<1> QED
  BY <1>1, InitCompetition, TypeCorrect, LocksProtect, PTL
  DEF Spec, ImplementsCompetition, Comp!Spec
-----------------------------------------------------------------------------
(* The documents of repeat deals.                                          *)

PairDeals(a, b) == DealsBetween(cargoStatus, reveals, a, b)
BothAsked(c, a, b) == <<c, a>> \in asked /\ <<c, b>> \in asked
Documented(a, b) == {c \in PairDeals(a, b) : BothAsked(c, a, b)}

\* Documents are asked of closed deals only, and of all of a pair but one.
AskInv ==
    /\ \A c \in Cargo, u \in User : <<c, u>> \in asked => cargoStatus[c] = "matched"
    /\ \A a, b \in User :
          /\ IsFiniteSet(PairDeals(a, b))
          /\ PairDeals(a, b) # {} =>
                Cardinality(Documented(a, b)) = Cardinality(PairDeals(a, b)) - 1

\* Steps that are no commit close no deal and ask for no document.
LEMMA OthersAskNothing ==
    ASSUME TypeOK, AskInv, [Next]_vars, ~\E r \in Req : CommitSelect(r)
    PROVE  AskInv'
<1>1. UNCHANGED reveals
  BY OnlyCommitReveals
<1>2. UNCHANGED asked
  BY DEF Next, vars, dbVars, CreateCargo, SetUserSubscription, SetUserStatus, RequestStep,
         SelectStep, LockClient, LockCargo, CheckLimit, InsertReveal, InsertOffer, Reject,
         Abort, BeginOffer, BeginSelect
<1>3. \A c \in Cargo : cargoStatus'[c] = "matched" <=> cargoStatus[c] = "matched"
  <2>1. CASE UNCHANGED cargoStatus
    BY <2>1
  <2>2. ASSUME NEW c \in Cargo, CreateCargo(c)
        PROVE  \A d \in Cargo : cargoStatus'[d] = "matched" <=> cargoStatus[d] = "matched"
    BY <2>2 DEF CreateCargo, TypeOK
  <2>3. UNCHANGED cargoStatus \/ \E c \in Cargo : CreateCargo(c)
    BY DEF Next, vars, dbVars, SetUserSubscription, SetUserStatus, RequestStep,
           SelectStep, LockClient, LockCargo, CheckLimit, InsertReveal, InsertOffer, Reject,
           Abort, BeginOffer, BeginSelect
  <2> QED BY <2>1, <2>2, <2>3
<1>4. \A a, b \in User : PairDeals(a, b)' = PairDeals(a, b)
  BY <1>1, <1>3 DEF PairDeals, DealsBetween
<1>5. \A a, b \in User : Documented(a, b)' = Documented(a, b)
  BY <1>2, <1>4 DEF Documented, BothAsked
<1> QED BY <1>2, <1>3, <1>4, <1>5 DEF AskInv

\* A commit adds its deal to those of its pair, and asks unless it is the first.
LEMMA CommitAsks ==
    ASSUME TypeOK, IndInv, AskInv, NEW r \in Req, CommitSelect(r)
    PROVE  AskInv'
<1>1. PICK u \in User, v \in User, c \in Cargo :
        /\ Owner[c] = u /\ cargoStatus[c] = "open"
        /\ cargoStatus' = [cargoStatus EXCEPT ![c] = "matched"]
        /\ reveals' = reveals \cup {[client |-> u, participant |-> v, cargo |-> c]}
        /\ asked' = IF Cardinality(DealsBetween(cargoStatus', reveals', u, v)) >= 2
                    THEN asked \cup ({c} \X {u, v}) ELSE asked
  BY CommitFacts, AuthorType DEF CommitSelect, NotifyRepeatDeal
<1>2. /\ \A x \in reveals : x.cargo # c
      /\ \A w \in User : <<c, w>> \notin asked
  BY <1>1 DEF IndInv, DealIsWhole, RevealsFor, AskInv
<1>3. \A d \in Cargo : cargoStatus'[d] = "matched" <=> (d = c \/ cargoStatus[d] = "matched")
  BY <1>1 DEF TypeOK
<1>4. \A d \in Cargo, w \in User : d # c => (<<d, w>> \in asked' <=> <<d, w>> \in asked)
  BY <1>1
<1>5. \A d \in Cargo, w \in User : <<d, w>> \in asked' => cargoStatus'[d] = "matched"
  BY <1>3, <1>4 DEF AskInv
<1>6. \A a, b \in User : c \notin PairDeals(a, b)
  BY <1>2 DEF PairDeals, DealsBetween
<1>7. ASSUME NEW a \in User, NEW b \in User
      PROVE  PairDeals(a, b)' = IF {a, b} = {u, v} THEN PairDeals(a, b) \cup {c}
                                ELSE PairDeals(a, b)
  <2> DEFINE P == PairDeals(a, b)
             Q == PairDeals(a, b)'
  <2>1. ASSUME NEW d \in Cargo, d # c
        PROVE  d \in Q <=> d \in P
    BY <1>1, <1>3, <2>1 DEF PairDeals, DealsBetween
  <2>2. c \in Q <=> {a, b} = {u, v}
    <3> DEFINE x == [client |-> u, participant |-> v, cargo |-> c]
    <3>1. x.cargo = c /\ x.participant = v /\ reveals' = reveals \cup {x}
      BY <1>1
    <3> HIDE DEF x
    <3> QED BY <1>1, <1>2, <1>3, <3>1 DEF PairDeals, DealsBetween
  <2>3. P \subseteq Cargo /\ Q \subseteq Cargo
    BY DEF PairDeals, DealsBetween
  <2>4. c \notin P
    BY <1>6
  <2>5. Q = IF {a, b} = {u, v} THEN P \cup {c} ELSE P
    <3> HIDE DEF P, Q
    <3>1. CASE {a, b} = {u, v}
      <4>1. \A d : d \in Q <=> d \in P \cup {c}
        BY <2>1, <2>2, <2>3, <3>1
      <4> QED BY <3>1, <4>1
    <3>2. CASE {a, b} # {u, v}
      <4>1. \A d : d \in Q <=> d \in P
        BY <2>1, <2>2, <2>3, <2>4, <3>2
      <4> QED BY <3>2, <4>1
    <3> QED BY <3>1, <3>2
  <2> QED BY <2>5
<1>8. ASSUME NEW a \in User, NEW b \in User, {a, b} # {u, v}
      PROVE  PairDeals(a, b)' = PairDeals(a, b) /\ Documented(a, b)' = Documented(a, b)
  <2>1. PairDeals(a, b)' = PairDeals(a, b)
    BY <1>7, <1>8
  <2>2. \A d \in PairDeals(a, b) : BothAsked(d, a, b)' <=> BothAsked(d, a, b)
    BY <1>4, <1>6 DEF BothAsked, PairDeals, DealsBetween
  <2> QED BY <2>1, <2>2 DEF Documented
<1>9. ASSUME NEW a \in User, NEW b \in User, {a, b} = {u, v}
      PROVE  /\ IsFiniteSet(PairDeals(a, b)')
             /\ PairDeals(a, b)' # {} =>
                   Cardinality(Documented(a, b)') = Cardinality(PairDeals(a, b)') - 1
  <2> DEFINE P == PairDeals(a, b)
             D == Documented(a, b)
  <2>1. PairDeals(a, b)' = P \cup {c} /\ c \notin P /\ IsFiniteSet(P)
    BY <1>6, <1>7, <1>9 DEF AskInv
  <2>2. IsFiniteSet(P \cup {c}) /\ Cardinality(P \cup {c}) = Cardinality(P) + 1
    BY <2>1, FS_AddElement
  <2>3. Cardinality(P) \in Nat /\ (Cardinality(P) = 0 <=> P = {})
    BY <2>1, FS_CardinalityType, FS_EmptySet
  <2>4. D \subseteq P /\ IsFiniteSet(D)
    BY <2>1, FS_Subset DEF Documented
  <2>5. Cardinality(D \cup {c}) = Cardinality(D) + 1 /\ Cardinality(D) \in Nat
    BY <2>1, <2>4, FS_AddElement, FS_CardinalityType
  <2>6. DealsBetween(cargoStatus', reveals', u, v) = P \cup {c}
    BY <1>9, <2>1 DEF PairDeals, DealsBetween
  <2>7. \A d \in P : BothAsked(d, a, b)' <=> BothAsked(d, a, b)
    BY <1>4, <1>6 DEF BothAsked, PairDeals, DealsBetween
  <2>8. BothAsked(c, a, b)' <=> P # {}
    <3>1. BothAsked(c, a, b)' <=> Cardinality(P \cup {c}) >= 2
      BY <1>1, <1>2, <1>9, <2>6 DEF BothAsked
    <3> HIDE DEF P
    <3> QED BY <2>2, <2>3, <3>1
  <2>9. Documented(a, b)' = IF P # {} THEN D \cup {c} ELSE {}
    BY <2>1, <2>7, <2>8 DEF Documented
  <2>10. P # {} => Cardinality(D) = Cardinality(P) - 1
    BY DEF AskInv
  <2>11. Cardinality(Documented(a, b)') = Cardinality(PairDeals(a, b)') - 1
    <3>1. CASE P = {}
      <4>1. Documented(a, b)' = {} /\ Cardinality({}) = 0
        BY <2>9, <3>1, FS_EmptySet
      <4>2. Cardinality(PairDeals(a, b)') = 1
        BY <2>1, <2>2, <2>3, <3>1
      <4> QED BY <4>1, <4>2
    <3>2. CASE P # {}
      <4>1. Cardinality(Documented(a, b)') = Cardinality(D) + 1
        BY <2>5, <2>9, <3>2
      <4>2. Cardinality(PairDeals(a, b)') = Cardinality(P) + 1
        BY <2>1, <2>2
      <4> HIDE DEF P, D
      <4> QED BY <2>3, <2>5, <2>10, <3>2, <4>1, <4>2
    <3> QED BY <3>1, <3>2
  <2> QED BY <2>1, <2>2, <2>11
<1>10. ASSUME NEW a \in User, NEW b \in User
       PROVE  /\ IsFiniteSet(PairDeals(a, b)')
              /\ PairDeals(a, b)' # {} =>
                    Cardinality(Documented(a, b)') = Cardinality(PairDeals(a, b)') - 1
  <2>1. CASE {a, b} = {u, v}
    BY <1>9, <2>1
  <2>2. CASE {a, b} # {u, v}
    BY <1>8, <2>2 DEF AskInv
  <2> QED BY <2>1, <2>2
<1> QED BY <1>5, <1>10 DEF AskInv

\* The invariant of the documents holds.
LEMMA AskHolds == Spec => []AskInv
<1>1. Init => AskInv
  <2> SUFFICES ASSUME Init PROVE AskInv
    OBVIOUS
  <2>1. \A a, b \in User : PairDeals(a, b) = {}
    BY DEF Init, PairDeals, DealsBetween
  <2> QED BY <2>1, FS_EmptySet DEF Init, AskInv
<1>2. TypeOK /\ IndInv /\ AskInv /\ [Next]_vars => AskInv'
  BY CommitAsks, OthersAskNothing
<1> QED BY <1>1, <1>2, TypeCorrect, LocksProtect, PTL DEF Spec

\* Of the deals of a pair all but one have asked both sides for a document,
\* in whichever order and however concurrently they closed.
THEOREM RepeatDealsAreAsked == Spec => []RepeatDealAsked
<1>1. AskInv => RepeatDealAsked
  <2> SUFFICES ASSUME AskInv, NEW a \in User, NEW b \in User, PairDeals(a, b) # {}
               PROVE  Cardinality({c \in PairDeals(a, b) :
                          {a, b} \subseteq {u \in User : <<c, u>> \in asked}}) =
                      Cardinality(PairDeals(a, b)) - 1
    BY DEF RepeatDealAsked, PairDeals
  <2>1. {c \in PairDeals(a, b) : {a, b} \subseteq {u \in User : <<c, u>> \in asked}}
        = Documented(a, b)
    BY DEF Documented, BothAsked
  <2> QED BY <2>1 DEF AskInv
<1> QED BY <1>1, AskHolds, PTL
=============================================================================
