--------------------------- MODULE OfferSelection ---------------------------
(***************************************************************************)
(* The competition on a single cargo request: a client submits a cargo,    *)
(* carriers submit anonymous offers, the client selects one.  SelectOffer  *)
(* is one transaction that waits for three row locks (the client, the      *)
(* cargo, the carrier's row through a foreign key), so it is modelled      *)
(* statement group by statement group; CreateOffer is an unlocked check    *)
(* followed by an INSERT.  Requests interleave freely, may lose their      *)
(* connection at any point (Abort), and may deadlock.                      *)
(***************************************************************************)
EXTENDS Naturals, FiniteSets, RowLocks

CONSTANTS
    User, Cargo, Offer,
    Owner,              \* [Cargo -> User] client_id
    CargoOf,            \* [Offer -> Cargo] cargo_request_id
    Author,             \* [Offer -> User] participant_id
    ToolHolder,         \* the users that hold the submit_offer tool
    Req,                \* concurrent HTTP requests
    FreeLimit, SubLimit \* CONTACT_LIMIT_FREE, CONTACT_LIMIT_SUBSCRIBED

ASSUME RowsDisjoint == User \cap Cargo = {}
ASSUME OwnerType == Owner \in [Cargo -> User]
ASSUME CargoOfType == CargoOf \in [Offer -> Cargo]
ASSUME AuthorType == Author \in [Offer -> User]
ASSUME LimitsType == FreeLimit \in Nat /\ SubLimit \in Nat
ASSUME NamesFresh == "autocommit" \notin Req /\ "no bid" \notin Offer

VARIABLES
    \* the database, committed rows only
    cargoStatus,        \* [Cargo -> {"absent", "open", "matched", "closed"}]
    offerStatus,        \* [Offer -> {"absent", "submitted", "selected"}]
    reveals,            \* contact_reveals: records [client, participant, cargo]
    chats,              \* chats of deals: records [cargo, members]
    asked,              \* repeat_deal_document_requested notices <<cargo, user>>
    subscribed,         \* users with has_subscription
    eligible,           \* users whose status is pending or active
    \* the requests in flight
    held,               \* the row locks (RowLocks)
    pc, arg, limit      \* per request: next statement, arguments, limit read

dbVars == <<cargoStatus, offerStatus, reveals, chats, asked, subscribed, eligible>>
reqVars == <<held, pc, arg, limit>>
vars == <<dbVars, reqVars>>

Arg == [user : User, cargo : Cargo, offer : Offer]
NoArg == [user |-> "none", cargo |-> "none", offer |-> "none"]

InTx == {"lockCargo", "checkLimit", "insertReveal", "commit"}
PC == {"idle", "lockClient", "insertOffer"} \cup InTx

\* ContactRevealRepository.CountByClientID
RevealsOf(rv, u) == {r \in rv : r.client = u}
RevealLimit(u) == IF u \in subscribed THEN SubLimit ELSE FreeLimit

\* completedDealsBetween, the single-cargo half
DealsBetween(status, rv, a, b) ==
    {c \in Cargo : /\ status[c] = "matched"
                   /\ \E r \in rv : /\ r.cargo = c
                                    /\ {Owner[c], r.participant} = {a, b}}

Init ==
    /\ cargoStatus = [c \in Cargo |-> "absent"]
    /\ offerStatus = [o \in Offer |-> "absent"]
    /\ reveals = {} /\ chats = {} /\ asked = {}
    /\ subscribed = {} /\ eligible = User
    /\ held = {}
    /\ pc = [r \in Req |-> "idle"]
    /\ arg = [r \in Req |-> NoArg]
    /\ limit = [r \in Req |-> 0]

Goto(r, l) == pc' = [pc EXCEPT ![r] = l]

\* The end of a request: COMMIT or ROLLBACK releases its locks.
Finish(r) == /\ held' = Release(held, r)
             /\ pc' = [pc EXCEPT ![r] = "idle"]
             /\ arg' = [arg EXCEPT ![r] = NoArg]
             /\ limit' = [limit EXCEPT ![r] = 0]

\* Mutant: a rejected request keeps its connection, and so its locks.
RejectKeepsLocks(r) == /\ pc' = [pc EXCEPT ![r] = "idle"]
                       /\ arg' = [arg EXCEPT ![r] = NoArg]
                       /\ limit' = [limit EXCEPT ![r] = 0]
                       /\ UNCHANGED <<dbVars, held>>

Reject(r) == Finish(r) /\ UNCHANGED dbVars

-----------------------------------------------------------------------------
\* CreateCargoRequest: the INSERT checks the foreign key on the client's row.
CreateCargo(c) ==
    /\ cargoStatus[c] = "absent"
    /\ Owner[c] \in eligible
    /\ Available(held, "autocommit", Owner[c], "keyShare")
    /\ cargoStatus' = [cargoStatus EXCEPT ![c] = "open"]
    /\ UNCHANGED <<offerStatus, reveals, chats, asked, subscribed, eligible, reqVars>>

\* CreateOffer, first half: the checks, on committed rows and without a lock.
BeginOffer(r, o) ==
    /\ pc[r] = "idle"
    /\ offerStatus[o] = "absent"
    /\ \A q \in Req : pc[q] = "insertOffer" => arg[q].offer # o   \* uuid.New()
    /\ Author[o] \in eligible \cap ToolHolder
    /\ cargoStatus[CargoOf[o]] = "open"
    /\ Goto(r, "insertOffer")
    /\ arg' = [arg EXCEPT ![r] = [user |-> Author[o], cargo |-> CargoOf[o], offer |-> o]]
    /\ UNCHANGED <<dbVars, held, limit>>

\* CreateOffer, second half: the INSERT, with its two foreign-key checks.
InsertOffer(r) ==
    /\ pc[r] = "insertOffer"
    /\ Available(held, r, arg[r].cargo, "keyShare")
    /\ Available(held, r, arg[r].user, "keyShare")
    /\ offerStatus' = [offerStatus EXCEPT ![arg[r].offer] = "submitted"]
    /\ Finish(r)
    /\ UNCHANGED <<cargoStatus, reveals, chats, asked, subscribed, eligible>>

-----------------------------------------------------------------------------
\* SelectOffer: requireEligibleUser, before the transaction.  The path names
\* any cargo and any offer; the checks come later, under the locks.
BeginSelect(r, u, c, o) ==
    /\ pc[r] = "idle"
    /\ u \in eligible
    /\ Goto(r, "lockClient")
    /\ arg' = [arg EXCEPT ![r] = [user |-> u, cargo |-> c, offer |-> o]]
    /\ UNCHANGED <<dbVars, held, limit>>

\* Mutant: a plain SELECT of the user.
LockClientUnlocked(r) ==
    /\ pc[r] = "lockClient"
    /\ limit' = [limit EXCEPT ![r] = RevealLimit(arg[r].user)]
    /\ Goto(r, "lockCargo")
    /\ UNCHANGED <<dbVars, arg, held>>

\* SELECT users ... FOR UPDATE, and the limit that this row gives.
LockClient(r) ==
    /\ pc[r] = "lockClient"
    /\ Available(held, r, arg[r].user, "forUpdate")
    /\ held' = Grant(held, r, arg[r].user, "forUpdate")
    /\ limit' = [limit EXCEPT ![r] = RevealLimit(arg[r].user)]
    /\ Goto(r, "lockCargo")
    /\ UNCHANGED <<dbVars, arg>>

\* Mutant: the status is not checked again under the lock.
OwnsCargo(r) == Owner[arg[r].cargo] = arg[r].user

\* SELECT cargo_requests ... FOR UPDATE, then the ownership and status checks.
MaySelect(r) == /\ Owner[arg[r].cargo] = arg[r].user
                /\ cargoStatus[arg[r].cargo] = "open"

LockCargo(r) ==
    /\ pc[r] = "lockCargo"
    /\ Available(held, r, arg[r].cargo, "forUpdate")
    /\ \/ /\ MaySelect(r)
          /\ held' = Grant(held, r, arg[r].cargo, "forUpdate")
          /\ Goto(r, "checkLimit")
          /\ UNCHANGED <<dbVars, arg, limit>>
       \/ ~MaySelect(r) /\ Reject(r)

\* The offer belongs to the cargo, and the lifetime limit is not used up.
WithinLimit(r) ==
    /\ offerStatus[arg[r].offer] # "absent"
    /\ CargoOf[arg[r].offer] = arg[r].cargo
    /\ Cardinality(RevealsOf(reveals, arg[r].user)) < limit[r]

CheckLimit(r) ==
    /\ pc[r] = "checkLimit"
    /\ \/ /\ WithinLimit(r)
          /\ Goto(r, "insertReveal")
          /\ UNCHANGED <<dbVars, held, arg, limit>>
       \/ ~WithinLimit(r) /\ Reject(r)

\* INSERT contact_reveals waits for the carrier's row (foreign key).
InsertReveal(r) ==
    /\ pc[r] = "insertReveal"
    /\ Available(held, r, Author[arg[r].offer], "keyShare")
    /\ held' = Grant(held, r, Author[arg[r].offer], "keyShare")
    /\ Goto(r, "commit")
    /\ UNCHANGED <<dbVars, arg, limit>>

\* Mutant: the deals are counted before this one is recorded.
NotifyTooEarly(status, rv, c, a, b) ==
    IF Cardinality(DealsBetween(cargoStatus, reveals, a, b)) >= 2
    THEN asked \cup ({c} \X {a, b}) ELSE asked

\* NotifyRepeatDeal: from the second deal of a pair on, ask both for a document.
NotifyRepeatDeal(status, rv, c, a, b) ==
    IF Cardinality(DealsBetween(status, rv, a, b)) >= 2
    THEN asked \cup ({c} \X {a, b}) ELSE asked

\* The remaining statements and COMMIT: the reveal, the offer, the cargo and
\* the chat become visible together.
CommitSelect(r) ==
    LET c == arg[r].cargo
        o == arg[r].offer
        status == [cargoStatus EXCEPT ![c] = "matched"]
        rv == reveals \cup
              {[client |-> arg[r].user, participant |-> Author[o], cargo |-> c]}
    IN /\ pc[r] = "commit"
       /\ cargoStatus' = status
       /\ offerStatus' = [offerStatus EXCEPT ![o] = "selected"]
       /\ reveals' = rv
       /\ chats' = chats \cup {[cargo |-> c, members |-> {arg[r].user, Author[o]}]}
       /\ asked' = NotifyRepeatDeal(status, rv, c, arg[r].user, Author[o])
       /\ Finish(r)
       /\ UNCHANGED <<subscribed, eligible>>

\* The client disconnects, the server stops, or PostgreSQL picks the
\* transaction as a deadlock victim: everything is rolled back.
Abort(r) == pc[r] # "idle" /\ Reject(r)

-----------------------------------------------------------------------------
\* SetUserSubscription: the UPDATE waits while a selection holds the row.
SetUserSubscription(u) ==
    /\ Available(held, "autocommit", u, "noKeyUpdate")
    /\ \/ subscribed' = subscribed \cup {u}
       \/ subscribed' = subscribed \ {u}
    /\ UNCHANGED <<cargoStatus, offerStatus, reveals, chats, asked, eligible, reqVars>>

\* BlockUser and UnblockUser.
SetUserStatus(u) ==
    /\ Available(held, "autocommit", u, "noKeyUpdate")
    /\ \/ eligible' = eligible \cup {u}
       \/ eligible' = eligible \ {u}
    /\ UNCHANGED <<cargoStatus, offerStatus, reveals, chats, asked, subscribed, reqVars>>

SelectStep(r) == \/ LockClient(r) \/ LockCargo(r) \/ CheckLimit(r)
                 \/ InsertReveal(r) \/ CommitSelect(r)
RequestStep(r) == SelectStep(r) \/ InsertOffer(r)

Next ==
    \/ \E c \in Cargo : CreateCargo(c)
    \/ \E u \in User : SetUserSubscription(u) \/ SetUserStatus(u)
    \/ \E r \in Req :
          \/ \E o \in Offer : BeginOffer(r, o)
          \/ \E u \in User, c \in Cargo, o \in Offer : BeginSelect(r, u, c, o)
          \/ RequestStep(r)
          \/ Abort(r)

Spec == Init /\ [][Next]_vars

\* What the next statement of each request waits for.
Wants == [r \in Req |->
    CASE pc[r] = "lockClient"   -> {[row |-> arg[r].user, mode |-> "forUpdate"]}
      [] pc[r] = "lockCargo"    -> {[row |-> arg[r].cargo, mode |-> "forUpdate"]}
      [] pc[r] = "insertReveal" -> {[row |-> Author[arg[r].offer], mode |-> "keyShare"]}
      [] pc[r] = "insertOffer"  -> {[row |-> arg[r].cargo, mode |-> "keyShare"],
                                    [row |-> arg[r].user, mode |-> "keyShare"]}
      [] OTHER -> {}]

DeadlockVictim(r) == Deadlocked(held, Wants, r) /\ Abort(r)

(***************************************************************************)
(* Fairness: the server executes a started request; PostgreSQL queues the  *)
(* waiters of a row, so a statement whose row is free again and again is   *)
(* served (strong fairness); it breaks every deadlock.  Nobody is obliged  *)
(* to submit, select or disconnect.                                        *)
(***************************************************************************)
Fairness == \A r \in Req : SF_vars(RequestStep(r)) /\ WF_vars(DeadlockVictim(r))
FairSpec == Spec /\ Fairness

-----------------------------------------------------------------------------
\* Every variable ranges over its type; a request outside a selection
\* transaction holds no lock.
TypeOK ==
    /\ cargoStatus \in [Cargo -> {"absent", "open", "matched", "closed"}]
    /\ offerStatus \in [Offer -> {"absent", "submitted", "selected"}]
    /\ reveals \subseteq [client : User, participant : User, cargo : Cargo]
    /\ chats \subseteq [cargo : Cargo, members : SUBSET User]
    /\ asked \subseteq Cargo \X User
    /\ subscribed \subseteq User /\ eligible \subseteq User
    /\ held \subseteq [tx : Req, row : User \cup Cargo, mode : LockMode]
    /\ pc \in [Req -> PC]
    /\ arg \in [Req -> Arg \cup {NoArg}]
    /\ limit \in [Req -> Nat]
    /\ \A r \in Req : pc[r] # "idle" => arg[r] \in Arg

SelectedOffers(c) == {o \in Offer : CargoOf[o] = c /\ offerStatus[o] = "selected"}
RevealsFor(c) == {r \in reveals : r.cargo = c}
ChatsFor(c) == {h \in chats : h.cargo = c}

\* A matched cargo has one selected offer, one contact reveal of that offer's
\* author to the owner and one chat between the two; a cargo that is not
\* matched has none of them -- whatever requests race or fail half-way
\* (SelectOffer, "Everything mutating happens in one transaction").
DealIsWhole == \A c \in Cargo :
    IF cargoStatus[c] = "matched"
    THEN \E o \in Offer :
           /\ SelectedOffers(c) = {o}
           /\ RevealsFor(c) = {[client |-> Owner[c], participant |-> Author[o], cargo |-> c]}
           /\ ChatsFor(c) = {[cargo |-> c, members |-> {Owner[c], Author[o]}]}
    ELSE SelectedOffers(c) = {} /\ RevealsFor(c) = {} /\ ChatsFor(c) = {}

\* No step gives a client a further contact unless the reveals it already has
\* are below the limit its subscription allows at that very moment: parallel
\* selections on different cargos cannot overshoot it, and a subscription
\* withdrawn meanwhile counts (SelectOffer locks the client's row first).
RevealStep == \A u \in User :
    RevealsOf(reveals', u) # RevealsOf(reveals, u) =>
        Cardinality(RevealsOf(reveals', u)) <= RevealLimit(u)

RevealWithinLimit == [][RevealStep]_vars

\* Of the deals of a pair, in whichever roles, all but the first have asked
\* both sides for a confirming document, and only those: two deals of one
\* pair that close at the same time cannot both count as the first
\* (NotifyRepeatDeal runs under the foreign-key lock on the partner's row).
RepeatDealAsked == \A a, b \in User :
    LET deals == DealsBetween(cargoStatus, reveals, a, b)
        noticed == {c \in deals : {a, b} \subseteq {u \in User : <<c, u>> \in asked}}
    IN deals # {} => Cardinality(noticed) = Cardinality(deals) - 1

\* Every started request ends, although selections of two users that picked
\* each other's offers wait for each other's row locks.
RequestsEnd == \A r \in Req : pc[r] # "idle" ~> pc[r] = "idle"

\* The selection implements the abstract competition, one lot per cargo.
NoBid == "no bid"
TheOne(S) == IF S = {} THEN NoBid ELSE CHOOSE o \in Offer : o \in S
Comp == INSTANCE Competition WITH
    Lot <- Cargo, Bid <- Offer, LotOf <- CargoOf, AuthorOf <- Author,
    winner <- [c \in Cargo |-> TheOne(SelectedOffers(c))],
    bids <- {o \in Offer : offerStatus[o] # "absent"},
    revealed <- {<<r.cargo, r.participant>> : r \in reveals}

\* Offers stay anonymous until one of them wins, winning is one step, and the
\* winner of a cargo never changes (Competition).
ImplementsCompetition == Comp!Spec
-----------------------------------------------------------------------------
(* The inductive invariant behind DealIsWhole, RevealWithinLimit and         *)
(* ImplementsCompetition.                                                  *)

Guarded == {"checkLimit", "insertReveal", "commit"}

\* Two transactions hold locks on a row only in compatible modes.
LocksCompatible == \A l, m \in held :
    (l.row = m.row /\ l.tx # m.tx) => Compatible(l.mode, m.mode)

\* A selection holds the client's row, whose limit it knows ...
ClientLocked == \A r \in Req : pc[r] \in InTx =>
    /\ Holds(held, r, arg[r].user, "forUpdate")
    /\ limit[r] = RevealLimit(arg[r].user)

\* ... then the cargo's, which stays open and its client's own ...
CargoLocked == \A r \in Req : pc[r] \in Guarded =>
    /\ Holds(held, r, arg[r].cargo, "forUpdate")
    /\ MaySelect(r)

\* ... and what it checked stays true to the end.
ChecksHold == \A r \in Req : pc[r] \in {"insertReveal", "commit"} => WithinLimit(r)

\* The offer a request is about to insert is nobody else's.
OfferFresh == \A r \in Req : pc[r] = "insertOffer" =>
    /\ offerStatus[arg[r].offer] = "absent"
    /\ \A q \in Req : (q # r /\ pc[q] = "insertOffer") => arg[q].offer # arg[r].offer

IndInv == /\ LocksCompatible /\ ClientLocked /\ CargoLocked
          /\ ChecksHold /\ OfferFresh /\ IsFiniteSet(reveals) /\ DealIsWhole
=============================================================================
