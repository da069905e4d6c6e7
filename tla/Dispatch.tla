------------------------------ MODULE Dispatch ------------------------------
(***************************************************************************)
(* One route of a warehouse.  Saving its dispatch threshold announces a    *)
(* driver competition and opens, or dispatches, a batch: the statements of *)
(* a save are committed one by one.  Drivers bid (an unlocked check, then  *)
(* an INSERT); the warehouse selects in a transaction under FOR UPDATE on  *)
(* the competition's row, which the foreign key of a bid needs too, so a   *)
(* selection is one atomic step.                                           *)
(* Volumes are abstracted to whether the accrued volume reaches the        *)
(* threshold; accounts and tools do not change here.                       *)
(***************************************************************************)
EXTENDS Naturals, FiniteSets

CONSTANTS
    Warehouse, Driver,  \* its owner; the others who have a vehicle
    Cargo, ClientOf,    \* [Cargo -> clients]
    Comp, Batch,        \* ids of driver competitions and batches
    Saver,              \* concurrent calls of SetRouteDispatchThreshold
    Contested,          \* bound: the competitions on which drivers bid
    Lossy               \* bound: a save may stop between two statements

ASSUME DriversAreOthers == Warehouse \notin Driver
ASSUME ContestedType == Contested \subseteq Comp
ASSUME NoneIsNew == "none" \notin Batch \cup Comp

Bid == Comp \X Driver   \* UNIQUE (competition_id, driver_id)
NoBid == <<"none", "none">>

VARIABLES
    threshold,          \* "none" | "below" | "reached"
    comps,              \* [Comp -> "none" | "open" | "closed"]
    automatic,          \* the competitions announced by a save
    bidStatus,          \* [Bid -> "none" | "submitted" | "selected" | "rejected"]
    bidding,            \* bids that passed the checks and are not inserted yet
    driverChat,         \* [Comp -> participants of the chat with the driver]
    deals,              \* matched cargos whose client the warehouse knows
    batches,            \* [Batch -> "none" | "active" | "dispatched"]
    members,            \* [Batch -> its cargos]
    batchChat,          \* [Batch -> participants of its chat]
    pc, batch, todo,    \* per save: next statement, batch, candidates left
    torn, interrupted   \* history: batches, and a threshold, whose save was lost

compVars == <<comps, automatic, bidStatus, bidding, driverChat>>
batchVars == <<batches, members, batchChat>>
saveVars == <<pc, batch, todo>>
lossVars == <<torn, interrupted>>
vars == <<threshold, compVars, deals, batchVars, saveVars, lossVars>>

Init ==
    /\ threshold = "none"
    /\ comps = [c \in Comp |-> "none"] /\ automatic = {}
    /\ bidStatus = [b \in Bid |-> "none"] /\ bidding = {}
    /\ driverChat = [c \in Comp |-> {}]
    /\ deals = {}
    /\ batches = [b \in Batch |-> "none"]
    /\ members = [b \in Batch |-> {}] /\ batchChat = [b \in Batch |-> {}]
    /\ pc = [s \in Saver |-> "idle"]
    /\ batch = [s \in Saver |-> "none"] /\ todo = [s \in Saver |-> {}]
    /\ torn = {} /\ interrupted = FALSE

\* A cargo of the route is matched with the warehouse (SelectOffer); that a
\* merge may close it again is Consolidation's matter.
Match(k) ==
    /\ k \notin deals
    /\ deals' = deals \cup {k}
    /\ UNCHANGED <<threshold, compVars, batchVars, saveVars, lossVars>>

-----------------------------------------------------------------------------
(* The driver competition.                                                 *)

CreateDriverCompetition(c) ==
    /\ comps[c] = "none"
    /\ comps' = [comps EXCEPT ![c] = "open"]
    /\ UNCHANGED <<threshold, automatic, bidStatus, bidding, driverChat, deals,
                   batchVars, saveVars, lossVars>>

\* CreateDriverBid: the check of the status, then the INSERT, which fails
\* when the driver has bid already.
BeginBid(b) ==
    /\ comps[b[1]] = "open" /\ b \notin bidding
    /\ bidding' = bidding \cup {b}
    /\ UNCHANGED <<threshold, comps, automatic, bidStatus, driverChat, deals,
                   batchVars, saveVars, lossVars>>

InsertBid(b) ==
    /\ b \in bidding
    /\ bidding' = bidding \ {b}
    /\ bidStatus' = [bidStatus EXCEPT ![b] = IF @ = "none" THEN "submitted" ELSE @]
    /\ UNCHANGED <<threshold, comps, automatic, driverChat, deals,
                   batchVars, saveVars, lossVars>>

MarkBidSelected(b) ==
    [x \in Bid |-> IF x = b THEN "selected"
                   ELSE IF x[1] = b[1] /\ bidStatus[x] = "submitted" THEN "rejected"
                   ELSE bidStatus[x]]

\* Mutant: the bid is looked at, not the competition.
SubmittedBid(b) == bidStatus[b] = "submitted"

MaySelect(b) == bidStatus[b] # "none" /\ comps[b[1]] = "open"

\* A selection on a closed competition is refused, or answered again when it
\* names the winner; neither changes anything.
SelectDriverBid(b) ==
    /\ MaySelect(b)
    /\ bidStatus' = MarkBidSelected(b)
    /\ comps' = [comps EXCEPT ![b[1]] = "closed"]
    /\ driverChat' = [driverChat EXCEPT ![b[1]] = @ \cup {Warehouse, b[2]}]
    /\ UNCHANGED <<threshold, automatic, bidding, deals,
                   batchVars, saveVars, lossVars>>

-----------------------------------------------------------------------------
(* SetRouteDispatchThreshold: one action per statement.                    *)

Goto(s, from, to) ==
    /\ pc[s] = from
    /\ pc' = [pc EXCEPT ![s] = to]

Finish(s) ==
    /\ pc' = [pc EXCEPT ![s] = "idle"]
    /\ batch' = [batch EXCEPT ![s] = "none"]
    /\ todo' = [todo EXCEPT ![s] = {}]

\* The threshold is saved.  Below it, any batch is dispatched; otherwise the
\* setting driver_competition_auto, which may be on or off, decides whether a
\* competition is announced.
Upsert(s) ==
    /\ \/ /\ threshold' = "below"
          /\ Goto(s, "idle", "dispatch")
       \/ /\ threshold' = "reached"
          /\ \E next \in {"checkOpen", "checkActive"} : Goto(s, "idle", next)
    /\ UNCHANGED <<compVars, deals, batchVars, batch, todo, lossVars>>

\* Mutant: every competition counts as settled.
NeverOpen == FALSE

HasOpenForRoute == \E c \in Comp : comps[c] = "open"

CheckOpen(s) ==
    /\ \/ HasOpenForRoute /\ Goto(s, "checkOpen", "checkActive")
       \/ ~HasOpenForRoute /\ Goto(s, "checkOpen", "announce")
    /\ UNCHANGED <<threshold, compVars, deals, batchVars, batch, todo, lossVars>>

Announce(s) ==
    /\ Goto(s, "announce", "checkActive")
    /\ \E c \in Comp : /\ comps[c] = "none"
                       /\ comps' = [comps EXCEPT ![c] = "open"]
                       /\ automatic' = automatic \cup {c}
    /\ UNCHANGED <<threshold, bidStatus, bidding, driverChat, deals,
                   batchVars, batch, todo, lossVars>>

\* Mutant: a batch without cargos is not dispatched.
DispatchFilled(s) ==
    /\ pc[s] = "dispatch"
    /\ batches' = [b \in Batch |-> IF batches[b] = "active" /\ members[b] # {}
                                   THEN "dispatched" ELSE batches[b]]
    /\ interrupted' = FALSE
    /\ Finish(s)
    /\ UNCHANGED <<threshold, compVars, deals, members, batchChat, torn>>

\* syncWarehouseBatch below the threshold.
Dispatch(s) ==
    /\ pc[s] = "dispatch"
    /\ batches' = [b \in Batch |-> IF batches[b] = "active" THEN "dispatched"
                                   ELSE batches[b]]
    /\ interrupted' = FALSE
    /\ Finish(s)
    /\ UNCHANGED <<threshold, compVars, deals, members, batchChat, torn>>

\* Mutant: no batch counts as active.
NeverActive == FALSE

HasActiveForRoute == \E b \in Batch : batches[b] = "active"

\* Mutant: cargos of earlier batches are candidates again.
AllDeals == deals

BatchCandidates == {k \in deals : \A b \in Batch : k \notin members[b]}

CheckActive(s) ==
    /\ \/ HasActiveForRoute /\ pc[s] = "checkActive" /\ Finish(s)
       \/ ~HasActiveForRoute /\ Goto(s, "checkActive", "list") /\ UNCHANGED <<batch, todo>>
    /\ UNCHANGED <<threshold, compVars, deals, batchVars, lossVars>>

ListCandidates(s) ==
    /\ \/ /\ BatchCandidates # {}
          /\ Goto(s, "list", "create")
          /\ todo' = [todo EXCEPT ![s] = BatchCandidates]
          /\ UNCHANGED batch
       \/ BatchCandidates = {} /\ pc[s] = "list" /\ Finish(s)
    /\ UNCHANGED <<threshold, compVars, deals, batchVars, lossVars>>

CreateBatch(s) ==
    /\ Goto(s, "create", "openChat")
    /\ \E b \in Batch : /\ batches[b] = "none"
                        /\ batches' = [batches EXCEPT ![b] = "active"]
                        /\ batch' = [batch EXCEPT ![s] = b]
    /\ UNCHANGED <<threshold, compVars, deals, members, batchChat, todo, lossVars>>

\* The chat is created and the warehouse joins it (a chat without
\* participants is no chat to anybody).
OpenChat(s) ==
    /\ Goto(s, "openChat", "addMember")
    /\ batchChat' = [batchChat EXCEPT ![batch[s]] = {Warehouse}]
    /\ UNCHANGED <<threshold, compVars, deals, batches, members, batch, todo, lossVars>>

\* The candidates become members one by one; ON CONFLICT DO NOTHING.
AddMember(s) ==
    /\ Goto(s, "addMember", "joinClient")
    /\ \E k \in todo[s] : members' = [members EXCEPT ![batch[s]] = @ \cup {k}]
    /\ UNCHANGED <<threshold, compVars, deals, batches, batchChat, batch, todo, lossVars>>

\* Mutant: only the first client joins the chat.
FirstClient(b, k) == IF batchChat[b] = {Warehouse} THEN {ClientOf[k]} ELSE {}

\* The client of a new member joins the chat, if it has not joined yet.
NewClient(b, k) == {ClientOf[k]} \ batchChat[b]

JoinClient(s) ==
    /\ pc[s] = "joinClient"
    /\ \E k \in todo[s] \cap members[batch[s]] :
          /\ batchChat' = [batchChat EXCEPT ![batch[s]] = @ \cup NewClient(batch[s], k)]
          /\ \/ /\ todo[s] # {k}
                /\ Goto(s, "joinClient", "addMember")
                /\ todo' = [todo EXCEPT ![s] = @ \ {k}]
                /\ UNCHANGED batch
             \/ todo[s] = {k} /\ Finish(s)
    /\ UNCHANGED <<threshold, compVars, deals, batches, members, lossVars>>

\* The connection or the server is lost: what is committed stays.
Abort(s) ==
    /\ Lossy /\ pc[s] # "idle"
    /\ torn' = torn \cup (Batch \cap {batch[s]})
    /\ interrupted' = (interrupted \/ pc[s] = "dispatch")
    /\ Finish(s)
    /\ UNCHANGED <<threshold, compVars, deals, batchVars>>

DeleteRouteDispatchThreshold ==
    /\ threshold # "none"
    /\ threshold' = "none"
    /\ UNCHANGED <<compVars, deals, batchVars, saveVars, lossVars>>

-----------------------------------------------------------------------------
Save(s) == \/ Upsert(s) \/ CheckOpen(s) \/ Announce(s) \/ Dispatch(s)
           \/ CheckActive(s) \/ ListCandidates(s) \/ CreateBatch(s)
           \/ OpenChat(s) \/ AddMember(s) \/ JoinClient(s)

Next == \/ \E k \in Cargo : Match(k)
        \/ \E c \in Comp : CreateDriverCompetition(c)
        \/ \E b \in Contested \X Driver : BeginBid(b) \/ InsertBid(b) \/ SelectDriverBid(b)
        \/ \E s \in Saver : Save(s) \/ Abort(s)
        \/ DeleteRouteDispatchThreshold

Spec == Init /\ [][Next]_vars

-----------------------------------------------------------------------------
\* Every variable ranges over its type, and a save under way knows its batch.
DispatchTypeOK ==
    /\ threshold \in {"none", "below", "reached"}
    /\ comps \in [Comp -> {"none", "open", "closed"}] /\ automatic \subseteq Comp
    /\ bidStatus \in [Bid -> {"none", "submitted", "selected", "rejected"}]
    /\ bidding \subseteq Bid
    /\ driverChat \in [Comp -> SUBSET ({Warehouse} \cup Driver)]
    /\ deals \subseteq Cargo
    /\ batches \in [Batch -> {"none", "active", "dispatched"}]
    /\ members \in [Batch -> SUBSET Cargo]
    /\ batchChat \in [Batch -> SUBSET ({Warehouse} \cup {ClientOf[k] : k \in Cargo})]
    /\ pc \in [Saver -> {"idle", "checkOpen", "announce", "dispatch", "checkActive",
                         "list", "create", "openChat", "addMember", "joinClient"}]
    /\ todo \in [Saver -> SUBSET Cargo]
    /\ batch \in [Saver -> Batch \cup {"none"}]
    /\ \A s \in Saver :
          pc[s] \in {"openChat", "addMember", "joinClient"} <=> batch[s] # "none"
    /\ torn \subseteq Batch /\ interrupted \in BOOLEAN

\* A closed competition has one winning bid and a chat of its driver with the
\* warehouse, an open one neither, although bids are inserted at any time: the
\* repeated selection of the winner finds the chat (SelectDriverBid).
WinningBids(c) == {b \in Bid : b[1] = c /\ bidStatus[b] = "selected"}
CompetitionSettles ==
    \A c \in Comp :
        IF comps[c] = "closed"
        THEN \E d \in Driver : /\ WinningBids(c) = {<<c, d>>}
                               /\ driverChat[c] = {Warehouse, d}
        ELSE WinningBids(c) = {} /\ driverChat[c] = {}

\* The driver competitions implement the abstract one.
Comps == INSTANCE Competition WITH
    Lot <- Comp, NoBid <- NoBid,
    LotOf <- [b \in Bid |-> b[1]], AuthorOf <- [b \in Bid |-> b[2]],
    winner <- [c \in Comp |->
        IF WinningBids(c) = {} THEN NoBid ELSE CHOOSE b \in Bid : b \in WinningBids(c)],
    bids <- {b \in Bid : bidStatus[b] # "none"},
    revealed <- {x \in Bid : x[2] \in driverChat[x[1]]}

\* Once a competition is closed its winner stays, whatever bids arrive late,
\* and nobody but the winner is ever revealed (SelectDriverBid).
ImplementsCompetition == Comps!Spec

\* "If the route has no open competition yet": automatic announcements do not
\* pile up, however the threshold is saved again (maybeAutoAnnounce...).
OneAutomatic ==
    \A c, d \in automatic : comps[c] = "open" /\ comps[d] = "open" => c = d

\* Saving a threshold again does not duplicate the chat of the batch
\* (HasActiveForRoute).
OneActiveBatch ==
    \A b, d \in Batch : batches[b] = "active" /\ batches[d] = "active" => b = d

\* A cargo travels in one batch, also when the batch that it was meant for was
\* never completed (ListBatchCandidates).
CargoTravelsOnce ==
    \A b, d \in Batch : members[b] \cap members[d] # {} => b = d

\* A batch whose save was not lost is complete: it has cargos, and its chat has
\* the warehouse and exactly the clients of these cargos.
BatchIsWhole ==
    \A b \in Batch \ torn :
        (batches[b] # "none" /\ \A s \in Saver : batch[s] # b) =>
            /\ members[b] # {}
            /\ batchChat[b] = {Warehouse} \cup {ClientOf[k] : k \in members[b]}

\* When no save is under way or was lost, a route below its threshold has no
\* batch waiting: the batch was dispatched.
BatchFollowsThreshold ==
    (threshold = "below" /\ ~interrupted /\ \A s \in Saver : pc[s] = "idle") =>
        ~\E b \in Batch : batches[b] = "active"
=============================================================================
