--------------------------- MODULE DispatchProofs ---------------------------
(***************************************************************************)
(* Proofs about Dispatch, for any drivers, cargos, competitions, batches   *)
(* and saves; those of the last section are for one save at a time.        *)
(***************************************************************************)
EXTENDS Dispatch, TLAPS

-----------------------------------------------------------------------------
(* The competitions.                                                       *)

CompTypes ==
    /\ comps \in [Comp -> {"none", "open", "closed"}] /\ automatic \subseteq Comp
    /\ bidStatus \in [Bid -> {"none", "submitted", "selected", "rejected"}]
    /\ bidding \subseteq Bid
    /\ driverChat \in [Comp -> SUBSET ({Warehouse} \cup Driver)]

CompInv == CompTypes /\ CompetitionSettles

\* A bid is a pair of a competition and a driver.
LEMMA BidIsPair ==
    ASSUME NEW b \in Bid
    PROVE  b[1] \in Comp /\ b[2] \in Driver /\ b = <<b[1], b[2]>>
BY DEF Bid

\* What a step may do to the competitions.
LEMMA CompSteps ==
    ASSUME [Next]_vars
    PROVE  \/ UNCHANGED compVars
           \/ \E c \in Comp : /\ comps[c] = "none" /\ comps' = [comps EXCEPT ![c] = "open"]
                              /\ automatic' \subseteq automatic \cup {c}
                              /\ UNCHANGED <<bidStatus, bidding, driverChat>>
           \/ \E b \in Bid : BeginBid(b) \/ InsertBid(b) \/ SelectDriverBid(b)
<1>1. ASSUME NEW s \in Saver, Save(s)
      PROVE  UNCHANGED compVars \/ Announce(s)
  BY <1>1 DEF Save, Upsert, CheckOpen, Dispatch, CheckActive, ListCandidates, CreateBatch,
              OpenChat, AddMember, JoinClient
<1>2. Contested \X Driver \subseteq Bid
  BY ContestedType DEF Bid
<1> QED
  BY <1>1, <1>2 DEF Next, vars, Match, CreateDriverCompetition, Announce, Abort,
                    DeleteRouteDispatchThreshold, compVars

\* One bid more, not a winning one, settles nothing.
LEMMA SettledKept ==
    ASSUME CompInv, NEW c \in Comp, comps[c] # "closed",
           comps' = [comps EXCEPT ![c] = "open"] \/ comps' = comps,
           UNCHANGED driverChat,
           \A b \in Bid : bidStatus'[b] = "selected" <=> bidStatus[b] = "selected"
    PROVE  CompetitionSettles'
<1>1. \A d \in Comp : WinningBids(d)' = WinningBids(d)
  BY DEF WinningBids
<1>2. \A d \in Comp : comps'[d] = "closed" <=> comps[d] = "closed"
  BY DEF CompInv, CompTypes
<1> QED BY <1>1, <1>2 DEF CompInv, CompetitionSettles

\* A selection leaves one winner, alone with the warehouse in the chat.
LEMMA SelectSettles ==
    ASSUME CompInv, NEW b \in Bid, SelectDriverBid(b)
    PROVE  CompInv'
<1> DEFINE c == b[1]
           d == b[2]
<1>0. c \in Comp /\ d \in Driver /\ b = <<c, d>>
  BY BidIsPair
<1>1. comps[c] = "open" /\ WinningBids(c) = {} /\ driverChat[c] = {}
  BY <1>0 DEF SelectDriverBid, MaySelect, CompInv, CompetitionSettles
<1>2. CompTypes'
  BY <1>0 DEF SelectDriverBid, MarkBidSelected, CompInv, CompTypes
<1>3. \A x \in Bid : bidStatus'[x] = "selected" <=> (x = b \/ bidStatus[x] = "selected")
  BY DEF SelectDriverBid, MarkBidSelected
<1>4. WinningBids(c)' = {<<c, d>>}
  BY <1>0, <1>1, <1>3 DEF WinningBids
<1>5. driverChat'[c] = {Warehouse, d} /\ comps'[c] = "closed"
  BY <1>0, <1>1 DEF SelectDriverBid, CompInv, CompTypes
<1>6. ASSUME NEW e \in Comp, e # c
      PROVE  /\ WinningBids(e)' = WinningBids(e)
             /\ driverChat'[e] = driverChat[e] /\ comps'[e] = comps[e]
  BY <1>3, <1>6 DEF WinningBids, SelectDriverBid, CompInv, CompTypes
<1>7. CompetitionSettles'
  BY <1>0, <1>4, <1>5, <1>6 DEF CompInv, CompetitionSettles
<1> QED BY <1>2, <1>7 DEF CompInv

\* The invariant of the competitions is inductive.
LEMMA CompStep ==
    ASSUME CompInv, [Next]_vars
    PROVE  CompInv'
<1>1. CASE UNCHANGED compVars
  BY <1>1 DEF CompInv, CompTypes, CompetitionSettles, WinningBids, compVars
<1>2. CASE \E c \in Comp : /\ comps[c] = "none" /\ comps' = [comps EXCEPT ![c] = "open"]
                           /\ automatic' \subseteq automatic \cup {c}
                           /\ UNCHANGED <<bidStatus, bidding, driverChat>>
  <2>1. CompTypes'
    BY <1>2 DEF CompInv, CompTypes
  <2>2. CompetitionSettles'
    BY <1>2, SettledKept
  <2> QED BY <2>1, <2>2 DEF CompInv
<1>3. ASSUME NEW b \in Bid, BeginBid(b) PROVE CompInv'
  BY <1>3 DEF BeginBid, CompInv, CompTypes, CompetitionSettles, WinningBids
<1>4. ASSUME NEW b \in Bid, InsertBid(b) PROVE CompInv'
  <2>1. CompTypes'
    BY <1>4 DEF InsertBid, CompInv, CompTypes
  <2>2. \A x \in Bid : bidStatus'[x] = "selected" <=> bidStatus[x] = "selected"
    BY <1>4 DEF InsertBid, CompInv, CompTypes
  <2>3. \A c \in Comp : WinningBids(c)' = WinningBids(c)
    BY <2>2 DEF WinningBids
  <2>4. CompetitionSettles'
    BY <1>4, <2>3 DEF InsertBid, CompInv, CompetitionSettles
  <2> QED BY <2>1, <2>4 DEF CompInv
<1>5. ASSUME NEW b \in Bid, SelectDriverBid(b) PROVE CompInv'
  BY <1>5, SelectSettles
<1> QED BY <1>1, <1>2, <1>3, <1>4, <1>5, CompSteps

\* The invariant of the competitions holds.
LEMMA CompHolds == Spec => []CompInv
<1>1. Init => CompInv
  BY DEF Init, CompInv, CompTypes, CompetitionSettles, WinningBids
<1> QED BY <1>1, CompStep, PTL DEF Spec

\* A closed competition has one winner and its chat, an open one neither, for
\* any number of saves, bids and selections.
THEOREM CompetitionsSettle == Spec => []CompetitionSettles
<1>1. CompInv => CompetitionSettles
  BY DEF CompInv
<1> QED BY <1>1, CompHolds, PTL

-----------------------------------------------------------------------------
(* The refinement.                                                         *)

Only(W) == IF W = {} THEN NoBid ELSE CHOOSE b \in Bid : b \in W
Winner == [c \in Comp |-> Only(WinningBids(c))]
Submitted == {b \in Bid : bidStatus[b] # "none"}
Revealed == {x \in Bid : x[2] \in driverChat[x[1]]}

\* A selection is the award of the bid.
LEMMA SelectAwards ==
    ASSUME CompInv, CompInv', NEW b \in Bid, SelectDriverBid(b)
    PROVE  Comps!Award(b)
<1> DEFINE c == b[1]
           d == b[2]
<1>0. c \in Comp /\ d \in Driver /\ b = <<c, d>> /\ Warehouse # d
  BY BidIsPair, DriversAreOthers
<1>1. WinningBids(c) = {} /\ driverChat[c] = {} /\ bidStatus[b] # "none"
  BY <1>0 DEF SelectDriverBid, MaySelect, CompInv, CompetitionSettles
<1>2. \A x \in Bid : bidStatus'[x] = "selected" <=> (x = b \/ bidStatus[x] = "selected")
  BY DEF SelectDriverBid, MarkBidSelected
<1>3. WinningBids(c)' = {b}
  BY <1>0, <1>1, <1>2 DEF WinningBids
<1>4. \A e \in Comp : e # c => WinningBids(e)' = WinningBids(e)
  BY <1>2 DEF WinningBids
<1>5. Winner[c] = NoBid
  BY <1>0, <1>1 DEF Winner, Only
<1>6. Winner' = [Winner EXCEPT ![c] = b]
  <2>1. Only({b}) = b
    BY DEF Only
  <2>2. Winner'[c] = b
    BY <1>0, <1>3, <2>1 DEF Winner
  <2>3. \A e \in Comp : e # c => Winner'[e] = Winner[e]
    BY <1>4 DEF Winner
  <2>4. Winner' = [e \in Comp |-> Winner'[e]] /\ Winner = [e \in Comp |-> Winner[e]]
    BY DEF Winner
  <2> HIDE DEF c
  <2> QED BY <1>0, <2>2, <2>3, <2>4
<1>7. Submitted' = Submitted
  BY <1>1 DEF Submitted, SelectDriverBid, MarkBidSelected
<1>8. Revealed' = Revealed \cup {<<c, d>>}
  <2>1. driverChat'[c] = {Warehouse, d} /\ \A e \in Comp : e # c => driverChat'[e] = driverChat[e]
    BY <1>0, <1>1 DEF SelectDriverBid, CompInv, CompTypes
  <2>2. \A x \in Bid : x \in Revealed' <=> x \in Revealed \/ x = b
    <3> SUFFICES ASSUME NEW x \in Bid PROVE x \in Revealed' <=> x \in Revealed \/ x = b
      OBVIOUS
    <3>1. x[1] \in Comp /\ x[2] \in Driver /\ x = <<x[1], x[2]>> /\ x[2] # Warehouse
      BY BidIsPair, DriversAreOthers
    <3>2. CASE x[1] = c
      BY <1>0, <1>1, <2>1, <3>1, <3>2 DEF Revealed
    <3>3. CASE x[1] # c
      BY <1>0, <2>1, <3>1, <3>3 DEF Revealed
    <3> QED BY <3>2, <3>3
  <2> QED BY <1>0, <2>2 DEF Revealed
<1>9. b \in Submitted
  BY <1>1 DEF Submitted
<1>10. [x \in Bid |-> x[1]][b] = c /\ [x \in Bid |-> x[2]][b] = d
  OBVIOUS
<1> QED
  BY <1>5, <1>6, <1>7, <1>8, <1>9, <1>10
  DEF Comps!Award, Winner, Only, Submitted, Revealed

\* An INSERT submits a bid, unless the driver has one already.
LEMMA InsertSubmits ==
    ASSUME CompInv, NEW b \in Bid, InsertBid(b)
    PROVE  Comps!Submit(b) \/ UNCHANGED Comps!compVars
<1>1. bidStatus' = [bidStatus EXCEPT ![b] = IF @ = "none" THEN "submitted" ELSE @]
      /\ UNCHANGED driverChat /\ bidStatus \in [Bid -> {"none", "submitted", "selected", "rejected"}]
  BY DEF InsertBid, CompInv, CompTypes
<1>2. Submitted' = Submitted \cup {b}
  BY <1>1 DEF Submitted
<1>3. \A c \in Comp : WinningBids(c)' = WinningBids(c)
  BY <1>1 DEF WinningBids
<1>4. Winner' = Winner
  BY <1>3 DEF Winner
<1>5. Revealed' = Revealed
  BY <1>1 DEF Revealed
<1> QED BY <1>2, <1>4, <1>5 DEF Comps!Submit, Winner, Only, Submitted, Revealed

\* Every driver competition implements the abstract one: one winner, which
\* stays, and whose driver alone is revealed.
THEOREM DriverCompetitionsImplement == Spec => ImplementsCompetition
<1>1. Init => Comps!Init
  <2> SUFFICES ASSUME Init PROVE Comps!Init
    OBVIOUS
  <2>1. \A c \in Comp : WinningBids(c) = {}
    BY DEF Init, WinningBids
  <2>2. Winner = [c \in Comp |-> NoBid]
    BY <2>1 DEF Winner, Only
  <2>3. Submitted = {}
    BY DEF Init, Submitted
  <2>4. Revealed = {}
    BY BidIsPair DEF Init, Revealed
  <2> QED BY <2>2, <2>3, <2>4 DEF Comps!Init, Winner, Only, Submitted, Revealed
<1>2. CompInv /\ CompInv' /\ [Next]_vars => [Comps!Next]_(Comps!compVars)
  <2> SUFFICES ASSUME CompInv, CompInv', [Next]_vars
               PROVE  [Comps!Next]_(Comps!compVars)
    OBVIOUS
  <2>1. ASSUME UNCHANGED <<bidStatus, driverChat>> PROVE UNCHANGED Comps!compVars
    BY <2>1 DEF Comps!compVars, WinningBids
  <2>2. ASSUME NEW b \in Bid, SelectDriverBid(b) PROVE Comps!Next
    BY <2>2, SelectAwards DEF Comps!Next
  <2>3. ASSUME NEW b \in Bid, InsertBid(b) PROVE [Comps!Next]_(Comps!compVars)
    BY <2>3, InsertSubmits DEF Comps!Next
  <2>4. ASSUME NEW b \in Bid, BeginBid(b) PROVE UNCHANGED <<bidStatus, driverChat>>
    BY <2>4 DEF BeginBid
  <2> QED BY <2>1, <2>2, <2>3, <2>4, CompSteps DEF compVars
<1> QED
  BY <1>1, <1>2, CompHolds, PTL DEF Spec, ImplementsCompetition, Comps!Spec

-----------------------------------------------------------------------------
(* The saves, any number of them.                                          *)

Statement == {"idle", "checkOpen", "announce", "dispatch", "checkActive",
              "list", "create", "openChat", "addMember", "joinClient"}
Building == {"openChat", "addMember", "joinClient"}

SaveTypes ==
    /\ pc \in [Saver -> Statement]
    /\ todo \in [Saver -> SUBSET Cargo]
    /\ batch \in [Saver -> Batch \cup {"none"}]
    /\ \A s \in Saver : pc[s] \in Building <=> batch[s] # "none"

BatchTypes ==
    /\ threshold \in {"none", "below", "reached"} /\ deals \subseteq Cargo
    /\ batches \in [Batch -> {"none", "active", "dispatched"}]
    /\ members \in [Batch -> SUBSET Cargo]
    /\ batchChat \in [Batch -> SUBSET ({Warehouse} \cup {ClientOf[k] : k \in Cargo})]
    /\ torn \subseteq Batch /\ interrupted \in BOOLEAN

\* What a step may do to the batches and the saves.
LEMMA SaveSteps ==
    ASSUME [Next]_vars
    PROVE  \/ /\ UNCHANGED <<batchVars, saveVars, lossVars>>
              /\ threshold' \in {threshold, "none"}
              /\ \E K \in SUBSET Cargo : deals' = deals \cup K
           \/ \E s \in Saver : Save(s) \/ Abort(s)
<1>1. Contested \X Driver \subseteq Bid
  BY ContestedType DEF Bid
<1>2. deals = deals \cup {}
  OBVIOUS
<1>3. \A k \in Cargo : {k} \in SUBSET Cargo
  OBVIOUS
<1> QED
  BY <1>1, <1>2, <1>3
  DEF Next, vars, Match, CreateDriverCompetition, BeginBid, InsertBid, SelectDriverBid,
      DeleteRouteDispatchThreshold

\* A save that ends, or is lost, forgets its batch.
LEMMA FinishTypes ==
    ASSUME SaveTypes, NEW s \in Saver, Finish(s)
    PROVE  SaveTypes'
BY DEF SaveTypes, Finish, Building, Statement

\* A save that goes on has a batch exactly while it builds one.
LEMMA GotoTypes ==
    ASSUME SaveTypes, NEW s \in Saver, NEW to \in Statement, pc' = [pc EXCEPT ![s] = to],
           batch' \in [Saver -> Batch \cup {"none"}],
           \A t \in Saver : t # s => batch'[t] = batch[t],
           to \in Building <=> batch'[s] # "none",
           todo' \in [Saver -> SUBSET Cargo]
    PROVE  SaveTypes'
BY DEF SaveTypes, Statement

\* Every statement of a save keeps the types.
LEMMA StatementTypes ==
    ASSUME SaveTypes, BatchTypes, NEW s \in Saver, Save(s) \/ Abort(s)
    PROVE  SaveTypes' /\ BatchTypes'
<1> USE DEF SaveTypes, BatchTypes, Goto, Statement, Building, lossVars, batchVars
<1>1. CASE Upsert(s)
  <2>1. PICK to \in {"dispatch", "checkOpen", "checkActive"} : Goto(s, "idle", to)
    BY <1>1 DEF Upsert
  <2>2. SaveTypes'
    BY <1>1, <2>1, GotoTypes DEF Upsert
  <2> QED BY <1>1, <2>2 DEF Upsert
<1>2. CASE CheckOpen(s)
  <2>1. PICK to \in {"checkActive", "announce"} : Goto(s, "checkOpen", to)
    BY <1>2 DEF CheckOpen
  <2>2. SaveTypes'
    BY <1>2, <2>1, GotoTypes DEF CheckOpen
  <2> QED BY <1>2, <2>2 DEF CheckOpen
<1>3. CASE Announce(s)
  <2>1. SaveTypes'
    BY <1>3, GotoTypes DEF Announce
  <2> QED BY <1>3, <2>1 DEF Announce
<1>4. CASE Dispatch(s)
  <2>1. SaveTypes'
    BY <1>4, FinishTypes DEF Dispatch
  <2> QED BY <1>4, <2>1 DEF Dispatch
<1>5. CASE CheckActive(s)
  <2>1. SaveTypes'
    BY <1>5, GotoTypes, FinishTypes DEF CheckActive
  <2> QED BY <1>5, <2>1 DEF CheckActive
<1>6. CASE ListCandidates(s)
  <2>1. BatchCandidates \subseteq Cargo
    BY DEF BatchCandidates
  <2>2. SaveTypes'
    BY <1>6, <2>1, GotoTypes, FinishTypes DEF ListCandidates
  <2> QED BY <1>6, <2>2 DEF ListCandidates
<1>7. CASE CreateBatch(s)
  <2>1. PICK b \in Batch : batches' = [batches EXCEPT ![b] = "active"]
                           /\ batch' = [batch EXCEPT ![s] = b]
    BY <1>7 DEF CreateBatch
  <2>2. SaveTypes'
    BY <1>7, <2>1, GotoTypes, NoneIsNew DEF CreateBatch
  <2> QED BY <1>7, <2>1, <2>2 DEF CreateBatch
<1>8. CASE OpenChat(s)
  <2>1. SaveTypes'
    BY <1>8, GotoTypes DEF OpenChat
  <2> QED BY <1>8, <2>1 DEF OpenChat
<1>9. CASE AddMember(s)
  <2>1. SaveTypes'
    BY <1>9, GotoTypes DEF AddMember
  <2> QED BY <1>9, <2>1 DEF AddMember
<1>10. CASE JoinClient(s)
  <2>1. SaveTypes'
    BY <1>10, GotoTypes, FinishTypes DEF JoinClient
  <2> QED BY <1>10, <2>1 DEF JoinClient, NewClient
<1>11. CASE Abort(s)
  <2>1. SaveTypes'
    BY <1>11, FinishTypes DEF Abort
  <2> QED BY <1>11, <2>1 DEF Abort
<1> QED
  BY <1>1, <1>2, <1>3, <1>4, <1>5, <1>6, <1>7, <1>8, <1>9, <1>10, <1>11 DEF Save

\* The types of saves and batches hold.
LEMMA TypesHold == Spec => [](SaveTypes /\ BatchTypes)
<1>1. Init => SaveTypes /\ BatchTypes
  <2>1. Init => SaveTypes
    <3> SUFFICES ASSUME Init PROVE SaveTypes
      OBVIOUS
    <3>1. pc \in [Saver -> Statement] /\ \A s \in Saver : pc[s] = "idle" /\ batch[s] = "none"
      BY DEF Init, Statement
    <3> QED BY <3>1 DEF Init, SaveTypes, Building
  <2>2. Init => BatchTypes
    <3> SUFFICES ASSUME Init PROVE BatchTypes
      OBVIOUS
    <3>1. batchChat \in [Batch -> SUBSET ({Warehouse} \cup {ClientOf[k] : k \in Cargo})]
      BY DEF Init
    <3> QED BY <3>1 DEF Init, BatchTypes
  <2> QED BY <2>1, <2>2
<1>2. SaveTypes /\ BatchTypes /\ [Next]_vars => SaveTypes' /\ BatchTypes'
  <2> SUFFICES ASSUME SaveTypes, BatchTypes, [Next]_vars PROVE SaveTypes' /\ BatchTypes'
    OBVIOUS
  <2>1. CASE /\ UNCHANGED <<batchVars, saveVars, lossVars>>
             /\ threshold' \in {threshold, "none"}
             /\ \E K \in SUBSET Cargo : deals' = deals \cup K
    BY <2>1 DEF SaveTypes, BatchTypes, batchVars, saveVars, lossVars
  <2> QED BY <2>1, SaveSteps, StatementTypes
<1> QED BY <1>1, <1>2, PTL DEF Spec

\* Type correctness, for any number of saves at a time.
THEOREM TypeCorrect == Spec => []DispatchTypeOK
<1>1. CompInv /\ SaveTypes /\ BatchTypes => DispatchTypeOK
  BY DEF CompInv, CompTypes, SaveTypes, BatchTypes, DispatchTypeOK, Statement, Building
<1> QED BY <1>1, CompHolds, TypesHold, PTL

-----------------------------------------------------------------------------
(* The batches, any number of saves at a time.                             *)

Clients(K) == {ClientOf[k] : k \in K}
Complete(b, K) == batchChat[b] = {Warehouse} \cup Clients(K)

\* What is there of the batch that save s builds.
Built(s) ==
    /\ batches[batch[s]] # "none" /\ todo[s] # {}
    /\ pc[s] = "openChat" => members[batch[s]] = {}
    /\ pc[s] = "addMember" => /\ members[batch[s]] \cap todo[s] = {}
                              /\ Complete(batch[s], members[batch[s]])
    /\ pc[s] = "joinClient" =>
          \E k \in members[batch[s]] :
              /\ members[batch[s]] \cap todo[s] = {k}
              /\ Complete(batch[s], members[batch[s]] \ {k})

BuildInv ==
    /\ \A s \in Saver : /\ pc[s] \in Building => Built(s) /\ batch[s] \notin torn
                        /\ pc[s] = "create" => todo[s] # {}
    /\ \A s, t \in Saver : batch[s] # "none" /\ batch[s] = batch[t] => s = t
    /\ \A b \in Batch : batches[b] = "none" => members[b] = {} /\ b \notin torn
    /\ BatchIsWhole

\* A batch that a step leaves alone.
SameBatch(b) == /\ members'[b] = members[b] /\ batchChat'[b] = batchChat[b]
                /\ batches'[b] = "none" <=> batches[b] = "none"
                /\ b \in torn' <=> b \in torn

\* A step of save s keeps the invariant when it touches no batch but its own,
\* a new one is nobody else's, and the one it lets go is whole or torn.
LEMMA OwnBatchOnly ==
    ASSUME SaveTypes, SaveTypes', BuildInv, NEW s \in Saver, NEW own, own = batch[s],
           \A t \in Saver : t # s =>
               pc'[t] = pc[t] /\ batch'[t] = batch[t] /\ todo'[t] = todo[t],
           \A b \in Batch : b # own /\ b # batch'[s] => SameBatch(b),
           batch'[s] # own /\ batch'[s] # "none" => batches[batch'[s]] = "none",
           pc'[s] \in Building => Built(s)' /\ batch'[s] \notin torn',
           pc'[s] = "create" => todo'[s] # {},
           own # "none" => batches'[own] # "none",
           own # "none" /\ batch'[s] # own =>
               \/ own \in torn'
               \/ members'[own] # {} /\ Complete(own, members[own])'
    PROVE  BuildInv'
<1>1. \A t \in Saver : batch[t] # "none" => batches[batch[t]] # "none" /\ pc[t] \in Building
  BY DEF BuildInv, Built, SaveTypes
<1>2. \A t \in Saver : batch'[t] # "none" => pc'[t] \in Building /\ batch'[t] \in Batch
  BY DEF SaveTypes
<1>3. ASSUME NEW t \in Saver, t # s, batch[t] # "none"
      PROVE  batch[t] # batch[s] /\ batch[t] # batch'[s] /\ batch[t] \in Batch
  BY <1>1, <1>3 DEF BuildInv, SaveTypes
<1>4. ASSUME NEW t \in Saver, t # s, pc[t] \in Building
      PROVE  Built(t)' /\ batch'[t] \notin torn'
  <2>1. batch[t] # "none" /\ batch'[t] = batch[t] /\ pc'[t] = pc[t] /\ todo'[t] = todo[t]
    BY <1>4 DEF SaveTypes
  <2>2. SameBatch(batch[t])
    BY <1>3, <1>4, <2>1
  <2>3. Built(t) /\ batch[t] \notin torn
    BY <1>4 DEF BuildInv
  <2> QED BY <2>1, <2>2, <2>3 DEF Built, Complete, Clients, SameBatch
<1>5. \A t \in Saver : /\ pc'[t] \in Building => Built(t)' /\ batch'[t] \notin torn'
                       /\ pc'[t] = "create" => todo'[t] # {}
  BY <1>4 DEF BuildInv
<1>6. \A t, u \in Saver : batch'[t] # "none" /\ batch'[t] = batch'[u] => t = u
  BY <1>1, <1>3 DEF BuildInv
<1>7. \A b \in Batch : batches'[b] = "none" => members'[b] = {} /\ b \notin torn'
  <2> SUFFICES ASSUME NEW b \in Batch, batches'[b] = "none"
               PROVE  members'[b] = {} /\ b \notin torn'
    OBVIOUS
  <2>1. b # batch[s]
    BY NoneIsNew
  <2>2. b # batch'[s]
    BY <1>2, <1>5, NoneIsNew DEF Built
  <2> QED BY <2>1, <2>2 DEF BuildInv, SameBatch
<1>8. BatchIsWhole'
  <2> SUFFICES ASSUME NEW b \in Batch, b \notin torn', batches'[b] # "none",
                      \A t \in Saver : batch'[t] # b
               PROVE  members'[b] # {} /\ Complete(b, members[b])'
    BY DEF BatchIsWhole, Complete, Clients
  <2>1. CASE b = batch[s]
    BY <2>1, NoneIsNew DEF Complete, Clients
  <2>2. CASE b # batch[s]
    <3>1. SameBatch(b)
      BY <2>2
    <3>2. \A t \in Saver : batch[t] # b
      BY <2>2
    <3>3. members[b] # {} /\ Complete(b, members[b])
      BY <3>1, <3>2 DEF BuildInv, BatchIsWhole, SameBatch, Complete, Clients
    <3> QED BY <3>1, <3>3 DEF SameBatch, Complete, Clients
  <2> QED BY <2>1, <2>2
<1> QED BY <1>5, <1>6, <1>7, <1>8 DEF BuildInv

\* Every statement of a save keeps the invariant of the batches.
LEMMA StatementBuilds ==
    ASSUME SaveTypes, BatchTypes, SaveTypes', BuildInv,
           NEW s \in Saver, Save(s) \/ Abort(s)
    PROVE  BuildInv'
<1> USE DEF Goto, Building
<1>0. s \in Saver /\ pc[s] \in Statement /\ pc \in [Saver -> Statement]
      /\ batch \in [Saver -> Batch \cup {"none"}] /\ todo \in [Saver -> SUBSET Cargo]
  BY DEF SaveTypes
<1>1. ASSUME UNCHANGED <<batchVars, saveVars, lossVars>> PROVE BuildInv'
  BY <1>1 DEF BuildInv, Built, Complete, Clients, BatchIsWhole, batchVars, saveVars, lossVars
<1>2. ASSUME UNCHANGED <<batchVars, batch, todo, lossVars>>,
             pc[s] \notin Building, NEW to \in Statement, pc' = [pc EXCEPT ![s] = to],
             to \notin Building \cup {"create"}
      PROVE  BuildInv'
  BY <1>0, <1>2, OwnBatchOnly DEF SameBatch, batchVars, lossVars, SaveTypes
<1>3. CASE Upsert(s)
  <2>1. PICK to \in {"dispatch", "checkOpen", "checkActive"} : Goto(s, "idle", to)
    BY <1>3 DEF Upsert
  <2> QED BY <1>2, <1>3, <2>1 DEF Upsert, Statement
<1>4. CASE CheckOpen(s)
  <2>1. PICK to \in {"checkActive", "announce"} : Goto(s, "checkOpen", to)
    BY <1>4 DEF CheckOpen
  <2> QED BY <1>2, <1>4, <2>1 DEF CheckOpen, Statement
<1>5. CASE Announce(s)
  BY <1>2, <1>5 DEF Announce, Statement
<1>6. ASSUME Finish(s), UNCHANGED <<members, batchChat, torn>>, pc[s] \notin Building,
             \A b \in Batch : batches'[b] = "none" <=> batches[b] = "none"
      PROVE  BuildInv'
  BY <1>0, <1>6, OwnBatchOnly DEF Finish, SameBatch, SaveTypes
<1>7. CASE Dispatch(s)
  BY <1>6, <1>7 DEF Dispatch, BatchTypes
<1>8. CASE CheckActive(s)
  BY <1>2, <1>6, <1>8 DEF CheckActive, Statement, batchVars, lossVars
<1>9. CASE ListCandidates(s)
  <2>1. CASE BatchCandidates = {}
    BY <1>6, <1>9, <2>1 DEF ListCandidates, batchVars, lossVars
  <2>2. CASE BatchCandidates # {}
    BY <1>0, <1>9, <2>2, OwnBatchOnly DEF ListCandidates, SameBatch, SaveTypes, batchVars, lossVars
  <2> QED BY <2>1, <2>2
<1>10. CASE CreateBatch(s)
  <2>1. PICK b \in Batch : /\ batches[b] = "none" /\ batches' = [batches EXCEPT ![b] = "active"]
                           /\ batch' = [batch EXCEPT ![s] = b]
    BY <1>10 DEF CreateBatch
  <2>2. batch[s] = "none" /\ batch'[s] = b /\ b # "none"
    BY <1>0, <1>10, <2>1, NoneIsNew DEF CreateBatch, SaveTypes
  <2>3. members[b] = {} /\ b \notin torn /\ todo[s] # {}
    BY <1>10, <2>1 DEF BuildInv, CreateBatch
  <2>4. Built(s)' /\ batch'[s] \notin torn'
    BY <1>0, <1>10, <2>1, <2>2, <2>3 DEF CreateBatch, Built, BatchTypes, lossVars
  <2>5. \A d \in Batch : d # b => SameBatch(d)
    BY <1>10, <2>1 DEF CreateBatch, SameBatch, BatchTypes, lossVars
  <2> QED
    BY <1>0, <1>10, <2>1, <2>2, <2>4, <2>5, OwnBatchOnly DEF CreateBatch, SaveTypes
<1>11. ASSUME pc[s] \in Building
       PROVE  /\ batch[s] \in Batch /\ Built(s) /\ batch[s] \notin torn
  BY <1>11 DEF SaveTypes, BuildInv
<1>12. CASE OpenChat(s)
  <2> DEFINE own == batch[s]
  <2>1. own \in Batch /\ own \notin torn /\ members[own] = {} /\ Built(s)
    BY <1>11, <1>12 DEF OpenChat, Built
  <2>2. UNCHANGED <<batches, members, batch, todo, torn>> /\ pc'[s] = "addMember"
    BY <1>0, <1>12 DEF OpenChat, lossVars
  <2>3. batchChat'[own] = {Warehouse} \cup Clients({})
    BY <1>12, <2>1 DEF OpenChat, BatchTypes, Clients
  <2>4. Built(s)' /\ batch'[s] \notin torn'
    BY <2>1, <2>2, <2>3 DEF Built, Complete
  <2>5. \A d \in Batch : d # own => SameBatch(d)
    BY <1>12 DEF OpenChat, SameBatch, BatchTypes, lossVars
  <2> QED BY <1>0, <1>12, <2>1, <2>2, <2>4, <2>5, OwnBatchOnly DEF OpenChat, Built
<1>13. CASE AddMember(s)
  <2> DEFINE own == batch[s]
  <2>1. /\ own \in Batch /\ own \notin torn /\ Built(s)
        /\ members[own] \cap todo[s] = {} /\ Complete(own, members[own])
    BY <1>11, <1>13 DEF AddMember, Built
  <2>2. UNCHANGED <<batches, batchChat, batch, todo, torn>> /\ pc'[s] = "joinClient"
    BY <1>0, <1>13 DEF AddMember, lossVars
  <2>3. PICK k \in todo[s] : members' = [members EXCEPT ![own] = @ \cup {k}]
    BY <1>13 DEF AddMember
  <2>4. members'[own] = members[own] \cup {k}
    BY <2>1, <2>3 DEF BatchTypes
  <2>5. members'[own] \cap todo[s] = {k} /\ members'[own] \ {k} = members[own]
    BY <2>1, <2>3, <2>4
  <2>6. Built(s)' /\ batch'[s] \notin torn'
    BY <2>1, <2>2, <2>4, <2>5 DEF Built, Complete
  <2>7. \A d \in Batch : d # own => SameBatch(d)
    BY <1>13, <2>3 DEF AddMember, SameBatch, BatchTypes, lossVars
  <2> QED BY <1>0, <1>13, <2>1, <2>2, <2>6, <2>7, OwnBatchOnly DEF AddMember, Built
<1>14. CASE JoinClient(s)
  <2>1. PICK own \in Batch : own = batch[s] /\ own \notin torn /\ Built(s)
    BY <1>11, <1>14 DEF JoinClient
  <2>2. UNCHANGED <<batches, members, torn>>
    BY <1>14 DEF JoinClient, lossVars
  <2>3. PICK k \in todo[s] \cap members[own] :
          /\ batchChat' = [batchChat EXCEPT ![own] = @ \cup NewClient(own, k)]
          /\ \/ /\ todo[s] # {k}
                /\ Goto(s, "joinClient", "addMember")
                /\ todo' = [todo EXCEPT ![s] = @ \ {k}]
                /\ UNCHANGED batch
             \/ todo[s] = {k} /\ Finish(s)
    BY <1>14, <2>1 DEF JoinClient
  <2>4. members[own] \cap todo[s] = {k} /\ Complete(own, members[own] \ {k})
    <3>1. PICK j \in members[own] : /\ members[own] \cap todo[s] = {j}
                                    /\ Complete(own, members[own] \ {j})
      BY <1>14, <2>1 DEF JoinClient, Built
    <3>2. j = k
      BY <2>3, <3>1
    <3> QED BY <3>1, <3>2
  <2>5. batchChat'[own] = {Warehouse} \cup Clients(members[own])
    <3>1. batchChat'[own] = batchChat[own] \cup {ClientOf[k]}
      BY <2>1, <2>3 DEF NewClient, BatchTypes
    <3>2. Clients(members[own]) = Clients(members[own] \ {k}) \cup {ClientOf[k]}
      BY <2>3 DEF Clients
    <3> QED BY <2>4, <3>1, <3>2 DEF Complete
  <2>6. \A d \in Batch : d # own => SameBatch(d)
    BY <2>2, <2>3 DEF SameBatch, BatchTypes
  <2>7. members'[own] # {} /\ Complete(own, members[own])'
    BY <2>2, <2>3, <2>5 DEF Complete, Clients
  <2>8. \A t \in Saver : t # s =>
            pc'[t] = pc[t] /\ batch'[t] = batch[t] /\ todo'[t] = todo[t]
    BY <1>0, <2>3 DEF Finish
  <2>9. CASE Finish(s)
    BY <1>0, <2>1, <2>2, <2>6, <2>7, <2>8, <2>9, OwnBatchOnly DEF Finish, Built
  <2>10. CASE /\ todo[s] # {k} /\ pc' = [pc EXCEPT ![s] = "addMember"]
              /\ todo' = [todo EXCEPT ![s] = @ \ {k}] /\ UNCHANGED batch
    <3>1. todo'[s] # {} /\ members[own] \cap todo'[s] = {} /\ pc'[s] = "addMember"
      BY <1>0, <2>3, <2>4, <2>10
    <3>2. Built(s)' /\ batch'[s] \notin torn'
      BY <2>1, <2>2, <2>5, <2>10, <3>1 DEF Built, Complete
    <3> QED BY <1>0, <2>1, <2>2, <2>6, <2>8, <2>10, <3>1, <3>2, OwnBatchOnly DEF Built
  <2> QED BY <2>3, <2>9, <2>10
<1>15. CASE Abort(s)
  <2>1. UNCHANGED batchVars /\ Finish(s) /\ torn' = torn \cup (Batch \cap {batch[s]})
    BY <1>15 DEF Abort
  <2>2. PICK own : own = batch[s]
    OBVIOUS
  <2>3. \A d \in Batch : d # own => SameBatch(d)
    BY <2>1, <2>2 DEF SameBatch, batchVars
  <2>4. own # "none" => own \in torn' /\ batches'[own] # "none"
    BY <1>0, <1>11, <2>1, <2>2 DEF SaveTypes, Built, batchVars
  <2>5. pc'[s] = "idle" /\ batch'[s] = "none"
    BY <1>0, <2>1 DEF Finish
  <2>6. \A t \in Saver : t # s =>
            pc'[t] = pc[t] /\ batch'[t] = batch[t] /\ todo'[t] = todo[t]
    BY <1>0, <2>1 DEF Finish
  <2>7. pc'[s] \notin Building /\ pc'[s] # "create"
    BY <2>5
  <2> QED BY <1>0, <2>2, <2>3, <2>4, <2>5, <2>6, <2>7, OwnBatchOnly
<1> QED
  BY <1>3, <1>4, <1>5, <1>7, <1>8, <1>9, <1>10, <1>12, <1>13, <1>14, <1>15 DEF Save

\* The invariant of the batches holds.
LEMMA BuildHolds == Spec => []BuildInv
<1>1. Init => BuildInv
  BY DEF Init, BuildInv, Building, BatchIsWhole
<1>2. SaveTypes /\ BatchTypes /\ SaveTypes' /\ BuildInv /\ [Next]_vars => BuildInv'
  <2> SUFFICES ASSUME SaveTypes, BatchTypes, SaveTypes', BuildInv, [Next]_vars
               PROVE  BuildInv'
    OBVIOUS
  <2>1. CASE UNCHANGED <<batchVars, saveVars, lossVars>>
    BY <2>1 DEF BuildInv, Built, Complete, Clients, BatchIsWhole,
                batchVars, saveVars, lossVars
  <2> QED BY <2>1, SaveSteps, StatementBuilds
<1> QED BY <1>1, <1>2, TypesHold, PTL DEF Spec

\* A batch whose save was not lost is complete, its chat having the warehouse
\* and exactly its clients, for any number of saves at a time: no save touches
\* the batch of another.
THEOREM BatchesAreWhole == Spec => []BatchIsWhole
<1>1. BuildInv => BatchIsWhole
  BY DEF BuildInv
<1> QED BY <1>1, BuildHolds, PTL

-----------------------------------------------------------------------------
(* One save at a time: what each save read still holds when it is used.    *)

OneSave == \A s, t \in Saver : s = t

\* Between the check and the INSERT of a batch no other becomes active.
CheckHolds == \A s \in Saver : pc[s] \in {"list", "create"} => ~HasActiveForRoute

\* A candidate is in no batch but the one that is being filled.
CandidatesFree ==
    \A s \in Saver : \A b \in Batch : todo[s] \cap members[b] # {} => b = batch[s]

\* Below the threshold, only a save that has not dispatched yet, or was lost
\* before it could, leaves a batch active.
BelowDispatches ==
    /\ \A s \in Saver : pc[s] \notin {"idle", "dispatch"} => threshold # "below"
    /\ (threshold = "below" /\ ~interrupted /\ HasActiveForRoute) =>
          \E s \in Saver : pc[s] = "dispatch"

SerialInv == /\ OneActiveBatch /\ CheckHolds
             /\ CargoTravelsOnce /\ CandidatesFree
             /\ BelowDispatches

\* Statements that write nothing but a threshold and where a save stands.
LEMMA ReadsKeepSerial ==
    ASSUME OneSave, SaveTypes, BatchTypes, SerialInv, NEW s \in Saver,
           Upsert(s) \/ CheckOpen(s) \/ Announce(s) \/ CheckActive(s)
    PROVE  SerialInv'
<1> USE DEF Goto, Finish, batchVars, lossVars, SaveTypes, BatchTypes
<1>1. UNCHANGED <<batches, members, interrupted>>
  BY DEF Upsert, CheckOpen, Announce, CheckActive
<1>2. OneActiveBatch' /\ CargoTravelsOnce' /\ (HasActiveForRoute' <=> HasActiveForRoute)
  BY <1>1 DEF SerialInv, OneActiveBatch, CargoTravelsOnce, HasActiveForRoute
<1>3. todo'[s] \in {todo[s], {}} /\ (todo'[s] = {} \/ UNCHANGED batch)
  BY DEF Upsert, CheckOpen, Announce, CheckActive
<1>4. CandidatesFree'
  BY <1>1, <1>3 DEF OneSave, SerialInv, CandidatesFree
<1>5. CheckHolds'
  BY <1>2 DEF OneSave, SerialInv, CheckHolds, Upsert, CheckOpen, Announce, CheckActive
<1>6. BelowDispatches'
  BY <1>1, <1>2 DEF OneSave, SerialInv, BelowDispatches, Upsert, CheckOpen, Announce, CheckActive
<1> QED BY <1>2, <1>4, <1>5, <1>6 DEF SerialInv

\* Every statement of the only save keeps the invariant.
LEMMA StatementSerial ==
    ASSUME OneSave, SaveTypes, BatchTypes, SerialInv,
           NEW s \in Saver, Save(s) \/ Abort(s)
    PROVE  SerialInv'
<1> USE DEF Goto, batchVars, lossVars, SaveTypes, BatchTypes
<1>0. \A t \in Saver : t = s
  BY DEF OneSave
<1>1. CASE Dispatch(s)
  <2>1. UNCHANGED <<members, threshold>> /\ ~HasActiveForRoute'
    BY <1>1 DEF Dispatch, HasActiveForRoute
  <2>2. pc'[s] = "idle" /\ todo'[s] = {}
    BY <1>1 DEF Dispatch, Finish
  <2> QED
    BY <1>0, <2>1, <2>2 DEF SerialInv, OneActiveBatch, CheckHolds, CargoTravelsOnce,
                            CandidatesFree, BelowDispatches, HasActiveForRoute
<1>2. CASE ListCandidates(s)
  <2>1. /\ UNCHANGED <<batches, members, threshold, interrupted>>
        /\ pc[s] = "list" /\ pc'[s] \in {"create", "idle"} /\ todo'[s] \subseteq BatchCandidates
    BY <1>2 DEF ListCandidates, Finish
  <2>2. \A b \in Batch : todo'[s] \cap members[b] = {}
    BY <2>1 DEF BatchCandidates
  <2> QED
    BY <1>0, <2>1, <2>2 DEF SerialInv, OneActiveBatch, CheckHolds, CargoTravelsOnce,
                            CandidatesFree, BelowDispatches, HasActiveForRoute
<1>3. CASE CreateBatch(s)
  <2>1. PICK b \in Batch : batches[b] = "none" /\ batches' = [batches EXCEPT ![b] = "active"]
    BY <1>3 DEF CreateBatch
  <2>2. /\ UNCHANGED <<members, todo, threshold, interrupted>>
        /\ pc[s] = "create" /\ pc'[s] = "openChat"
    BY <1>3 DEF CreateBatch
  <2>3. ~HasActiveForRoute /\ threshold # "below"
    BY <2>2 DEF SerialInv, CheckHolds, BelowDispatches
  <2>4. \A d \in Batch : todo[s] \cap members[d] = {}
    BY <2>2, NoneIsNew DEF SerialInv, CandidatesFree, Building
  <2> QED
    BY <1>0, <2>1, <2>2, <2>3, <2>4
    DEF SerialInv, OneActiveBatch, CheckHolds, CargoTravelsOnce, CandidatesFree,
        BelowDispatches, HasActiveForRoute
<1>4. CASE AddMember(s)
  <2>1. PICK k \in todo[s] : members' = [members EXCEPT ![batch[s]] = @ \cup {k}]
    BY <1>4 DEF AddMember
  <2>2. /\ UNCHANGED <<batches, batch, todo, threshold, interrupted>>
        /\ pc[s] = "addMember" /\ pc'[s] = "joinClient"
    BY <1>4 DEF AddMember
  <2>3. PICK own \in Batch : own = batch[s]
    BY <2>2 DEF Building
  <2>4. \A d \in Batch : d # own => members'[d] = members[d] /\ todo[s] \cap members[d] = {}
    BY <2>1, <2>3 DEF SerialInv, CandidatesFree
  <2>5. members'[own] = members[own] \cup {k}
    BY <2>1, <2>3
  <2>6. CargoTravelsOnce'
    BY <2>1, <2>4, <2>5 DEF SerialInv, CargoTravelsOnce
  <2> QED
    BY <1>0, <2>2, <2>3, <2>4, <2>6
    DEF SerialInv, OneActiveBatch, CheckHolds, CandidatesFree, BelowDispatches,
        HasActiveForRoute
<1>5. ASSUME UNCHANGED <<batches, members, threshold>>,
             pc[s] # "idle", pc'[s] \in {"idle", "addMember"},
             todo'[s] \subseteq todo[s], todo'[s] = {} \/ UNCHANGED batch,
             IF pc[s] = "dispatch" THEN pc'[s] = "idle" /\ interrupted'
                                   ELSE UNCHANGED interrupted
      PROVE  SerialInv'
  BY <1>0, <1>5 DEF SerialInv, OneActiveBatch, CheckHolds, CargoTravelsOnce,
                    CandidatesFree, BelowDispatches, HasActiveForRoute
<1>6. CASE OpenChat(s)
  BY <1>5, <1>6 DEF OpenChat
<1>7. CASE JoinClient(s)
  <2>1. /\ UNCHANGED <<batches, members, threshold, interrupted>>
        /\ pc[s] = "joinClient" /\ pc'[s] \in {"idle", "addMember"}
    BY <1>7 DEF JoinClient, Finish
  <2>2. todo'[s] \subseteq todo[s] /\ (todo'[s] = {} \/ UNCHANGED batch)
    BY <1>7 DEF JoinClient, Finish
  <2> QED BY <1>5, <2>1, <2>2
<1>8. CASE Abort(s)
  <2>1. pc[s] # "idle" /\ Finish(s) /\ UNCHANGED <<batches, members, threshold>>
    BY <1>8 DEF Abort
  <2>2. IF pc[s] = "dispatch" THEN interrupted' ELSE UNCHANGED interrupted
    BY <1>8 DEF Abort
  <2>3. pc'[s] = "idle" /\ todo'[s] = {}
    BY <2>1 DEF Finish
  <2> QED BY <1>5, <2>1, <2>2, <2>3
<1> QED
  BY <1>1, <1>2, <1>3, <1>4, <1>6, <1>7, <1>8, ReadsKeepSerial DEF Save

\* The invariant of one save at a time holds.
LEMMA SerialHolds ==
    ASSUME OneSave
    PROVE  Spec => []SerialInv
<1>1. Init => SerialInv
  BY DEF Init, SerialInv, OneActiveBatch, CheckHolds, CargoTravelsOnce,
         CandidatesFree, BelowDispatches, HasActiveForRoute
<1>2. SaveTypes /\ BatchTypes /\ SerialInv /\ [Next]_vars => SerialInv'
  <2> SUFFICES ASSUME SaveTypes, BatchTypes, SerialInv, [Next]_vars
               PROVE  SerialInv'
    OBVIOUS
  <2>1. CASE /\ UNCHANGED <<batchVars, saveVars, lossVars>>
             /\ threshold' \in {threshold, "none"}
    BY <2>1 DEF SerialInv, OneActiveBatch, CheckHolds, CargoTravelsOnce, CandidatesFree,
                BelowDispatches, HasActiveForRoute, batchVars, saveVars, lossVars
  <2> QED BY <2>1, SaveSteps, StatementSerial
<1> QED BY <1>1, <1>2, TypesHold, PTL DEF Spec

\* Saving the threshold again never duplicates the batch, when the saves of a
\* route come one at a time; two at a time may both find none.
THEOREM SavesDoNotDuplicate ==
    ASSUME OneSave
    PROVE  Spec => []OneActiveBatch
<1>1. SerialInv => OneActiveBatch
  BY DEF SerialInv
<1> QED BY <1>1, SerialHolds, PTL

\* A cargo is never put into two batches, however saves are lost on the way.
THEOREM CargosTravelOnce ==
    ASSUME OneSave
    PROVE  Spec => []CargoTravelsOnce
<1>1. SerialInv => CargoTravelsOnce
  BY DEF SerialInv
<1> QED BY <1>1, SerialHolds, PTL

\* A batch waits below the threshold only while, or because, its dispatch is
\* still to be done.
THEOREM BatchesFollowThreshold ==
    ASSUME OneSave
    PROVE  Spec => []BatchFollowsThreshold
<1>1. SerialInv => BatchFollowsThreshold
  BY DEF SerialInv, BelowDispatches, BatchFollowsThreshold, HasActiveForRoute
<1> QED BY <1>1, SerialHolds, PTL
-----------------------------------------------------------------------------
(* The announcements, for one save at a time.                              *)

\* Between its check and its INSERT an announcement finds no open one; an
\* announced competition is never announced again, nor created by hand.
AutoInv ==
    /\ OneAutomatic
    /\ \A c \in automatic : comps[c] # "none"
    /\ \A s \in Saver : pc[s] = "announce" => \A c \in automatic : comps[c] # "open"

\* A bid or a selection announces nothing, and opens nothing.
LEMMA BidsKeepAuto ==
    ASSUME CompTypes, AutoInv, NEW b \in Bid,
           BeginBid(b) \/ InsertBid(b) \/ SelectDriverBid(b)
    PROVE  AutoInv'
<1>1. UNCHANGED <<automatic, pc>>
  BY DEF BeginBid, InsertBid, SelectDriverBid, saveVars
<1>2. \A c \in Comp : comps'[c] = comps[c] \/ comps'[c] = "closed"
  BY BidIsPair DEF BeginBid, InsertBid, SelectDriverBid, CompTypes
<1> QED BY <1>1, <1>2 DEF AutoInv, OneAutomatic, CompTypes

\* A competition created by hand is not an announced one.
LEMMA CreateKeepsAuto ==
    ASSUME CompTypes, AutoInv, NEW c \in Comp, CreateDriverCompetition(c)
    PROVE  AutoInv'
<1>1. c \notin automatic /\ UNCHANGED <<automatic, pc>>
  BY DEF CreateDriverCompetition, AutoInv, saveVars
<1>2. \A d \in automatic : comps'[d] = comps[d]
  BY <1>1 DEF CreateDriverCompetition, CompTypes
<1> QED BY <1>1, <1>2 DEF AutoInv, OneAutomatic

\* The only save announces a competition only when none is open.
LEMMA StatementAuto ==
    ASSUME OneSave, SaveTypes, CompTypes, AutoInv,
           NEW s \in Saver, Save(s) \/ Abort(s)
    PROVE  AutoInv'
<1> USE DEF Goto, Finish, SaveTypes, CompTypes
<1>0. \A t \in Saver : t = s
  BY DEF OneSave
<1>1. CASE Announce(s)
  <2>1. PICK c \in Comp : /\ comps[c] = "none" /\ comps' = [comps EXCEPT ![c] = "open"]
                          /\ automatic' = automatic \cup {c}
    BY <1>1 DEF Announce
  <2>2. \A d \in automatic : comps[d] # "open" /\ comps[d] # "none"
    BY <1>1 DEF Announce, AutoInv
  <2>3. \A d \in automatic' : comps'[d] # "none" /\ (comps'[d] = "open" => d = c)
    BY <2>1, <2>2
  <2>4. \A t \in Saver : pc'[t] # "announce"
    BY <1>0, <1>1 DEF Announce
  <2> QED BY <2>3, <2>4 DEF AutoInv, OneAutomatic
<1>2. CASE CheckOpen(s)
  <2>1. UNCHANGED <<comps, automatic>>
    BY <1>2 DEF CheckOpen, compVars
  <2>2. pc'[s] = "announce" => \A c \in Comp : comps[c] # "open"
    BY <1>2 DEF CheckOpen, HasOpenForRoute
  <2> QED BY <1>0, <2>1, <2>2 DEF AutoInv, OneAutomatic
<1>3. ASSUME UNCHANGED compVars, pc'[s] # "announce"
      PROVE  AutoInv'
  BY <1>0, <1>3 DEF AutoInv, OneAutomatic, compVars
<1>4. ASSUME ~Announce(s), ~CheckOpen(s)
      PROVE  UNCHANGED compVars /\ pc'[s] # "announce"
  BY <1>4 DEF Save, Upsert, Dispatch, CheckActive, ListCandidates, CreateBatch, OpenChat,
              AddMember, JoinClient, Abort
<1> QED BY <1>1, <1>2, <1>3, <1>4

\* The invariant of the announcements holds.
LEMMA AutoHolds ==
    ASSUME OneSave
    PROVE  Spec => []AutoInv
<1>1. Init => AutoInv
  BY DEF Init, AutoInv, OneAutomatic
<1>2. SaveTypes /\ CompInv /\ AutoInv /\ [Next]_vars => AutoInv'
  <2> SUFFICES ASSUME SaveTypes, CompTypes, AutoInv, [Next]_vars
               PROVE  AutoInv'
    BY DEF CompInv
  <2>1. CASE UNCHANGED <<comps, automatic, pc>>
    BY <2>1 DEF AutoInv, OneAutomatic
  <2>2. Contested \X Driver \subseteq Bid
    BY ContestedType DEF Bid
  <2>3. \/ UNCHANGED <<comps, automatic, pc>>
        \/ \E c \in Comp : CreateDriverCompetition(c)
        \/ \E b \in Bid : BeginBid(b) \/ InsertBid(b) \/ SelectDriverBid(b)
        \/ \E s \in Saver : Save(s) \/ Abort(s)
    BY <2>2 DEF Next, vars, Match, DeleteRouteDispatchThreshold, compVars, saveVars
  <2> QED BY <2>1, <2>3, CreateKeepsAuto, BidsKeepAuto, StatementAuto
<1> QED BY <1>1, <1>2, TypesHold, CompHolds, PTL DEF Spec

\* However often the threshold of a route is saved again, at most one of the
\* competitions it announced is open, when the saves come one at a time, and
\* whatever is created by hand, bid or selected meanwhile.
THEOREM AnnouncementsDoNotPile ==
    ASSUME OneSave
    PROVE  Spec => []OneAutomatic
<1>1. AutoInv => OneAutomatic
  BY DEF AutoInv
<1> QED BY <1>1, AutoHolds, PTL
=============================================================================
