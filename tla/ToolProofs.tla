----------------------------- MODULE ToolProofs -----------------------------
(***************************************************************************)
(* Proofs about Platform, for any accounts, tools, requests and limits:    *)
(* what staff, companies and employees may rely on, who holds which tools, *)
(* how many vehicles there are, and that lists and notifications follow    *)
(* one rule.  First what a step does to the requests, then to the          *)
(* accounts, then to the tools, the files and the notices.                 *)
(***************************************************************************)
EXTENDS Platform, FiniteSetTheorems, TLAPS

-----------------------------------------------------------------------------
(* The requests.                                                           *)

LEMMA TaskIsJob ==
    ASSUME NEW op \in AccountOps \cup ToolOps \cup SessionOps,
           NEW u \in User \cup {"none"}, NEW v \in User \cup {"none"},
           NEW ask \in SUBSET Tool, NEW rest \in SUBSET Tool
    PROVE  Task(op, u, v, ask, rest) \in Job
BY DEF Task, Job

LEMMA IdleIsJob == Idle \in Job
BY DEF Idle, Job

\* A request starts, goes on or ends: what happens to the jobs.
LEMMA Starting ==
    ASSUME job \in [Req -> Job], NEW q \in Req, NEW task \in Job, Start(q, task)
    PROVE  /\ job' \in [Req -> Job] /\ job'[q] = task /\ job[q] = Idle
           /\ \A p \in Req : p # q => job'[p] = job[p]
BY DEF Start

LEMMA Advancing ==
    ASSUME job \in [Req -> Job], NEW q \in Req,
           NEW op \in AccountOps \cup ToolOps \cup SessionOps, Advance(q, op)
    PROVE  /\ job' \in [Req -> Job]
           /\ job'[q] = [job[q] EXCEPT !.op = op] /\ job'[q].op = op
           /\ job'[q].user = job[q].user /\ job'[q].whom = job[q].whom
           /\ job'[q].ask = job[q].ask /\ job'[q].seen = job[q].seen
           /\ \A p \in Req : p # q => job'[p] = job[p]
BY DEF Advance, Job

LEMMA Finishing ==
    ASSUME job \in [Req -> Job], NEW q \in Req, NEW op, Finish(q, op)
    PROVE  /\ job' \in [Req -> Job] /\ job'[q] = Idle /\ job[q].op = op
           /\ \A p \in Req : p # q => job'[p] = job[p]
BY IdleIsJob DEF Finish

\* Nothing happens to the requests in the middle of one of the operations Ops.
Spares(Ops) == \A q \in Req :
    job[q].op \in Ops \/ job'[q].op \in Ops => job'[q] = job[q]

\* The steps of the accounts besides registration, whatever else they do.
AccountsStep ==
    \/ \E q \in Req, c \in Company, r \in Review : BeginReview(q, c, r)
    \/ \E q \in Req, r \in Review : WriteVerdict(q, r) \/ CommitReview(q, r)
    \/ \E u \in User : BlockUser(u) \/ UnblockUser(u)
    \/ \E q \in Req, u \in User, e \in Employee : BeginCreateEmployee(q, u, e)
    \/ \E q \in Req, u, e \in User, op \in {"block", "restore"} : BeginSetEmployee(q, u, e, op)
    \/ \E q \in Req : InsertEmployee(q)
    \/ \E q \in Req, op \in {"block", "restore"} : SetEmployeeStatus(q, op)

\* The steps that give tools, or that tools give.
ToolsStep ==
    \/ \E q \in Req : MyToolsStep(q) \/ StaffToolsStep(q)
    \/ (\E s \in PermSet : SetStep(s)) \/ FleetStep
    \/ \E t \in Volatile : UpdateTool(t)

LEMMA ToolStepsSpare ==
    ASSUME job \in [Req -> Job], ToolsTypeOK, ToolsStep
    PROVE  /\ UNCHANGED accountVars /\ job' \in [Req -> Job]
           /\ Spares(AccountOps \cup SessionOps)
<1> DEFINE Goal == /\ UNCHANGED accountVars /\ job' \in [Req -> Job]
                   /\ Spares(AccountOps \cup SessionOps)
<1>1. ASSUME NEW p \in Req, NEW u \in User, NEW op \in ToolOps,
             NEW ask \in SUBSET Tool, NEW gone \in SUBSET Tool,
             Start(p, Task(op, u, "none", ask, gone)), UNCHANGED accountVars
      PROVE  Goal
  <2>1. Task(op, u, "none", ask, gone) \in Job /\ Task(op, u, "none", ask, gone).op = op
    BY TaskIsJob DEF Task
  <2> QED BY <1>1, <2>1, Starting DEF Spares, Idle, ToolOps, AccountOps, SessionOps
<1>2. ASSUME NEW p \in Req, NEW op \in ToolOps, Finish(p, op), UNCHANGED accountVars
      PROVE  Goal
  BY <1>2, Finishing DEF Spares, Idle, ToolOps, AccountOps, SessionOps
<1>3. ASSUME NEW p \in Req, NEW task \in Job, task.op \in ToolOps \cup {"idle"},
             job[p].op \in ToolOps, job' = AfterDelete(p, task), UNCHANGED accountVars
      PROVE  Goal
  <2>1. ASSUME NEW r \in Req
        PROVE  /\ job'[r] \in Job
               /\ job'[r] # job[r] => job[r].op \in ToolOps /\ job'[r].op \in ToolOps \cup {"idle"}
    BY <1>3, <2>1 DEF AfterDelete, Job, ToolOps
  <2>2. job' = [r \in Req |-> job'[r]]
    BY <1>3 DEF AfterDelete
  <2> QED BY <1>3, <2>1, <2>2 DEF Spares, ToolOps, AccountOps, SessionOps
<1>4. ASSUME NEW q \in Req, NEW u \in Holder, NEW ask \in Choice, BeginMyTools(q, u, ask)
      PROVE  Goal
  BY <1>1, <1>4, BoundsType DEF BeginMyTools, ToolsTypeOK, ToolOps
<1>5. ASSUME NEW q \in Req, ClearTools(q)
      PROVE  Goal
  <2> DEFINE task == [job[q] EXCEPT !.op = "insert", !.seen = job[q].ask]
  <2>1. task \in Job /\ task.op \in ToolOps
    BY DEF Job, ToolOps
  <2> QED BY <1>3, <1>5, <2>1 DEF ClearTools, ToolOps
<1>6. ASSUME NEW q \in Req, NEW t \in Tool, InsertTool(q, t)
      PROVE  Goal
  <2>1. CASE job' = [job EXCEPT ![q] = Idle]
    BY <1>2, <1>6, <2>1 DEF InsertTool, Finish, ToolOps
  <2>2. CASE job' = [job EXCEPT ![q].seen = @ \ {t}]
    <3>1. job'[q] = [job[q] EXCEPT !.seen = @ \ {t}]
      BY <2>2
    <3>2. job'[q] \in Job /\ job'[q].op = job[q].op
      BY <3>1 DEF Job
    <3>3. job' \in [Req -> Job] /\ \A r \in Req : r # q => job'[r] = job[r]
      BY <2>2, <3>2
    <3> QED BY <1>6, <3>2, <3>3 DEF InsertTool, Spares, ToolOps, AccountOps, SessionOps
  <2> QED BY <1>6, <2>1, <2>2 DEF InsertTool
<1>7. ASSUME NEW q \in Req, EndMyTools(q)
      PROVE  Goal
  BY <1>2, <1>7 DEF EndMyTools, ToolOps
<1>8. ASSUME NEW p \in Req, NEW u \in Holder, NEW ask \in SUBSET Tool, BeginSetUserTools(p, u, ask)
      PROVE  Goal
  BY <1>1, <1>8, BoundsType DEF BeginSetUserTools, ToolsTypeOK, ToolOps
<1>9. ASSUME NEW q \in Req, CommitUserTools(q)
      PROVE  Goal
  <2>1. CASE job' = [job EXCEPT ![q] = Idle]
    BY <1>2, <1>9, <2>1 DEF CommitUserTools, Finish, ToolOps
  <2>2. CASE job' = AfterDelete(q, Idle)
    BY <1>3, <1>9, <2>2, IdleIsJob DEF CommitUserTools, Idle, ToolOps
  <2> QED BY <1>9, <2>1, <2>2 DEF CommitUserTools
<1>10. ASSUME NEW s \in PermSet, SetStep(s)
       PROVE  Goal
  <2>1. ASSUME NEW ask \in Choice, UpdatePermissionSet(s, ask)
        PROVE  Goal
    BY <2>1 DEF UpdatePermissionSet, Spares
  <2>2. ASSUME NEW p \in Req, NEW u \in Holder, BeginApplySet(p, u, s)
        PROVE  Goal
    <3>1. contents[s] \in SUBSET Tool
      BY DEF ToolsTypeOK
    <3> HIDE DEF Goal
    <3> QED BY <1>8, <2>2, <3>1 DEF BeginApplySet
  <2> QED BY <1>10, <2>1, <2>2 DEF SetStep
<1>11. CASE FleetStep
  <2>1. ASSUME NEW p \in Req, NEW u \in Owner, BeginAddVehicle(p, u)
        PROVE  Goal
    <3>1. /\ u \in User /\ {} \in SUBSET Tool /\ "vehicle" \in ToolOps
          /\ Start(p, Task("vehicle", u, "none", {}, {})) /\ UNCHANGED accountVars
      BY <2>1, BoundsType DEF BeginAddVehicle, ToolOps
    <3> HIDE DEF Goal
    <3> QED BY <1>1, <3>1
  <2>2. ASSUME NEW p \in Req, InsertVehicle(p)
        PROVE  Goal
    BY <1>2, <2>2 DEF InsertVehicle, ToolOps
  <2>3. ASSUME NEW u \in Owner, DeleteMyVehicle(u)
        PROVE  Goal
    BY <2>3 DEF DeleteMyVehicle, Spares
  <2> QED BY <1>11, <2>1, <2>2, <2>3 DEF FleetStep
<1>12. ASSUME NEW t \in Volatile, UpdateTool(t)
       PROVE  Goal
  BY <1>12 DEF UpdateTool, Spares
<1> HIDE DEF Goal
<1>13. ASSUME NEW q \in Req, MyToolsStep(q) \/ StaffToolsStep(q)
       PROVE  Goal
  BY <1>4, <1>5, <1>6, <1>7, <1>8, <1>9, <1>13, BoundsType DEF MyToolsStep, StaffToolsStep
<1> QED
  BY <1>10, <1>11, <1>12, <1>13 DEF ToolsStep, Goal

LEMMA SessionStepsSpare ==
    ASSUME job \in [Req -> Job], SessionStep
    PROVE  /\ UNCHANGED accountVars /\ job' \in [Req -> Job]
           /\ Spares(AccountOps \cup ToolOps)
<1> DEFINE Goal == /\ UNCHANGED accountVars /\ job' \in [Req -> Job]
                   /\ Spares(AccountOps \cup ToolOps)
<1>1. ASSUME NEW q \in Req, NEW u \in Online, NEW op \in SessionOps,
             Start(q, Credential(op, u)), UNCHANGED accountVars
      PROVE  Goal
  <2>1. Credential(op, u) \in Job /\ Credential(op, u).op = op
    BY TaskIsJob, OnlineType DEF Credential, Task
  <2> QED BY <1>1, <2>1, Starting DEF Spares, Idle, ToolOps, AccountOps, SessionOps
<1>2. ASSUME NEW q \in Req, NEW op \in SessionOps, Finish(q, op), UNCHANGED accountVars
      PROVE  Goal
  BY <1>2, Finishing DEF Spares, Idle, ToolOps, AccountOps, SessionOps
<1>3. ASSUME NEW q \in Req, NEW op \in SessionOps, Advance(q, op), job[q].op \in SessionOps,
             UNCHANGED accountVars
      PROVE  Goal
  <2>1. /\ job' \in [Req -> Job] /\ job'[q].op = op
        /\ \A p \in Req : p # q => job'[p] = job[p]
    BY <1>3, Advancing
  <2> QED BY <1>3, <2>1 DEF Spares, ToolOps, AccountOps, SessionOps
<1>4. ASSUME UNCHANGED <<job, accountVars>>
      PROVE  Goal
  BY <1>4 DEF Spares
<1>5. /\ "counted" \in SessionOps /\ "admitted" \in SessionOps /\ "sign" \in SessionOps
      /\ "store" \in SessionOps /\ "stamp" \in SessionOps
  BY DEF SessionOps
<1>6. ASSUME Restart
      PROVE  Goal
  <2>1. \A q \in Req : job[q].op \notin AccountOps \cup ToolOps
    BY <1>6 DEF Restart, AccountOps, ToolOps, SessionOps
  <2>2. job' = [q \in Req |-> Idle]
    BY <1>6 DEF Restart
  <2> QED BY <1>6, <2>1, <2>2, IdleIsJob DEF Restart, Spares, Idle, AccountOps, ToolOps
<1> HIDE DEF Goal
<1>7. ASSUME NEW q \in Req, NEW u \in Online, CountAttempts(q, u) \/ Authenticated(q, u)
      PROVE  Goal
  BY <1>1, <1>4, <1>5, <1>7 DEF CountAttempts, Authenticated
<1>8. ASSUME NEW q \in Req, RecordAttempt(q) \/ CheckRefresh(q) \/ StoreTouch(q)
      PROVE  Goal
  BY <1>3, <1>5, <1>8 DEF RecordAttempt, CheckRefresh, StoreTouch
<1>9. ASSUME NEW q \in Req, Login(q) \/ Refresh(q) \/ Refuse(q) \/ StampActivity(q)
      PROVE  Goal
  BY <1>2, <1>5, <1>9 DEF Login, Refresh, Refuse, StampActivity
<1>10. ASSUME CleanUp \/ Tick
       PROVE  Goal
  BY <1>4, <1>10 DEF CleanUp, Tick
<1> QED
  BY <1>6, <1>7, <1>8, <1>9, <1>10 DEF SessionStep, Goal

LEMMA AccountStepsSpare ==
    ASSUME job \in [Req -> Job], AccountsStep
    PROVE  job' \in [Req -> Job] /\ Spares(SessionOps) /\ Spares(ToolOps)
<1> DEFINE Goal == job' \in [Req -> Job] /\ Spares(SessionOps) /\ Spares(ToolOps)
<1>1. ASSUME NEW q \in Req, NEW u \in User, NEW v \in User \cup {"none"}, NEW op \in AccountOps,
             Start(q, Task(op, u, v, {}, {}))
      PROVE  Goal
  <2>1. Task(op, u, v, {}, {}) \in Job /\ Task(op, u, v, {}, {}).op = op
    BY TaskIsJob DEF Task
  <2> QED BY <1>1, <2>1, Starting DEF Spares, Idle, ToolOps, AccountOps, SessionOps
<1>2. ASSUME NEW q \in Req, NEW op \in AccountOps, Finish(q, op)
      PROVE  Goal
  BY <1>2, Finishing DEF Spares, Idle, ToolOps, AccountOps, SessionOps
<1>3. ASSUME NEW q \in Req, NEW op \in AccountOps, Advance(q, op), job[q].op \in AccountOps
      PROVE  Goal
  <2>1. /\ job' \in [Req -> Job] /\ job'[q].op = op
        /\ \A p \in Req : p # q => job'[p] = job[p]
    BY <1>3, Advancing
  <2> QED BY <1>3, <2>1 DEF Spares, ToolOps, AccountOps, SessionOps
<1>4. ASSUME UNCHANGED job
      PROVE  Goal
  BY <1>4 DEF Spares
<1>6. /\ Review \subseteq AccountOps /\ {"create", "block", "restore"} \subseteq AccountOps
      /\ \A r \in Review : Verdict(r) \in AccountOps
  BY DEF Review, AccountOps, Verdict
<1>7. Company \subseteq User /\ Employee \subseteq User
  BY DEF User
<1> HIDE DEF Goal
<1>8. ASSUME NEW q \in Req, NEW c \in Company, NEW r \in Review, BeginReview(q, c, r)
      PROVE  Goal
  BY <1>1, <1>6, <1>7, <1>8 DEF BeginReview
<1>9. ASSUME NEW q \in Req, NEW r \in Review, WriteVerdict(q, r) \/ CommitReview(q, r)
      PROVE  Goal
  BY <1>2, <1>3, <1>6, <1>9 DEF WriteVerdict, CommitReview
<1>10. ASSUME NEW u \in User, BlockUser(u) \/ UnblockUser(u)
       PROVE  Goal
  BY <1>4, <1>10 DEF BlockUser, UnblockUser, SetUserStatus
<1>11. ASSUME NEW q \in Req, NEW u \in User, NEW e \in Employee, BeginCreateEmployee(q, u, e)
       PROVE  Goal
  BY <1>1, <1>6, <1>7, <1>11 DEF BeginCreateEmployee
<1>12. ASSUME NEW q \in Req, NEW u \in User, NEW e \in User, NEW op \in {"block", "restore"},
              BeginSetEmployee(q, u, e, op)
       PROVE  Goal
  BY <1>1, <1>6, <1>12 DEF BeginSetEmployee
<1>13. ASSUME NEW q \in Req, NEW op \in {"block", "restore"},
              InsertEmployee(q) \/ SetEmployeeStatus(q, op)
       PROVE  Goal
  BY <1>2, <1>6, <1>13 DEF InsertEmployee, SetEmployeeStatus
<1> QED
  BY <1>8, <1>9, <1>10, <1>11, <1>12, <1>13 DEF AccountsStep, Goal

LEMMA AbortSpares ==
    ASSUME job \in [Req -> Job], NEW q \in Req, Abort(q)
    PROVE  /\ job' \in [Req -> Job] /\ Spares(SessionOps)
           /\ job'[q] = Idle /\ \A p \in Req : p # q => job'[p] = job[p]
BY IdleIsJob DEF Abort, Spares, Idle, ToolOps, AccountOps, SessionOps

\* Whatever happens, it is one of these.
LEMMA PlatformCases ==
    ASSUME [PlatformNext]_platformVars
    PROVE  \/ /\ \E c \in Company, ask \in SUBSET Tool : Register(c, ask) /\ RegisterSession(c)
              /\ FollowReaders /\ FollowWatchers /\ UNCHANGED uploadVars
           \/ AccountsStep /\ Follow /\ UNCHANGED toolVars
           \/ /\ ToolsStep \/ \E q \in Req : AbortJob(q)
              /\ FollowWatchers /\ UNCHANGED <<uploadVars, sessionVars, chatVars>>
           \/ /\ \/ NoticeStep
                 \/ UNCHANGED noticeVars
              /\ UNCHANGED <<accountVars, job, toolVars, uploadVars, sessionVars, chatVars>>
           \/ /\ \E d \in Upload : UploadStep(d)
              /\ UNCHANGED <<accountVars, job, toolVars, noticeVars, sessionVars, chatVars>>
           \/ SessionStep /\ UNCHANGED <<toolVars, noticeVars, uploadVars, chatVars>>
           \/ /\ ChatStep
              /\ UNCHANGED <<accountVars, job, toolVars, noticeVars, uploadVars, sessionVars>>
<1>1. ASSUME RegisterStep
      PROVE  /\ \E c \in Company, ask \in SUBSET Tool : Register(c, ask) /\ RegisterSession(c)
             /\ FollowReaders /\ FollowWatchers /\ UNCHANGED uploadVars
  BY <1>1, BoundsType DEF RegisterStep, Picks
<1>2. ASSUME NEW q \in Req, ReviewStep(q) \/ EmployeeStep(q)
      PROVE  AccountsStep /\ Follow /\ UNCHANGED toolVars
  BY <1>2 DEF ReviewStep, EmployeeStep, CreateEmployee, SetEmployeeBlocked, AccountsStep, toolVars
<1>3. ASSUME NEW u \in Blockable, StatusStep(u)
      PROVE  AccountsStep /\ Follow /\ UNCHANGED toolVars
  BY <1>3, BlockableType DEF StatusStep, AccountsStep
<1>4. ASSUME NoticeStep
      PROVE  UNCHANGED <<accountVars, job, toolVars>>
  BY <1>4 DEF NoticeStep, EventStep, WatcherStep, RouteStep, Look, MarkMyNotificationsRead,
              CreateCargoRequest, DriverCompetitionOpens, ConsolidatedOpens, CustomsOpens,
              Close, ReadAudience, CreateNotification, LoseNotifications
<1>5. ASSUME NEW d \in Upload, UploadStep(d)
      PROVE  UNCHANGED <<accountVars, job, toolVars>>
  BY <1>5 DEF UploadStep, BeginUpload, PutObject, InsertUpload, LoseUpload
<1>6. ASSUME ChatStep
      PROVE  UNCHANGED <<accountVars, job>>
  BY <1>6 DEF ChatStep, AddParticipant, OpenChat, PollChat, Ask, ReadMessages, ShowAnswer,
              NoAnswer, BeginSend, InsertMessage, AnswerSend
<1>7. CASE PlatformNext
  BY <1>1, <1>2, <1>3, <1>4, <1>5, <1>6, <1>7 DEF PlatformNext, ToolsStep
<1>8. CASE UNCHANGED platformVars
  BY <1>8 DEF platformVars
<1> QED
  BY <1>7, <1>8

\* What a step does to the accounts.
AccountsChange ==
    \/ \E c \in Company : RegisterAccount(c) /\ UNCHANGED job
    \/ AccountsStep
    \/ \E q \in Req : Abort(q)
    \/ UNCHANGED accountVars /\ Spares(AccountOps)

LEMMA AccountsChanges ==
    ASSUME job \in [Req -> Job], ToolsTypeOK, [PlatformNext]_platformVars
    PROVE  job' \in [Req -> Job] /\ AccountsChange
<1>1. ASSUME ToolsStep \/ SessionStep \/ UNCHANGED <<accountVars, job>>
      PROVE  job' \in [Req -> Job] /\ UNCHANGED accountVars /\ Spares(AccountOps)
  BY <1>1, ToolStepsSpare, SessionStepsSpare DEF Spares
<1>2. ASSUME NEW q \in Req, AbortJob(q)
      PROVE  job' \in [Req -> Job] /\ Abort(q)
  BY <1>2, AbortSpares DEF AbortJob
<1>3. ASSUME NEW c \in Company, NEW ask \in SUBSET Tool, Register(c, ask)
      PROVE  RegisterAccount(c) /\ UNCHANGED job
  BY <1>3 DEF Register
<1> QED
  BY <1>1, <1>2, <1>3, PlatformCases, AccountStepsSpare DEF AccountsChange

-----------------------------------------------------------------------------
(* The accounts.                                                           *)

\* How a step changes the status of an account.
LEMMA StatusUpdated ==
    ASSUME AccountsTypeOK, NEW u \in User, NEW s \in UserStatus, UpdateStatus(u, s)
    PROVE  /\ status' \in [User -> UserStatus \cup {"absent"}] /\ status'[u] = s
           /\ \A v \in User : v # u => status'[v] = status[v]
           /\ everActive \subseteq everActive' /\ everActive' \subseteq User
           /\ s = "active" => u \in everActive'
BY DEF AccountsTypeOK, UpdateStatus, UserStatus

\* The accounts that exist go on to exist, with the same company.
AccountsGrow ==
    /\ \A u \in User : status[u] # "absent" => status'[u] # "absent" /\ parent'[u] = parent[u]
    /\ everActive \subseteq everActive'

LEMMA AccountTypes ==
    ASSUME AccountsTypeOK, AccountsInv, AccountsChange, job' \in [Req -> Job]
    PROVE  AccountsTypeOK' /\ AccountsGrow
<1> DEFINE Goal == AccountsTypeOK' /\ AccountsGrow
<1>0. Company \subseteq User /\ Employee \subseteq User
  BY DEF User
<1>1. ASSUME NEW c \in Company, RegisterAccount(c)
      PROVE  Goal
  BY <1>0, <1>1, StatusUpdated DEF RegisterAccount, AccountsTypeOK, AccountsGrow, UserStatus
<1>2. ASSUME NEW q \in Req, NEW r \in Review, WriteVerdict(q, r)
      PROVE  Goal
  BY <1>2 DEF WriteVerdict, Uncommitted, AccountsTypeOK, AccountsGrow
<1>3. ASSUME NEW q \in Req, NEW r \in Review, CommitReview(q, r)
      PROVE  Goal
  <2> DEFINE c == job[q].user
  <2>1. c \in Company /\ status[c] # "absent"
    BY <1>3 DEF CommitReview, Finish, Verdict, AccountsInv
  <2>2. Outcome(r) \in UserStatus
    BY DEF Outcome, UserStatus
  <2>3. UpdateStatus(c, Outcome(r)) /\ parent' = parent
    BY <1>3 DEF CommitReview
  <2>4. lastLog' \in [User -> {"none", "block", "unblock"} \cup Review]
    BY <1>0, <1>3, <2>1 DEF CommitReview, AccountsTypeOK
  <2>5. verification' \in [Company -> {"none", "pending"} \cup Review]
    BY <1>3, <2>1 DEF CommitReview, AccountsTypeOK
  <2> HIDE DEF c
  <2>6. /\ status' \in [User -> UserStatus \cup {"absent"}] /\ status'[c] = Outcome(r)
        /\ \A v \in User : v # c => status'[v] = status[v]
        /\ everActive \subseteq everActive' /\ everActive' \subseteq User
    BY <1>0, <2>1, <2>2, <2>3, StatusUpdated
  <2> QED
    BY <2>2, <2>3, <2>4, <2>5, <2>6 DEF AccountsTypeOK, AccountsGrow, UserStatus
<1>4. ASSUME NEW u \in User, BlockUser(u) \/ UnblockUser(u)
      PROVE  Goal
  BY <1>4, StatusUpdated
     DEF BlockUser, UnblockUser, SetUserStatus, AccountsTypeOK, AccountsGrow, UserStatus
<1>5. ASSUME NEW q \in Req, InsertEmployee(q)
      PROVE  Goal
  <2>1. job[q].whom \in Employee /\ job[q].user \in User
    BY <1>5 DEF InsertEmployee, Finish, AccountsInv, AccountsTypeOK
  <2> QED
    BY <1>0, <1>5, <2>1, StatusUpdated
       DEF InsertEmployee, AccountsTypeOK, AccountsGrow, UserStatus, AccountsInv
<1>6. ASSUME NEW q \in Req, NEW op \in {"block", "restore"}, SetEmployeeStatus(q, op)
      PROVE  Goal
  <2>1. job[q].whom \in User
    BY <1>6 DEF SetEmployeeStatus, Finish, AccountsInv
  <2> QED
    BY <1>6, <2>1, StatusUpdated
       DEF SetEmployeeStatus, ofCompany, AccountsTypeOK, AccountsGrow, UserStatus
<1>7. ASSUME UNCHANGED accountVars
      PROVE  Goal
  BY <1>7 DEF accountVars, AccountsTypeOK, AccountsGrow
<1> HIDE DEF Goal
<1> QED
  BY <1>1, <1>2, <1>3, <1>4, <1>5, <1>6, <1>7
     DEF AccountsChange, AccountsStep, Abort, BeginReview, BeginCreateEmployee,
         BeginSetEmployee, Goal

\* The parts of AccountsInv.
HistoryHolds == \A u \in User : status[u] = "active" => u \in everActive
CompaniesFree == \A c \in Company : parent[c] = "none"
Employed == \A u \in User : parent[u] # "none" =>
    /\ parent[u] \in everActive /\ parent[parent[u]] = "none"
    /\ status[parent[u]] # "absent" /\ status[u] # "absent"
Registered == \A c \in Company :
    /\ status[c] = "absent" => lastLog[c] = "none" /\ verification[c] = "none"
    /\ status[c] # "absent" => verification[c] # "none"
Checked(q) ==
    /\ job[q].op \in {"approve", "reject", "verdict_approve", "verdict_reject"} =>
          job[q].user \in Company /\ status[job[q].user] # "absent"
    /\ job[q].op = "create" =>
          /\ job[q].user \in everActive /\ job[q].whom \in Employee
          /\ status[job[q].user] # "absent" /\ parent[job[q].user] = "none"
    /\ job[q].op \in {"block", "restore"} => job[q].user \in User /\ job[q].whom \in User

LEMMA AccountsInvParts ==
    /\ AccountsInv <=> /\ HistoryHolds /\ CompaniesFree /\ Employed /\ Registered
                       /\ \A q \in Req : Checked(q)
    /\ AccountsInv' <=> /\ HistoryHolds' /\ CompaniesFree' /\ Employed' /\ Registered'
                        /\ \A q \in Req : Checked(q)'
BY DEF AccountsInv, HistoryHolds, CompaniesFree, Employed, Registered, Checked

\* What a job has checked stays true while it does not move.
LEMMA CheckedKept ==
    ASSUME AccountsTypeOK, AccountsInv, AccountsGrow, NEW q \in Req, job'[q] = job[q]
    PROVE  Checked(q)'
BY DEF AccountsTypeOK, AccountsInv, AccountsGrow, Checked, User

LEMMA JobsChecked ==
    ASSUME AccountsTypeOK, AccountsInv, AccountsGrow, AccountsChange
    PROVE  \A q \in Req : Checked(q)'
<1> SUFFICES ASSUME NEW p \in Req, job'[p] # job[p]
             PROVE  Checked(p)'
  BY CheckedKept
<1>0. Company \subseteq User /\ Employee \subseteq User
  BY DEF User
<1>1. ASSUME NEW q \in Req, NEW u \in User, NEW v \in User \cup {"none"}, NEW op \in AccountOps,
             Start(q, Task(op, u, v, {}, {}))
      PROVE  p = q /\ job'[p] = Task(op, u, v, {}, {})
  <2>1. Task(op, u, v, {}, {}) \in Job
    BY TaskIsJob
  <2> QED BY <1>1, <2>1, Starting DEF AccountsTypeOK
<1>2. ASSUME NEW q \in Req, NEW op \in AccountOps, Finish(q, op)
      PROVE  Checked(p)'
  BY <1>2, Finishing DEF AccountsTypeOK, Checked, Idle
<1>3. {"create", "block", "restore"} \cup Review \subseteq AccountOps
  BY DEF AccountOps, Review
<1>4. ASSUME NEW q \in Req, NEW c \in Company, NEW r \in Review, BeginReview(q, c, r)
      PROVE  Checked(p)'
  <2>1. job'[p] = Task(r, c, "none", {}, {})
    BY <1>0, <1>1, <1>3, <1>4 DEF BeginReview
  <2>2. status'[c] # "absent"
    BY <1>0, <1>4 DEF BeginReview, accountVars, AccountsInv
  <2> QED BY <2>1, <2>2 DEF Checked, Task, Review
<1>5. ASSUME NEW q \in Req, NEW r \in Review, WriteVerdict(q, r)
      PROVE  Checked(p)'
  <2>1. /\ p = q /\ job'[p].user = job[p].user /\ job'[p].op = Verdict(r)
        /\ job[p].op = r
    <3>1. Verdict(r) \in AccountOps \cup ToolOps \cup SessionOps
      BY DEF Verdict, AccountOps
    <3> QED BY <1>5, <3>1, Advancing DEF WriteVerdict, AccountsTypeOK
  <2>2. job[p].user \in Company /\ status[job[p].user] # "absent" /\ status' = status
    BY <1>5, <2>1 DEF WriteVerdict, AccountsInv, Review
  <2> QED BY <2>1, <2>2 DEF Checked, Verdict
<1>6. ASSUME NEW q \in Req, NEW u \in User, NEW e \in Employee, BeginCreateEmployee(q, u, e)
      PROVE  Checked(p)'
  <2>1. job'[p] = Task("create", u, e, {}, {})
    BY <1>0, <1>1, <1>3, <1>6 DEF BeginCreateEmployee
  <2>2. u \in everActive' /\ status'[u] # "absent" /\ parent'[u] = "none"
    BY <1>6 DEF BeginCreateEmployee, requireActiveUser, isEmployee, accountVars, AccountsInv
  <2> QED BY <2>1, <2>2 DEF Checked, Task
<1>7. ASSUME NEW q \in Req, NEW u \in User, NEW e \in User, NEW op \in {"block", "restore"},
             BeginSetEmployee(q, u, e, op)
      PROVE  Checked(p)'
  <2>1. job'[p] = Task(op, u, e, {}, {})
    BY <1>1, <1>3, <1>7 DEF BeginSetEmployee
  <2> QED BY <2>1 DEF Checked, Task
<1>8. ASSUME NEW q \in Req, Abort(q)
      PROVE  Checked(p)'
  BY <1>8, AbortSpares DEF AccountsTypeOK, Checked, Idle
<1>9. ASSUME Spares(AccountOps)
      PROVE  Checked(p)'
  BY <1>9 DEF Spares, Checked, AccountOps
<1>10. \A r \in Review : Verdict(r) \in AccountOps
  BY DEF Verdict, AccountOps
<1>11. ASSUME NEW q \in Req, NEW r \in Review, CommitReview(q, r)
       PROVE  Checked(p)'
  BY <1>2, <1>10, <1>11 DEF CommitReview
<1>12. ASSUME NEW q \in Req, NEW op \in {"block", "restore"},
              InsertEmployee(q) \/ SetEmployeeStatus(q, op)
       PROVE  Checked(p)'
  BY <1>2, <1>3, <1>12 DEF InsertEmployee, SetEmployeeStatus
<1> QED
  BY <1>4, <1>5, <1>6, <1>7, <1>8, <1>9, <1>11, <1>12
     DEF AccountsChange, AccountsStep, BlockUser, UnblockUser, SetUserStatus

\* What explains the status of a company, and what its history is.
Explained == HistoryHolds /\ CompaniesFree /\ Employed /\ Registered /\ LogExplainsCompany

LEMMA ExplainedKept ==
    ASSUME AccountsTypeOK, AccountsInv, LogExplainsCompany, AccountsGrow, AccountsChange
    PROVE  Explained'
<1> USE DEF Explained
<1>0. /\ Company \subseteq User /\ Employee \subseteq User /\ Company \cap Employee = {}
      /\ HistoryHolds /\ CompaniesFree /\ Employed /\ Registered
      /\ status \in [User -> UserStatus \cup {"absent"}] /\ parent \in [User -> User \cup {"none"}]
      /\ verification \in [Company -> {"none", "pending"} \cup Review]
      /\ lastLog \in [User -> {"none", "block", "unblock"} \cup Review]
      /\ "none" \notin User
  BY AccountsInvParts, AccountsFresh DEF User, AccountsTypeOK
<1>1. ASSUME UNCHANGED accountVars
      PROVE  Explained'
  BY <1>0, <1>1 DEF accountVars, HistoryHolds, CompaniesFree, Employed, Registered, LogExplainsCompany
<1>2. ASSUME NEW u \in User, NEW s \in UserStatus, UpdateStatus(u, s)
      PROVE  /\ HistoryHolds' /\ status'[u] = s /\ \A v \in User : v # u => status'[v] = status[v]
             /\ UNCHANGED parent => CompaniesFree' /\ Employed'
  <2>1. HistoryHolds' /\ status'[u] = s /\ \A v \in User : v # u => status'[v] = status[v]
    BY <1>0, <1>2, StatusUpdated DEF HistoryHolds
  <2>2. ASSUME UNCHANGED parent
        PROVE  CompaniesFree' /\ Employed'
    <3>1. CompaniesFree'
      BY <1>0, <2>2 DEF CompaniesFree
    <3>2. \A v \in User : parent[v] # "none" => parent[v] \in User
      BY <1>0
    <3> QED BY <1>0, <2>2, <3>1, <3>2 DEF Employed, AccountsGrow
  <2> QED BY <2>1, <2>2
<1>3. ASSUME NEW c \in Company, RegisterAccount(c)
      PROVE  Explained'
  <2>1. /\ UpdateStatus(c, "pending") /\ UNCHANGED <<parent, lastLog>> /\ status[c] = "absent"
        /\ verification' = [verification EXCEPT ![c] = "pending"] /\ "pending" \in UserStatus
    BY <1>3 DEF RegisterAccount, UserStatus
  <2>2. /\ HistoryHolds' /\ CompaniesFree' /\ Employed' /\ status'[c] = "pending"
        /\ \A v \in User : v # c => status'[v] = status[v]
    BY <1>0, <1>2, <2>1
  <2>3. lastLog[c] = "none"
    BY <1>0, <2>1 DEF Registered
  <2>4. Registered'
    BY <1>0, <2>1, <2>2 DEF Registered
  <2>5. LogExplainsCompany'
    BY <1>0, <2>1, <2>2, <2>3 DEF LogExplainsCompany, StatusOf, Review
  <2> QED BY <2>2, <2>4, <2>5
<1>4. ASSUME NEW q \in Req, NEW r \in Review, WriteVerdict(q, r)
      PROVE  Explained'
  BY <1>1, <1>4 DEF WriteVerdict, Uncommitted, accountVars
<1>5. ASSUME NEW q \in Req, NEW r \in Review, CommitReview(q, r)
      PROVE  Explained'
  <2>1. PICK c \in Company : c = job[q].user /\ status[c] # "absent"
    BY <1>5 DEF CommitReview, Finish, Verdict, AccountsInv
  <2>2. /\ UpdateStatus(c, Outcome(r)) /\ parent' = parent /\ Outcome(r) \in UserStatus
        /\ verification' = [verification EXCEPT ![c] = r] /\ lastLog' = [lastLog EXCEPT ![c] = r]
    BY <1>5, <2>1 DEF CommitReview, Outcome, UserStatus
  <2>3. /\ HistoryHolds' /\ CompaniesFree' /\ Employed' /\ status'[c] = Outcome(r)
        /\ \A v \in User : v # c => status'[v] = status[v]
    BY <1>0, <1>2, <2>2
  <2>4. Registered'
    BY <1>0, <2>2, <2>3 DEF Registered, Review, Outcome
  <2>5. LogExplainsCompany'
    BY <1>0, <2>2, <2>3 DEF LogExplainsCompany, StatusOf, Review
  <2> QED BY <2>3, <2>4, <2>5
<1>6. ASSUME NEW u \in User, NEW s \in UserStatus, NEW a \in {"block", "unblock"},
             SetUserStatus(u, s, a), s = IF a = "block" THEN "blocked" ELSE "active"
      PROVE  Explained'
  <2>1. /\ UpdateStatus(u, s) /\ parent' = parent /\ verification' = verification
        /\ lastLog' = [lastLog EXCEPT ![u] = a] /\ status[u] # "absent"
    BY <1>6 DEF SetUserStatus
  <2>2. /\ HistoryHolds' /\ CompaniesFree' /\ Employed' /\ status'[u] = s
        /\ \A v \in User : v # u => status'[v] = status[v]
    BY <1>2, <2>1
  <2>3. Registered'
    BY <1>0, <1>6, <2>1, <2>2 DEF Registered
  <2>4. LogExplainsCompany'
    BY <1>0, <1>6, <2>1, <2>2 DEF LogExplainsCompany, StatusOf, Review
  <2> QED BY <2>2, <2>3, <2>4
<1>7. ASSUME \A c \in Company : status'[c] = status[c], UNCHANGED <<verification, lastLog>>
      PROVE  Registered' /\ LogExplainsCompany'
  BY <1>0, <1>7 DEF Registered, LogExplainsCompany
<1>8. ASSUME NEW q \in Req, InsertEmployee(q)
      PROVE  Explained'
  <2>1. PICK e \in Employee : e = job[q].whom
    BY <1>8 DEF InsertEmployee, Finish, AccountsInv
  <2>2. PICK u \in User : /\ u = job[q].user /\ u \in everActive /\ status[u] # "absent"
                          /\ parent[u] = "none"
    BY <1>8 DEF InsertEmployee, Finish, AccountsInv, AccountsTypeOK
  <2>3. CASE status[e] # "absent"
    BY <1>1, <1>8, <2>1, <2>3 DEF InsertEmployee, accountVars
  <2>4. CASE status[e] = "absent"
    <3>1. /\ UpdateStatus(e, "active") /\ parent' = [parent EXCEPT ![e] = u]
          /\ UNCHANGED <<verification, lastLog>> /\ "active" \in UserStatus
      BY <1>8, <2>1, <2>2, <2>4 DEF InsertEmployee, UserStatus
    <3>2. /\ HistoryHolds' /\ status'[e] = "active"
          /\ \A v \in User : v # e => status'[v] = status[v]
      BY <1>0, <1>2, <3>1
    <3>3. CompaniesFree'
      BY <1>0, <3>1 DEF CompaniesFree
    <3>4. \A v \in User : parent[v] # e
      BY <1>0, <2>4 DEF Employed
    <3>5. u # e
      BY <2>2, <2>4
    <3>6. Employed'
      <4> SUFFICES ASSUME NEW v \in User, parent'[v] # "none"
                   PROVE  /\ parent'[v] \in everActive' /\ parent'[parent'[v]] = "none"
                          /\ status'[parent'[v]] # "absent" /\ status'[v] # "absent"
        BY DEF Employed
      <4>1. CASE v = e
        BY <1>0, <2>2, <3>1, <3>2, <3>5, <4>1 DEF AccountsGrow
      <4>2. CASE v # e
        <5>1. parent'[v] = parent[v] /\ parent[v] \in User /\ parent[v] # e
          BY <1>0, <3>1, <3>4, <4>2
        <5>2. parent'[parent[v]] = parent[parent[v]]
          BY <1>0, <3>1, <5>1
        <5> QED BY <1>0, <5>1, <5>2 DEF Employed, AccountsGrow
      <4> QED BY <4>1, <4>2
    <3>7. Registered' /\ LogExplainsCompany'
      BY <1>0, <1>7, <3>1, <3>2
    <3> QED BY <3>2, <3>3, <3>6, <3>7
  <2> QED BY <2>3, <2>4
<1>9. ASSUME NEW q \in Req, NEW op \in {"block", "restore"}, SetEmployeeStatus(q, op)
      PROVE  Explained'
  <2>1. PICK e \in User : e = job[q].whom
    BY <1>9 DEF SetEmployeeStatus, Finish, AccountsInv
  <2>2. job[q].user \in User
    BY <1>9 DEF SetEmployeeStatus, Finish, AccountsInv
  <2>3. CASE ~ofCompany(job[q].user, e)
    BY <1>1, <1>9, <2>1, <2>3 DEF SetEmployeeStatus, accountVars
  <2>4. CASE ofCompany(job[q].user, e)
    <3>1. e \notin Company
      BY <1>0, <2>2, <2>4 DEF ofCompany, CompaniesFree
    <3>2. PICK s \in UserStatus : UpdateStatus(e, s)
      BY <1>9, <2>1, <2>4 DEF SetEmployeeStatus, UserStatus
    <3>3. UNCHANGED <<parent, verification, lastLog>>
      BY <1>9 DEF SetEmployeeStatus
    <3>4. /\ HistoryHolds' /\ CompaniesFree' /\ Employed'
          /\ \A v \in User : v # e => status'[v] = status[v]
      BY <1>2, <3>2, <3>3
    <3>5. Registered' /\ LogExplainsCompany'
      BY <1>0, <1>7, <3>1, <3>3, <3>4
    <3> QED BY <3>4, <3>5
  <2> QED BY <2>3, <2>4
<1>10. ASSUME NEW u \in User, BlockUser(u) \/ UnblockUser(u)
       PROVE  Explained'
  BY <1>6, <1>10 DEF BlockUser, UnblockUser, UserStatus
<1> HIDE DEF Explained
<1> QED
  BY <1>1, <1>3, <1>4, <1>5, <1>8, <1>9, <1>10
     DEF AccountsChange, AccountsStep, Abort, BeginReview, BeginCreateEmployee, BeginSetEmployee

LEMMA AccountsKept ==
    ASSUME AccountsTypeOK, AccountsInv, LogExplainsCompany, ToolsTypeOK,
           [PlatformNext]_platformVars
    PROVE  AccountsTypeOK' /\ AccountsInv' /\ LogExplainsCompany' /\ AccountsGrow
<1>1. job' \in [Req -> Job] /\ AccountsChange
  BY AccountsChanges DEF AccountsTypeOK
<1>2. AccountsTypeOK' /\ AccountsGrow
  BY <1>1, AccountTypes
<1> QED
  BY <1>1, <1>2, JobsChecked, ExplainedKept, AccountsInvParts DEF Explained

LEMMA AccountsStart == PlatformInit => AccountsTypeOK /\ AccountsInv /\ LogExplainsCompany
<1> SUFFICES ASSUME PlatformInit
             PROVE  AccountsTypeOK /\ AccountsInv /\ LogExplainsCompany
  OBVIOUS
<1>1. /\ status = [u \in User |-> IF u \in Veteran THEN "active" ELSE "absent"]
      /\ parent = [u \in User |-> "none"]
      /\ verification = [c \in Company |-> IF c \in Veteran THEN "approve" ELSE "none"]
      /\ lastLog = [u \in User |-> IF u \in Veteran THEN "approve" ELSE "none"]
      /\ everActive = Veteran /\ job = [q \in Req |-> Idle]
  BY DEF PlatformInit, AccountsInit
<1>2. Veteran \subseteq Company /\ Company \subseteq User
  BY AccountsFresh DEF User
<1>3. AccountsTypeOK
  BY <1>1, <1>2, IdleIsJob DEF AccountsTypeOK, UserStatus, Review
<1>4. HistoryHolds /\ CompaniesFree /\ Employed /\ Registered
  BY <1>1, <1>2 DEF HistoryHolds, CompaniesFree, Employed, Registered
<1>5. \A q \in Req : Checked(q)
  BY <1>1 DEF Checked, Idle
<1>6. LogExplainsCompany
  BY <1>1, <1>2 DEF LogExplainsCompany, StatusOf, Review, Outcome
<1> QED
  BY <1>3, <1>4, <1>5, <1>6, AccountsInvParts

-----------------------------------------------------------------------------
(* The tools.                                                              *)

\* ToolsInv and NoSelfPromotion, for one request and for one user.
Doing(q) ==
    /\ job[q].op \in {"clear", "insert", "replace"} =>
          job[q].user \in User /\ status[job[q].user] # "absent"
    /\ job[q].op \in {"clear", "insert"} => job[q].ask \cap AdminTool = {}
    /\ job[q].op = "insert" => job[q].seen \subseteq job[q].ask
    /\ job[q].op = "vehicle" => job[q].user \in Owner

Settled(u) ==
    /\ \A p, q \in Replacing(u) : p # q => {p, q} \subseteq overlapped
    /\ \A q \in Replacing(u) : q \notin overlapped =>
          IF job[q].op = "insert" THEN userTools[u] \cup job[q].seen = job[q].ask
                                  ELSE userTools[u] = job[q].seen
    /\ u \notin muddled /\ (\A q \in Replacing(u) : job[q].op # "insert")
          => userTools[u] = lastAsked[u]
    /\ status[u] = "absent" => userTools[u] = {}
    /\ userTools[u] \cap AdminTool \subseteq granted[u]

ToolsHold == /\ job \in [Req -> Job] /\ ToolsTypeOK
             /\ \A q \in Req : Doing(q)
             /\ \A u \in User : Settled(u)

LEMMA ToolsHoldParts ==
    /\ ToolsHold <=> job \in [Req -> Job] /\ ToolsTypeOK /\ ToolsInv /\ NoSelfPromotion
    /\ ToolsHold' <=> job' \in [Req -> Job] /\ ToolsTypeOK' /\ ToolsInv' /\ NoSelfPromotion'
BY DEF ToolsHold, Doing, Settled, ToolsInv, NoSelfPromotion

\* A job that does not move, or whose DELETE finds less, does what it did.
LEMMA DoingKept ==
    ASSUME ToolsHold, AccountsGrow, NEW q \in Req,
           \/ job'[q] = job[q]
           \/ /\ job[q].op \in {"clear", "replace"}
              /\ \E S : job'[q] = [job[q] EXCEPT !.seen = S]
    PROVE  Doing(q)'
<1>1. /\ job'[q].op = job[q].op /\ job'[q].user = job[q].user /\ job'[q].ask = job[q].ask
      /\ job[q].op = "insert" => job'[q].seen = job[q].seen
  BY DEF ToolsHold, Job
<1> QED BY <1>1 DEF ToolsHold, Doing, AccountsGrow

\* What concerns another user's tools.
LEMMA SettledKept ==
    ASSUME NEW v \in User, Settled(v), AccountsGrow,
           \A p \in Req : p \in Replacing(v) \/ p \in Replacing(v)' => job'[p] = job[p],
           userTools'[v] = userTools[v], lastAsked'[v] = lastAsked[v], granted'[v] = granted[v],
           v \in muddled <=> v \in muddled',
           overlapped \cap Replacing(v) \subseteq overlapped'
    PROVE  Settled(v)'
<1>1. Replacing(v)' = Replacing(v)
  BY DEF Replacing
<1>2. status'[v] = "absent" => status[v] = "absent"
  BY DEF AccountsGrow
<1>3. \A p \in Replacing(v) : p \in Req /\ job'[p] = job[p]
  BY DEF Replacing
<1> HIDE DEF Replacing
<1> QED BY <1>1, <1>2, <1>3 DEF Settled

LEMMA SameAccounts ==
    ASSUME UNCHANGED accountVars
    PROVE  AccountsGrow
BY DEF accountVars, AccountsGrow

\* A replacement begins.
LEMMA ReplacementBegins ==
    ASSUME ToolsHold, NEW q \in Req, NEW u \in User, NEW op \in {"clear", "replace"},
           NEW ask \in SUBSET Tool, op = "clear" => ask \cap AdminTool = {},
           status[u] # "absent",
           Start(q, Task(op, u, "none", ask, userTools[u])),
           overlapped' = Meet(q, u),
           UNCHANGED <<accountVars, active, contents, userTools, granted, lastAsked,
                       muddled, vehicles>>
    PROVE  ToolsHold'
<1> DEFINE task == Task(op, u, "none", ask, userTools[u])
<1>1. task \in Job
  BY TaskIsJob DEF ToolOps, ToolsHold, ToolsTypeOK
<1>2. /\ job' \in [Req -> Job] /\ job'[q] = task /\ job[q] = Idle
      /\ \A p \in Req : p # q => job'[p] = job[p]
  BY <1>1, Starting DEF ToolsHold
<1>3. AccountsGrow
  BY SameAccounts
<1>4. /\ task.op = op /\ task.user = u /\ task.ask = ask /\ task.seen = userTools[u]
      /\ Idle.op = "idle"
  BY DEF Task, Idle
<1>5. overlapped \subseteq overlapped' /\ overlapped' \subseteq Req
  BY DEF Meet, Replacing, ToolsHold, ToolsTypeOK
<1>6. ToolsTypeOK'
  BY <1>5 DEF ToolsHold, ToolsTypeOK
<1> HIDE DEF task
<1>7. ASSUME NEW p \in Req
      PROVE  Doing(p)'
  <2>1. CASE p = q
    BY <1>2, <1>4, <2>1 DEF Doing, accountVars
  <2> QED BY <1>2, <1>3, <2>1, DoingKept
<1>8. Replacing(u)' = Replacing(u) \cup {q} /\ q \notin Replacing(u)
  BY <1>2, <1>4 DEF Replacing
<1>9. ASSUME NEW v \in User, v # u
      PROVE  Settled(v)'
  <2>1. \A p \in Req : p \in Replacing(v) \/ p \in Replacing(v)' => job'[p] = job[p]
    BY <1>2, <1>4, <1>9 DEF Replacing
  <2> QED BY <1>3, <1>5, <1>9, <2>1, SettledKept DEF ToolsHold
<1>10. Settled(u)'
  <2>1. Settled(u)
    BY DEF ToolsHold
  <2>2. Replacing(u) # {} => Replacing(u)' \subseteq overlapped'
    BY <1>8 DEF Meet
  <2>3. \A p \in Replacing(u) : p \in Req /\ job'[p] = job[p]
    BY <1>2, <1>8 DEF Replacing
  <2>4. \A p, r \in Replacing(u)' : p # r => {p, r} \subseteq overlapped'
    BY <1>8, <2>2
  <2>5. \A r \in Replacing(u)' : r \notin overlapped' =>
          IF job'[r].op = "insert" THEN userTools'[u] \cup job'[r].seen = job'[r].ask
                                   ELSE userTools'[u] = job'[r].seen
    BY <1>2, <1>4, <1>8, <2>2
  <2>6. u \notin muddled' /\ (\A r \in Replacing(u)' : job'[r].op # "insert")
          => userTools'[u] = lastAsked'[u]
    BY <1>8, <2>1, <2>3 DEF Settled
  <2> QED BY <2>1, <2>4, <2>5, <2>6 DEF Settled, accountVars
<1> QED BY <1>2, <1>6, <1>7, <1>9, <1>10 DEF ToolsHold

\* A replacement q of u's tools goes on or ends: what is left to show of it.
LEMMA ReplacementMoves ==
    ASSUME ToolsHold, NEW q \in Req, NEW u \in User, q \in Replacing(u),
           UNCHANGED accountVars, job' \in [Req -> Job], ToolsTypeOK', Doing(q)',
           \A p \in Req : p # q =>
              \/ job'[p] = job[p]
              \/ /\ job[p].op \in {"clear", "replace"} /\ job[p].user = u
                 /\ job'[p] = [job[p] EXCEPT !.seen = @ \ job[q].seen],
           job'[q].op \in {"idle", "insert"}, job'[q].user \in {u, "none"},
           \A v \in User : v # u =>
              /\ userTools'[v] = userTools[v] /\ lastAsked'[v] = lastAsked[v]
              /\ granted'[v] = granted[v] /\ (v \in muddled <=> v \in muddled'),
           overlapped \ {q} \subseteq overlapped',
           q \in Replacing(u)' => (q \in overlapped => q \in overlapped'),
           q \in Replacing(u)' /\ q \notin overlapped' =>
              userTools'[u] \cup job'[q].seen = job'[q].ask,
           u \notin muddled' /\ (\A p \in Replacing(u)' : job'[p].op # "insert")
              => userTools'[u] = lastAsked'[u],
           userTools'[u] \cap AdminTool \subseteq granted'[u]
    PROVE  ToolsHold'
<1>1. AccountsGrow
  BY SameAccounts
<1>2. job[q].user = u /\ job[q].op \in {"clear", "insert", "replace"} /\ u # "none"
  BY AccountsFresh DEF Replacing
<1>3. \A p \in Req : Doing(p)'
  BY <1>1, DoingKept
<1>4. \A p \in Req : p # q => job'[p].user = job[p].user /\ job'[p].op = job[p].op
  BY DEF ToolsHold, Job
<1>5. Replacing(u)' \subseteq Replacing(u)
  BY <1>4 DEF Replacing
<1>6. ASSUME NEW v \in User, v # u
      PROVE  Settled(v)'
  <2>1. \A p \in Req : p \in Replacing(v) \/ p \in Replacing(v)' => job'[p] = job[p]
    BY <1>2, <1>4, <1>6, AccountsFresh DEF Replacing
  <2>2. q \notin Replacing(v)
    BY <1>2, <1>6 DEF Replacing
  <2> QED BY <1>1, <1>6, <2>1, <2>2, SettledKept DEF ToolsHold
<1>7. Settled(u)'
  <2>1. Settled(u) /\ status'[u] # "absent"
    BY <1>1, <1>2 DEF ToolsHold, Doing, AccountsGrow
  <2>2. \A p \in Replacing(u)' : p # q => p \in overlapped'
    BY <1>5, <2>1 DEF Settled
  <2>3. \A p, r \in Replacing(u)' : p # r => {p, r} \subseteq overlapped'
    BY <1>5, <2>1, <2>2 DEF Settled
  <2>4. \A r \in Replacing(u)' : r \notin overlapped' =>
          IF job'[r].op = "insert" THEN userTools'[u] \cup job'[r].seen = job'[r].ask
                                   ELSE userTools'[u] = job'[r].seen
    <3>1. ASSUME q \in Replacing(u)'
          PROVE  job'[q].op = "insert"
      BY <3>1 DEF Replacing
    <3> QED BY <2>2, <3>1
  <2> QED BY <2>1, <2>3, <2>4 DEF Settled
<1> QED BY <1>3, <1>6, <1>7 DEF ToolsHold

\* What a DELETE does to the other requests.
LEMMA Deleting ==
    ASSUME job \in [Req -> Job], NEW q \in Req, NEW task \in Job, job' = AfterDelete(q, task)
    PROVE  /\ job' \in [Req -> Job] /\ job'[q] = task
           /\ \A p \in Req : p # q =>
                \/ job'[p] = job[p]
                \/ /\ job[p].op \in {"clear", "replace"} /\ job[p].user = job[q].user
                   /\ job'[p] = [job[p] EXCEPT !.seen = @ \ job[q].seen]
<1>1. ASSUME NEW p \in Req
      PROVE  job'[p] \in Job
  BY DEF AfterDelete, Job
<1>2. job' = [p \in Req |-> job'[p]]
  BY DEF AfterDelete
<1> QED BY <1>1, <1>2 DEF AfterDelete

LEMMA ClearKept ==
    ASSUME ToolsHold, NEW q \in Req, ClearTools(q)
    PROVE  ToolsHold'
<1> DEFINE task == [job[q] EXCEPT !.op = "insert", !.seen = job[q].ask]
<1>1. PICK u \in User : u = job[q].user /\ status[u] # "absent"
  BY DEF ClearTools, ToolsHold, Doing
<1>2. /\ job[q].op = "clear" /\ job[q].ask \cap AdminTool = {} /\ q \in Replacing(u)
      /\ job[q] \in Job /\ Settled(u)
  BY <1>1 DEF ClearTools, ToolsHold, Doing, Replacing
<1>3. /\ task \in Job /\ task.op = "insert" /\ task.user = u /\ task.ask = job[q].ask
      /\ task.seen = job[q].ask
  BY <1>1, <1>2 DEF Job, ToolOps
<1>4. /\ userTools' = [userTools EXCEPT ![u] = userTools[u] \ job[q].seen]
      /\ job' = AfterDelete(q, task)
      /\ UNCHANGED <<accountVars, active, contents, granted, lastAsked, overlapped,
                     muddled, vehicles>>
  BY <1>1 DEF ClearTools, Remaining
<1> HIDE DEF task
<1>5. /\ job' \in [Req -> Job] /\ job'[q] = task
      /\ \A p \in Req : p # q =>
           \/ job'[p] = job[p]
           \/ /\ job[p].op \in {"clear", "replace"} /\ job[p].user = u
              /\ job'[p] = [job[p] EXCEPT !.seen = @ \ job[q].seen]
  BY <1>1, <1>3, <1>4, Deleting DEF ToolsHold
<1>6. ToolsTypeOK'
  BY <1>4 DEF ToolsHold, ToolsTypeOK
<1>7. Doing(q)'
  BY <1>1, <1>2, <1>3, <1>4, <1>5 DEF Doing, accountVars
<1>8. /\ userTools'[u] = userTools[u] \ job[q].seen
      /\ \A v \in User : v # u => userTools'[v] = userTools[v]
  BY <1>4 DEF ToolsHold, ToolsTypeOK
<1>9. q \in Replacing(u)' /\ q \notin overlapped' =>
          userTools'[u] \cup job'[q].seen = job'[q].ask
  BY <1>2, <1>3, <1>4, <1>5, <1>8 DEF Settled
<1>10. q \in Replacing(u)' /\ job'[q].op = "insert"
  BY <1>3, <1>5 DEF Replacing
<1>11. userTools'[u] \cap AdminTool \subseteq granted'[u]
  BY <1>2, <1>4, <1>8 DEF Settled
<1> HIDE DEF Replacing
<1> QED BY <1>2, <1>3, <1>4, <1>5, <1>6, <1>7, <1>8, <1>9, <1>10, <1>11, ReplacementMoves

\* How q settles u's tools.
LEMMA Settling ==
    ASSUME ToolsTypeOK, job \in [Req -> Job], NEW q \in Req, NEW u \in User,
           NEW ok \in BOOLEAN, Settle(q, u, ok)
    PROVE  /\ muddled' \subseteq User /\ overlapped' = overlapped \ {q}
           /\ lastAsked' \in [User -> SUBSET Tool]
           /\ \A v \in User : v # u => /\ lastAsked'[v] = lastAsked[v]
                                       /\ (v \in muddled <=> v \in muddled')
           /\ u \notin muddled' => /\ ok /\ q \notin overlapped
                                   /\ lastAsked'[u] = job[q].ask
<1>1. job[q].ask \in SUBSET Tool
  BY DEF Job
<1> QED BY <1>1 DEF Settle, ToolsTypeOK

LEMMA InsertKept ==
    ASSUME ToolsHold, NEW q \in Req, NEW t \in Tool, InsertTool(q, t)
    PROVE  ToolsHold'
<1>1. PICK u \in User : u = job[q].user /\ status[u] # "absent"
  BY DEF InsertTool, ToolsHold, Doing
<1>2. /\ job[q].op = "insert" /\ job[q].ask \cap AdminTool = {} /\ q \in Replacing(u)
      /\ job[q] \in Job /\ Settled(u) /\ t \in job[q].seen /\ job[q].seen \subseteq job[q].ask
  BY <1>1 DEF InsertTool, ToolsHold, Doing, Replacing
<1>3. UNCHANGED <<accountVars, active, contents, granted, vehicles>>
  BY DEF InsertTool
<1>4. CASE t \in userTools[u]
  <2>1. job' = [job EXCEPT ![q] = Idle] /\ Settle(q, u, FALSE) /\ userTools' = userTools
    BY <1>1, <1>4 DEF InsertTool
  <2>2. /\ job' \in [Req -> Job] /\ job'[q] = Idle
        /\ \A p \in Req : p # q => job'[p] = job[p]
    BY <2>1, IdleIsJob DEF ToolsHold
  <2>3. /\ muddled' \subseteq User /\ overlapped' = overlapped \ {q}
        /\ lastAsked' \in [User -> SUBSET Tool]
        /\ \A v \in User : v # u => /\ lastAsked'[v] = lastAsked[v]
                                    /\ (v \in muddled <=> v \in muddled')
        /\ u \in muddled'
    BY <2>1, Settling DEF ToolsHold
  <2>4. ToolsTypeOK'
    BY <1>3, <2>1, <2>3 DEF ToolsHold, ToolsTypeOK
  <2>5. Doing(q)' /\ q \notin Replacing(u)' /\ job'[q].op = "idle" /\ job'[q].user = "none"
    BY <2>2 DEF Doing, Replacing, Idle
  <2>6. userTools'[u] \cap AdminTool \subseteq granted'[u]
    BY <1>2, <1>3, <2>1 DEF Settled
  <2> HIDE DEF Replacing
  <2> QED BY <1>2, <1>3, <2>1, <2>2, <2>3, <2>4, <2>5, <2>6, ReplacementMoves
<1>5. CASE t \notin userTools[u]
  <2>1. /\ job' = [job EXCEPT ![q].seen = @ \ {t}] /\ UNCHANGED <<overlapped, muddled, lastAsked>>
        /\ userTools' = [userTools EXCEPT ![u] = @ \cup {t}]
    BY <1>1, <1>5 DEF InsertTool
  <2>2. job'[q] = [job[q] EXCEPT !.seen = @ \ {t}]
    BY <2>1 DEF ToolsHold
  <2>3. /\ job'[q] \in Job /\ job'[q].op = "insert" /\ job'[q].user = u
        /\ job'[q].ask = job[q].ask /\ job'[q].seen = job[q].seen \ {t}
    BY <1>1, <1>2, <2>2 DEF Job
  <2>4. job' \in [Req -> Job] /\ \A p \in Req : p # q => job'[p] = job[p]
    BY <2>1, <2>3 DEF ToolsHold
  <2>5. /\ userTools'[u] = userTools[u] \cup {t}
        /\ \A v \in User : v # u => userTools'[v] = userTools[v]
    BY <2>1 DEF ToolsHold, ToolsTypeOK
  <2>6. ToolsTypeOK'
    BY <1>3, <2>1 DEF ToolsHold, ToolsTypeOK
  <2>7. Doing(q)'
    BY <1>1, <1>2, <1>3, <2>3 DEF Doing, accountVars
  <2>8. q \in Replacing(u)'
    BY <2>3 DEF Replacing
  <2>9. q \notin overlapped' => userTools'[u] \cup job'[q].seen = job'[q].ask
    BY <1>2, <2>1, <2>3, <2>5 DEF Settled
  <2>10. userTools'[u] \cap AdminTool \subseteq granted'[u]
    BY <1>2, <1>3, <2>5 DEF Settled
  <2> HIDE DEF Replacing
  <2> QED BY <1>2, <1>3, <2>1, <2>3, <2>4, <2>5, <2>6, <2>7, <2>8, <2>9, <2>10, ReplacementMoves
<1> QED BY <1>4, <1>5

\* A replacement that ends without touching the others.
LEMMA ReplacementEnds ==
    ASSUME ToolsHold, NEW q \in Req, NEW u \in User, q \in Replacing(u),
           NEW ok \in BOOLEAN, Settle(q, u, ok), ok => job[q].op = "insert" /\ job[q].seen = {},
           ~ok => job[q].op = "insert",
           job' = [job EXCEPT ![q] = Idle],
           UNCHANGED <<accountVars, active, contents, userTools, granted, vehicles>>
    PROVE  ToolsHold'
<1>1. Settled(u) /\ job[q].op = "insert"
  BY DEF ToolsHold
<1>2. /\ job' \in [Req -> Job] /\ job'[q] = Idle
      /\ \A p \in Req : p # q => job'[p] = job[p]
  BY IdleIsJob DEF ToolsHold
<1>3. /\ muddled' \subseteq User /\ overlapped' = overlapped \ {q}
      /\ lastAsked' \in [User -> SUBSET Tool]
      /\ \A v \in User : v # u => /\ lastAsked'[v] = lastAsked[v]
                                  /\ (v \in muddled <=> v \in muddled')
      /\ u \notin muddled' => ok /\ q \notin overlapped /\ lastAsked'[u] = job[q].ask
  BY Settling DEF ToolsHold
<1>4. ToolsTypeOK'
  BY <1>3 DEF ToolsHold, ToolsTypeOK
<1>5. Doing(q)' /\ q \notin Replacing(u)' /\ job'[q].op = "idle" /\ job'[q].user = "none"
  BY <1>2 DEF Doing, Replacing, Idle
<1>6. u \notin muddled' => userTools'[u] = lastAsked'[u]
  BY <1>1, <1>3 DEF Settled
<1>7. userTools'[u] \cap AdminTool \subseteq granted'[u]
  BY <1>1 DEF Settled
<1> HIDE DEF Replacing
<1> QED BY <1>2, <1>3, <1>4, <1>5, <1>6, <1>7, ReplacementMoves

LEMMA EndKept ==
    ASSUME ToolsHold, NEW q \in Req, EndMyTools(q)
    PROVE  ToolsHold'
<1>1. PICK u \in User : u = job[q].user
  BY DEF EndMyTools, Finish, ToolsHold, Doing
<1>2. /\ job[q].op = "insert" /\ job[q].seen = {} /\ q \in Replacing(u)
      /\ job' = [job EXCEPT ![q] = Idle] /\ Settle(q, u, TRUE)
      /\ UNCHANGED <<accountVars, active, contents, userTools, granted, vehicles>>
  BY <1>1 DEF EndMyTools, Finish, Replacing
<1> QED BY <1>2, ReplacementEnds

\* What concerns no replacement.
LEMMA NoReplacement ==
    ASSUME ToolsHold, AccountsGrow, job' \in [Req -> Job], ToolsTypeOK', UNCHANGED grantVars,
           \A p \in Req : Doing(p)',
           \A p \in Req : \/ job[p].op \in {"clear", "insert", "replace"}
                          \/ job'[p].op \in {"clear", "insert", "replace"}
                          => job'[p] = job[p]
    PROVE  ToolsHold'
<1>1. ASSUME NEW v \in User
      PROVE  Settled(v)'
  <2>1. \A p \in Req : p \in Replacing(v) \/ p \in Replacing(v)' => job'[p] = job[p]
    BY DEF Replacing
  <2> QED BY <2>1, SettledKept DEF grantVars, ToolsHold
<1> QED BY <1>1 DEF ToolsHold

\* Losing a request that has not replaced anything.
LEMMA LosingKept ==
    ASSUME ToolsHold, NEW q \in Req, job[q].op \in AccountOps \cup ToolOps, job[q].op # "insert",
           job' = [job EXCEPT ![q] = Idle], overlapped' = overlapped \ {q},
           UNCHANGED <<accountVars, active, contents, userTools, granted, vehicles, muddled,
                       lastAsked>>
    PROVE  ToolsHold'
<1>1. /\ job' \in [Req -> Job] /\ job'[q] = Idle
      /\ \A p \in Req : p # q => job'[p] = job[p]
  BY IdleIsJob DEF ToolsHold
<1>2. AccountsGrow /\ ToolsTypeOK'
  BY SameAccounts DEF ToolsHold, ToolsTypeOK
<1>3. Doing(q)' /\ job'[q].op = "idle" /\ job'[q].user = "none"
  BY <1>1 DEF Doing, Idle
<1>4. CASE job[q].op \in {"clear", "replace"}
  <2>1. PICK u \in User : u = job[q].user
    BY <1>4 DEF ToolsHold, Doing
  <2>2. q \in Replacing(u) /\ q \notin Replacing(u)' /\ Settled(u)
    BY <1>3, <1>4, <2>1 DEF Replacing, ToolsHold
  <2>3. u \notin muddled' /\ (\A p \in Replacing(u)' : job'[p].op # "insert")
        => userTools'[u] = lastAsked'[u]
    <3>1. ASSUME NEW p \in Replacing(u), job[p].op = "insert"
          PROVE  p \in Replacing(u)' /\ job'[p].op = "insert"
      BY <1>1, <1>4, <3>1 DEF Replacing
    <3> QED BY <2>2, <3>1 DEF Settled
  <2>4. userTools'[u] \cap AdminTool \subseteq granted'[u]
    BY <2>2 DEF Settled
  <2> HIDE DEF Replacing
  <2> QED BY <1>1, <1>2, <1>3, <2>2, <2>3, <2>4, ReplacementMoves
<1>5. CASE job[q].op \notin {"clear", "insert", "replace"}
  <2>1. ASSUME NEW v \in User
        PROVE  Settled(v)'
    <3>1. /\ \A p \in Req : p \in Replacing(v) \/ p \in Replacing(v)' => job'[p] = job[p]
          /\ q \notin Replacing(v)
      BY <1>1, <1>3, <1>5 DEF Replacing
    <3> QED BY <1>2, <3>1, SettledKept DEF ToolsHold
  <2> QED BY <1>1, <1>2, <1>3, <2>1, DoingKept DEF ToolsHold
<1> QED BY <1>4, <1>5

LEMMA AbortKept ==
    ASSUME ToolsHold, NEW q \in Req, AbortJob(q)
    PROVE  ToolsHold'
<1>1. /\ job[q].op \in AccountOps \cup ToolOps /\ job' = [job EXCEPT ![q] = Idle]
      /\ UNCHANGED <<accountVars, active, contents, userTools, granted, vehicles>>
  BY DEF AbortJob, Abort
<1>2. CASE job[q].op = "insert"
  <2>1. PICK u \in User : u = job[q].user
    BY <1>2 DEF ToolsHold, Doing
  <2>2. q \in Replacing(u) /\ Settle(q, u, FALSE)
    BY <1>2, <2>1 DEF Replacing, AbortJob
  <2> QED BY <1>1, <1>2, <2>2, ReplacementEnds
<1>3. CASE job[q].op # "insert"
  BY <1>1, <1>3, LosingKept DEF AbortJob
<1> QED BY <1>2, <1>3

LEMMA CommitKept ==
    ASSUME ToolsHold, NEW q \in Req, CommitUserTools(q)
    PROVE  ToolsHold'
<1>1. PICK u \in User : u = job[q].user /\ status[u] # "absent"
  BY DEF CommitUserTools, ToolsHold, Doing
<1> DEFINE ask == job[q].ask
<1>2. /\ job[q].op = "replace" /\ q \in Replacing(u) /\ job[q] \in Job /\ ask \subseteq Tool
      /\ Settled(u) /\ UNCHANGED <<accountVars, active, contents, vehicles>>
  BY <1>1 DEF CommitUserTools, Replacing, ToolsHold, Job
<1>3. CASE ask \cap (userTools[u] \ job[q].seen) # {}
  BY <1>1, <1>2, <1>3, LosingKept DEF CommitUserTools, ToolOps
<1>4. CASE ~(ask \cap (userTools[u] \ job[q].seen) # {})
  <2>1. /\ job' = AfterDelete(q, Idle) /\ Settle(q, u, TRUE)
        /\ userTools' = [userTools EXCEPT ![u] = (userTools[u] \ job[q].seen) \cup ask]
        /\ granted' = [granted EXCEPT ![u] =
                          AdminTool \cap (ask \cup IF q \in overlapped THEN @ ELSE {})]
    BY <1>1, <1>4 DEF CommitUserTools, Remaining
  <2>2. /\ job' \in [Req -> Job] /\ job'[q] = Idle
        /\ \A p \in Req : p # q =>
             \/ job'[p] = job[p]
             \/ /\ job[p].op \in {"clear", "replace"} /\ job[p].user = u
                /\ job'[p] = [job[p] EXCEPT !.seen = @ \ job[q].seen]
    BY <1>1, <2>1, IdleIsJob, Deleting DEF ToolsHold
  <2>3. /\ muddled' \subseteq User /\ overlapped' = overlapped \ {q}
        /\ lastAsked' \in [User -> SUBSET Tool]
        /\ \A v \in User : v # u => /\ lastAsked'[v] = lastAsked[v]
                                    /\ (v \in muddled <=> v \in muddled')
        /\ u \notin muddled' => q \notin overlapped /\ lastAsked'[u] = ask
    BY <2>1, Settling DEF ToolsHold
  <2>4. /\ userTools' \in [User -> SUBSET Tool] /\ granted' \in [User -> SUBSET Tool]
        /\ userTools'[u] = (userTools[u] \ job[q].seen) \cup ask
        /\ granted'[u] = AdminTool \cap (ask \cup IF q \in overlapped THEN granted[u] ELSE {})
        /\ \A v \in User : v # u => userTools'[v] = userTools[v] /\ granted'[v] = granted[v]
    BY <1>2, <2>1 DEF ToolsHold, ToolsTypeOK
  <2>5. ToolsTypeOK'
    BY <1>2, <2>3, <2>4 DEF ToolsHold, ToolsTypeOK
  <2>6. Doing(q)' /\ q \notin Replacing(u)' /\ job'[q].op = "idle" /\ job'[q].user = "none"
    BY <2>2 DEF Doing, Replacing, Idle
  <2>7. q \notin overlapped => userTools[u] = job[q].seen
    BY <1>2 DEF Settled
  <2>8. u \notin muddled' => userTools'[u] = lastAsked'[u]
    BY <2>3, <2>4, <2>7
  <2>9. userTools'[u] \cap AdminTool \subseteq granted'[u]
    BY <1>2, <2>4, <2>7 DEF Settled
  <2>10. \A v \in User : v # u =>
            /\ userTools'[v] = userTools[v] /\ lastAsked'[v] = lastAsked[v]
            /\ granted'[v] = granted[v] /\ (v \in muddled <=> v \in muddled')
    BY <2>3, <2>4
  <2>11. overlapped \ {q} \subseteq overlapped' /\ UNCHANGED accountVars
    BY <1>2, <2>3
  <2> HIDE DEF Replacing, ask
  <2> QED BY <1>2, <2>2, <2>5, <2>6, <2>8, <2>9, <2>10, <2>11, ReplacementMoves
<1> QED BY <1>3, <1>4

\* A vehicle is added or removed.
LEMMA FleetKept ==
    ASSUME ToolsHold, FleetStep
    PROVE  ToolsHold'
<1>1. ASSUME NEW q \in Req, NEW u \in Owner, BeginAddVehicle(q, u)
      PROVE  ToolsHold'
  <2>1. Task("vehicle", u, "none", {}, {}) \in Job /\ Task("vehicle", u, "none", {}, {}).op = "vehicle"
        /\ Task("vehicle", u, "none", {}, {}).user = u
    BY TaskIsJob, BoundsType DEF Task, ToolOps
  <2>2. /\ job' \in [Req -> Job] /\ job'[q].op = "vehicle" /\ job'[q].user = u
        /\ job[q].op = "idle" /\ \A p \in Req : p # q => job'[p] = job[p]
    BY <1>1, <2>1, Starting DEF BeginAddVehicle, ToolsHold, Idle
  <2>3. AccountsGrow /\ ToolsTypeOK' /\ UNCHANGED grantVars
    BY <1>1, SameAccounts DEF BeginAddVehicle, ToolsHold, ToolsTypeOK, grantVars
  <2>4. Doing(q)'
    BY <2>2 DEF Doing
  <2> QED BY <2>2, <2>3, <2>4, DoingKept, NoReplacement
<1>2. ASSUME NEW q \in Req, InsertVehicle(q)
      PROVE  ToolsHold'
  <2>1. job[q].user \in Owner
    BY <1>2 DEF InsertVehicle, Finish, ToolsHold, Doing
  <2>2. /\ job' \in [Req -> Job] /\ job'[q].op = "idle" /\ job[q].op = "vehicle"
        /\ \A p \in Req : p # q => job'[p] = job[p]
    BY <1>2, Finishing DEF InsertVehicle, ToolsHold, Idle
  <2>3. AccountsGrow /\ ToolsTypeOK' /\ UNCHANGED grantVars
    BY <1>2, <2>1, SameAccounts DEF InsertVehicle, ToolsHold, ToolsTypeOK, grantVars
  <2>4. Doing(q)'
    BY <2>2 DEF Doing
  <2> QED BY <2>2, <2>3, <2>4, DoingKept, NoReplacement
<1>3. ASSUME NEW u \in Owner, DeleteMyVehicle(u)
      PROVE  ToolsHold'
  <2>1. vehicles' \in [Owner -> Nat]
    BY <1>3 DEF DeleteMyVehicle, OwnsVehicle, ToolsHold, ToolsTypeOK
  <2>2. AccountsGrow /\ ToolsTypeOK' /\ UNCHANGED <<grantVars, job>>
    BY <1>3, <2>1, SameAccounts DEF DeleteMyVehicle, ToolsHold, ToolsTypeOK, grantVars
  <2> QED BY <2>2, DoingKept, NoReplacement DEF ToolsHold
<1> QED BY <1>1, <1>2, <1>3 DEF FleetStep

LEMMA ToolStepsKept ==
    ASSUME ToolsHold, ToolsStep
    PROVE  ToolsHold'
<1>1. ASSUME NEW q \in Req, NEW u \in Holder, NEW ask \in Choice, BeginMyTools(q, u, ask)
      PROVE  ToolsHold'
  <2>1. /\ u \in User /\ ask \in SUBSET Tool /\ ask \cap AdminTool = {} /\ status[u] # "absent"
    BY <1>1, BoundsType DEF BeginMyTools, SelfSelectable, isEligibleStatus
  <2> QED BY <1>1, <2>1, ReplacementBegins DEF BeginMyTools
<1>2. ASSUME NEW q \in Req, NEW u \in Holder, NEW ask \in SUBSET Tool, BeginSetUserTools(q, u, ask)
      PROVE  ToolsHold'
  <2>1. u \in User
    BY BoundsType
  <2> QED BY <1>2, <2>1, ReplacementBegins DEF BeginSetUserTools
<1>3. ASSUME NEW s \in PermSet, SetStep(s)
      PROVE  ToolsHold'
  <2>1. ASSUME NEW ask \in Choice, UpdatePermissionSet(s, ask)
        PROVE  ToolsHold'
    <3>1. AccountsGrow /\ ToolsTypeOK' /\ UNCHANGED <<grantVars, job>>
      BY <2>1, SameAccounts, BoundsType
         DEF UpdatePermissionSet, ToolsHold, ToolsTypeOK, grantVars
    <3> QED BY <3>1, DoingKept, NoReplacement DEF ToolsHold
  <2>2. contents[s] \in SUBSET Tool
    BY DEF ToolsHold, ToolsTypeOK
  <2> QED BY <1>2, <1>3, <2>1, <2>2 DEF SetStep, BeginApplySet
<1>4. ASSUME NEW t \in Volatile, UpdateTool(t)
      PROVE  ToolsHold'
  <2>1. AccountsGrow /\ ToolsTypeOK' /\ UNCHANGED <<grantVars, job>>
    BY <1>4, SameAccounts, BoundsType DEF UpdateTool, ToolsHold, ToolsTypeOK, grantVars
  <2> QED BY <2>1, DoingKept, NoReplacement DEF ToolsHold
<1>5. ASSUME NEW q \in Req, MyToolsStep(q) \/ StaffToolsStep(q)
      PROVE  ToolsHold'
  BY <1>1, <1>2, <1>5, ClearKept, InsertKept, EndKept, CommitKept, BoundsType
     DEF MyToolsStep, StaffToolsStep
<1> QED BY <1>3, <1>4, <1>5, FleetKept DEF ToolsStep

\* A step of the accounts or of the sessions.
LEMMA ElsewhereKept ==
    ASSUME ToolsHold, AccountsGrow, job' \in [Req -> Job], UNCHANGED toolVars, Spares(ToolOps)
    PROVE  ToolsHold'
<1>1. ToolsTypeOK' /\ UNCHANGED grantVars
  BY DEF ToolsHold, ToolsTypeOK, toolVars, grantVars
<1>2. ASSUME NEW q \in Req
      PROVE  Doing(q)'
  <2>1. CASE job'[q].op \in ToolOps
    BY <2>1, DoingKept DEF Spares
  <2>2. CASE job'[q].op \notin ToolOps
    BY <2>2 DEF Doing, ToolOps
  <2> QED BY <2>1, <2>2
<1> QED BY <1>1, <1>2, NoReplacement DEF Spares, ToolOps

LEMMA RegisterKept ==
    ASSUME ToolsHold, AccountsGrow, AccountsTypeOK,
           NEW c \in Company, NEW ask \in SUBSET Tool, Register(c, ask)
    PROVE  ToolsHold'
<1>1. c \in User /\ status[c] = "absent"
  BY DEF User, Register, RegisterAccount
<1>2. Replacing(c) = {}
  BY <1>1 DEF Replacing, ToolsHold, Doing
<1>3. /\ job' = job /\ UNCHANGED <<active, contents, granted, overlapped, muddled, vehicles>>
      /\ userTools' = [userTools EXCEPT ![c] = ask] /\ lastAsked' = [lastAsked EXCEPT ![c] = ask]
      /\ ask \cap AdminTool = {} /\ status'[c] = "pending"
  BY <1>1 DEF Register, SelfSelectable, RegisterAccount, UpdateStatus, AccountsTypeOK
<1>4. ToolsTypeOK'
  BY <1>1, <1>3 DEF ToolsHold, ToolsTypeOK
<1>5. \A v \in User : Replacing(v)' = Replacing(v)
  BY <1>3 DEF Replacing
<1>6. Settled(c)'
  <2>1. userTools'[c] = ask /\ lastAsked'[c] = ask
    BY <1>1, <1>3 DEF ToolsHold, ToolsTypeOK
  <2> QED BY <1>1, <1>2, <1>3, <1>5, <2>1 DEF Settled
<1>7. ASSUME NEW v \in User, v # c
      PROVE  Settled(v)'
  <2>1. userTools'[v] = userTools[v] /\ lastAsked'[v] = lastAsked[v]
    BY <1>3, <1>7 DEF ToolsHold, ToolsTypeOK
  <2> QED BY <1>3, <1>7, <2>1, SettledKept DEF ToolsHold
<1> QED BY <1>3, <1>4, <1>6, <1>7, DoingKept DEF ToolsHold

LEMMA ToolsKept ==
    ASSUME ToolsHold, AccountsTypeOK, AccountsInv, LogExplainsCompany,
           [PlatformNext]_platformVars
    PROVE  ToolsHold'
<1>1. AccountsGrow /\ job' \in [Req -> Job]
  BY AccountsKept DEF ToolsHold, AccountsTypeOK
<1>2. ASSUME AccountsStep \/ SessionStep \/ UNCHANGED job, UNCHANGED toolVars
      PROVE  ToolsHold'
  <2>1. Spares(ToolOps)
    BY <1>2, AccountStepsSpare, SessionStepsSpare DEF ToolsHold, Spares
  <2> QED BY <1>1, <1>2, <2>1, ElsewhereKept
<1> QED
  BY <1>1, <1>2, PlatformCases, ToolStepsKept, AbortKept, RegisterKept

LEMMA ToolsStart == PlatformInit => ToolsHold
<1> SUFFICES ASSUME PlatformInit
             PROVE  ToolsHold
  OBVIOUS
<1>1. /\ active = Tool /\ userTools = [u \in User |-> {}] /\ contents = [s \in PermSet |-> {}]
      /\ vehicles = [u \in Owner |-> 0] /\ granted = [u \in User |-> {}]
      /\ lastAsked = [u \in User |-> {}] /\ overlapped = {} /\ muddled = {}
      /\ job = [q \in Req |-> Idle]
  BY DEF PlatformInit, ToolsInit, AccountsInit
<1>2. ToolsTypeOK /\ job \in [Req -> Job]
  BY <1>1, IdleIsJob DEF ToolsTypeOK
<1>3. \A u \in User : Replacing(u) = {}
  BY <1>1 DEF Replacing, Idle
<1> QED BY <1>1, <1>2, <1>3 DEF ToolsHold, Doing, Settled, Idle

-----------------------------------------------------------------------------
(* The vehicles.                                                           *)

LEMMA InsertingFinite ==
    ASSUME NEW u
    PROVE  /\ IsFiniteSet(Inserting(u)) /\ Cardinality(Inserting(u)) \in Nat
           /\ Cardinality(Inserting(u)) <= Cardinality(Req) /\ Cardinality(Req) \in Nat
<1>1. Inserting(u) \subseteq Req
  BY DEF Inserting
<1> QED BY <1>1, RequestsFinite, FS_Subset, FS_CardinalityType

\* The requests about to insert a vehicle in the next state are finite too.
LEMMA InsertingFiniteNext ==
    ASSUME NEW u
    PROVE  /\ IsFiniteSet(Inserting(u)') /\ Cardinality(Inserting(u)') \in Nat
           /\ Cardinality(Inserting(u)') <= Cardinality(Req)
<1>1. Inserting(u)' \subseteq Req
  BY DEF Inserting
<1> QED BY <1>1, RequestsFinite, FS_Subset, FS_CardinalityType

LEMMA NoNewVehicle ==
    ASSUME ToolsHold, FleetWithinLimit, NEW u \in Owner, vehicles'[u] \in Nat,
           vehicles'[u] <= vehicles[u], Inserting(u)' \subseteq Inserting(u)
    PROVE  vehicles'[u] + Cardinality(Inserting(u)') <= VehicleLimit - 1 + Cardinality(Req)
<1>1. Cardinality(Inserting(u)') <= Cardinality(Inserting(u))
  BY InsertingFinite, FS_Subset
<1>2. vehicles[u] \in Nat
  BY DEF ToolsHold, ToolsTypeOK
<1>3. vehicles[u] + Cardinality(Inserting(u)) <= VehicleLimit - 1 + Cardinality(Req)
  BY DEF FleetWithinLimit
<1> HIDE DEF Inserting
<1> QED BY <1>1, <1>2, <1>3, InsertingFinite, InsertingFiniteNext, LimitType

LEMMA FleetBound ==
    ASSUME ToolsHold, FleetWithinLimit, FleetStep
    PROVE  FleetWithinLimit'
<1> SUFFICES ASSUME NEW v \in Owner
             PROVE  vehicles'[v] + Cardinality(Inserting(v)') <= VehicleLimit - 1 + Cardinality(Req)
  BY DEF FleetWithinLimit
<1>0. vehicles \in [Owner -> Nat] /\ vehicles' \in [Owner -> Nat]
  BY FleetKept DEF ToolsHold, ToolsTypeOK
<1>1. ASSUME NEW q \in Req, NEW u \in Owner, BeginAddVehicle(q, u)
      PROVE  vehicles'[v] + Cardinality(Inserting(v)') <= VehicleLimit - 1 + Cardinality(Req)
  <2>1. vehicles' = vehicles /\ vehicles[u] < VehicleLimit
    BY <1>1 DEF BeginAddVehicle, BelowLimit
  <2>2. CASE v = u
    <3>1. /\ Cardinality(Inserting(v)') \in Nat /\ Cardinality(Req) \in Nat
          /\ Cardinality(Inserting(v)') <= Cardinality(Req)
      BY InsertingFinite, InsertingFiniteNext
    <3>2. vehicles'[v] \in Nat /\ vehicles'[v] <= VehicleLimit - 1
      BY <1>0, <2>1, <2>2, LimitType
    <3> QED BY <3>1, <3>2, LimitType
  <2>3. CASE v # u
    <3>1. Task("vehicle", u, "none", {}, {}) \in Job
      BY TaskIsJob, BoundsType DEF ToolOps
    <3>2. /\ job'[q].user = u /\ \A p \in Req : p # q => job'[p] = job[p]
      BY <1>1, <3>1, Starting DEF BeginAddVehicle, ToolsHold, Task
    <3>3. Inserting(v)' \subseteq Inserting(v)
      BY <2>3, <3>2 DEF Inserting
    <3> QED BY <1>0, <2>1, <3>3, NoNewVehicle
  <2> QED BY <2>2, <2>3
<1>2. ASSUME NEW q \in Req, InsertVehicle(q)
      PROVE  vehicles'[v] + Cardinality(Inserting(v)') <= VehicleLimit - 1 + Cardinality(Req)
  <2>1. /\ job'[q].op = "idle" /\ job[q].op = "vehicle" /\ job[q].user \in Owner
        /\ \A p \in Req : p # q => job'[p] = job[p]
    BY <1>2, Finishing DEF InsertVehicle, Finish, ToolsHold, Doing, Idle
  <2>2. Inserting(v)' = Inserting(v) \ {q}
    BY <2>1 DEF Inserting
  <2>3. CASE v = job[q].user
    <3>1. vehicles'[v] = vehicles[v] + 1
      BY <1>0, <1>2, <2>3 DEF InsertVehicle
    <3>2. q \in Inserting(v)
      BY <2>1, <2>3 DEF Inserting
    <3>3. Cardinality(Inserting(v)') = Cardinality(Inserting(v)) - 1
      BY <2>2, <3>2, InsertingFinite, FS_RemoveElement
    <3>4. vehicles[v] + Cardinality(Inserting(v)) <= VehicleLimit - 1 + Cardinality(Req)
      BY DEF FleetWithinLimit
    <3>5. Cardinality(Inserting(v)) \in Nat /\ Cardinality(Req) \in Nat /\ vehicles[v] \in Nat
      BY <1>0, InsertingFinite
    <3> QED BY <3>1, <3>3, <3>4, <3>5, LimitType
  <2>4. CASE v # job[q].user
    <3>1. vehicles'[v] = vehicles[v] /\ vehicles[v] \in Nat
      BY <1>0, <1>2, <2>1, <2>4 DEF InsertVehicle
    <3>2. vehicles'[v] \in Nat /\ vehicles'[v] <= vehicles[v]
      BY <3>1
    <3>3. Inserting(v)' \subseteq Inserting(v)
      BY <2>2
    <3> QED BY <3>2, <3>3, NoNewVehicle
  <2> QED BY <2>3, <2>4
<1>3. ASSUME NEW u \in Owner, DeleteMyVehicle(u)
      PROVE  vehicles'[v] + Cardinality(Inserting(v)') <= VehicleLimit - 1 + Cardinality(Req)
  <2>1. vehicles'[v] <= vehicles[v] /\ Inserting(v)' = Inserting(v)
    BY <1>0, <1>3 DEF DeleteMyVehicle, OwnsVehicle, Inserting
  <2> QED BY <1>0, <2>1, NoNewVehicle
<1> QED BY <1>1, <1>2, <1>3 DEF FleetStep

\* No other step starts to add a vehicle.
LEMMA NobodyInserts ==
    ASSUME ToolsHold, [PlatformNext]_platformVars, ~FleetStep
    PROVE  /\ vehicles' = vehicles
           /\ \A p \in Req : job'[p].op = "vehicle" => job'[p] = job[p]
<1> DEFINE Goal == /\ vehicles' = vehicles
                   /\ \A p \in Req : job'[p].op = "vehicle" => job'[p] = job[p]
<1>1. ASSUME NEW q \in Req, NEW u \in User, NEW op \in {"clear", "replace"},
             NEW ask \in SUBSET Tool, Start(q, Task(op, u, "none", ask, userTools[u])),
             UNCHANGED vehicles
      PROVE  Goal
  <2>1. Task(op, u, "none", ask, userTools[u]) \in Job
    BY TaskIsJob DEF ToolOps, ToolsHold, ToolsTypeOK
  <2>2. job'[q].op = op /\ \A p \in Req : p # q => job'[p] = job[p]
    BY <1>1, <2>1, Starting DEF ToolsHold, Task
  <2> QED BY <1>1, <2>2
<1>2. ASSUME NEW q \in Req, job' = [job EXCEPT ![q] = Idle], UNCHANGED vehicles
      PROVE  Goal
  BY <1>2 DEF ToolsHold, Idle
<1>3. ASSUME NEW q \in Req, NEW task, task.op # "vehicle", job' = AfterDelete(q, task),
             UNCHANGED vehicles
      PROVE  Goal
  <2>1. ASSUME NEW p \in Req, p # q, job'[p] # job[p]
        PROVE  job'[p].op # "vehicle"
    BY <1>3, <2>1 DEF AfterDelete, ToolsHold, Job
  <2>2. job'[q] = task
    BY <1>3 DEF AfterDelete
  <2> QED BY <1>3, <2>1, <2>2
<1>4. ASSUME NEW q \in Req, NEW u \in Holder, NEW ask \in SUBSET Tool,
             \/ ask \in Choice /\ BeginMyTools(q, u, ask)
             \/ BeginSetUserTools(q, u, ask)
      PROVE  Goal
  BY <1>1, <1>4, BoundsType DEF BeginMyTools, BeginSetUserTools
<1>5. ASSUME NEW q \in Req, ClearTools(q)
      PROVE  Goal
  <2>1. [job[q] EXCEPT !.op = "insert", !.seen = job[q].ask].op # "vehicle"
    BY DEF ToolsHold, Job
  <2> QED BY <1>3, <1>5, <2>1 DEF ClearTools
<1>6. ASSUME NEW q \in Req, NEW t \in Tool, InsertTool(q, t)
      PROVE  Goal
  <2>1. CASE job' = [job EXCEPT ![q] = Idle]
    BY <1>2, <1>6, <2>1 DEF InsertTool
  <2>2. CASE job' = [job EXCEPT ![q].seen = @ \ {t}]
    <3>1. /\ job'[q] = [job[q] EXCEPT !.seen = @ \ {t}]
          /\ \A p \in Req : p # q => job'[p] = job[p]
      BY <2>2 DEF ToolsHold
    <3>2. job'[q].op # "vehicle" /\ vehicles' = vehicles
      BY <1>6, <3>1 DEF ToolsHold, Job, InsertTool
    <3> QED BY <3>1, <3>2
  <2> QED BY <1>6, <2>1, <2>2 DEF InsertTool
<1>7. ASSUME NEW q \in Req, EndMyTools(q)
      PROVE  Goal
  BY <1>2, <1>7 DEF EndMyTools, Finish
<1>8. ASSUME NEW q \in Req, CommitUserTools(q)
      PROVE  Goal
  <2>1. Idle.op # "vehicle"
    BY DEF Idle
  <2> QED BY <1>2, <1>3, <1>8, <2>1 DEF CommitUserTools
<1>9. ASSUME NEW q \in Req, AbortJob(q)
      PROVE  Goal
  BY <1>2, <1>9 DEF AbortJob, Abort
<1>10. ASSUME AccountsStep \/ SessionStep \/ UNCHANGED job, UNCHANGED toolVars
       PROVE  Goal
  BY <1>10, AccountStepsSpare, SessionStepsSpare DEF ToolsHold, Spares, ToolOps, toolVars
<1>11. ASSUME NEW c \in Company, NEW ask \in SUBSET Tool, Register(c, ask)
       PROVE  Goal
  BY <1>11 DEF Register
<1> HIDE DEF Goal
<1>12. ASSUME NEW s \in PermSet, SetStep(s)
       PROVE  Goal
  <2>1. ASSUME NEW ask \in Choice, UpdatePermissionSet(s, ask)
        PROVE  Goal
    BY <2>1 DEF UpdatePermissionSet, Goal
  <2>2. contents[s] \in SUBSET Tool
    BY DEF ToolsHold, ToolsTypeOK
  <2> QED BY <1>4, <1>12, <2>1, <2>2 DEF SetStep, BeginApplySet
<1>13. ASSUME NEW t \in Volatile, UpdateTool(t)
       PROVE  Goal
  BY <1>13 DEF UpdateTool, Goal
<1>14. ASSUME ToolsStep
       PROVE  Goal
  BY <1>4, <1>5, <1>6, <1>7, <1>8, <1>12, <1>13, <1>14, BoundsType
     DEF ToolsStep, MyToolsStep, StaffToolsStep
<1> QED
  BY <1>9, <1>10, <1>11, <1>14, PlatformCases DEF Goal

LEMMA FleetLimited ==
    ASSUME ToolsHold, ToolsTypeOK', FleetWithinLimit, [PlatformNext]_platformVars
    PROVE  FleetWithinLimit'
<1>1. CASE FleetStep
  BY <1>1, FleetBound
<1>2. CASE ~FleetStep
  <2> SUFFICES ASSUME NEW u \in Owner
               PROVE  vehicles'[u] + Cardinality(Inserting(u)')
                          <= VehicleLimit - 1 + Cardinality(Req)
    BY DEF FleetWithinLimit
  <2>1. vehicles'[u] = vehicles[u] /\ vehicles[u] \in Nat
    BY <1>2, NobodyInserts DEF ToolsHold, ToolsTypeOK
  <2>2. Inserting(u)' \subseteq Inserting(u)
    BY <1>2, NobodyInserts DEF Inserting
  <2>3. vehicles'[u] \in Nat /\ vehicles'[u] <= vehicles[u]
    BY <2>1
  <2> QED BY <2>2, <2>3, NoNewVehicle
<1> QED BY <1>1, <1>2

LEMMA FleetStarts == PlatformInit => FleetWithinLimit
<1> SUFFICES ASSUME PlatformInit, NEW u \in Owner
             PROVE  vehicles[u] + Cardinality(Inserting(u)) <= VehicleLimit - 1 + Cardinality(Req)
  BY DEF FleetWithinLimit
<1>1. vehicles[u] = 0 /\ Inserting(u) = {}
  BY DEF PlatformInit, ToolsInit, AccountsInit, Inserting, Idle
<1>2. Cardinality(Inserting(u)) = 0 /\ Cardinality(Req) \in Nat
  BY <1>1, FS_EmptySet, InsertingFinite
<1> QED BY <1>1, <1>2, LimitType

-----------------------------------------------------------------------------
(* Uploads.                                                                *)

LEMMA KeysDiffer ==
    ASSUME NEW d \in Upload, NEW e \in Upload, KeyOf(d) = KeyOf(e)
    PROVE  d = e
BY DEF KeyOf

LEMMA UploadsKept ==
    ASSUME UploadsTypeOK, UploadsInv, [PlatformNext]_platformVars
    PROVE  UploadsTypeOK' /\ UploadsInv'
<1>1. ASSUME UNCHANGED uploadVars
      PROVE  UploadsTypeOK' /\ UploadsInv'
  BY <1>1 DEF uploadVars, UploadsTypeOK, UploadsInv
<1>2. ASSUME NEW d \in Upload, BeginUpload(d)
      PROVE  UploadsTypeOK' /\ UploadsInv'
  BY <1>2 DEF BeginUpload, BeginDocument, BeginDealDocument, BeginFillReport, Goto,
              UploadsTypeOK, UploadsInv
<1>3. ASSUME NEW d \in Upload, PutObject(d)
      PROVE  UploadsTypeOK' /\ UploadsInv'
  <2>1. /\ stage' = [stage EXCEPT ![d] = "insert"] /\ storage' = [storage EXCEPT ![KeyOf(d)] = d]
        /\ KeyOf(d) \in Key
    BY <1>3 DEF PutObject, Goto, Key
  <2>2. UploadsTypeOK'
    BY <2>1 DEF UploadsTypeOK
  <2>3. ASSUME NEW e \in Upload, stage'[e] \in {"insert", "stored"}, Content[e] # "none"
        PROVE  storage'[KeyOf(e)] = e
    <3>1. CASE e = d
      BY <2>1, <3>1 DEF UploadsTypeOK
    <3>2. CASE e # d
      <4>1. KeyOf(e) # KeyOf(d) /\ KeyOf(e) \in Key
        BY <3>2, KeysDiffer DEF Key
      <4> QED BY <2>1, <2>3, <3>2, <4>1 DEF UploadsTypeOK, UploadsInv
    <3> QED BY <3>1, <3>2
  <2> QED BY <2>2, <2>3 DEF UploadsInv
<1>4. ASSUME NEW d \in Upload, InsertUpload(d) \/ LoseUpload(d)
      PROVE  UploadsTypeOK' /\ UploadsInv'
  BY <1>4 DEF InsertUpload, LoseUpload, Goto, UploadsTypeOK, UploadsInv
<1> QED
  BY <1>1, <1>2, <1>3, <1>4, PlatformCases DEF UploadStep, Follow

-----------------------------------------------------------------------------
(* Notices.                                                                *)

LEMMA NoticeTypes ==
    ASSUME NoticesTypeOK, [PlatformNext]_platformVars
    PROVE  NoticesTypeOK'
<1>1. ASSUME UNCHANGED noticeVars
      PROVE  NoticesTypeOK'
  BY <1>1 DEF noticeVars, fanVars, lookVars, NoticesTypeOK
<1>2. ASSUME FollowWatchers
      PROVE  NoticesTypeOK'
  BY <1>2 DEF FollowWatchers, Outdate, fanVars, NoticesTypeOK
<1>3. \A e \in Event : Audience(e) \subseteq Watcher
  BY DEF Audience, ListActiveUserIDsWithTool, ListUserIDsWithToolAndRoute
<1>4. ASSUME NEW e \in Event, EventStep(e)
      PROVE  NoticesTypeOK'
  <2>1. CASE CreateCargoRequest(e) \/ DriverCompetitionOpens(e)
    BY <2>1 DEF CreateCargoRequest, DriverCompetitionOpens, Open, lookVars, NoticesTypeOK
  <2>2. CASE ConsolidatedOpens(e) \/ Close(e)
    BY <2>2 DEF ConsolidatedOpens, Close, Open, fanVars, lookVars, NoticesTypeOK
  <2>3. CASE CustomsOpens(e)
    <3>1. unread' \in [Watcher -> SUBSET Event]
      BY <2>3 DEF CustomsOpens, NoticesTypeOK
    <3> QED BY <2>3, <3>1 DEF CustomsOpens, Open, lookVars, NoticesTypeOK
  <2>4. CASE ReadAudience(e)
    BY <1>3, <2>4 DEF ReadAudience, lookVars, NoticesTypeOK
  <2>5. CASE LoseNotifications(e)
    BY <2>5 DEF LoseNotifications, lookVars, NoticesTypeOK
  <2>6. ASSUME NEW u \in Watcher, CreateNotification(e, u)
        PROVE  NoticesTypeOK'
    BY <2>6 DEF CreateNotification, lookVars, NoticesTypeOK
  <2> QED BY <1>4, <2>1, <2>2, <2>3, <2>4, <2>5, <2>6 DEF EventStep
<1>5. ASSUME NEW u \in Watcher, NEW r \in Route, RouteStep(u, r)
      PROVE  NoticesTypeOK'
  <2>1. routes' \in [Watcher -> SUBSET Route]
    BY <1>5 DEF RouteStep, AddMyRoute, DeleteMyRoute, AddUserRoute, DeleteUserRoute,
                InsertRoute, DeleteRoute, NoticesTypeOK
  <2> QED BY <1>5, <2>1 DEF RouteStep, Outdate, fanVars, NoticesTypeOK
<1>6. ASSUME NEW u \in Watcher, MarkMyNotificationsRead(u)
      PROVE  NoticesTypeOK'
  BY <1>6 DEF MarkMyNotificationsRead, lookVars, NoticesTypeOK
<1>7. ASSUME NEW u \in Watcher, NEW k \in Feed, Look(u, k)
      PROVE  NoticesTypeOK'
  <2>1. Listed(u, k) \subseteq Event
    BY DEF Listed, ListAvailable, ListOpenCompetitions
  <2> QED BY <1>7, <2>1 DEF Look, fanVars, NoticesTypeOK
<1>8. ASSUME NoticeStep
      PROVE  NoticesTypeOK'
  BY <1>4, <1>5, <1>6, <1>7, <1>8 DEF NoticeStep, WatcherStep
<1> QED
  BY <1>1, <1>2, <1>8, PlatformCases DEF Follow

\* The band of latitudes loses nothing that the radii let through.
LEMMA BandIsWide ==
    ASSUME NEW p \in Point, NEW q \in Point, Within(p, q)
    PROVE  InBand(p, q) /\ InBand(q, p)
<1>1. /\ latitude[p] \in Nat /\ latitude[q] \in Nat /\ cnKm \in Nat /\ kzKm \in Nat
  BY PointsType, RadiiType
<1>2. Apart(p, q) \in Nat /\ Apart(q, p) = Apart(p, q)
  BY <1>1 DEF Apart
<1>3. 111 * Apart(p, q) <= Greatest(cnKm, kzKm)
  BY <1>1, <1>2 DEF Within, haversine_km, Greatest, RadiusKm
<1>4. Greatest(cnKm, kzKm) \in Nat
  BY <1>1 DEF Greatest
<1> QED BY <1>2, <1>3, <1>4 DEF InBand

LEMMA RulesAgree ==
    ASSUME NEW r \in Path, NEW d \in Path
    PROVE  /\ MatchesAudience(r, d) <=> MatchesThreshold(r, d)
           /\ MatchesList(r, d) <=> MatchesThreshold(r, d)
BY BandIsWide DEF MatchesAudience, MatchesList, MatchesThreshold, Path

LEMMA TypesGiveOneRule == NoticesTypeOK => OneRule
<1> SUFFICES ASSUME NoticesTypeOK, NEW e \in Event, NEW u \in Watcher, event[e] = "open"
             PROVE  /\ u \in Audience(e) => MayList(u, Kind[e]) /\ e \in Listed(u, Kind[e])
                    /\ Kind[e] \in {"cargo", "group"} =>
                         /\ /\ e \in Listed(u, Kind[e])
                            /\ HoldsTool(u, receive_cargo_by_route)
                            => u \in Audience(e)
                         /\ e \in Listed(u, Kind[e]) <=>
                               \E r \in routes[u] : MatchesThreshold(r, Direction[e])
  BY DEF OneRule
<1>1. Kind[e] \in {"cargo", "group", "haul", "customs"} /\ Direction[e] \in Path
  BY EventsType DEF Feed
<1>2. \A r \in routes[u] : /\ MatchesAudience(r, Direction[e]) <=> MatchesThreshold(r, Direction[e])
                           /\ MatchesList(r, Direction[e]) <=> MatchesThreshold(r, Direction[e])
  BY <1>1, RulesAgree, RoutesType DEF NoticesTypeOK
<1>3. /\ u \in Audience(e) => HoldsTool(u, FeedTool(Kind[e]))
      /\ HoldsTool(u, FeedTool(Kind[e])) => MayList(u, Kind[e])
  BY <1>1 DEF Audience, ListActiveUserIDsWithTool, ListUserIDsWithToolAndRoute, HoldsTool,
              MayList, UserHasTool, isEligibleStatus, requireActiveUser
<1>4. CASE Kind[e] \in {"haul", "customs"}
  <2>1. e \in Listed(u, Kind[e])
    BY <1>4 DEF Listed, ListOpenCompetitions
  <2> QED BY <1>3, <1>4, <2>1
<1>5. CASE Kind[e] \in {"cargo", "group"}
  <2>1. e \in Listed(u, Kind[e]) <=> \E r \in routes[u] : MatchesList(r, Direction[e])
    BY <1>5 DEF Listed, ListAvailable
  <2>2. u \in Audience(e) <=> /\ HoldsTool(u, receive_cargo_by_route)
                              /\ \E r \in routes[u] : MatchesAudience(r, Direction[e])
    BY <1>5 DEF Audience, ListUserIDsWithToolAndRoute, FeedTool
  <2> QED BY <1>2, <1>3, <2>1, <2>2
<1> QED BY <1>1, <1>4, <1>5

\* NeverMissed, said with the audience of the notifications.
Reached(u, e) == e \in seen[u] \cup unread[u] \cup read[u] \/ u \in toTell[e]

AllReached == \A u \in Watcher, e \in Event :
    event[e] = "open" /\ fan[e] = "told" /\ Kind[e] \in fresh[u] /\ u \in Audience(e)
    => Reached(u, e)

NoticesHold == NoticesTypeOK /\ NoticesInv /\ AllReached

LEMMA ReachedIsNotMissed == NoticesHold => NeverMissed
<1> SUFFICES ASSUME NoticesHold, NEW u \in Watcher, NEW e \in Event,
                    event[e] = "open", fan[e] \notin {"none", "due", "lost"},
                    Kind[e] \in fresh[u], HoldsTool(u, FeedTool(Kind[e])),
                    Kind[e] = "haul" => \E r \in routes[u] : MatchesThreshold(r, Direction[e]),
                    e \in Listed(u, Kind[e])
             PROVE  e \in seen[u] \cup unread[u] \cup read[u] \/ u \in toTell[e]
  BY DEF NeverMissed
<1>1. fan[e] = "told" /\ Kind[e] \in {"cargo", "haul", "customs"} /\ Direction[e] \in Path
  BY EventsType DEF NoticesHold, NoticesTypeOK, NoticesInv, Feed
<1>2. u \in Audience(e)
  <2>1. CASE Kind[e] = "cargo"
    BY <2>1, TypesGiveOneRule DEF NoticesHold, OneRule, FeedTool
  <2>2. CASE Kind[e] = "haul"
    <3>1. \E r \in routes[u] : MatchesAudience(r, Direction[e])
      BY <1>1, <2>2, RulesAgree, RoutesType DEF NoticesHold, NoticesTypeOK
    <3> QED BY <2>2, <3>1 DEF Audience, ListUserIDsWithToolAndRoute
  <2>3. CASE Kind[e] = "customs"
    BY <2>3 DEF Audience, ListActiveUserIDsWithTool
  <2> QED BY <1>1, <2>1, <2>2, <2>3
<1> QED BY <1>1, <1>2 DEF NoticesHold, AllReached, Reached

LEMMA AudienceKept ==
    ASSUME UNCHANGED <<status, active, userTools, routes>>, NEW e
    PROVE  Audience(e)' = Audience(e)
BY DEF Audience, ListActiveUserIDsWithTool, ListUserIDsWithToolAndRoute, HoldsTool

LEMMA SameTelling ==
    ASSUME NoticesInv, AllReached,
           UNCHANGED <<event, fan, toTell, unread, read>>,
           \A u \in Watcher, e \in Event : Kind[e] \in fresh'[u] /\ u \in Audience(e)' =>
               Kind[e] \in fresh[u] /\ u \in Audience(e) /\ seen'[u] = seen[u]
    PROVE  NoticesInv' /\ AllReached'
BY DEF NoticesInv, AllReached, Reached

\* Whoever could not read with the present routes and tools has read nothing.
LEMMA OutdateKept ==
    ASSUME NoticesInv, AllReached, Outdate, UNCHANGED <<event, fan, toTell, unread, read>>
    PROVE  NoticesInv' /\ AllReached'
<1>1. ASSUME NEW u \in Watcher, NEW e \in Event, Kind[e] \in fresh'[u], u \in Audience(e)'
      PROVE  Kind[e] \in fresh[u] /\ u \in Audience(e) /\ seen'[u] = seen[u]
  <2>1. Reach(u)' = Reach(u) /\ fresh'[u] = fresh[u] /\ seen'[u] = seen[u]
    BY <1>1 DEF Outdate
  <2>2. status'[u] = "active" /\ FeedTool(Kind[e]) \in active' \cap userTools'[u]
    BY <1>1 DEF Audience, ListActiveUserIDsWithTool, ListUserIDsWithToolAndRoute, HoldsTool, FeedTool
  <2>3. Reach(u)' = <<active' \cap userTools'[u], routes'[u]>>
    BY <2>2 DEF Reach, requireActiveUser
  <2>4. status[u] = "active"
    BY <2>1, <2>2, <2>3 DEF Reach, requireActiveUser
  <2>5. active' \cap userTools'[u] = active \cap userTools[u] /\ routes'[u] = routes[u]
    BY <2>1, <2>3, <2>4 DEF Reach, requireActiveUser
  <2>6. u \in Audience(e)
    BY <1>1, <2>2, <2>4, <2>5
       DEF Audience, ListActiveUserIDsWithTool, ListUserIDsWithToolAndRoute, HoldsTool, FeedTool
  <2> QED BY <1>1, <2>1, <2>6
<1> QED BY <1>1, SameTelling

LEMMA EventKept ==
    ASSUME NoticesHold, NEW e \in Event, EventStep(e),
           UNCHANGED <<accountVars, job, toolVars>>
    PROVE  NoticesInv' /\ AllReached'
<1>0. /\ event \in [Event -> {"absent", "open", "closed"}]
      /\ fan \in [Event -> {"none", "due", "told", "lost"}]
      /\ toTell \in [Event -> SUBSET Watcher]
      /\ unread \in [Watcher -> SUBSET Event] /\ read \in [Watcher -> SUBSET Event]
      /\ NoticesInv /\ AllReached
  BY DEF NoticesHold, NoticesTypeOK
<1>1. \A x \in Event : Audience(x)' = Audience(x)
  <2>1. routes' = routes
    BY DEF EventStep, CreateCargoRequest, DriverCompetitionOpens, ConsolidatedOpens,
           CustomsOpens, Close, ReadAudience, CreateNotification, LoseNotifications
  <2> QED BY <2>1, AudienceKept DEF accountVars, toolVars, grantVars
<1>2. CASE CreateCargoRequest(e) \/ DriverCompetitionOpens(e)
  <2>1. /\ Kind[e] \in {"cargo", "haul"} /\ event' = [event EXCEPT ![e] = "open"]
        /\ fan' = [fan EXCEPT ![e] = "due"]
        /\ UNCHANGED <<toTell, unread, read, seen, fresh>>
    BY <1>2 DEF CreateCargoRequest, DriverCompetitionOpens, Open, lookVars
  <2> QED BY <1>0, <1>1, <2>1 DEF NoticesInv, AllReached, Reached
<1>3. CASE ConsolidatedOpens(e)
  <2>1. Kind[e] = "group" /\ event' = [event EXCEPT ![e] = "open"]
        /\ UNCHANGED <<fan, toTell, unread, read, seen, fresh>>
    BY <1>3 DEF ConsolidatedOpens, Open, fanVars, lookVars
  <2> QED BY <1>0, <1>1, <2>1 DEF NoticesInv, AllReached, Reached
<1>4. CASE CustomsOpens(e)
  <2>1. /\ Kind[e] = "customs" /\ event' = [event EXCEPT ![e] = "open"]
        /\ fan' = [fan EXCEPT ![e] = "told"]
        /\ \A u \in Watcher : unread[u] \subseteq unread'[u]
        /\ \A u \in Audience(e) \cap Watcher : e \in unread'[u]
        /\ UNCHANGED <<toTell, read, seen, fresh>>
    BY <1>4 DEF CustomsOpens, Open, lookVars
  <2> QED BY <1>0, <1>1, <2>1 DEF NoticesInv, AllReached, Reached
<1>5. CASE Close(e)
  BY <1>0, <1>1, <1>5 DEF Close, fanVars, lookVars, NoticesInv, AllReached, Reached
<1>6. CASE ReadAudience(e)
  <2>1. /\ fan[e] = "due" /\ fan' = [fan EXCEPT ![e] = "told"]
        /\ toTell' = [toTell EXCEPT ![e] = Audience(e)]
        /\ UNCHANGED <<event, unread, read, seen, fresh>>
    BY <1>6 DEF ReadAudience, lookVars
  <2> QED BY <1>0, <1>1, <2>1 DEF NoticesInv, AllReached, Reached
<1>7. ASSUME NEW w \in Watcher, CreateNotification(e, w)
      PROVE  NoticesInv' /\ AllReached'
  <2>1. /\ toTell' = [toTell EXCEPT ![e] = @ \ {w}]
        /\ unread' = [unread EXCEPT ![w] = @ \cup {e}]
        /\ UNCHANGED <<event, fan, read, seen, fresh>>
    BY <1>7 DEF CreateNotification, lookVars
  <2>2. \A u \in Watcher, x \in Event : Reached(u, x) => Reached(u, x)'
    BY <1>0, <2>1 DEF Reached
  <2> QED BY <1>0, <1>1, <2>1, <2>2 DEF NoticesInv, AllReached
<1>8. CASE LoseNotifications(e)
  <2>1. /\ fan' = [fan EXCEPT ![e] = "lost"] /\ toTell' = [toTell EXCEPT ![e] = {}]
        /\ UNCHANGED <<event, unread, read, seen, fresh>>
    BY <1>8 DEF LoseNotifications, lookVars
  <2> QED BY <1>0, <1>1, <2>1 DEF NoticesInv, AllReached, Reached
<1> QED BY <1>2, <1>3, <1>4, <1>5, <1>6, <1>7, <1>8 DEF EventStep

LEMMA LookKept ==
    ASSUME NoticesHold, NEW w \in Watcher, NEW k \in Feed, Look(w, k)
    PROVE  NoticesInv' /\ AllReached'
<1>1. /\ seen' = [seen EXCEPT ![w] = {e \in @ : Kind[e] # k} \cup Listed(w, k)]
      /\ fresh' = [fresh EXCEPT ![w] = @ \cup {k}]
      /\ UNCHANGED <<status, active, userTools, routes, event, fan, toTell, unread, read>>
  BY DEF Look, accountVars, toolVars, grantVars, fanVars
<1>2. seen \in [Watcher -> SUBSET Event] /\ fresh \in [Watcher -> SUBSET Feed]
  BY DEF NoticesHold, NoticesTypeOK
<1>3. NoticesInv'
  BY <1>1 DEF NoticesHold, NoticesInv
<1>4. AllReached'
  <2> SUFFICES ASSUME NEW u \in Watcher, NEW e \in Event, event[e] = "open", fan[e] = "told",
                      Kind[e] \in fresh'[u], u \in Audience(e)
               PROVE  Reached(u, e)'
    BY <1>1, AudienceKept DEF AllReached
  <2>1. CASE u = w /\ Kind[e] = k
    <3>1. e \in Listed(u, k)
      BY <2>1, TypesGiveOneRule DEF NoticesHold, OneRule
    <3> QED BY <1>1, <1>2, <2>1, <3>1 DEF Reached
  <2>2. CASE ~(u = w /\ Kind[e] = k)
    <3>1. Kind[e] \in fresh[u] /\ (e \in seen[u] => e \in seen'[u])
      BY <1>1, <1>2, <2>2
    <3> QED BY <1>1, <3>1 DEF NoticesHold, AllReached, Reached
  <2> QED BY <2>1, <2>2
<1> QED BY <1>3, <1>4

\* A step of a session leaves the accounts alone.
LEMMA SessionsLeaveAccounts == SessionStep => UNCHANGED accountVars
BY DEF SessionStep, CountAttempts, Authenticated, RecordAttempt, Login, CheckRefresh, Refresh,
       Refuse, StoreTouch, StampActivity, CleanUp, Restart, Tick

LEMMA NoticesKept ==
    ASSUME NoticesHold, [PlatformNext]_platformVars
    PROVE  NoticesHold'
<1>1. ASSUME UNCHANGED <<accountVars, toolVars, noticeVars>>
      PROVE  NoticesInv' /\ AllReached'
  BY <1>1, AudienceKept, SameTelling
     DEF NoticesHold, accountVars, toolVars, grantVars, noticeVars, fanVars, lookVars
<1>2. ASSUME FollowWatchers
      PROVE  NoticesInv' /\ AllReached'
  BY <1>2, OutdateKept DEF FollowWatchers, fanVars, NoticesHold
<1>3. ASSUME NoticeStep, UNCHANGED <<accountVars, job, toolVars>>
      PROVE  NoticesInv' /\ AllReached'
  <2>1. ASSUME NEW u \in Watcher, NEW r \in Route, RouteStep(u, r)
        PROVE  NoticesInv' /\ AllReached'
    BY <2>1, OutdateKept DEF RouteStep, fanVars, NoticesHold
  <2>2. ASSUME NEW u \in Watcher, MarkMyNotificationsRead(u)
        PROVE  NoticesInv' /\ AllReached'
    <3>1. /\ unread' = [unread EXCEPT ![u] = {}] /\ read' = [read EXCEPT ![u] = @ \cup unread[u]]
          /\ UNCHANGED <<status, active, userTools, routes, event, fan, toTell, seen, fresh>>
      BY <2>2 DEF MarkMyNotificationsRead, accountVars, toolVars, grantVars, lookVars
    <3>2. \A w \in Watcher, x \in Event : Reached(w, x) => Reached(w, x)'
      BY <3>1 DEF NoticesHold, NoticesTypeOK, Reached
    <3> QED BY <3>1, <3>2, AudienceKept DEF NoticesHold, NoticesInv, AllReached
  <2> QED
    BY <1>3, <2>1, <2>2, EventKept, LookKept DEF NoticeStep, WatcherStep
<1>4. NoticesTypeOK'
  BY NoticeTypes DEF NoticesHold
<1> QED
  BY <1>1, <1>2, <1>3, <1>4, SessionsLeaveAccounts, PlatformCases DEF Follow, NoticesHold

LEMMA NoticesStart == PlatformInit => NoticesHold
BY DEF PlatformInit, NoticesInit, NoticesHold, NoticesTypeOK, NoticesInv, AllReached

-----------------------------------------------------------------------------
(* The theorems.                                                           *)

\* What the accounts, tools, notices and uploads rest on.
ToolsAndAccounts ==
    /\ AccountsTypeOK /\ AccountsInv /\ LogExplainsCompany
    /\ ToolsHold /\ FleetWithinLimit
    /\ NoticesHold /\ UploadsTypeOK /\ UploadsInv

LEMMA ToolsAndAccountsStart == PlatformInit => ToolsAndAccounts
<1>1. PlatformInit => UploadsTypeOK /\ UploadsInv
  BY DEF PlatformInit, UploadsInit, UploadsTypeOK, UploadsInv
<1> QED BY <1>1, AccountsStart, ToolsStart, FleetStarts, NoticesStart DEF ToolsAndAccounts

LEMMA ToolsAndAccountsKept ==
    ToolsAndAccounts /\ [PlatformNext]_platformVars => ToolsAndAccounts'
<1> SUFFICES ASSUME ToolsAndAccounts, [PlatformNext]_platformVars
             PROVE  ToolsAndAccounts'
  OBVIOUS
<1>1. ToolsTypeOK
  BY DEF ToolsAndAccounts, ToolsHold
<1>2. AccountsTypeOK' /\ AccountsInv' /\ LogExplainsCompany'
  BY <1>1, AccountsKept DEF ToolsAndAccounts
<1>3. ToolsHold' /\ ToolsTypeOK'
  BY ToolsKept DEF ToolsAndAccounts, ToolsHold
<1>4. FleetWithinLimit'
  BY <1>3, FleetLimited DEF ToolsAndAccounts
<1> QED
  BY <1>2, <1>3, <1>4, NoticesKept, UploadsKept DEF ToolsAndAccounts

LEMMA PlatformKeeps == PlatformSpec => []ToolsAndAccounts
BY ToolsAndAccountsStart, ToolsAndAccountsKept, PTL DEF PlatformSpec

\* The last audit entry of a company explains its status, however reviews,
\* blocks, registrations and crashes interleave.
THEOREM LogIsComplete == PlatformSpec => []LogExplainsCompany
<1>1. ToolsAndAccounts => LogExplainsCompany
  BY DEF ToolsAndAccounts
<1> QED BY <1>1, PlatformKeeps, PTL

\* Employees have no employees, and their company has been active, whatever
\* CreateEmployee has checked before.
THEOREM HierarchyIsFlat == PlatformSpec => []Hierarchy
<1>1. ToolsAndAccounts => Hierarchy
  BY DEF ToolsAndAccounts, AccountsInv, Hierarchy
<1> QED BY <1>1, PlatformKeeps, PTL

\* Nobody holds a tool of category admin that staff did not give last.
THEOREM StaffGivesAdminTools == PlatformSpec => []NoSelfPromotion
<1>1. ToolsAndAccounts => NoSelfPromotion
  BY ToolsHoldParts DEF ToolsAndAccounts
<1> QED BY <1>1, PlatformKeeps, PTL

\* A replacement of tools that met no other one leaves what it was given.
THEOREM ReplacementsAreExact == PlatformSpec => []ToolsTogether
<1>1. ToolsHold => ToolsTogether
  BY DEF ToolsHold, Settled, ToolsTogether
<1> QED BY <1>1, PlatformKeeps, PTL DEF ToolsAndAccounts

\* The vehicles exceed the limit by less than the requests at a time.
THEOREM FleetIsBounded == PlatformSpec => []FleetWithinLimit
<1>1. ToolsAndAccounts => FleetWithinLimit
  BY DEF ToolsAndAccounts
<1> QED BY <1>1, PlatformKeeps, PTL

\* A row of a document or of a report shows the file uploaded with it.
THEOREM RowsAreBacked == PlatformSpec => []RowsShowTheirFile
<1>1. ToolsAndAccounts => RowsShowTheirFile
  BY DEF ToolsAndAccounts, UploadsInv, RowsShowTheirFile
<1> QED BY <1>1, PlatformKeeps, PTL

\* Lists, notifications and thresholds follow one rule, for all radii.
THEOREM RuleIsOne == PlatformSpec => []OneRule
<1>1. ToolsAndAccounts => OneRule
  BY TypesGiveOneRule DEF ToolsAndAccounts, NoticesHold
<1> QED BY <1>1, PlatformKeeps, PTL

\* An active participant who reads a list misses nothing that is open, unless
\* its notifications are still to come or were lost.
THEOREM NothingIsMissed == PlatformSpec => []NeverMissed
<1>1. ToolsAndAccounts => NeverMissed
  BY ReachedIsNotMissed DEF ToolsAndAccounts
<1> QED BY <1>1, PlatformKeeps, PTL
=============================================================================
