------------------------------ MODULE Platform ------------------------------
(***************************************************************************)
(* Accounts, tools, notices, uploads, sessions and a chat together: staff  *)
(* and companies change statuses and tools while employees, vehicles,      *)
(* lists, notifications, files, sessions and windows depend on them.       *)
(***************************************************************************)
EXTENDS Notices, Uploads, Sessions, Chat

CONSTANTS
    Blockable,                \* bound: accounts staff blocks and unblocks
    Scopes                    \* bound: the kinds of operations that interleave

ASSUME BlockableType == Blockable \subseteq User

VARIABLE scope                \* the kinds of operations of this behaviour

platformVars == <<accountVars, job, toolVars, noticeVars, uploadVars, sessionVars,
                 chatVars, scope>>

PlatformInit ==
    /\ AccountsInit /\ ToolsInit /\ NoticesInit /\ UploadsInit
    /\ SessionsInit /\ ChatInit
    /\ scope \in Scopes

\* A step that may change statuses, seen by the sessions, the chat and the lists.
Follow == FollowStatus /\ FollowReaders /\ FollowWatchers /\ UNCHANGED uploadVars

\* Whoever registers picks tools where a scope uses them.
Picks == IF scope \cap {"own", "haul", "uploads"} # {} THEN Choice ELSE {{}}

RegisterStep == \E c \in Company, ask \in Picks :
    Register(c, ask) /\ RegisterSession(c) /\ FollowReaders /\ FollowWatchers
    /\ UNCHANGED uploadVars

ReviewStep(q) ==
    /\ \/ \E c \in Company, r \in Review : BeginReview(q, c, r)
       \/ \E r \in Review : WriteVerdict(q, r) \/ CommitReview(q, r)
    /\ UNCHANGED toolVars
    /\ Follow

StatusStep(u) == /\ BlockUser(u) \/ UnblockUser(u)
                 /\ UNCHANGED toolVars
                 /\ Follow

EmployeeStep(q) ==
    /\ \/ \E u \in User, e \in Employee : CreateEmployee(q, u, e)
       \/ \E u, e \in User, op \in {"block", "restore"} : SetEmployeeBlocked(q, u, e, op)
       \/ /\ InsertEmployee(q) \/ \E op \in {"block", "restore"} : SetEmployeeStatus(q, op)
          /\ UNCHANGED toolVars
    /\ Follow

MyToolsStep(q) ==
    \/ \E u \in Holder, ask \in Choice : BeginMyTools(q, u, ask)
    \/ ClearTools(q)
    \/ \E t \in Tool : InsertTool(q, t)
    \/ EndMyTools(q)

StaffToolsStep(q) ==
    \/ \E u \in Holder, ask \in Choice : BeginSetUserTools(q, u, ask)
    \/ CommitUserTools(q)

SetStep(s) == \/ \E q \in Req, u \in Holder : BeginApplySet(q, u, s)
              \/ \E ask \in Choice : UpdatePermissionSet(s, ask)

FleetStep == \/ \E q \in Req, u \in Owner : BeginAddVehicle(q, u)
             \/ \E q \in Req : InsertVehicle(q)
             \/ \E u \in Owner : DeleteMyVehicle(u)

\* The kinds of what opens are scopes too.
NoticeStep ==
    \/ \E e \in {e \in Event : Kind[e] \in scope} : EventStep(e)
    \/ \E u \in Watcher, k \in Feed \cap scope : WatcherStep(u) \/ Look(u, k)

PlatformNext ==
    /\ UNCHANGED scope
    /\ \/ RegisterStep
       \/ "review" \in scope /\ \E q \in Req : ReviewStep(q)
       \/ "status" \in scope /\ \E u \in Blockable : StatusStep(u)
       \/ "employees" \in scope /\ \E q \in Req : EmployeeStep(q)
       \/ /\ \/ "own" \in scope /\ \E q \in Req : MyToolsStep(q)
             \/ "staff" \in scope /\ \E q \in Req : StaffToolsStep(q)
             \/ "sets" \in scope /\ \E s \in PermSet : SetStep(s)
             \/ "catalogue" \in scope /\ \E t \in Volatile : UpdateTool(t)
             \/ "fleet" \in scope /\ FleetStep
             \/ \E q \in Req : AbortJob(q)
          /\ FollowWatchers
          /\ UNCHANGED <<uploadVars, sessionVars, chatVars>>
       \/ NoticeStep /\ UNCHANGED <<uploadVars, sessionVars, chatVars>>
       \/ /\ "uploads" \in scope
          /\ \E d \in Upload : UploadStep(d)
          /\ UNCHANGED <<noticeVars, sessionVars, chatVars>>
       \/ "session" \in scope /\ SessionStep /\ UNCHANGED <<toolVars, noticeVars, uploadVars, chatVars>>
       \/ "chat" \in scope /\ ChatStep /\ UNCHANGED <<toolVars, noticeVars, uploadVars, sessionVars>>

PlatformSpec == PlatformInit /\ [][PlatformNext]_platformVars

-----------------------------------------------------------------------------
\* Every table, window and request keeps its type, whatever interleaves; what
\* ages stays within its lifetime.
PlatformTypeOK == AccountsTypeOK /\ ToolsTypeOK /\ NoticesTypeOK
                  /\ UploadsTypeOK /\ SessionsTypeOK /\ ChatTypeOK

\* The inductive invariants of the parts.
PlatformInv == AccountsInv /\ ToolsInv /\ NoticesInv /\ UploadsInv
               /\ SessionsInv /\ ChatInv /\ TailInv
=============================================================================
