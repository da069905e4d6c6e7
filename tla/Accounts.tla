------------------------------ MODULE Accounts ------------------------------
(***************************************************************************)
(* Accounts of participants: registration, the review of a company by      *)
(* staff, blocking, and the accounts a company opens for its employees.    *)
(* An account is named by its e-mail, which is unique.  A request of staff *)
(* or of a participant reads rows without a lock and writes later: it is a *)
(* job between the two.  What a job may be, and the tools that some of the *)
(* operations require, belong to the modules that extend this one.         *)
(***************************************************************************)
EXTENDS Naturals, FiniteSets

CONSTANTS
    Company, Employee,        \* accounts that register, accounts companies open
    Veteran,                  \* companies approved before
    Tool,                     \* the catalogue of tools
    Req                       \* concurrent HTTP requests

User == Company \cup Employee

ASSUME AccountsFresh == /\ "none" \notin User
                        /\ Company \cap Employee = {} /\ Veteran \subseteq Company
ASSUME RequestsFinite == IsFiniteSet(Req)

VARIABLES
    status,                   \* users.status, or "absent"
    parent,                   \* users.parent_company_id, or "none"
    verification,             \* the company's verification request
    lastLog,                  \* the account's last entry in the audit log
    everActive,               \* history: the companies that were once active
    job                       \* what each request is in the middle of

accountVars == <<status, parent, verification, lastLog, everActive>>

UserStatus == {"pending", "active", "rejected", "blocked"}
Review == {"approve", "reject"}

AccountOps == {"approve", "reject", "verdict_approve", "verdict_reject",
               "create", "block", "restore"}
ToolOps == {"clear", "insert", "replace", "vehicle"}
SessionOps == {"counted", "admitted", "sign", "store", "stamp"}

\* What a job remembers: the account it is for, another account, tools it is
\* to give, and the rows of tools its DELETE has seen.
Job == [op : {"idle"} \cup AccountOps \cup ToolOps \cup SessionOps,
        user : User \cup {"none"}, whom : User \cup {"none"},
        ask : SUBSET Tool, seen : SUBSET Tool]

Idle == [op |-> "idle", user |-> "none", whom |-> "none", ask |-> {}, seen |-> {}]
Task(op, u, v, ask, seen) ==
    [op |-> op, user |-> u, whom |-> v, ask |-> ask, seen |-> seen]

Start(q, task) == job[q] = Idle /\ job' = [job EXCEPT ![q] = task]
Advance(q, op) == job' = [job EXCEPT ![q].op = op]
Finish(q, op) == job[q].op = op /\ job' = [job EXCEPT ![q] = Idle]

AccountsInit ==
    /\ status = [u \in User |-> IF u \in Veteran THEN "active" ELSE "absent"]
    /\ parent = [u \in User |-> "none"]
    /\ verification = [c \in Company |-> IF c \in Veteran THEN "approve" ELSE "none"]
    /\ lastLog = [u \in User |-> IF u \in Veteran THEN "approve" ELSE "none"]
    /\ everActive = Veteran
    /\ job = [q \in Req |-> Idle]

isEligibleStatus(u) == status[u] \in {"pending", "active"}

\* users.status changes; the history follows.
UpdateStatus(u, s) ==
    /\ status' = [status EXCEPT ![u] = s]
    /\ everActive' = IF s = "active" THEN everActive \cup {u} ELSE everActive

-----------------------------------------------------------------------------
\* Register: the account and its verification request in one transaction.
RegisterAccount(c) ==
    /\ status[c] = "absent"                          \* else ErrEmailTaken
    /\ UpdateStatus(c, "pending")
    /\ verification' = [verification EXCEPT ![c] = "pending"]
    /\ UNCHANGED <<parent, lastLog>>

Outcome(r) == IF r = "approve" THEN "active" ELSE "rejected"

\* reviewVerification reads the request without a lock ...
BeginReview(q, c, r) ==
    /\ verification[c] = "pending"                   \* else ErrAlreadyReviewed
    /\ Start(q, Task(r, c, "none", {}, {}))
    /\ UNCHANGED accountVars

Verdict(r) == IF r = "approve" THEN "verdict_approve" ELSE "verdict_reject"

\* Mutant: outside the transaction, others see the verdict at once.
VerdictShows(c, r) == [verification EXCEPT ![c] = r]

\* What others read after the UPDATE of the request, before the commit.
Uncommitted(c, r) == verification

\* ... updates it, which locks the row against another reviewer ...
WriteVerdict(q, r) ==
    LET c == job[q].user
    IN /\ job[q].op = r
       /\ \A p \in Req : ~(/\ job[p].user = c
                           /\ job[p].op \in {"verdict_approve", "verdict_reject"})
       /\ Advance(q, Verdict(r))
       /\ verification' = Uncommitted(c, r)
       /\ UNCHANGED <<status, parent, lastLog, everActive>>

\* ... and then the account and the audit log, and commits.
CommitReview(q, r) ==
    LET c == job[q].user
    IN /\ Finish(q, Verdict(r))
       /\ verification' = [verification EXCEPT ![c] = r]
       /\ UpdateStatus(c, Outcome(r))
       /\ lastLog' = [lastLog EXCEPT ![c] = r]
       /\ UNCHANGED parent

\* setUserStatus: whatever the status was, with its audit entry.
SetUserStatus(u, s, action) ==
    /\ status[u] # "absent"
    /\ UpdateStatus(u, s)
    /\ lastLog' = [lastLog EXCEPT ![u] = action]
    /\ UNCHANGED <<parent, verification, job>>

BlockUser(u) == SetUserStatus(u, "blocked", "block")
UnblockUser(u) == SetUserStatus(u, "active", "unblock")

-----------------------------------------------------------------------------
\* Mutant: CreateEmployee without the check of the hierarchy.
NoIsEmployee(u) == FALSE

requireActiveUser(u) == status[u] = "active"
isEmployee(u) == parent[u] # "none"

\* CreateEmployee: the checks; the INSERT comes later.
BeginCreateEmployee(q, u, e) ==
    /\ requireActiveUser(u) /\ ~isEmployee(u)
    /\ Start(q, Task("create", u, e, {}, {}))
    /\ UNCHANGED accountVars

InsertEmployee(q) ==
    LET e == job[q].whom
    IN /\ Finish(q, "create")
       /\ IF status[e] # "absent"                    \* ErrEmailTaken
            THEN UNCHANGED <<status, parent, everActive>>
            ELSE /\ UpdateStatus(e, "active")
                 /\ parent' = [parent EXCEPT ![e] = job[q].user]
       /\ UNCHANGED <<verification, lastLog>>

\* SetEmployeeBlocked: the checks, then an UPDATE scoped by the company.
BeginSetEmployee(q, u, e, op) ==
    /\ requireActiveUser(u)
    /\ Start(q, Task(op, u, e, {}, {}))
    /\ UNCHANGED accountVars

ofCompany(u, e) == status[e] # "absent" /\ parent[e] = u

SetEmployeeStatus(q, op) ==
    LET e == job[q].whom
    IN /\ Finish(q, op)
       /\ IF ofCompany(job[q].user, e)
            THEN UpdateStatus(e, IF op = "block" THEN "blocked" ELSE "active")
            ELSE UNCHANGED <<status, everActive>>    \* ErrNotFound
       /\ UNCHANGED <<parent, verification, lastLog>>

\* The server is lost, or the request fails: an open transaction rolls back.
Abort(q) ==
    /\ job[q].op \in AccountOps \cup ToolOps
    /\ job' = [job EXCEPT ![q] = Idle]
    /\ UNCHANGED accountVars

-----------------------------------------------------------------------------
AccountsTypeOK ==
    /\ status \in [User -> UserStatus \cup {"absent"}]
    /\ parent \in [User -> User \cup {"none"}]
    /\ verification \in [Company -> {"none", "pending"} \cup Review]
    /\ lastLog \in [User -> {"none", "block", "unblock"} \cup Review]
    /\ everActive \subseteq User
    /\ job \in [Req -> Job]

\* Every admin action is logged in the transaction of the change (the comment
\* on writeAuditLog), and only staff changes the status of a company: the last
\* entry explains it, however reviews, blocks and crashes interleave, and a
\* verdict is never seen without its entry.
StatusOf(entry) ==
    CASE entry \in Review -> Outcome(entry)
      [] entry = "block" -> "blocked"
      [] entry = "unblock" -> "active"
      [] entry = "none" -> "pending"

LogExplainsCompany == \A c \in Company : status[c] # "absent" =>
    /\ status[c] = StatusOf(lastLog[c])
    /\ lastLog[c] \in Review => verification[c] = lastLog[c]
    /\ verification[c] \in Review => lastLog[c] # "none"

\* The hierarchy has one level, although an employee holds every tool of its
\* company, the one to create employees included; and an employee starts active
\* because the company has been verified (the comments on CreateEmployee): the
\* company was active once, even if it was blocked between check and INSERT.
Hierarchy == \A e \in User : parent[e] # "none" =>
    parent[parent[e]] = "none" /\ parent[e] \in everActive

-----------------------------------------------------------------------------
\* What the properties above rest on: what a job has checked stays true until
\* it writes, companies are nobody's employees, and the accounts a company
\* opened, the company and every reviewed account have been registered.
AccountsInv ==
    /\ \A u \in User : status[u] = "active" => u \in everActive
    /\ \A c \in Company : parent[c] = "none"
    /\ \A u \in User : parent[u] # "none" =>
          parent[u] \in everActive /\ parent[parent[u]] = "none"
          /\ status[parent[u]] # "absent" /\ status[u] # "absent"
    /\ \A c \in Company :
          /\ status[c] = "absent" => lastLog[c] = "none" /\ verification[c] = "none"
          /\ status[c] # "absent" => verification[c] # "none"
    /\ \A q \in Req :
          /\ job[q].op \in {"approve", "reject", "verdict_approve", "verdict_reject"} =>
                job[q].user \in Company /\ status[job[q].user] # "absent"
          /\ job[q].op = "create" =>
                /\ job[q].user \in everActive /\ job[q].whom \in Employee
                /\ status[job[q].user] # "absent" /\ parent[job[q].user] = "none"
          /\ job[q].op \in {"block", "restore"} =>
                job[q].user \in User /\ job[q].whom \in User
=============================================================================
