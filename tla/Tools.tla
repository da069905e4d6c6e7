-------------------------------- MODULE Tools --------------------------------
(***************************************************************************)
(* Who holds which tool, and the operations a tool gates.  Tools of the    *)
(* category admin are granted by staff; participants pick the others for   *)
(* themselves.  Staff replace a user's tools in one transaction, my_tools  *)
(* runs the same statements on the pool, each committed by itself.  Both   *)
(* start with a DELETE, which removes the rows it has seen.  Composed with *)
(* Accounts: employees hold the tools of their company.                    *)
(***************************************************************************)
EXTENDS Accounts

CONSTANTS
    AdminTool,                \* of category admin, never changed here
    manage_employees, manage_fleet,
    PermSet,                  \* permission sets
    VehicleLimit,             \* the setting vehicle_limit_per_user
    Choice,                   \* bound: the sets of tools anybody asks for
    Holder, Owner,            \* bound: whose tools are replaced, who keeps vehicles
    Volatile                  \* bound: tools whose is_active changes

ASSUME ToolType == AdminTool \subseteq Tool /\ {manage_employees, manage_fleet} \subseteq Tool
ASSUME LimitType == VehicleLimit \in Nat \ {0}
ASSUME BoundsType == /\ Choice \subseteq SUBSET Tool /\ Volatile \subseteq Tool
                     /\ Holder \subseteq User /\ Owner \subseteq User

VARIABLES
    active,                   \* tools.is_active
    userTools,                \* user_tools
    contents,                 \* permission_set_tools
    vehicles,                 \* per owner: rows
    granted,                  \* history: the admin tools staff last gave each user
    lastAsked,                \* history: the last replacement, {} after a muddle
    overlapped,               \* history: requests whose replacement met another
    muddled                   \* history: users such a replacement, or a lost one, left

grantVars == <<userTools, granted, lastAsked, overlapped, muddled>>
toolVars == <<active, contents, grantVars, vehicles>>

ToolsInit ==
    /\ active = Tool
    /\ userTools = [u \in User |-> {}]
    /\ contents = [s \in PermSet |-> {}]
    /\ vehicles = [u \in Owner |-> 0]
    /\ granted = [u \in User |-> {}]
    /\ lastAsked = [u \in User |-> {}]
    /\ overlapped = {} /\ muddled = {}

-----------------------------------------------------------------------------
\* Mutant: tools of category admin too.
AnyActive == active

SelfSelectable == active \ AdminTool

\* The sole access check: an active tool of the user or of the company.
UserHasTool(u, t) ==
    /\ t \in active
    /\ t \in userTools[u] \/ (parent[u] # "none" /\ t \in userTools[parent[u]])

\* Replacements of u's tools that have begun and not ended.
Replacing(u) == {q \in Req : /\ job[q].op \in {"clear", "insert", "replace"}
                             /\ job[q].user = u}

Meet(q, u) == IF Replacing(u) = {} THEN overlapped ELSE overlapped \cup {q} \cup Replacing(u)

\* After q replaced u's tools, or was lost in the middle.
Settle(q, u, ok) ==
    LET clean == ok /\ q \notin overlapped
    IN /\ muddled' = IF clean THEN muddled \ {u} ELSE muddled \cup {u}
       /\ lastAsked' = [lastAsked EXCEPT ![u] = IF clean THEN job[q].ask ELSE {}]
       /\ overlapped' = overlapped \ {q}

\* Register with the tools the participant chose, in one transaction.
Register(c, ask) ==
    /\ ask \subseteq SelfSelectable                  \* else ErrInvalidInput
    /\ RegisterAccount(c)
    /\ userTools' = [userTools EXCEPT ![c] = ask]
    /\ lastAsked' = [lastAsked EXCEPT ![c] = ask]
    /\ UNCHANGED <<job, active, contents, granted, overlapped, muddled, vehicles>>

\* The rows a replacement of staff holds locked until it commits.
Locked(u) == UNION {job[q].seen : q \in {q \in Replacing(u) : job[q].op = "replace"}}

\* A deleted row is no longer there for the DELETEs that had seen it.
AfterDelete(q, task) ==
    [p \in Req |-> IF p = q THEN task
                   ELSE IF job[p].op \in {"clear", "replace"} /\ job[p].user = job[q].user
                     THEN [job[p] EXCEPT !.seen = @ \ job[q].seen]
                     ELSE job[p]]

\* Mutant: a preset is merged with what the user had before.
MergedTools(q) == userTools[job[q].user]

\* What the DELETE of ReplaceUserTools leaves.
Remaining(q) == userTools[job[q].user] \ job[q].seen

\* SetMyTools: the checks, and the snapshot of the DELETE.
BeginMyTools(q, u, ask) ==
    /\ isEligibleStatus(u)
    /\ ask \subseteq SelfSelectable                  \* else ErrForbiddenTool
    /\ Start(q, Task("clear", u, "none", ask, userTools[u]))
    /\ overlapped' = Meet(q, u)
    /\ UNCHANGED <<accountVars, active, contents, userTools, granted, lastAsked,
                   muddled, vehicles>>

\* The DELETE, committed by itself; `seen` becomes what is left to insert.
ClearTools(q) ==
    LET u == job[q].user
    IN /\ job[q].op = "clear" /\ job[q].seen \cap Locked(u) = {}
       /\ userTools' = [userTools EXCEPT ![u] = Remaining(q)]
       /\ job' = AfterDelete(q, [job[q] EXCEPT !.op = "insert", !.seen = job[q].ask])
       /\ UNCHANGED <<accountVars, active, contents, granted, lastAsked, overlapped,
                      muddled, vehicles>>

\* One INSERT; the primary key refuses a second row, and the request fails.
InsertTool(q, t) ==
    LET u == job[q].user
    IN /\ job[q].op = "insert" /\ t \in job[q].seen \ Locked(u)
       /\ IF t \in userTools[u]
            THEN /\ job' = [job EXCEPT ![q] = Idle]
                 /\ Settle(q, u, FALSE)
                 /\ UNCHANGED userTools
            ELSE /\ job' = [job EXCEPT ![q].seen = @ \ {t}]
                 /\ userTools' = [userTools EXCEPT ![u] = @ \cup {t}]
                 /\ UNCHANGED <<overlapped, muddled, lastAsked>>
       /\ UNCHANGED <<accountVars, active, contents, granted, vehicles>>

EndMyTools(q) ==
    /\ job[q].seen = {}
    /\ Finish(q, "insert")
    /\ Settle(q, job[q].user, TRUE)
    /\ UNCHANGED <<accountVars, active, contents, userTools, granted, vehicles>>

\* SetUserTools by staff, whatever the status of the account.
BeginSetUserTools(q, u, ask) ==
    /\ status[u] # "absent"
    /\ Start(q, Task("replace", u, "none", ask, userTools[u]))
    /\ overlapped' = Meet(q, u)
    /\ UNCHANGED <<accountVars, active, contents, userTools, granted, lastAsked,
                   muddled, vehicles>>

\* ApplyPermissionSet: the same with what the set contains now.
BeginApplySet(q, u, s) == BeginSetUserTools(q, u, contents[s])

\* The INSERTs, the audit entry and the commit; a row of another request that
\* the DELETE did not see is refused by the primary key, and all rolls back.
CommitUserTools(q) ==
    LET u == job[q].user
        ask == job[q].ask
    IN /\ job[q].op = "replace"
       /\ IF ask \cap (userTools[u] \ job[q].seen) # {}
            THEN /\ job' = [job EXCEPT ![q] = Idle]
                 /\ overlapped' = overlapped \ {q}
                 /\ UNCHANGED <<userTools, granted, lastAsked, muddled>>
            ELSE /\ job' = AfterDelete(q, Idle)
                 /\ userTools' = [userTools EXCEPT ![u] = Remaining(q) \cup ask]
                 /\ granted' = [granted EXCEPT ![u] =
                        AdminTool \cap (ask \cup IF q \in overlapped THEN @ ELSE {})]
                 /\ Settle(q, u, TRUE)
       /\ UNCHANGED <<accountVars, active, contents, vehicles>>

\* UpdatePermissionSet locks the set's row first; CreatePermissionSet is the
\* same on a set that nobody has applied.
UpdatePermissionSet(s, ask) ==
    /\ contents' = [contents EXCEPT ![s] = ask]
    /\ UNCHANGED <<accountVars, job, active, grantVars, vehicles>>

\* UpdateTool writes back the whole row it has read: a patch of another field
\* writes an old is_active, so any flip may be the last word of some patch.
UpdateTool(t) ==
    /\ active' = IF t \in active THEN active \ {t} ELSE active \cup {t}
    /\ UNCHANGED <<accountVars, job, contents, grantVars, vehicles>>

-----------------------------------------------------------------------------
\* The operations of Accounts, with the tools they need.
CreateEmployee(q, u, e) ==
    /\ UserHasTool(u, manage_employees)
    /\ BeginCreateEmployee(q, u, e)
    /\ UNCHANGED <<active, contents, grantVars, vehicles>>

SetEmployeeBlocked(q, u, e, op) ==
    /\ UserHasTool(u, manage_employees)
    /\ BeginSetEmployee(q, u, e, op)
    /\ UNCHANGED <<active, contents, grantVars, vehicles>>

\* Mutant: the limit is not looked at.
NoLimit(u) == TRUE

BelowLimit(u) == vehicles[u] < VehicleLimit

\* AddMyVehicle: the checks and the count, then the INSERT.
BeginAddVehicle(q, u) ==
    /\ requireActiveUser(u) /\ UserHasTool(u, manage_fleet)
    /\ BelowLimit(u)                                 \* else ErrVehicleLimitReached
    /\ Start(q, Task("vehicle", u, "none", {}, {}))
    /\ UNCHANGED <<accountVars, active, contents, grantVars, vehicles>>

InsertVehicle(q) ==
    /\ Finish(q, "vehicle")
    /\ vehicles' = [vehicles EXCEPT ![job[q].user] = @ + 1]
    /\ UNCHANGED <<accountVars, active, contents, grantVars>>

OwnsVehicle(u) == vehicles[u] > 0

DeleteMyVehicle(u) ==
    /\ requireActiveUser(u) /\ UserHasTool(u, manage_fleet)
    /\ OwnsVehicle(u)                                \* else ErrNotFound
    /\ vehicles' = [vehicles EXCEPT ![u] = @ - 1]
    /\ UNCHANGED <<accountVars, job, active, contents, grantVars>>

\* The server is lost; what my_tools has committed stays.
AbortJob(q) ==
    /\ Abort(q)
    /\ IF job[q].op = "insert"
         THEN Settle(q, job[q].user, FALSE)
         ELSE overlapped' = overlapped \ {q} /\ UNCHANGED <<muddled, lastAsked>>
    /\ UNCHANGED <<active, contents, userTools, granted, vehicles>>

-----------------------------------------------------------------------------
ToolsTypeOK ==
    /\ active \subseteq Tool
    /\ userTools \in [User -> SUBSET Tool]
    /\ contents \in [PermSet -> SUBSET Tool]
    /\ vehicles \in [Owner -> Nat]
    /\ granted \in [User -> SUBSET Tool] /\ lastAsked \in [User -> SUBSET Tool]
    /\ overlapped \subseteq Req /\ muddled \subseteq User

\* A participant holds a tool of category admin only while staff gives it
\* (my_tools_service: admin tools cannot be chosen): one that staff took away
\* does not come back through Register or my_tools, whatever they overlap.
NoSelfPromotion == \A u \in User : userTools[u] \cap AdminTool \subseteq granted[u]

\* A replacement leaves exactly the tools it was given (the comments on
\* ReplaceUserTools and ApplyPermissionSet), unless another one of the same
\* user ran at the same time or my_tools was lost half-way.
ToolsTogether == \A u \in User :
    Replacing(u) = {} /\ u \notin muddled => userTools[u] = lastAsked[u]

Inserting(u) == {q \in Req : job[q].op = "vehicle" /\ job[q].user = u}

\* The count and the INSERT are not under a lock: k requests at once exceed
\* the limit by at most k - 1 vehicles, and later ones find it reached.
FleetWithinLimit == \A u \in Owner :
    vehicles[u] + Cardinality(Inserting(u)) <= VehicleLimit - 1 + Cardinality(Req)

-----------------------------------------------------------------------------
\* What the properties above rest on: replacements of one user's tools that
\* met know of each other; alone, a replacement finds the tools as its DELETE
\* saw them, and has inserted all but what it has left.
ToolsInv ==
    /\ \A q \in Req :
          /\ job[q].op \in {"clear", "insert", "replace"} =>
                job[q].user \in User /\ status[job[q].user] # "absent"
          /\ job[q].op \in {"clear", "insert"} => job[q].ask \cap AdminTool = {}
          /\ job[q].op = "insert" => job[q].seen \subseteq job[q].ask
          /\ job[q].op = "vehicle" => job[q].user \in Owner
    /\ \A u \in User : \A p, q \in Replacing(u) : p # q => {p, q} \subseteq overlapped
    /\ \A u \in User : \A q \in Replacing(u) : q \notin overlapped =>
          IF job[q].op = "insert" THEN userTools[u] \cup job[q].seen = job[q].ask
                                  ELSE userTools[u] = job[q].seen
    /\ \A u \in User :
          u \notin muddled /\ (\A q \in Replacing(u) : job[q].op # "insert")
          => userTools[u] = lastAsked[u]
    /\ \A u \in User : status[u] = "absent" => userTools[u] = {}
=============================================================================
