------------------------------ MODULE Sessions ------------------------------
(***************************************************************************)
(* Sessions of participants: the limiter of credential requests, which     *)
(* counts and records attempts in the database, login and refresh, which   *)
(* issue a pair of tokens, the status check of refresh, and the stamp of   *)
(* the last activity, which each server keeps in memory to write it at     *)
(* most once per interval.  All requests come from one address.  Tokens    *)
(* cannot be taken back: a token is its remaining lifetime, and the model  *)
(* keeps the user's youngest pair.  Time passes in ticks, between requests *)
(* (a request lasts seconds, a tick is a minute or more).  Composed with   *)
(* Accounts, whose statuses Refresh reads.                                 *)
(***************************************************************************)
EXTENDS Accounts

CONSTANTS
    Online,                   \* bound: whose sessions are followed
    Attempt,                  \* bound: ids of rows of login_attempts
    accessTTL, refreshTTL,    \* lifetimes of the tokens, in ticks
    limit, window,            \* of PerIPRateLimitDB
    touchInterval             \* of TouchLastActive

ASSUME TimesType == /\ accessTTL \in Nat \ {0} /\ refreshTTL \in Nat \ {0}
                    /\ window \in Nat \ {0} /\ touchInterval \in Nat \ {0}
ASSUME AttemptsType == limit \in Nat \ {0} /\ IsFiniteSet(Attempt)
ASSUME OnlineType == Online \subseteq User

VARIABLES
    access, refresh,          \* remaining lifetime of the tokens
    recorded,                 \* the rows of login_attempts
    touched,                  \* age of the entry in lastTouch; touchInterval: no use
    lastActive,               \* age of users.last_active_at, up to touchInterval
    age,                      \* history: age of each recorded attempt
    cutOff,                   \* history: ticks since the block or a login after it
    served,                   \* history: who was served in this tick
    lost                      \* history: whose last stamp failed

tokenVars == <<access, refresh, cutOff>>
limitVars == <<recorded, age>>
activityVars == <<touched, lastActive, served, lost>>
sessionVars == <<tokenVars, limitVars, activityVars>>

Credential(op, u) == Task(op, u, "none", {}, {})

Ancient == 2 * window + 1      \* ages beyond this one are alike
Older(n, most) == IF n < most THEN n + 1 ELSE most

Younger(n) == IF n = 0 THEN 0 ELSE n - 1

SessionsInit ==
    /\ access = [u \in Online |-> 0] /\ refresh = [u \in Online |-> 0]
    /\ cutOff = [u \in Online |-> 0]
    /\ recorded = {} /\ age = [a \in Attempt |-> Ancient]
    /\ touched = [u \in Online |-> touchInterval]
    /\ lastActive = [u \in Online |-> touchInterval]
    /\ served = {} /\ lost = {}

-----------------------------------------------------------------------------
\* The limiter of login, register and refresh.

Recent == {a \in recorded : age[a] < window}

\* The SELECT count(*): below the limit the attempt will be recorded; when the
\* statement fails the request goes on without a row.
CountAttempts(q, u) ==
    /\ \/ Cardinality(Recent) < limit /\ Start(q, Credential("counted", u))
       \/ Start(q, Credential("admitted", u))
    /\ UNCHANGED <<accountVars, sessionVars>>

\* The INSERT of the attempt; its failure is only logged.
RecordAttempt(q) ==
    /\ job[q].op = "counted"
    /\ Advance(q, "admitted")
    /\ \/ UNCHANGED limitVars
       \/ LET unused == {a \in Attempt \ recorded : age[a] = Ancient}
              a == CHOOSE a \in unused : TRUE
          IN /\ unused # {}
             /\ recorded' = recorded \cup {a}
             /\ age' = [age EXCEPT ![a] = 0]
    /\ UNCHANGED <<accountVars, tokenVars, activityVars>>

\* Mutant: the clean-up does not look at the age.
Everything(a) == TRUE

\* attempted_at < now - 2 * window
Outdated(a) == age[a] > 2 * window

\* The clean-up that about one request in a hundred starts beside itself.
CleanUp ==
    /\ \E a \in recorded : Outdated(a)
    /\ recorded' = {a \in recorded : ~Outdated(a)}
    /\ UNCHANGED <<accountVars, job, tokenVars, age, activityVars>>

-----------------------------------------------------------------------------
IssueTokenPair(u) ==
    /\ access' = [access EXCEPT ![u] = accessTTL]
    /\ refresh' = [refresh EXCEPT ![u] = refreshTTL]

\* Register issues a pair as well.
RegisterSession(c) ==
    /\ IF c \in Online THEN IssueTokenPair(c) ELSE UNCHANGED <<access, refresh>>
    /\ UNCHANGED <<cutOff, limitVars, activityVars>>

\* Login with the right password, whatever the status: an explicit act, so the
\* time since the account was cut off starts again.
Login(q) ==
    LET u == job[q].user
    IN /\ Finish(q, "admitted")
       /\ status[u] # "absent"                       \* else ErrInvalidCredentials
       /\ IssueTokenPair(u)
       /\ cutOff' = [cutOff EXCEPT ![u] = 0]
       /\ UNCHANGED <<accountVars, limitVars, activityVars>>

\* Mutant: the token alone decides.
TokenIsEnough(u) == refresh[u] > 0

MayRefresh(u) == refresh[u] > 0 /\ isEligibleStatus(u)

\* Refresh reads the status, and then signs.
CheckRefresh(q) ==
    /\ job[q].op = "admitted"
    /\ MayRefresh(job[q].user)
    /\ Advance(q, "sign")
    /\ UNCHANGED <<accountVars, sessionVars>>

Refresh(q) ==
    /\ Finish(q, "sign")
    /\ IssueTokenPair(job[q].user)
    /\ UNCHANGED <<accountVars, cutOff, limitVars, activityVars>>

\* A wrong password, a refused token, or an error after the limiter.
Refuse(q) ==
    /\ \E op \in {"counted", "admitted", "sign"} : Finish(q, op)
    /\ UNCHANGED <<accountVars, sessionVars>>

\* The history of a change of status.
FollowStatus ==
    /\ cutOff' = [u \in Online |-> IF isEligibleStatus(u) = isEligibleStatus(u)' THEN cutOff[u]
                                  ELSE 0]
    /\ UNCHANGED <<access, refresh, limitVars, activityVars>>

-----------------------------------------------------------------------------
\* The entry of a request that need not stamp.
Kept(u) == touched

\* RequireAuth and the Load of TouchLastActive: a recent entry serves the
\* request at once.
Authenticated(q, u) ==
    /\ access[u] > 0
    /\ IF touched[u] < touchInterval
         THEN /\ job[q] = Idle /\ UNCHANGED job
              /\ touched' = Kept(u)
              /\ served' = served \cup {u}
         ELSE /\ Start(q, Credential("store", u))
              /\ UNCHANGED <<touched, served>>
    /\ UNCHANGED <<accountVars, tokenVars, limitVars, lastActive, lost>>

StoreTouch(q) ==
    /\ job[q].op = "store"
    /\ Advance(q, "stamp")
    /\ touched' = [touched EXCEPT ![job[q].user] = 0]
    /\ UNCHANGED <<accountVars, tokenVars, limitVars, lastActive, served, lost>>

\* The UPDATE, whose failure is ignored.
StampActivity(q) ==
    LET u == job[q].user
    IN /\ Finish(q, "stamp")
       /\ \/ lastActive' = [lastActive EXCEPT ![u] = 0] /\ lost' = lost \ {u}
          \/ lost' = lost \cup {u} /\ UNCHANGED lastActive
       /\ served' = served \cup {u}
       /\ UNCHANGED <<accountVars, tokenVars, limitVars, touched>>

Stamping(u) == \E q \in Req : job[q].op = "stamp" /\ job[q].user = u

\* The server restarts: its requests and its map are gone.
Restart ==
    /\ \A q \in Req : job[q].op \in {"idle"} \cup SessionOps
    /\ job' = [q \in Req |-> Idle]
    /\ touched' = [u \in Online |-> touchInterval]
    /\ lost' = lost \cup {u \in Online : Stamping(u)}
    /\ UNCHANGED <<accountVars, tokenVars, limitVars, lastActive, served>>

Tick ==
    /\ \A q \in Req : job[q] = Idle
    /\ access' = [u \in Online |-> Younger(access[u])]
    /\ refresh' = [u \in Online |-> Younger(refresh[u])]
    /\ cutOff' = [u \in Online |-> Older(cutOff[u], accessTTL)]
    /\ age' = [a \in Attempt |-> Older(age[a], Ancient)]
    /\ touched' = [u \in Online |-> Older(touched[u], touchInterval)]
    /\ lastActive' = [u \in Online |-> Older(lastActive[u], touchInterval)]
    /\ served' = {}
    /\ UNCHANGED <<accountVars, job, recorded, lost>>

SessionStep ==
    \/ \E q \in Req, u \in Online : CountAttempts(q, u) \/ Authenticated(q, u)
    \/ \E q \in Req : \/ RecordAttempt(q) \/ Login(q) \/ CheckRefresh(q) \/ Refresh(q)
                      \/ Refuse(q) \/ StoreTouch(q) \/ StampActivity(q)
    \/ CleanUp \/ Restart \/ Tick

-----------------------------------------------------------------------------
SessionsTypeOK ==
    /\ access \in [Online -> 0..accessTTL] /\ refresh \in [Online -> 0..refreshTTL]
    /\ cutOff \in [Online -> 0..accessTTL]
    /\ recorded \subseteq Attempt /\ age \in [Attempt -> 0..Ancient]
    /\ touched \in [Online -> 0..touchInterval]
    /\ lastActive \in [Online -> 0..touchInterval]
    /\ served \subseteq Online /\ lost \subseteq Online

\* A blocked or rejected account has no silent session (the comment on
\* Refresh): unless its owner logs in again, its last access token ends within
\* one lifetime of the block, even one that a refresh was about to sign.
SilentSessionEnds == \A u \in Online : ~isEligibleStatus(u) /\ access[u] > 0 =>
    access[u] + cutOff[u] <= accessTTL

Counted == {q \in Req : job[q].op = "counted"}

\* The attempts recorded within any window exceed the limit by at most the
\* requests that were between the count and the INSERT at the same time,
\* however ages advance and old rows are cleaned up meanwhile.
AttemptsBounded ==
    Cardinality({a \in Attempt : age[a] < window}) + Cardinality(Counted)
        <= limit - 1 + Cardinality(Req)

\* A served user was last stamped less than an interval ago: the map saves
\* writes, never a visit, unless the write failed or is still under way.
VisitIsStamped == \A u \in served \ lost :
    ~Stamping(u) => lastActive[u] < touchInterval

-----------------------------------------------------------------------------
\* What the properties above rest on: a refresh that is about to sign for an
\* account cut off meanwhile was checked in this tick; what is recent is still
\* recorded; an entry of the map is not younger than the stamp it stands for.
SessionsInv ==
    /\ \A q \in Req : job[q].op \in SessionOps => job[q].user \in Online
    /\ \A q \in Req : job[q].op = "sign" /\ ~isEligibleStatus(job[q].user) =>
          cutOff[job[q].user] = 0
    /\ \A a \in Attempt : age[a] < window => a \in recorded
    /\ \A u \in Online \ lost : touched[u] < touchInterval /\ ~Stamping(u) =>
          lastActive[u] <= touched[u]
=============================================================================
