---------------------------- MODULE SessionProofs ----------------------------
(***************************************************************************)
(* Proofs about the sessions and the chat of Platform, for any lifetimes,  *)
(* limits, messages and participants: sessions end, attempts are bounded,  *)
(* visits are stamped, and only participants in good standing read.        *)
(***************************************************************************)
EXTENDS ToolProofs

\* The parts of SessionsTypeOK and SessionsInv, with what rests on them.
JobsOnline == job \in [Req -> Job] /\ \A q \in Req :
    job[q].op \in SessionOps => job[q].user \in Online

Tokens ==
    /\ access \in [Online -> 0..accessTTL] /\ refresh \in [Online -> 0..refreshTTL]
    /\ cutOff \in [Online -> 0..accessTTL]
    /\ \A q \in Req : job[q].op = "sign" /\ ~isEligibleStatus(job[q].user) =>
          cutOff[job[q].user] = 0
    /\ SilentSessionEnds

Attempts ==
    /\ recorded \subseteq Attempt /\ age \in [Attempt -> 0..Ancient]
    /\ \A a \in Attempt : age[a] < window => a \in recorded
    /\ AttemptsBounded

Activity ==
    /\ touched \in [Online -> 0..touchInterval] /\ lastActive \in [Online -> 0..touchInterval]
    /\ served \subseteq Online /\ lost \subseteq Online
    /\ \A u \in Online \ lost : touched[u] < touchInterval /\ ~Stamping(u) =>
          lastActive[u] <= touched[u]
    /\ VisitIsStamped

SessionsHold == JobsOnline /\ Tokens /\ Attempts /\ Activity

LEMMA SessionsHoldParts ==
    SessionsHold <=> /\ job \in [Req -> Job] /\ SessionsTypeOK /\ SessionsInv
                     /\ SilentSessionEnds /\ AttemptsBounded /\ VisitIsStamped
BY DEF SessionsHold, JobsOnline, Tokens, Attempts, Activity, SessionsTypeOK, SessionsInv

-----------------------------------------------------------------------------
(* Steps of others.                                                        *)

LEMMA OnlineKept ==
    ASSUME JobsOnline, job' \in [Req -> Job], Spares(SessionOps)
    PROVE  JobsOnline'
BY DEF JobsOnline, Spares

LEMMA SameStamping ==
    ASSUME Spares(SessionOps), NEW u
    PROVE  Stamping(u)' <=> Stamping(u)
BY DEF Spares, Stamping, SessionOps

LEMMA SameCounted ==
    ASSUME Spares(SessionOps)
    PROVE  Counted' = Counted
BY DEF Spares, Counted, SessionOps

LEMMA AttemptsSpared ==
    ASSUME Attempts, Spares(SessionOps), UNCHANGED limitVars
    PROVE  Attempts'
BY SameCounted DEF Attempts, AttemptsBounded, limitVars

LEMMA ActivitySpared ==
    ASSUME Activity, Spares(SessionOps), UNCHANGED activityVars
    PROVE  Activity'
BY SameStamping DEF Activity, VisitIsStamped, activityVars

\* The signing of a pair for an account goes with its cut-off.
LEMMA TokensSpared ==
    ASSUME JobsOnline, Tokens, Spares(SessionOps), UNCHANGED <<access, refresh>>,
           cutOff' \in [Online -> 0..accessTTL],
           \A u \in Online : /\ isEligibleStatus(u) <=> isEligibleStatus(u)'
                             /\ cutOff'[u] = cutOff[u]
                          \/ cutOff'[u] = 0
    PROVE  Tokens'
<1>1. ASSUME NEW q \in Req, job'[q].op = "sign", ~isEligibleStatus(job[q].user)'
      PROVE  cutOff'[job'[q].user] = 0
  <2>1. job'[q] = job[q] /\ job[q].op = "sign"
    BY <1>1 DEF Spares, SessionOps
  <2>2. PICK u \in Online : u = job[q].user
    BY <2>1 DEF JobsOnline, SessionOps
  <2>3. ~isEligibleStatus(u)'
    BY <1>1, <2>1, <2>2 DEF isEligibleStatus
  <2>4. ~isEligibleStatus(u) => cutOff[u] = 0
    BY <2>1, <2>2 DEF Tokens
  <2> HIDE DEF isEligibleStatus
  <2>5. cutOff'[u] = 0
    BY <2>3, <2>4
  <2> QED BY <2>1, <2>2, <2>5
<1>2. SilentSessionEnds'
  <2> SUFFICES ASSUME NEW u \in Online, ~isEligibleStatus(u)', access'[u] > 0
               PROVE  access'[u] + cutOff'[u] <= accessTTL
    BY DEF SilentSessionEnds
  <2>1. access[u] \in 0..accessTTL /\ access'[u] = access[u] /\ accessTTL \in Nat
    BY TimesType DEF Tokens
  <2>2. CASE cutOff'[u] = 0
    BY <2>1, <2>2
  <2>3. CASE ~isEligibleStatus(u) /\ cutOff'[u] = cutOff[u]
    BY <2>1, <2>3 DEF Tokens, SilentSessionEnds
  <2> QED BY <2>2, <2>3
<1> QED BY <1>1, <1>2 DEF Tokens

-----------------------------------------------------------------------------
(* One request moves.                                                      *)

Alone(q) == job' \in [Req -> Job] /\ \A p \in Req : p # q => job'[p] = job[p]

LEMMA TokensKept ==
    ASSUME Tokens, NEW q \in Req, Alone(q), job'[q].op # "sign",
           UNCHANGED <<accountVars, tokenVars>>
    PROVE  Tokens'
<1>1. ASSUME NEW p \in Req, job'[p].op = "sign", ~isEligibleStatus(job[p].user)'
      PROVE  cutOff'[job'[p].user] = 0
  BY <1>1 DEF Tokens, Alone, tokenVars, accountVars, isEligibleStatus
<1>2. SilentSessionEnds'
  BY DEF Tokens, SilentSessionEnds, tokenVars, accountVars, isEligibleStatus
<1> QED BY <1>1, <1>2 DEF Tokens, tokenVars

LEMMA CountedFinite ==
    /\ IsFiniteSet(Counted) /\ Cardinality(Counted) \in Nat
    /\ Cardinality(Counted) <= Cardinality(Req) /\ Cardinality(Req) \in Nat
    /\ Cardinality(Counted') \in Nat /\ Cardinality(Counted') <= Cardinality(Req)
<1>1. Counted \subseteq Req /\ Counted' \subseteq Req
  BY DEF Counted
<1> QED BY <1>1, RequestsFinite, FS_Subset, FS_CardinalityType

Fresh == {a \in Attempt : age[a] < window}

LEMMA FreshFinite ==
    /\ IsFiniteSet(Fresh) /\ Cardinality(Fresh) \in Nat
    /\ IsFiniteSet(Fresh') /\ Cardinality(Fresh') \in Nat
<1>1. Fresh \subseteq Attempt /\ Fresh' \subseteq Attempt
  BY DEF Fresh
<1> QED BY <1>1, AttemptsType, FS_Subset, FS_CardinalityType

LEMMA BoundedMeans ==
    /\ AttemptsBounded <=> Cardinality(Fresh) + Cardinality(Counted) <= limit - 1 + Cardinality(Req)
    /\ AttemptsBounded' <=> Cardinality(Fresh') + Cardinality(Counted') <= limit - 1 + Cardinality(Req)
BY DEF AttemptsBounded, Fresh

\* Fewer recent attempts, fewer counted requests.
LEMMA BoundedKept ==
    ASSUME AttemptsBounded, Fresh' \subseteq Fresh, Counted' \subseteq Counted
    PROVE  AttemptsBounded'
<1>1. Cardinality(Fresh') <= Cardinality(Fresh) /\ Cardinality(Counted') <= Cardinality(Counted)
  BY FreshFinite, CountedFinite, FS_Subset
<1> QED BY <1>1, FreshFinite, CountedFinite, AttemptsType, BoundedMeans

LEMMA AttemptsKept ==
    ASSUME Attempts, NEW q \in Req, Alone(q), job'[q].op # "counted", UNCHANGED limitVars
    PROVE  Attempts'
<1>1. Counted' \subseteq Counted
  BY DEF Counted, Alone
<1>2. Fresh' \subseteq Fresh
  BY DEF Fresh, limitVars
<1> QED BY <1>1, <1>2, BoundedKept DEF Attempts, limitVars

LEMMA ActivityKept ==
    ASSUME Activity, NEW q \in Req, Alone(q), job'[q].op # "stamp", job[q].op # "stamp",
           UNCHANGED activityVars
    PROVE  Activity'
<1>1. \A u \in Online : Stamping(u)' <=> Stamping(u)
  BY DEF Stamping, Alone
<1> QED BY <1>1 DEF Activity, VisitIsStamped, activityVars

\* The three ways in which a request moves.
LEMMA SessionStarts ==
    ASSUME JobsOnline, NEW q \in Req, NEW u \in Online, NEW op \in SessionOps,
           Start(q, Credential(op, u))
    PROVE  /\ Alone(q) /\ job'[q].op = op /\ job'[q].user = u /\ job[q].op = "idle"
           /\ JobsOnline'
<1>1. Credential(op, u) \in Job /\ Credential(op, u).op = op /\ Credential(op, u).user = u
  BY TaskIsJob, OnlineType DEF Credential, Task
<1>2. /\ job' \in [Req -> Job] /\ job'[q] = Credential(op, u) /\ job[q] = Idle
      /\ \A p \in Req : p # q => job'[p] = job[p]
  BY <1>1, Starting DEF JobsOnline
<1> QED BY <1>1, <1>2 DEF Alone, JobsOnline, Idle

LEMMA SessionAdvances ==
    ASSUME JobsOnline, NEW q \in Req, NEW op \in SessionOps, job[q].op \in SessionOps,
           Advance(q, op)
    PROVE  /\ Alone(q) /\ job'[q].op = op /\ job'[q].user = job[q].user
           /\ job[q].user \in Online /\ JobsOnline'
<1>1. op \in AccountOps \cup ToolOps \cup SessionOps
  OBVIOUS
<1>2. /\ job' \in [Req -> Job] /\ job'[q].op = op /\ job'[q].user = job[q].user
      /\ \A p \in Req : p # q => job'[p] = job[p]
  BY <1>1, Advancing DEF JobsOnline
<1> QED BY <1>2 DEF Alone, JobsOnline

LEMMA SessionFinishes ==
    ASSUME JobsOnline, NEW q \in Req, NEW op \in SessionOps, Finish(q, op)
    PROVE  /\ Alone(q) /\ job'[q].op = "idle" /\ job[q].op = op
           /\ job[q].user \in Online /\ JobsOnline'
<1>1. /\ job' \in [Req -> Job] /\ job'[q] = Idle /\ job[q].op = op
      /\ \A p \in Req : p # q => job'[p] = job[p]
  BY Finishing DEF JobsOnline
<1> QED BY <1>1 DEF Alone, JobsOnline, Idle, SessionOps

-----------------------------------------------------------------------------
(* The steps of the sessions.                                              *)

LEMMA SessionOpsAre ==
    /\ "counted" \in SessionOps /\ "admitted" \in SessionOps /\ "sign" \in SessionOps
    /\ "store" \in SessionOps /\ "stamp" \in SessionOps
BY DEF SessionOps

LEMMA CountKept ==
    ASSUME SessionsHold, NEW q \in Req, NEW u \in Online, CountAttempts(q, u)
    PROVE  SessionsHold'
<1>1. UNCHANGED <<accountVars, tokenVars, limitVars, activityVars>>
  BY DEF CountAttempts, sessionVars
<1>2. CASE Cardinality(Recent) < limit /\ Start(q, Credential("counted", u))
  <2>1. Alone(q) /\ job'[q].op = "counted" /\ job[q].op = "idle" /\ JobsOnline'
    BY <1>2, SessionStarts, SessionOpsAre DEF SessionsHold
  <2>2. Recent = Fresh /\ Fresh' = Fresh
    BY <1>1 DEF Recent, Fresh, limitVars, SessionsHold, Attempts
  <2>3. Cardinality(Fresh') < limit
    BY <1>2, <2>2
  <2>4. AttemptsBounded'
    BY <2>3, FreshFinite, CountedFinite, AttemptsType, BoundedMeans
  <2>5. Attempts'
    BY <1>1, <2>4 DEF SessionsHold, Attempts, limitVars
  <2> QED BY <1>1, <2>1, <2>5, TokensKept, ActivityKept DEF SessionsHold
<1>3. CASE Start(q, Credential("admitted", u))
  <2>1. Alone(q) /\ job'[q].op = "admitted" /\ job[q].op = "idle" /\ JobsOnline'
    BY <1>3, SessionStarts, SessionOpsAre DEF SessionsHold
  <2> QED BY <1>1, <2>1, TokensKept, AttemptsKept, ActivityKept DEF SessionsHold
<1> QED BY <1>2, <1>3 DEF CountAttempts

LEMMA RecordKept ==
    ASSUME SessionsHold, NEW q \in Req, RecordAttempt(q)
    PROVE  SessionsHold'
<1>1. UNCHANGED <<accountVars, tokenVars, activityVars>> /\ job[q].op = "counted"
  BY DEF RecordAttempt
<1>2. Alone(q) /\ job'[q].op = "admitted" /\ JobsOnline'
  BY <1>1, SessionAdvances, SessionOpsAre DEF SessionsHold, RecordAttempt
<1>3. Tokens' /\ Activity'
  BY <1>1, <1>2, TokensKept, ActivityKept DEF SessionsHold
<1>4. CASE UNCHANGED limitVars
  BY <1>2, <1>3, <1>4, AttemptsKept DEF SessionsHold
<1>5. CASE ~UNCHANGED limitVars
  <2>1. PICK a \in Attempt : recorded' = recorded \cup {a} /\ age' = [age EXCEPT ![a] = 0]
    BY <1>5 DEF RecordAttempt
  <2>2. Fresh' \subseteq Fresh \cup {a}
    BY <2>1 DEF Fresh, SessionsHold, Attempts
  <2>3. /\ IsFiniteSet(Fresh \cup {a}) /\ Cardinality(Fresh \cup {a}) <= Cardinality(Fresh) + 1
        /\ Cardinality(Fresh \cup {a}) \in Nat
    <3>1. /\ IsFiniteSet(Fresh \cup {a})
          /\ Cardinality(Fresh \cup {a}) = IF a \in Fresh THEN Cardinality(Fresh)
                                                         ELSE Cardinality(Fresh) + 1
      BY FreshFinite, FS_AddElement
    <3> QED BY <3>1, FreshFinite, FS_CardinalityType
  <2>4. Cardinality(Fresh') <= Cardinality(Fresh) + 1
    BY <2>2, <2>3, FreshFinite, FS_Subset
  <2>5. q \in Counted /\ Counted' = Counted \ {q}
    BY <1>1, <1>2 DEF Counted, Alone
  <2>6. Cardinality(Counted') = Cardinality(Counted) - 1
    BY <2>5, CountedFinite, FS_RemoveElement
  <2>7. AttemptsBounded'
    <3>1. Cardinality(Fresh) + Cardinality(Counted) <= limit - 1 + Cardinality(Req)
      BY BoundedMeans DEF SessionsHold, Attempts
    <3>2. Cardinality(Fresh') + Cardinality(Counted') <= limit - 1 + Cardinality(Req)
      BY <2>4, <2>6, <3>1, FreshFinite, CountedFinite, AttemptsType
    <3> QED BY <3>2, BoundedMeans
  <2>8. Attempts'
    BY <2>1, <2>7, TimesType DEF SessionsHold, Attempts, Ancient
  <2> QED BY <1>2, <1>3, <2>8 DEF SessionsHold
<1> QED BY <1>4, <1>5

LEMMA CleanUpKept ==
    ASSUME SessionsHold, CleanUp
    PROVE  SessionsHold'
<1>1. /\ UNCHANGED <<accountVars, job, tokenVars, age, activityVars>>
      /\ recorded' = {a \in recorded : ~Outdated(a)}
  BY DEF CleanUp
<1>2. JobsOnline' /\ Tokens' /\ Activity'
  BY <1>1, OnlineKept, TokensSpared, ActivitySpared
     DEF SessionsHold, Spares, accountVars, tokenVars, isEligibleStatus, JobsOnline, Tokens
<1>3. AttemptsBounded'
  BY <1>1, BoundedKept DEF Fresh, Counted, SessionsHold, Attempts
<1>4. ASSUME NEW a \in Attempt, age'[a] < window
      PROVE  a \in recorded'
  <2>1. a \in recorded /\ age[a] < window /\ age[a] \in Nat
    BY <1>1, <1>4, TimesType DEF SessionsHold, Attempts, Ancient
  <2> QED BY <1>1, <2>1, TimesType DEF Outdated
<1> QED BY <1>1, <1>2, <1>3, <1>4 DEF SessionsHold, Attempts

\* A pair is issued to somebody whose cut-off starts again, or has not begun.
LEMMA PairKept ==
    ASSUME SessionsHold, NEW q \in Req, Alone(q), job'[q].op = "idle", NEW u \in Online,
           IssueTokenPair(u), cutOff' \in [Online -> 0..accessTTL],
           UNCHANGED accountVars,
           \A v \in Online : v # u => cutOff'[v] = cutOff[v],
           ~isEligibleStatus(u) => cutOff'[u] = 0,
           cutOff'[u] = cutOff[u] \/ cutOff'[u] = 0
    PROVE  Tokens'
<1>1. /\ access' \in [Online -> 0..accessTTL] /\ refresh' \in [Online -> 0..refreshTTL]
      /\ access'[u] = accessTTL /\ \A v \in Online : v # u => access'[v] = access[v]
      /\ accessTTL \in Nat
  BY TimesType DEF IssueTokenPair, SessionsHold, Tokens
<1>2. \A v \in Online : isEligibleStatus(v)' <=> isEligibleStatus(v)
  BY DEF accountVars, isEligibleStatus
<1>3. ASSUME NEW p \in Req, job'[p].op = "sign", ~isEligibleStatus(job[p].user)'
      PROVE  cutOff'[job'[p].user] = 0
  <2>1. job'[p] = job[p]
    BY <1>3 DEF Alone
  <2>2. PICK v \in Online : v = job[p].user
    BY <1>3, <2>1, SessionOpsAre DEF SessionsHold, JobsOnline
  <2>3. ~isEligibleStatus(v)
    BY <1>2, <1>3, <2>1, <2>2 DEF isEligibleStatus
  <2>4. cutOff[v] = 0
    BY <1>3, <2>1, <2>2, <2>3 DEF SessionsHold, Tokens
  <2> QED BY <2>1, <2>2, <2>4
<1>4. SilentSessionEnds'
  <2> SUFFICES ASSUME NEW v \in Online, ~isEligibleStatus(v)', access'[v] > 0
               PROVE  access'[v] + cutOff'[v] <= accessTTL
    BY DEF SilentSessionEnds
  <2>1. CASE v = u
    BY <1>1, <1>2, <2>1
  <2>2. CASE v # u
    BY <1>1, <1>2, <2>2 DEF SessionsHold, Tokens, SilentSessionEnds
  <2> QED BY <2>1, <2>2
<1> QED BY <1>1, <1>3, <1>4 DEF Tokens

LEMMA LoginKept ==
    ASSUME SessionsHold, NEW q \in Req, Login(q) \/ Refresh(q)
    PROVE  SessionsHold'
<1>1. UNCHANGED <<accountVars, limitVars, activityVars>>
  BY DEF Login, Refresh
<1>2. CASE Login(q)
  <2>1. /\ Alone(q) /\ job'[q].op = "idle" /\ job[q].op = "admitted"
        /\ job[q].user \in Online /\ JobsOnline'
    BY <1>2, SessionFinishes, SessionOpsAre DEF SessionsHold, Login
  <2>2. PICK u \in Online : u = job[q].user
    BY <2>1
  <2>3. IssueTokenPair(u) /\ cutOff' = [cutOff EXCEPT ![u] = 0]
    BY <1>2, <2>2 DEF Login
  <2>4. /\ cutOff' \in [Online -> 0..accessTTL] /\ cutOff'[u] = 0
        /\ \A v \in Online : v # u => cutOff'[v] = cutOff[v]
    BY <2>3, TimesType DEF SessionsHold, Tokens
  <2>5. Tokens'
    BY <1>1, <2>1, <2>3, <2>4, PairKept
  <2> QED BY <1>1, <2>1, <2>5, AttemptsKept, ActivityKept DEF SessionsHold
<1>3. CASE Refresh(q)
  <2>1. /\ Alone(q) /\ job'[q].op = "idle" /\ job[q].op = "sign"
        /\ job[q].user \in Online /\ JobsOnline'
    BY <1>3, SessionFinishes, SessionOpsAre DEF SessionsHold, Refresh
  <2>2. PICK u \in Online : u = job[q].user
    BY <2>1
  <2>3. IssueTokenPair(u) /\ cutOff' = cutOff
    BY <1>3, <2>2 DEF Refresh
  <2>4. ~isEligibleStatus(u) => cutOff[u] = 0
    BY <2>1, <2>2 DEF SessionsHold, Tokens
  <2>5. cutOff' \in [Online -> 0..accessTTL]
    BY <2>3 DEF SessionsHold, Tokens
  <2>6. Tokens'
    BY <1>1, <2>1, <2>3, <2>4, <2>5, PairKept
  <2> QED BY <1>1, <2>1, <2>6, AttemptsKept, ActivityKept DEF SessionsHold
<1> QED BY <1>2, <1>3

LEMMA CheckKept ==
    ASSUME SessionsHold, NEW q \in Req, CheckRefresh(q) \/ Refuse(q)
    PROVE  SessionsHold'
<1>1. UNCHANGED <<accountVars, tokenVars, limitVars, activityVars>>
  BY DEF CheckRefresh, Refuse, sessionVars
<1>2. CASE CheckRefresh(q)
  <2>1. /\ Alone(q) /\ job'[q].op = "sign" /\ job[q].op = "admitted"
        /\ job'[q].user = job[q].user /\ job[q].user \in Online /\ JobsOnline'
    BY <1>2, SessionAdvances, SessionOpsAre DEF SessionsHold, CheckRefresh
  <2>2. isEligibleStatus(job[q].user) /\ status' = status
    BY <1>1, <1>2 DEF CheckRefresh, MayRefresh, accountVars
  <2>3. ASSUME NEW p \in Req, job'[p].op = "sign", ~isEligibleStatus(job[p].user)'
        PROVE  cutOff'[job'[p].user] = 0
    <3>1. CASE p = q
      BY <2>1, <2>2, <2>3, <3>1 DEF isEligibleStatus
    <3>2. CASE p # q
      BY <1>1, <2>1, <2>2, <2>3, <3>2 DEF Alone, SessionsHold, Tokens, tokenVars, isEligibleStatus
    <3> QED BY <3>1, <3>2
  <2>4. SilentSessionEnds'
    BY <1>1, <2>2 DEF SessionsHold, Tokens, SilentSessionEnds, tokenVars, isEligibleStatus
  <2>5. Tokens'
    BY <1>1, <2>3, <2>4 DEF SessionsHold, Tokens, tokenVars
  <2> QED BY <1>1, <2>1, <2>5, AttemptsKept, ActivityKept DEF SessionsHold
<1>3. CASE Refuse(q)
  <2>1. PICK op \in {"counted", "admitted", "sign"} : Finish(q, op)
    BY <1>3 DEF Refuse
  <2>2. Alone(q) /\ job'[q].op = "idle" /\ job[q].op = op /\ JobsOnline'
    BY <2>1, SessionFinishes, SessionOpsAre DEF SessionsHold
  <2> QED BY <1>1, <2>2, TokensKept, AttemptsKept, ActivityKept DEF SessionsHold
<1> QED BY <1>2, <1>3

LEMMA VisitKept ==
    ASSUME SessionsHold, NEW q \in Req, NEW u \in Online, Authenticated(q, u)
    PROVE  SessionsHold'
<1>1. UNCHANGED <<accountVars, tokenVars, limitVars, lastActive, lost, touched>>
  BY DEF Authenticated, Kept
<1>2. CASE touched[u] < touchInterval
  <2>1. job' = job /\ served' = served \cup {u}
    BY <1>2 DEF Authenticated
  <2>2. (Alone(q) /\ job'[q].op # "sign") \/ Spares(SessionOps)
    BY <2>1 DEF Spares
  <2>3. JobsOnline' /\ Tokens' /\ Attempts'
    BY <1>1, <2>1, OnlineKept, TokensSpared, AttemptsSpared
       DEF SessionsHold, Spares, accountVars, tokenVars, isEligibleStatus, JobsOnline, Tokens
  <2>4. \A v \in Online : Stamping(v)' <=> Stamping(v)
    BY <2>1 DEF Stamping
  <2>5. VisitIsStamped'
    <3> SUFFICES ASSUME NEW v \in served' \ lost', ~Stamping(v)'
                 PROVE  lastActive'[v] < touchInterval
      BY DEF VisitIsStamped
    <3>1. CASE v \in served
      BY <1>1, <2>4, <3>1 DEF SessionsHold, Activity, VisitIsStamped
    <3>2. CASE v = u
      <4>1. lastActive[u] <= touched[u]
        BY <1>1, <1>2, <2>4, <3>2 DEF SessionsHold, Activity
      <4>2. lastActive[u] \in Nat /\ touched[u] \in Nat /\ touchInterval \in Nat
        BY TimesType DEF SessionsHold, Activity
      <4> QED BY <1>1, <1>2, <3>2, <4>1, <4>2
    <3> QED BY <2>1, <3>1, <3>2
  <2>6. Activity'
    BY <1>1, <2>1, <2>4, <2>5 DEF SessionsHold, Activity
  <2> QED BY <2>3, <2>6 DEF SessionsHold
<1>3. CASE ~(touched[u] < touchInterval)
  <2>1. Start(q, Credential("store", u)) /\ served' = served
    BY <1>3 DEF Authenticated
  <2>2. Alone(q) /\ job'[q].op = "store" /\ job[q].op = "idle" /\ JobsOnline'
    BY <2>1, SessionStarts, SessionOpsAre DEF SessionsHold
  <2>3. UNCHANGED activityVars
    BY <1>1, <2>1 DEF activityVars
  <2> QED BY <1>1, <2>2, <2>3, TokensKept, AttemptsKept, ActivityKept DEF SessionsHold
<1> QED BY <1>2, <1>3

LEMMA StoreKept ==
    ASSUME SessionsHold, NEW q \in Req, StoreTouch(q)
    PROVE  SessionsHold'
<1>1. /\ UNCHANGED <<accountVars, tokenVars, limitVars, lastActive, served, lost>>
      /\ job[q].op = "store"
  BY DEF StoreTouch
<1>2. /\ Alone(q) /\ job'[q].op = "stamp" /\ job'[q].user = job[q].user
      /\ job[q].user \in Online /\ JobsOnline'
  BY <1>1, SessionAdvances, SessionOpsAre DEF SessionsHold, StoreTouch
<1>3. PICK u \in Online : u = job[q].user
  BY <1>2
<1>4. /\ touched' \in [Online -> 0..touchInterval]
      /\ \A v \in Online : v # u => touched'[v] = touched[v]
  BY <1>3, TimesType DEF StoreTouch, SessionsHold, Activity
<1>5. Stamping(u)' /\ \A v \in Online : v # u => (Stamping(v)' <=> Stamping(v))
  BY <1>1, <1>2, <1>3 DEF Stamping, Alone
<1>6. VisitIsStamped'
  BY <1>1, <1>5 DEF SessionsHold, Activity, VisitIsStamped
<1>7. Activity'
  BY <1>1, <1>4, <1>5, <1>6 DEF SessionsHold, Activity
<1> QED BY <1>1, <1>2, <1>7, TokensKept, AttemptsKept DEF SessionsHold

LEMMA StampKept ==
    ASSUME SessionsHold, NEW q \in Req, StampActivity(q)
    PROVE  SessionsHold'
<1>1. UNCHANGED <<accountVars, tokenVars, limitVars, touched>>
  BY DEF StampActivity
<1>2. /\ Alone(q) /\ job'[q].op = "idle" /\ job[q].op = "stamp"
      /\ job[q].user \in Online /\ JobsOnline'
  BY SessionFinishes, SessionOpsAre DEF SessionsHold, StampActivity
<1>3. PICK u \in Online : u = job[q].user
  BY <1>2
<1>4. /\ served' = served \cup {u}
      /\ \/ lastActive' = [lastActive EXCEPT ![u] = 0] /\ lost' = lost \ {u}
         \/ lost' = lost \cup {u} /\ UNCHANGED lastActive
  BY <1>3 DEF StampActivity
<1>5. \A v \in Online : v # u => (Stamping(v)' <=> Stamping(v))
  BY <1>2, <1>3 DEF Stamping, Alone
<1>6. /\ lastActive' \in [Online -> 0..touchInterval]
      /\ \A v \in Online : v # u => lastActive'[v] = lastActive[v] /\ (v \in lost <=> v \in lost')
      /\ u \notin lost' => lastActive'[u] = 0
      /\ served' \subseteq Online /\ lost' \subseteq Online
  BY <1>4, TimesType DEF SessionsHold, Activity
<1>7. VisitIsStamped'
  <2> SUFFICES ASSUME NEW v \in served' \ lost', ~Stamping(v)'
               PROVE  lastActive'[v] < touchInterval
    BY DEF VisitIsStamped
  <2>1. CASE v = u
    BY <1>6, <2>1, TimesType
  <2>2. CASE v # u
    BY <1>4, <1>5, <1>6, <2>2 DEF SessionsHold, Activity, VisitIsStamped
  <2> QED BY <2>1, <2>2
<1>8. ASSUME NEW v \in Online \ lost', touched'[v] < touchInterval, ~Stamping(v)'
      PROVE  lastActive'[v] <= touched'[v]
  <2>1. CASE v = u
    BY <1>1, <1>6, <2>1, TimesType DEF SessionsHold, Activity
  <2>2. CASE v # u
    BY <1>1, <1>5, <1>6, <1>8, <2>2 DEF SessionsHold, Activity
  <2> QED BY <2>1, <2>2
<1>9. Activity'
  BY <1>1, <1>6, <1>7, <1>8 DEF SessionsHold, Activity
<1> QED BY <1>1, <1>2, <1>9, TokensKept, AttemptsKept DEF SessionsHold

LEMMA RestartKept ==
    ASSUME SessionsHold, Restart
    PROVE  SessionsHold'
<1>1. /\ UNCHANGED <<accountVars, tokenVars, limitVars, lastActive, served>>
      /\ job' = [q \in Req |-> Idle] /\ touched' = [u \in Online |-> touchInterval]
      /\ lost' = lost \cup {u \in Online : Stamping(u)}
  BY DEF Restart
<1>2. JobsOnline'
  BY <1>1, IdleIsJob DEF JobsOnline, Idle, SessionOps
<1>3. Tokens'
  <2>1. \A p \in Req : job'[p].op # "sign"
    BY <1>1 DEF Idle
  <2>2. SilentSessionEnds'
    BY <1>1 DEF SessionsHold, Tokens, SilentSessionEnds, tokenVars, accountVars, isEligibleStatus
  <2> QED BY <1>1, <2>1, <2>2 DEF SessionsHold, Tokens, tokenVars
<1>4. Attempts'
  <2>1. Counted' \subseteq Counted
    BY <1>1 DEF Counted, Idle
  <2>2. Fresh' \subseteq Fresh
    BY <1>1 DEF Fresh, limitVars
  <2> QED BY <1>1, <2>1, <2>2, BoundedKept DEF SessionsHold, Attempts, limitVars
<1>5. VisitIsStamped'
  BY <1>1 DEF SessionsHold, Activity, VisitIsStamped
<1>6. \A u \in Online : touched'[u] = touchInterval
  BY <1>1
<1>7. touched' \in [Online -> 0..touchInterval] /\ lost' \subseteq Online
  BY <1>1, TimesType DEF SessionsHold, Activity
<1>8. Activity'
  BY <1>1, <1>5, <1>6, <1>7, TimesType DEF SessionsHold, Activity
<1> QED BY <1>2, <1>3, <1>4, <1>8 DEF SessionsHold

LEMMA TickKept ==
    ASSUME SessionsHold, Tick
    PROVE  SessionsHold'
<1>1. /\ UNCHANGED <<accountVars, job, recorded, lost>> /\ served' = {}
      /\ \A q \in Req : job[q] = Idle
  BY DEF Tick
<1>2. JobsOnline'
  BY <1>1 DEF SessionsHold, JobsOnline
<1>3. ASSUME NEW u \in Online
      PROVE  /\ access'[u] = Younger(access[u]) /\ refresh'[u] = Younger(refresh[u])
             /\ cutOff'[u] = Older(cutOff[u], accessTTL)
             /\ touched'[u] = Older(touched[u], touchInterval)
             /\ lastActive'[u] = Older(lastActive[u], touchInterval)
             /\ access[u] \in 0..accessTTL /\ refresh[u] \in 0..refreshTTL
             /\ cutOff[u] \in 0..accessTTL
             /\ touched[u] \in 0..touchInterval /\ lastActive[u] \in 0..touchInterval
  BY DEF Tick, SessionsHold, Tokens, Activity
<1>4. accessTTL \in Nat /\ refreshTTL \in Nat /\ touchInterval \in Nat /\ window \in Nat
      /\ Ancient \in Nat /\ Ancient >= window
  BY TimesType DEF Ancient
<1>5. Tokens'
  <2>1. /\ access' \in [Online -> 0..accessTTL] /\ refresh' \in [Online -> 0..refreshTTL]
        /\ cutOff' \in [Online -> 0..accessTTL]
    <3>1. \A u \in Online : /\ access'[u] \in 0..accessTTL /\ refresh'[u] \in 0..refreshTTL
                            /\ cutOff'[u] \in 0..accessTTL
      BY <1>3, <1>4 DEF Younger, Older
    <3> QED BY <3>1 DEF Tick
  <2>2. \A p \in Req : job'[p].op # "sign"
    BY <1>1 DEF Idle
  <2>3. SilentSessionEnds'
    <3> SUFFICES ASSUME NEW u \in Online, ~isEligibleStatus(u)', access'[u] > 0
                 PROVE  access'[u] + cutOff'[u] <= accessTTL
      BY DEF SilentSessionEnds
    <3>1. ~isEligibleStatus(u)
      BY <1>1 DEF accountVars, isEligibleStatus
    <3>2. access[u] > 0 /\ access'[u] = access[u] - 1
      BY <1>3, <1>4 DEF Younger
    <3>3. access[u] + cutOff[u] <= accessTTL
      BY <3>1, <3>2 DEF SessionsHold, Tokens, SilentSessionEnds
    <3> QED BY <1>3, <1>4, <3>2, <3>3 DEF Older
  <2> QED BY <2>1, <2>2, <2>3 DEF Tokens
<1>6. ASSUME NEW a \in Attempt
      PROVE  /\ age'[a] \in 0..Ancient /\ age[a] \in Nat
             /\ age'[a] < window => age[a] < window
  <2>1. age[a] \in 0..Ancient /\ age'[a] = Older(age[a], Ancient)
    BY DEF Tick, SessionsHold, Attempts
  <2> QED BY <1>4, <2>1 DEF Older
<1>7. Attempts'
  <2>1. age' \in [Attempt -> 0..Ancient]
    BY <1>6 DEF Tick
  <2>2. AttemptsBounded'
    BY <1>1, <1>6, BoundedKept DEF Fresh, Counted, SessionsHold, Attempts
  <2> QED BY <1>1, <1>6, <2>1, <2>2 DEF SessionsHold, Attempts
<1>8. Activity'
  <2>1. /\ touched' \in [Online -> 0..touchInterval] /\ lastActive' \in [Online -> 0..touchInterval]
    <3>1. \A u \in Online : touched'[u] \in 0..touchInterval /\ lastActive'[u] \in 0..touchInterval
      BY <1>3, <1>4 DEF Older
    <3> QED BY <3>1 DEF Tick
  <2>2. VisitIsStamped' /\ served' \subseteq Online /\ lost' \subseteq Online
    BY <1>1 DEF VisitIsStamped, SessionsHold, Activity
  <2>3. ASSUME NEW u \in Online \ lost', touched'[u] < touchInterval, ~Stamping(u)'
        PROVE  lastActive'[u] <= touched'[u]
    <3>1. ~Stamping(u) /\ u \notin lost
      BY <1>1 DEF Stamping, Idle
    <3>2. touched[u] < touchInterval
      BY <1>3, <1>4, <2>3 DEF Older
    <3>3. lastActive[u] <= touched[u]
      BY <3>1, <3>2 DEF SessionsHold, Activity
    <3> QED BY <1>3, <1>4, <3>2, <3>3 DEF Older
  <2> QED BY <2>1, <2>2, <2>3 DEF Activity
<1> QED BY <1>2, <1>5, <1>7, <1>8 DEF SessionsHold

LEMMA SessionStepKept ==
    ASSUME SessionsHold, SessionStep
    PROVE  SessionsHold'
BY CountKept, VisitKept, RecordKept, LoginKept, CheckKept, StoreKept, StampKept,
   CleanUpKept, RestartKept, TickKept DEF SessionStep

\* A step that may change statuses.
LEMMA FollowKept ==
    ASSUME SessionsHold, FollowStatus, job' \in [Req -> Job], Spares(SessionOps)
    PROVE  SessionsHold'
<1>1. UNCHANGED <<access, refresh, limitVars, activityVars>>
  BY DEF FollowStatus
<1>2. \A u \in Online : cutOff'[u] = IF isEligibleStatus(u) = isEligibleStatus(u)' THEN cutOff[u] ELSE 0
  BY DEF FollowStatus
<1>3. \A u \in Online : \/ /\ isEligibleStatus(u) <=> isEligibleStatus(u)'
                           /\ cutOff'[u] = cutOff[u]
                        \/ cutOff'[u] = 0
  BY <1>2 DEF isEligibleStatus
<1>4. cutOff' \in [Online -> 0..accessTTL]
  <2>1. \A u \in Online : cutOff[u] \in 0..accessTTL /\ cutOff'[u] \in {cutOff[u], 0}
    BY <1>2 DEF SessionsHold, Tokens
  <2>2. 0 \in 0..accessTTL
    BY TimesType
  <2> QED BY <2>1, <2>2 DEF FollowStatus
<1>5. Tokens'
  BY <1>1, <1>3, <1>4, TokensSpared DEF SessionsHold
<1> QED BY <1>1, <1>5, OnlineKept, AttemptsSpared, ActivitySpared DEF SessionsHold

LEMMA RegisterSessionKept ==
    ASSUME SessionsHold, AccountsTypeOK, NEW c \in Company, RegisterAccount(c), UNCHANGED job,
           RegisterSession(c)
    PROVE  SessionsHold'
<1>1. UNCHANGED <<cutOff, limitVars, activityVars>> /\ Spares(SessionOps) /\ job' \in [Req -> Job]
  BY DEF RegisterSession, Spares, SessionsHold, JobsOnline
<1>2. c \in User /\ "pending" \in UserStatus
  BY DEF User, UserStatus
<1>3. status'[c] = "pending" /\ \A v \in User : v # c => status'[v] = status[v]
  BY <1>2, StatusUpdated DEF RegisterAccount
<1>4. /\ access' \in [Online -> 0..accessTTL] /\ refresh' \in [Online -> 0..refreshTTL]
      /\ \A v \in Online : v # c => access'[v] = access[v]
  BY TimesType DEF RegisterSession, IssueTokenPair, SessionsHold, Tokens
<1>5. ASSUME NEW v \in Online, ~isEligibleStatus(v)'
      PROVE  v # c /\ ~isEligibleStatus(v)
  BY <1>3, <1>5, OnlineType DEF isEligibleStatus
<1>6. ASSUME NEW p \in Req, job'[p].op = "sign", ~isEligibleStatus(job[p].user)'
      PROVE  cutOff'[job'[p].user] = 0
  <2>1. PICK v \in Online : v = job[p].user
    BY <1>6, SessionOpsAre DEF SessionsHold, JobsOnline
  <2>2. ~isEligibleStatus(v)
    BY <1>5, <1>6, <2>1 DEF isEligibleStatus
  <2> QED BY <1>1, <1>6, <2>1, <2>2 DEF SessionsHold, Tokens
<1>7. SilentSessionEnds'
  BY <1>1, <1>4, <1>5 DEF SessionsHold, Tokens, SilentSessionEnds
<1>8. Tokens'
  BY <1>1, <1>4, <1>6, <1>7 DEF SessionsHold, Tokens
<1> QED BY <1>1, <1>8, OnlineKept, AttemptsSpared, ActivitySpared DEF SessionsHold

LEMMA SessionsKept ==
    ASSUME SessionsHold, AccountsTypeOK, ToolsTypeOK, [PlatformNext]_platformVars
    PROVE  SessionsHold'
<1>1. job \in [Req -> Job]
  BY DEF AccountsTypeOK
<1>2. ASSUME Spares(SessionOps), UNCHANGED accountVars, UNCHANGED sessionVars,
             job' \in [Req -> Job]
      PROVE  SessionsHold'
  <2>1. Tokens'
    BY <1>2, TokensSpared
       DEF SessionsHold, sessionVars, tokenVars, accountVars, isEligibleStatus, Tokens
  <2> QED BY <1>2, <2>1, OnlineKept, AttemptsSpared, ActivitySpared DEF SessionsHold, sessionVars
<1>3. ASSUME NEW c \in Company, NEW ask \in SUBSET Tool, Register(c, ask), RegisterSession(c)
      PROVE  SessionsHold'
  BY <1>3, RegisterSessionKept DEF Register
<1>4. ASSUME AccountsStep, Follow
      PROVE  SessionsHold'
  BY <1>1, <1>4, AccountStepsSpare, FollowKept DEF Follow
<1>5. ASSUME ToolsStep \/ \E q \in Req : AbortJob(q), UNCHANGED sessionVars
      PROVE  SessionsHold'
  <2>1. CASE ToolsStep
    BY <1>1, <1>2, <1>5, <2>1, ToolStepsSpare DEF Spares
  <2>2. ASSUME NEW q \in Req, AbortJob(q)
        PROVE  SessionsHold'
    BY <1>1, <1>2, <1>5, <2>2, AbortSpares DEF AbortJob, Abort
  <2> QED BY <1>5, <2>1, <2>2
<1>6. ASSUME UNCHANGED <<accountVars, job, sessionVars>>
      PROVE  SessionsHold'
  BY <1>1, <1>2, <1>6 DEF Spares
<1> QED BY <1>3, <1>4, <1>5, <1>6, PlatformCases, SessionStepKept

LEMMA SessionsStart == PlatformInit => SessionsHold
<1> SUFFICES ASSUME PlatformInit
             PROVE  SessionsHold
  OBVIOUS
<1>1. /\ access = [u \in Online |-> 0] /\ refresh = [u \in Online |-> 0]
      /\ cutOff = [u \in Online |-> 0]
      /\ recorded = {} /\ age = [a \in Attempt |-> Ancient]
      /\ touched = [u \in Online |-> touchInterval] /\ lastActive = [u \in Online |-> touchInterval]
      /\ served = {} /\ lost = {} /\ job = [q \in Req |-> Idle]
  BY DEF PlatformInit, SessionsInit, AccountsInit
<1>2. JobsOnline
  BY <1>1, IdleIsJob DEF JobsOnline, Idle, SessionOps
<1>3. Tokens
  BY <1>1, TimesType DEF Tokens, SilentSessionEnds, Idle
<1>4. Attempts
  <2>1. Ancient \in Nat /\ Ancient >= window /\ window \in Nat
    BY TimesType DEF Ancient
  <2>2. Fresh = {} /\ Counted = {}
    BY <1>1, <2>1 DEF Fresh, Counted, Idle
  <2>3. AttemptsBounded
    BY <2>2, FS_EmptySet, CountedFinite, AttemptsType, BoundedMeans
  <2> QED BY <1>1, <2>1, <2>3 DEF Attempts
<1>5. Activity
  BY <1>1, TimesType DEF Activity, VisitIsStamped
<1> QED BY <1>2, <1>3, <1>4, <1>5 DEF SessionsHold

-----------------------------------------------------------------------------
(* The chat.                                                               *)

ChatHold == ChatTypeOK /\ ChatInv /\ EntitledReaders

\* The rows of an answer are stored.
LEMMA AnswersAreStored ==
    ASSUME NEW c, NEW P \in ListByChatID(c)
    PROVE  P \subseteq Stored
BY DEF ListByChatID, Newest, Oldest

LEMMA SendingKept ==
    ASSUME ChatHold, NEW m \in Message, BeginSend(m) \/ InsertMessage(m) \/ AnswerSend(m)
    PROVE  ChatHold'
<1>0. Sender[m] \in Reader
  BY SenderType
<1>1. CASE BeginSend(m)
  <2>1. /\ sending' = [sending EXCEPT ![m] = "stamped"] /\ sending[m] = "absent"
        /\ Sender[m] \in members /\ now' \in Nat /\ createdAt' = [createdAt EXCEPT ![m] = now']
        /\ UNCHANGED <<accountVars, members, windowVars, frozen>>
    BY <1>1 DEF BeginSend, MayUse, ChatHold, ChatTypeOK
  <2>2. ChatTypeOK'
    BY <2>1 DEF ChatHold, ChatTypeOK, windowVars
  <2>3. Stored' = Stored
    BY <2>1 DEF Stored, ChatHold, ChatTypeOK
  <2>4. ChatInv'
    BY <2>1, <2>3 DEF ChatHold, ChatTypeOK, ChatInv, windowVars
  <2>5. EntitledReaders'
    BY <2>1 DEF ChatHold, EntitledReaders, windowVars, accountVars, isEligibleStatus
  <2> QED BY <2>2, <2>4, <2>5 DEF ChatHold
<1>2. CASE InsertMessage(m)
  <2>1. /\ sending[m] = "stamped"
        /\ \/ sending' = [sending EXCEPT ![m] = "stored"]
           \/ sending' = [sending EXCEPT ![m] = "lost"]
        /\ UNCHANGED <<accountVars, members, createdAt, now, windowVars, frozen>>
    BY <1>2 DEF InsertMessage
  <2>2. ChatTypeOK'
    BY <2>1 DEF ChatHold, ChatTypeOK, windowVars
  <2>3. Stored \subseteq Stored'
    BY <2>1 DEF Stored, ChatHold, ChatTypeOK
  <2>4. ChatInv'
    BY <2>1, <2>3 DEF ChatHold, ChatTypeOK, ChatInv, windowVars
  <2>5. EntitledReaders'
    BY <2>1 DEF ChatHold, EntitledReaders, windowVars, accountVars, isEligibleStatus
  <2> QED BY <2>2, <2>4, <2>5 DEF ChatHold
<1>3. CASE AnswerSend(m)
  <2> DEFINE w == Sender[m]
  <2>1. /\ sending[m] = "stored" /\ sending' = [sending EXCEPT ![m] = "sent"]
        /\ shown' = [shown EXCEPT ![w] = @ \cup {m}] /\ cursor' = [cursor EXCEPT ![w] = m]
        /\ UNCHANGED <<accountVars, members, createdAt, now, view, after, answer, frozen>>
    BY <1>3 DEF AnswerSend
  <2>2. ChatTypeOK'
    BY <1>0, <2>1 DEF ChatHold, ChatTypeOK
  <2>3. Stored' = Stored /\ m \in Stored
    BY <2>1 DEF Stored, ChatHold, ChatTypeOK
  <2>4. w \in members /\ m \in Own(w)
    BY <2>1 DEF ChatHold, ChatInv, Own
  <2>5. /\ shown'[w] = shown[w] \cup {m} /\ answer' = answer
        /\ \A u \in Reader : u # w => shown'[u] = shown[u]
    BY <1>0, <2>1 DEF ChatHold, ChatTypeOK
  <2>6. ChatInv'
    BY <2>1, <2>3, <2>5 DEF ChatHold, ChatTypeOK, ChatInv
  <2>7. EntitledReaders'
    <3> SUFFICES ASSUME NEW u \in Reader
                 PROVE  /\ u \notin members' => shown'[u] = {} /\ answer'[u] = {}
                        /\ ~isEligibleStatus(u)' =>
                              shown'[u] \cup answer'[u] \subseteq frozen'[u] \cup Own(u)
      BY DEF EntitledReaders, Own
    <3>1. isEligibleStatus(u)' <=> isEligibleStatus(u)
      BY <2>1 DEF accountVars, isEligibleStatus
    <3> HIDE DEF w
    <3> QED BY <2>1, <2>4, <2>5, <3>1 DEF ChatHold, EntitledReaders
  <2> QED BY <2>2, <2>6, <2>7 DEF ChatHold
<1> QED BY <1>1, <1>2, <1>3

LEMMA WindowsKept ==
    ASSUME ChatHold, NEW u \in Reader,
           \/ AddParticipant(u) \/ OpenChat(u) \/ PollChat(u)
           \/ ReadMessages(u) \/ ShowAnswer(u) \/ NoAnswer(u)
    PROVE  ChatHold'
<1>1. ASSUME UNCHANGED <<accountVars, sending, createdAt, now, frozen>>, ChatTypeOK',
             members \subseteq members',
             \A v \in Reader : shown'[v] \cup answer'[v] \subseteq shown[v] \cup answer[v]
      PROVE  ChatHold'
  <2>1. Stored' = Stored
    BY <1>1 DEF Stored
  <2>2. ChatInv'
    BY <1>1, <2>1 DEF ChatHold, ChatInv
  <2>3. \A v \in Reader : isEligibleStatus(v)' <=> isEligibleStatus(v)
    BY <1>1 DEF accountVars, isEligibleStatus
  <2>4. EntitledReaders'
    BY <1>1, <2>3 DEF ChatHold, EntitledReaders, Own
  <2> QED BY <1>1, <2>2, <2>4 DEF ChatHold
<1>2. CASE AddParticipant(u)
  BY <1>1, <1>2 DEF AddParticipant, windowVars, ChatHold, ChatTypeOK
<1>3. ASSUME NEW v \in {"loading", "polling"}, NEW c \in Message \cup {0}, Ask(u, v, c)
      PROVE  ChatHold'
  BY <1>1, <1>3 DEF Ask, messageVars, ChatHold, ChatTypeOK
<1>4. CASE OpenChat(u) \/ PollChat(u)
  <2>1. cursor[u] \in Message \cup {0}
    BY DEF ChatHold, ChatTypeOK
  <2> QED BY <1>3, <1>4, <2>1 DEF OpenChat, PollChat
<1>5. CASE ReadMessages(u)
  <2>1. PICK P \in ListByChatID(after[u]) : answer' = [answer EXCEPT ![u] = P]
    BY <1>5 DEF ReadMessages
  <2>2. P \subseteq Stored /\ Stored \subseteq Message
    BY AnswersAreStored DEF Stored
  <2>3. /\ isEligibleStatus(u) /\ u \in members
        /\ UNCHANGED <<accountVars, messageVars, after, shown, cursor, frozen>>
        /\ view' \in [Reader -> {"closed", "loading", "polling", "loaded", "polled", "idle"}]
    BY <1>5 DEF ReadMessages, MayUse, ChatHold, ChatTypeOK
  <2>4. /\ answer' \in [Reader -> SUBSET Message] /\ answer'[u] = P
        /\ \A v \in Reader : v # u => answer'[v] = answer[v]
    BY <2>1, <2>2 DEF ChatHold, ChatTypeOK
  <2>5. ChatTypeOK'
    BY <2>3, <2>4 DEF ChatHold, ChatTypeOK, messageVars
  <2>6. Stored' = Stored
    BY <2>3 DEF Stored, messageVars
  <2>7. ChatInv'
    BY <2>2, <2>3, <2>4, <2>6 DEF ChatHold, ChatInv, messageVars
  <2>8. \A v \in Reader : isEligibleStatus(v)' <=> isEligibleStatus(v)
    BY <2>3 DEF accountVars, isEligibleStatus
  <2>9. EntitledReaders'
    BY <2>3, <2>4, <2>8 DEF ChatHold, EntitledReaders, Own, messageVars
  <2> QED BY <2>5, <2>7, <2>9 DEF ChatHold
<1>6. CASE ShowAnswer(u)
  <2>1. /\ view' = [view EXCEPT ![u] = "idle"] /\ after' = [after EXCEPT ![u] = 0]
        /\ answer' = [answer EXCEPT ![u] = {}]
        /\ shown' = [shown EXCEPT ![u] = IF view[u] = "loaded" THEN answer[u] ELSE @ \cup answer[u]]
        /\ UNCHANGED <<accountVars, messageVars, frozen>>
    BY <1>6 DEF ShowAnswer
  <2>2. PICK m \in Message \cup {0} : cursor' = [cursor EXCEPT ![u] = m]
    BY <1>6 DEF ShowAnswer, ChatHold, ChatTypeOK
  <2>3. ChatTypeOK'
    BY <2>1, <2>2 DEF ChatHold, ChatTypeOK, messageVars
  <2> QED BY <1>1, <2>1, <2>3 DEF messageVars, ChatHold, ChatTypeOK
<1>7. CASE NoAnswer(u)
  <2>1. ChatTypeOK'
    BY <1>7 DEF NoAnswer, messageVars, ChatHold, ChatTypeOK
  <2> QED BY <1>1, <1>7, <2>1 DEF NoAnswer, messageVars, ChatHold, ChatTypeOK
<1> QED BY <1>2, <1>4, <1>5, <1>6, <1>7

\* A step that may change statuses freezes what a cut-off reader has.
LEMMA FreezeKept ==
    ASSUME ChatHold, FollowReaders
    PROVE  ChatHold'
<1>1. UNCHANGED <<messageVars, windowVars>>
  BY DEF FollowReaders
<1>2. Stored' = Stored /\ Stored \subseteq Message
  BY <1>1 DEF Stored, messageVars
<1>3. \A u \in Reader : frozen'[u] = IF isEligibleStatus(u)' THEN {}
                                    ELSE IF isEligibleStatus(u) THEN Stored ELSE frozen[u]
  BY DEF FollowReaders
<1>4. frozen' \in [Reader -> SUBSET Message]
  <2>1. \A u \in Reader : frozen'[u] \in SUBSET Message
    BY <1>2, <1>3 DEF ChatHold, ChatTypeOK
  <2> QED BY <2>1 DEF FollowReaders
<1>5. ChatTypeOK' /\ ChatInv'
  BY <1>1, <1>2, <1>4 DEF ChatHold, ChatTypeOK, ChatInv, messageVars, windowVars
<1>6. EntitledReaders'
  <2> SUFFICES ASSUME NEW u \in Reader
               PROVE  /\ u \notin members' => shown'[u] = {} /\ answer'[u] = {}
                      /\ ~isEligibleStatus(u)' =>
                            shown'[u] \cup answer'[u] \subseteq frozen'[u] \cup Own(u)
    BY DEF EntitledReaders, Own
  <2>1. shown[u] \cup answer[u] \subseteq Stored
    BY DEF ChatHold, ChatInv
  <2> QED BY <1>1, <1>3, <2>1 DEF ChatHold, EntitledReaders, messageVars, windowVars
<1> QED BY <1>5, <1>6 DEF ChatHold

LEMMA ChatKept ==
    ASSUME ChatHold, [PlatformNext]_platformVars
    PROVE  ChatHold'
<1>1. ASSUME UNCHANGED <<accountVars, chatVars>>
      PROVE  ChatHold'
  <2>1. ChatTypeOK' /\ ChatInv'
    BY <1>1 DEF ChatHold, ChatTypeOK, ChatInv, Stored, chatVars, messageVars, windowVars
  <2>2. EntitledReaders'
    BY <1>1 DEF ChatHold, EntitledReaders, Own, chatVars, messageVars, windowVars,
                accountVars, isEligibleStatus
  <2> QED BY <2>1, <2>2 DEF ChatHold
<1>2. ASSUME ChatStep
      PROVE  ChatHold'
  BY <1>2, SendingKept, WindowsKept DEF ChatStep
<1>3. ASSUME UNCHANGED chatVars, ToolsStep \/ (\E q \in Req : AbortJob(q)) \/ SessionStep
      PROVE  UNCHANGED accountVars
  <2>1. ASSUME ToolsStep
        PROVE  UNCHANGED accountVars
    BY <2>1 DEF ToolsStep, MyToolsStep, StaffToolsStep, SetStep, FleetStep, UpdateTool,
                BeginMyTools, ClearTools, InsertTool, EndMyTools, BeginSetUserTools,
                CommitUserTools, BeginApplySet, UpdatePermissionSet, BeginAddVehicle,
                InsertVehicle, DeleteMyVehicle
  <2>2. ASSUME NEW q \in Req, AbortJob(q)
        PROVE  UNCHANGED accountVars
    BY <2>2 DEF AbortJob, Abort
  <2>3. ASSUME SessionStep
        PROVE  UNCHANGED accountVars
    BY <2>3 DEF SessionStep, CountAttempts, Authenticated, RecordAttempt, Login, CheckRefresh,
                Refresh, Refuse, StoreTouch, StampActivity, CleanUp, Restart, Tick
  <2> QED BY <1>3, <2>1, <2>2, <2>3
<1> QED BY <1>1, <1>2, <1>3, PlatformCases, FreezeKept DEF Follow

LEMMA ChatStart == PlatformInit => ChatHold
BY DEF PlatformInit, ChatInit, ChatHold, ChatTypeOK, ChatInv, EntitledReaders, Stored

-----------------------------------------------------------------------------
(* The tail of the chat, when messages enter the table one after the       *)
(* other.                                                                  *)

\* What is inserted later is newer than all a window has or waits for.
LEMMA TailGrows ==
    ASSUME ChatTypeOK, ChatInv, NEW u \in Reader, TailOf(u), UNCHANGED windowVars,
           Stored \subseteq Stored', \A x \in Stored : createdAt'[x] = createdAt[x],
           \A m \in Stored' \ Stored : \A x \in Stored : createdAt[x] < createdAt'[m]
    PROVE  TailOf(u)'
<1>1. /\ shown' = shown /\ answer' = answer /\ view' = view /\ after' = after /\ cursor' = cursor
      /\ shown[u] \subseteq Stored /\ answer[u] \subseteq Stored
  BY DEF windowVars, ChatInv
<1>2. cursor[u] # 0 => cursor[u] \in Stored
  BY <1>1 DEF TailOf
<1>3. NoGap(u)'
  <2> SUFFICES ASSUME NEW x \in shown[u], NEW m \in Stored' \ shown[u],
                      createdAt'[x] < createdAt'[m]
               PROVE  createdAt'[m] > createdAt'[cursor[u]]
    BY <1>1 DEF NoGap
  <2>1. cursor[u] \in Stored
    BY <1>2 DEF TailOf
  <2>2. CASE m \in Stored
    BY <1>1, <2>1, <2>2 DEF TailOf, NoGap
  <2>3. CASE m \notin Stored
    <3>1. createdAt[cursor[u]] < createdAt'[m] /\ createdAt'[cursor[u]] = createdAt[cursor[u]]
      BY <2>1, <2>3
    <3>2. createdAt'[cursor[u]] < createdAt'[m]
      BY <3>1
    <3> QED BY <3>2
  <2> QED BY <2>2, <2>3
<1>4. ASSUME view[u] \in {"loaded", "polled"}
      PROVE  NothingBetween(u)'
  <2> DEFINE asked == {after[u]} \ {0}
  <2>1. after[u] = cursor[u] /\ asked \subseteq Stored /\ answer[u] \subseteq Stored
    BY <1>1, <1>2, <1>4 DEF TailOf
  <2>2. \A x \in answer[u] : Newer(x, asked)
    BY <1>4 DEF TailOf, NothingBetween
  <2>3. \A x \in answer[u] : Newer(x, asked)'
    BY <1>1, <2>1, <2>2 DEF Newer
  <2>4. ASSUME NEW m \in Stored' \ answer[u],
               NEW x \in answer[u] \cup asked, createdAt'[x] < createdAt'[m]
        PROVE  \A y \in answer[u] : createdAt'[y] < createdAt'[m]
    <3>1. CASE m \in Stored
      <4>1. createdAt[x] < createdAt[m]
        BY <2>1, <2>4, <3>1
      <4>2. Newer(m, answer[u])
        BY <1>4, <3>1, <4>1 DEF TailOf, NothingBetween
      <4> QED BY <2>1, <3>1, <4>2 DEF Newer
    <3>2. CASE m \notin Stored
      BY <2>1, <3>2
    <3> QED BY <3>1, <3>2
  <2> QED BY <1>1, <2>3, <2>4 DEF NothingBetween, Newer
<1>5. cursor[u] # 0 => Newer(cursor[u], shown[u] \ {cursor[u]})'
  BY <1>1, <1>2 DEF TailOf, Newer
<1> QED BY <1>1, <1>3, <1>4, <1>5 DEF TailOf

LEMMA BeginSendOrdered ==
    ASSUME Serial, ChatTypeOK, ChatInv, InOrder, NEW m \in Message, BeginSend(m)
    PROVE  /\ InOrder' /\ UNCHANGED windowVars /\ Stored' = Stored
           /\ \A x \in Stored : createdAt'[x] = createdAt[x]
<1>1. /\ sending[m] = "absent" /\ sending' = [sending EXCEPT ![m] = "stamped"]
      /\ \A x \in Message : sending[x] # "stamped"
      /\ now' = now + 1 /\ createdAt' = [createdAt EXCEPT ![m] = now + 1]
      /\ UNCHANGED windowVars
  BY DEF BeginSend
<1>2. now \in Nat /\ createdAt \in [Message -> Nat]
  BY DEF ChatTypeOK
<1>3. Stored' = Stored /\ m \notin Stored
  BY <1>1 DEF Stored, ChatTypeOK
<1>4. Written' = Written \cup {m} /\ m \notin Written
  BY <1>1 DEF Written, ChatTypeOK
<1>5. /\ \A x \in Written : createdAt'[x] = createdAt[x] /\ createdAt[x] <= now /\ createdAt[x] \in Nat
      /\ createdAt'[m] = now + 1
  BY <1>1, <1>2, <1>4 DEF InOrder, Written
<1>6. \A x \in Written : sending'[x] = sending[x]
  BY <1>1, <1>4 DEF Written, ChatTypeOK
<1>7. ASSUME NEW x \in Written'
      PROVE  /\ createdAt'[x] <= now'
             /\ \A y \in Written' \ {x} : createdAt'[y] # createdAt'[x]
             /\ sending'[x] = "stamped" => Newer(x, Written \ {x})'
  <2>1. CASE x = m
    <3>1. \A y \in Written' \ {x} : createdAt'[y] < createdAt'[x]
      BY <1>2, <1>4, <1>5, <2>1
    <3>2. \A y \in Written' \ {x} : createdAt'[y] # createdAt'[x]
      BY <1>2, <1>4, <1>5, <2>1
    <3> QED BY <1>1, <1>2, <1>5, <2>1, <3>1, <3>2 DEF Newer
  <2>2. CASE x # m
    <3>1. x \in Written /\ sending'[x] # "stamped"
      BY <1>1, <1>4, <1>6, <2>2 DEF Written
    <3>2. createdAt'[x] <= now'
      BY <1>1, <1>2, <1>5, <3>1
    <3>3. \A y \in Written' \ {x} : createdAt'[y] # createdAt'[x]
      <4> TAKE y \in Written' \ {x}
      <4>1. CASE y = m
        BY <1>2, <1>5, <3>1, <4>1
      <4>2. CASE y # m
        BY <1>4, <1>5, <3>1, <4>2 DEF InOrder
      <4> QED BY <4>1, <4>2
    <3> QED BY <3>1, <3>2, <3>3
  <2> QED BY <2>1, <2>2
<1>8. InOrder'
  BY <1>7 DEF InOrder
<1>9. \A x \in Stored : createdAt'[x] = createdAt[x]
  BY <1>1, <1>2, <1>3 DEF Stored
<1> QED BY <1>1, <1>3, <1>8, <1>9

LEMMA InsertOrdered ==
    ASSUME ChatTypeOK, ChatInv, InOrder, NEW m \in Message, InsertMessage(m)
    PROVE  /\ InOrder' /\ UNCHANGED windowVars /\ Stored \subseteq Stored'
           /\ createdAt' = createdAt
           /\ \A y \in Stored' \ Stored : \A x \in Stored : createdAt[x] < createdAt[y]
<1>1. /\ sending[m] = "stamped" /\ UNCHANGED <<createdAt, now, windowVars>>
      /\ \/ sending' = [sending EXCEPT ![m] = "stored"]
         \/ sending' = [sending EXCEPT ![m] = "lost"]
  BY DEF InsertMessage
<1>2. /\ Written' = Written /\ Stored \subseteq Stored' /\ Stored' \subseteq Stored \cup {m}
      /\ \A x \in Message : sending'[x] = "stamped" => sending[x] = "stamped"
  BY <1>1 DEF Written, Stored, ChatTypeOK
<1>3. InOrder'
  BY <1>1, <1>2 DEF InOrder, Newer, Written
<1>4. m \in Written /\ Newer(m, Written \ {m}) /\ Stored \subseteq Written \ {m}
  BY <1>1 DEF InOrder, Written, Stored
<1>5. \A y \in Stored' \ Stored : \A x \in Stored : createdAt[x] < createdAt[y]
  BY <1>2, <1>4 DEF Newer
<1> QED BY <1>1, <1>2, <1>3, <1>5

\* A page leaves out nothing between its rows and where it starts.
LEMMA PageIsDense ==
    ASSUME Serial, ChatTypeOK, ChatInv, InOrder, NEW c \in Stored \cup {0},
           NEW P \in ListByChatID(c)
    PROVE  /\ \A x \in P : Newer(x, {c} \ {0})
           /\ \A m \in Stored \ P :
                (\E x \in P \cup ({c} \ {0}) : createdAt[x] < createdAt[m]) => Newer(m, P)
<1>0. /\ createdAt \in [Message -> Nat] /\ Stored \subseteq Message /\ P \subseteq Stored
      /\ 0 \notin Message
  BY AnswersAreStored, MessagesType DEF ChatTypeOK, Stored
<1>1. \A x, y \in Stored : x # y => createdAt[x] # createdAt[y]
  BY DEF InOrder, Written, Stored
<1>2. CASE c = 0
  <2>1. \A x \in P, y \in Stored \ P : createdAt[x] >= createdAt[y]
    BY <1>2 DEF ListByChatID, Newest
  <2>2. \A x \in P, y \in Stored \ P : ~(createdAt[x] < createdAt[y])
    BY <1>0, <2>1
  <2>3. {c} \ {0} = {}
    BY <1>2
  <2> QED BY <1>0, <2>2, <2>3 DEF Newer
<1>3. CASE c # 0
  <2> DEFINE S == {m \in Stored : createdAt[m] > createdAt[c]}
  <2>1. P \subseteq S /\ \A x \in P, y \in S \ P : createdAt[x] <= createdAt[y]
    BY <1>3 DEF ListByChatID, Oldest
  <2>2. \A x \in P : createdAt[c] < createdAt[x]
    BY <2>1
  <2>3. ASSUME NEW m \in Stored \ P, NEW x \in P \cup {c}, createdAt[x] < createdAt[m]
        PROVE  \A y \in P : createdAt[y] < createdAt[m]
    <3>1. m \in S
      <4>1. createdAt[c] <= createdAt[x]
        BY <1>0, <1>3, <2>2
      <4> QED BY <1>0, <1>3, <2>3, <4>1
    <3>2. \A y \in P : createdAt[y] <= createdAt[m] /\ y # m
      BY <2>1, <3>1
    <3> QED BY <1>0, <1>1, <3>2
  <2>4. {c} \ {0} = {c}
    BY <1>3
  <2> QED BY <2>2, <2>3, <2>4 DEF Newer
<1> QED BY <1>2, <1>3

\* Windows that stay as they are, beside messages that do.
LEMMA TailStays ==
    ASSUME UNCHANGED messageVars, NEW v \in Reader, TailOf(v),
           view'[v] = view[v], after'[v] = after[v], answer'[v] = answer[v],
           shown'[v] = shown[v], cursor'[v] = cursor[v]
    PROVE  TailOf(v)'
<1>1. Stored' = Stored /\ createdAt' = createdAt
  BY DEF messageVars, Stored
<1> QED BY <1>1 DEF TailOf, NoGap, NothingBetween, Newer

LEMMA WindowTail ==
    ASSUME Serial, ChatTypeOK, ChatInv, InOrder, NEW u \in Reader,
           OpenChat(u) \/ PollChat(u) \/ ReadMessages(u) \/ ShowAnswer(u) \/ NoAnswer(u),
           NEW v \in Reader, TailOf(v)
    PROVE  TailOf(v)'
<1>0. /\ view \in [Reader -> {"closed", "loading", "polling", "loaded", "polled", "idle"}]
      /\ after \in [Reader -> Message \cup {0}] /\ cursor \in [Reader -> Message \cup {0}]
      /\ answer \in [Reader -> SUBSET Message] /\ shown \in [Reader -> SUBSET Message]
      /\ createdAt \in [Message -> Nat] /\ 0 \notin Message
      /\ shown[v] \subseteq Stored /\ answer[v] \subseteq Stored
  BY MessagesType DEF ChatTypeOK, ChatInv
<1>1. UNCHANGED messageVars /\ Stored' = Stored /\ createdAt' = createdAt
  BY DEF OpenChat, PollChat, Ask, ReadMessages, ShowAnswer, NoAnswer, messageVars, Stored
<1>2. CASE u # v
  <2>1. /\ view'[v] = view[v] /\ after'[v] = after[v] /\ answer'[v] = answer[v]
        /\ shown'[v] = shown[v] /\ cursor'[v] = cursor[v]
    BY <1>0, <1>2 DEF OpenChat, PollChat, Ask, ReadMessages, ShowAnswer, NoAnswer
  <2> QED BY <1>1, <2>1, TailStays
<1>3. CASE u = v /\ (OpenChat(u) \/ PollChat(u))
  <2>1. /\ view'[v] \in {"loading", "polling"} /\ (view'[v] = "loading" => view[v] = "closed")
        /\ after'[v] = cursor[v] /\ shown'[v] = shown[v] /\ cursor'[v] = cursor[v]
    BY <1>0, <1>3 DEF OpenChat, PollChat, Ask, TailOf
  <2> QED BY <1>1, <2>1 DEF TailOf, NoGap, Newer
<1>4. CASE u = v /\ NoAnswer(u)
  <2>1. view'[v] = "idle" /\ shown'[v] = shown[v] /\ cursor'[v] = cursor[v]
    BY <1>0, <1>4 DEF NoAnswer
  <2> QED BY <1>1, <2>1 DEF TailOf, NoGap, Newer
<1>5. CASE u = v /\ ReadMessages(u)
  <2>1. PICK P \in ListByChatID(after[v]) : answer' = [answer EXCEPT ![v] = P]
    BY <1>5 DEF ReadMessages
  <2>2. /\ view[v] \in {"loading", "polling"} /\ view'[v] \in {"loaded", "polled"}
        /\ view'[v] = "loaded" => view[v] = "loading"
        /\ after'[v] = after[v] /\ shown'[v] = shown[v] /\ cursor'[v] = cursor[v]
        /\ answer'[v] = P
    BY <1>0, <1>5, <2>1 DEF ReadMessages
  <2>3. after[v] = cursor[v] /\ after[v] \in Stored \cup {0}
    BY <1>0, <2>2 DEF TailOf
  <2>4. NothingBetween(v)'
    BY <1>1, <2>2, <2>3, PageIsDense DEF NothingBetween, Newer
  <2>5. view'[v] = "loaded" => cursor'[v] = 0
    BY <2>2 DEF TailOf
  <2>6. NoGap(v)' /\ (cursor'[v] # 0 => Newer(cursor[v], shown[v] \ {cursor[v]})')
    BY <1>1, <2>2 DEF TailOf, NoGap, Newer
  <2> QED BY <2>2, <2>3, <2>4, <2>5, <2>6 DEF TailOf
<1>6. CASE u = v /\ ShowAnswer(u)
  <2> DEFINE c == cursor[v]
             A == answer[v]
             latest == {m \in A : \A x \in A : createdAt[x] <= createdAt[m]}
  <2>1. /\ view[v] \in {"loaded", "polled"} /\ view'[v] = "idle" /\ after[v] = c
        /\ shown'[v] = shown[v] \cup A
    BY <1>0, <1>6 DEF ShowAnswer, TailOf
  <2>2. IF A = {} THEN cursor'[v] = c ELSE cursor'[v] \in latest
    BY <1>0, <1>6 DEF ShowAnswer
  <2>3. NothingBetween(v)
    BY <2>1 DEF TailOf
  <2>4. CASE A = {}
    <3>1. shown'[v] = shown[v] /\ cursor'[v] = cursor[v]
      BY <2>1, <2>2, <2>4
    <3> QED BY <1>1, <2>1, <3>1 DEF TailOf, NoGap, Newer
  <2>5. CASE A # {}
    <3> DEFINE d == cursor'[v]
    <3>1. d \in A /\ \A x \in A : createdAt[x] <= createdAt[d]
      BY <2>2, <2>5
    <3>2. \A x, y \in Stored : x # y => createdAt[x] # createdAt[y]
      BY DEF InOrder, Written, Stored
    <3>3. Newer(d, A \ {d})
      <4>1. \A x \in A \ {d} : createdAt[x] # createdAt[d] /\ createdAt[x] <= createdAt[d]
                               /\ createdAt[x] \in Nat /\ createdAt[d] \in Nat
        BY <1>0, <3>1, <3>2
      <4> HIDE DEF A, d
      <4> QED BY <4>1 DEF Newer
    <3>4. \A x \in shown[v] : /\ c # 0 /\ c \in shown[v]
                             /\ createdAt[x] <= createdAt[c] /\ createdAt[c] < createdAt[d]
      <4>1. ASSUME NEW x \in shown[v]
            PROVE  c # 0 /\ c \in shown[v] /\ (x = c \/ createdAt[x] < createdAt[c])
        BY DEF TailOf, Newer
      <4>2. c # 0 => createdAt[c] < createdAt[d]
        BY <2>1, <2>3, <3>1 DEF NothingBetween, Newer
      <4>3. \A x \in shown[v] : createdAt[x] \in Nat
        BY <1>0
      <4> QED BY <4>1, <4>2, <4>3
    <3>5. \A x \in (shown[v] \cup A) \ {d} : createdAt[x] < createdAt[d]
      <4>1. \A x \in shown[v] : createdAt[x] < createdAt[d]
        <5>1. \A x \in shown[v] \cup A : createdAt[x] \in Nat
          BY <1>0
        <5> HIDE DEF A, d
        <5> QED BY <3>1, <3>4, <5>1
      <4> HIDE DEF A, d
      <4> QED BY <3>3, <4>1 DEF Newer
    <3>6. ASSUME NEW x \in shown[v] \cup A, NEW m \in Stored \ (shown[v] \cup A),
                 createdAt[x] < createdAt[m]
          PROVE  createdAt[d] < createdAt[m]
      <4>1. CASE x \in A
        <5>1. Newer(m, A)
          BY <2>3, <3>6, <4>1 DEF NothingBetween
        <5> QED BY <3>1, <5>1 DEF Newer
      <4>2. CASE x \in shown[v]
        <5>1. createdAt[c] < createdAt[m] /\ c # 0
          BY <3>4, <3>6, <4>2 DEF TailOf, NoGap
        <5>2. Newer(m, A)
          BY <2>1, <2>3, <5>1 DEF NothingBetween
        <5> QED BY <3>1, <5>2 DEF Newer
      <4> QED BY <4>1, <4>2
    <3>7. d # 0 /\ d \in shown[v] \cup A
      BY <1>0, <3>1
    <3> HIDE DEF A, c
    <3>8. NoGap(v)'
      BY <1>1, <2>1, <3>6 DEF NoGap
    <3>9. Newer(cursor[v], shown[v] \ {cursor[v]})'
      BY <1>1, <2>1, <3>5 DEF Newer
    <3> QED BY <2>1, <3>7, <3>8, <3>9 DEF TailOf
  <2> QED BY <2>4, <2>5
<1> QED BY <1>2, <1>3, <1>4, <1>5, <1>6

LEMMA TailKept ==
    ASSUME ChatHold, TailInv, [PlatformNext]_platformVars
    PROVE  TailInv'
<1> SUFFICES ASSUME Serial
             PROVE  InOrder' /\ \A v \in Reader : Own(v) = {} => TailOf(v)'
  BY DEF TailInv, Own
<1>0. ChatTypeOK /\ ChatInv /\ InOrder /\ \A v \in Reader : Own(v) = {} => TailOf(v)
  BY DEF ChatHold, TailInv
<1>1. ASSUME UNCHANGED <<sending, createdAt, now>>
      PROVE  InOrder'
  BY <1>0, <1>1 DEF InOrder, Written, Newer
<1>2. ASSUME UNCHANGED <<sending, createdAt, now, windowVars>>
      PROVE  InOrder' /\ \A v \in Reader : Own(v) = {} => TailOf(v)'
  BY <1>0, <1>1, <1>2 DEF windowVars, TailOf, NoGap, NothingBetween, Newer, Stored
<1>3. ASSUME NEW m \in Message, BeginSend(m)
      PROVE  InOrder' /\ \A v \in Reader : Own(v) = {} => TailOf(v)'
  BY <1>0, <1>3, BeginSendOrdered, TailGrows
<1>4. ASSUME NEW m \in Message, InsertMessage(m)
      PROVE  InOrder' /\ \A v \in Reader : Own(v) = {} => TailOf(v)'
  BY <1>0, <1>4, InsertOrdered, TailGrows
<1>5. ASSUME NEW m \in Message, AnswerSend(m)
      PROVE  InOrder' /\ \A v \in Reader : Own(v) = {} => TailOf(v)'
  <2>1. /\ sending[m] = "stored" /\ sending' = [sending EXCEPT ![m] = "sent"]
        /\ UNCHANGED <<createdAt, now, view, after, answer>>
        /\ shown' = [shown EXCEPT ![Sender[m]] = @ \cup {m}]
        /\ cursor' = [cursor EXCEPT ![Sender[m]] = m]
    BY <1>5 DEF AnswerSend
  <2>2. /\ Written' = Written /\ Stored' = Stored
        /\ \A x \in Message : sending'[x] = "stamped" => sending[x] = "stamped"
    BY <1>0, <2>1 DEF Written, Stored, ChatTypeOK
  <2>3. InOrder'
    BY <1>0, <2>1, <2>2 DEF InOrder, Newer, Written
  <2>4. ASSUME NEW v \in Reader, Own(v) = {}
        PROVE  TailOf(v)'
    <3>1. v # Sender[m]
      BY <2>4 DEF Own
    <3>2. shown'[v] = shown[v] /\ cursor'[v] = cursor[v]
      BY <1>0, <2>1, <3>1 DEF ChatTypeOK
    <3> QED BY <1>0, <2>1, <2>2, <2>4, <3>2 DEF TailOf, NoGap, NothingBetween, Newer
  <2> QED BY <2>3, <2>4
<1>6. ASSUME NEW u \in Reader, AddParticipant(u)
      PROVE  InOrder' /\ \A v \in Reader : Own(v) = {} => TailOf(v)'
  BY <1>2, <1>6 DEF AddParticipant
<1>7. ASSUME NEW u \in Reader,
             OpenChat(u) \/ PollChat(u) \/ ReadMessages(u) \/ ShowAnswer(u) \/ NoAnswer(u)
      PROVE  InOrder' /\ \A v \in Reader : Own(v) = {} => TailOf(v)'
  <2>1. UNCHANGED <<sending, createdAt, now>>
    BY <1>7 DEF OpenChat, PollChat, Ask, ReadMessages, ShowAnswer, NoAnswer, messageVars
  <2> QED BY <1>0, <1>1, <1>7, <2>1, WindowTail
<1>8. ASSUME ChatStep
      PROVE  InOrder' /\ \A v \in Reader : Own(v) = {} => TailOf(v)'
  BY <1>3, <1>4, <1>5, <1>6, <1>7, <1>8 DEF ChatStep
<1>9. ASSUME UNCHANGED chatVars \/ FollowReaders
      PROVE  InOrder' /\ \A v \in Reader : Own(v) = {} => TailOf(v)'
  BY <1>2, <1>9 DEF chatVars, messageVars, FollowReaders
<1> QED BY <1>8, <1>9, PlatformCases DEF Follow

LEMMA TailStart == PlatformInit => TailInv
BY DEF PlatformInit, ChatInit, TailInv, InOrder, Written, TailOf, NothingBetween, NoGap, Stored

\* Nothing is missing behind the window.
LEMMA TailIsComplete == Serial /\ TailInv => TailComplete
BY DEF TailInv, TailOf, TailComplete

-----------------------------------------------------------------------------
(* Everything together.                                                    *)

PlatformHolds == ToolsAndAccounts /\ SessionsHold /\ ChatHold /\ TailInv

LEMMA PlatformHoldsStart == PlatformInit => PlatformHolds
BY ToolsAndAccountsStart, SessionsStart, ChatStart, TailStart DEF PlatformHolds

LEMMA PlatformHoldsKept ==
    PlatformHolds /\ [PlatformNext]_platformVars => PlatformHolds'
<1> SUFFICES ASSUME PlatformHolds, [PlatformNext]_platformVars
             PROVE  PlatformHolds'
  OBVIOUS
<1>1. AccountsTypeOK /\ ToolsTypeOK
  BY DEF PlatformHolds, ToolsAndAccounts, ToolsHold
<1>2. SessionsHold' /\ ChatHold' /\ TailInv'
  BY <1>1, SessionsKept, ChatKept, TailKept DEF PlatformHolds
<1> QED BY <1>2, ToolsAndAccountsKept DEF PlatformHolds

LEMMA PlatformIsSound == PlatformSpec => []PlatformHolds
BY PlatformHoldsStart, PlatformHoldsKept, PTL DEF PlatformSpec

\* Every table, window and request keeps its type.
THEOREM PlatformIsTyped == PlatformSpec => []PlatformTypeOK
<1>1. PlatformHolds => PlatformTypeOK
  BY SessionsHoldParts DEF PlatformHolds, ToolsAndAccounts, ToolsHold, NoticesHold, ChatHold, PlatformTypeOK
<1> QED BY <1>1, PlatformIsSound, PTL

\* The invariants of the parts, on which the other theorems rest.
THEOREM PartsHold == PlatformSpec => []PlatformInv
<1>1. PlatformHolds => PlatformInv
  BY SessionsHoldParts, ToolsHoldParts
     DEF PlatformHolds, ToolsAndAccounts, NoticesHold, ChatHold, PlatformInv
<1> QED BY <1>1, PlatformIsSound, PTL

\* The silent session of a cut-off account ends within one token's lifetime.
THEOREM SessionsEnd == PlatformSpec => []SilentSessionEnds
<1>1. PlatformHolds => SilentSessionEnds
  BY DEF PlatformHolds, SessionsHold, Tokens
<1> QED BY <1>1, PlatformIsSound, PTL

\* Attempts exceed the limit by less than the requests at a time.
THEOREM AttemptsAreBounded == PlatformSpec => []AttemptsBounded
<1>1. PlatformHolds => AttemptsBounded
  BY DEF PlatformHolds, SessionsHold, Attempts
<1> QED BY <1>1, PlatformIsSound, PTL

\* Whoever is served has been stamped less than an interval ago.
THEOREM VisitsAreStamped == PlatformSpec => []VisitIsStamped
<1>1. PlatformHolds => VisitIsStamped
  BY DEF PlatformHolds, SessionsHold, Activity
<1> QED BY <1>1, PlatformIsSound, PTL

\* Only a participant reads the chat, and a cut-off one nothing new.
THEOREM ReadersAreEntitled == PlatformSpec => []EntitledReaders
<1>1. PlatformHolds => EntitledReaders
  BY DEF PlatformHolds, ChatHold
<1> QED BY <1>1, PlatformIsSound, PTL

\* If messages enter the table one after the other, whoever only reads misses
\* nothing after the first message on the screen.
THEOREM NothingIsSkipped == Serial => (PlatformSpec => []TailComplete)
<1> SUFFICES ASSUME Serial
             PROVE  PlatformSpec => []TailComplete
  OBVIOUS
<1>1. PlatformHolds => TailComplete
  BY TailIsComplete DEF PlatformHolds
<1> QED BY <1>1, PlatformIsSound, PTL
=============================================================================
