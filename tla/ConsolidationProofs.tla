------------------------ MODULE ConsolidationProofs ------------------------
(***************************************************************************)
(* Proofs about Consolidation, for any users, cargos, offers, suggestions  *)
(* and number of selections, answers and matching jobs at a time: what the *)
(* row locks protect when the three interleave on the same cargos.  The    *)
(* last section is about one matching job and one answer at a time.        *)
(***************************************************************************)
EXTENDS Consolidation, OfferSelectionProofs

-----------------------------------------------------------------------------
(* The locks: a step of one transaction leaves those of the others alone.  *)

Frame(t) ==
    /\ LocksCompatible'
    /\ \A u, row, mode : u # t => (Holds(held', u, row, mode) <=> Holds(held, u, row, mode))

LEMMA GrantFrame ==
    ASSUME LocksCompatible, NEW t, NEW row, NEW mode,
           Available(held, t, row, mode), held' = Grant(held, t, row, mode)
    PROVE  /\ Frame(t) /\ Holds(held', t, row, mode)
           /\ \A r, m : Holds(held, t, r, m) => Holds(held', t, r, m)
<1>1. LocksCompatible'
  BY GrantCompatible
<1> QED BY <1>1 DEF Frame, Grant, Holds

LEMMA ReleaseFrame ==
    ASSUME LocksCompatible, NEW t, held' = Release(held, t)
    PROVE  Frame(t)
<1>1. LocksCompatible'
  BY ReleaseLocks
<1>2. ASSUME NEW u, NEW row, NEW mode, u # t
      PROVE  Holds(held', u, row, mode) <=> Holds(held, u, row, mode)
  BY <1>2 DEF Release, Holds
<1> QED BY <1>1, <1>2 DEF Frame

LEMMA SameFrame ==
    ASSUME LocksCompatible, UNCHANGED held, NEW t
    PROVE  Frame(t)
BY DEF LocksCompatible, Frame, Holds

\* NotifyOwner takes several locks on different rows in one statement.
LEMMA OwnersFrame ==
    ASSUME LocksCompatible, NEW t, NEW owners,
           \A u \in owners : Available(held, t, u, "keyShare"),
           held' = held \cup {[tx |-> t, row |-> u, mode |-> "keyShare"] : u \in owners}
    PROVE  /\ Frame(t)
           /\ \A r, m : Holds(held, t, r, m) => Holds(held', t, r, m)
<1>1. ASSUME NEW l \in held', NEW m \in held', l.row = m.row, l.tx # m.tx
      PROVE  Compatible(l.mode, m.mode)
  <2> DEFINE new(x) == \E u \in owners : x = [tx |-> t, row |-> u, mode |-> "keyShare"]
  <2>1. /\ l \in held \/ new(l)
        /\ m \in held \/ new(m)
    OBVIOUS
  <2>2. CASE l \in held /\ m \in held
    BY <1>1, <2>2 DEF LocksCompatible
  <2>3. CASE new(l) /\ m \in held
    BY <1>1, <2>3 DEF Available, Compatible
  <2>4. CASE l \in held /\ new(m)
    BY <1>1, <2>4 DEF Available, Compatible
  <2>5. CASE new(l) /\ new(m)
    BY <1>1, <2>5
  <2> HIDE DEF new
  <2> QED BY <2>1, <2>2, <2>3, <2>4, <2>5
<1>2. ASSUME NEW u, NEW row, NEW mode, u # t
      PROVE  Holds(held', u, row, mode) <=> Holds(held, u, row, mode)
  BY <1>2 DEF Holds
<1>3. \A r, m : Holds(held, t, r, m) => Holds(held', t, r, m)
  BY DEF Holds
<1> QED BY <1>1, <1>2, <1>3 DEF Frame, LocksCompatible

\* A lock of one transaction that excludes a mode excludes it for the others.
LEMMA UpdateExcludes ==
    ASSUME NEW q, NEW t, q # t, NEW row, Holds(held, q, row, "noKeyUpdate")
    PROVE  ~Available(held, t, row, "forUpdate") /\ ~Available(held, t, row, "noKeyUpdate")
BY DEF Holds, Available, Compatible

LEMMA HoldersExclude ==
    ASSUME LocksCompatible, NEW q, NEW t, q # t, NEW row,
           Holds(held, q, row, "forUpdate")
    PROVE  \A mode : ~Holds(held, t, row, mode)
BY DEF LocksCompatible, Holds, Compatible

-----------------------------------------------------------------------------
(* Types.                                                                  *)

\* The requests of OfferSelection, and the sets the jobs work on.
RequestsTyped ==
    /\ pc \in [Req -> PC] /\ arg \in [Req -> Arg \cup {NoArg}]
    /\ \A r \in Req : pc[r] # "idle" => arg[r] \in Arg

Tx == Req \cup Resp \cup Cargo
Row == User \cup Cargo \cup Sugg \cup (Sugg \X Cargo)
Locks == [tx : Tx, mode : LockMode, row : Row]

Answer == [sugg : Sugg, cargo : Cargo, answer : {"agreed", "declined"}]
Response == {"none", "pending", "agreed", "declined"}

RowsTyped ==
    /\ cargoStatus \in [Cargo -> {"absent", "open", "matched", "closed"}]
    /\ suggStatus \in [Sugg -> {"absent", "suggested", "both_agreed", "declined", "deleted"}]
    /\ response \in [Sugg -> [Cargo -> Response]]
    /\ members \in [Cons -> SUBSET Cargo]
AnswersTyped ==
    /\ rpc \in [Resp -> {"idle", "listMembers", "setResponse", "closeCargo", "notifyOwner",
                       "resolve", "respCommit"}]
    /\ rarg \in [Resp -> Answer \cup {NoAnswer}]
    /\ seen \in [Resp -> [Cargo -> Response]]
    /\ toClose \in [Resp -> SUBSET Cargo]
    /\ \A q \in Resp : rpc[q] # "idle" => rarg[q] \in Answer
JobsTyped ==
    /\ jpc \in [Cargo -> {"idle", "delete", "lockDoomed", "list", "group", "create", "addMember"}]
    /\ jset \in [Cargo -> SUBSET (Cargo \cup Sugg)]
    /\ jpool \in [Cargo -> SUBSET Cargo]
    /\ jsugg \in [Cargo -> Sugg \cup {"none"}]
    /\ \A j \in Cargo :
          /\ jpc[j] \in {"create", "addMember"} => jset[j] \subseteq Cargo
          /\ jpc[j] = "lockDoomed" => jset[j] \subseteq Sugg
          /\ jpc[j] = "addMember" => jsugg[j] \in Sugg
LocksTyped == held \subseteq Locks

Typed == RowsTyped /\ LocksTyped /\ RequestsTyped /\ AnswersTyped /\ JobsTyped

LEMMA TypedMeans == Typed => ConsTypeOK
<1> SUFFICES ASSUME Typed PROVE ConsTypeOK
  OBVIOUS
<1>1. \A q \in Resp : rpc[q] # "idle" => rarg[q] # NoAnswer
  BY DEF Typed, AnswersTyped, Answer, NoAnswer
<1> QED
  BY <1>1 DEF Typed, RowsTyped, LocksTyped, AnswersTyped, JobsTyped, ConsTypeOK,
              Locks, Tx, Row, Answer, Response

\* Between steps the types depend on the variables alone.
LEMMA TypedGroups ==
    /\ UNCHANGED <<cargoStatus, suggVars>> /\ RowsTyped => RowsTyped'
    /\ UNCHANGED held /\ LocksTyped => LocksTyped'
    /\ UNCHANGED <<pc, arg>> /\ RequestsTyped => RequestsTyped'
    /\ UNCHANGED respVars /\ AnswersTyped => AnswersTyped'
    /\ UNCHANGED jobVars /\ JobsTyped => JobsTyped'
BY DEF suggVars, respVars, jobVars, RowsTyped, LocksTyped, RequestsTyped, AnswersTyped, JobsTyped

LEMMA LockTyped ==
    ASSUME LocksTyped, NEW t \in Tx
    PROVE  /\ held' = Release(held, t) => LocksTyped'
           /\ \A row \in Row, mode \in LockMode : held' = Grant(held, t, row, mode) => LocksTyped'
BY DEF LocksTyped, Release, Grant, Locks

LEMMA TypedStart == ConsInit => Typed
<1> SUFFICES ASSUME ConsInit PROVE Typed
  OBVIOUS
<1>1. RowsTyped
  BY DEF ConsInit, Init, RowsTyped, NoRows, Response
<1>2. LocksTyped /\ RequestsTyped
  BY DEF ConsInit, Init, LocksTyped, RequestsTyped, PC
<1>3. AnswersTyped
  BY DEF ConsInit, AnswersTyped, NoRows, Response
<1>4. JobsTyped
  BY DEF ConsInit, JobsTyped
<1> QED BY <1>1, <1>2, <1>3, <1>4 DEF Typed

LEMMA JobEndTyped ==
    ASSUME JobsTyped, NEW j \in Cargo, JobEnd(j)
    PROVE  JobsTyped'
BY DEF JobsTyped, JobEnd

\* The statements of a matching job.
LEMMA JobTyped ==
    ASSUME Typed, NEW j \in Cargo, SubmitCargo(j) \/ JobStep(j) \/ JobAbort(j)
    PROVE  Typed'
<1> USE DEF Typed
<1> j \in Tx
  BY DEF Tx
<1>1. CASE SubmitCargo(j)
  <2>1. /\ UNCHANGED <<held, pc, arg, suggStatus, response, members, respVars, jpool, jsugg>>
        /\ cargoStatus' = [cargoStatus EXCEPT ![j] = "open"]
        /\ jpc' = [jpc EXCEPT ![j] = "delete"] /\ jset' = [jset EXCEPT ![j] = {}]
    BY <1>1 DEF SubmitCargo, CreateCargo, JobTo, reqVars, suggVars
  <2>2. RowsTyped'
    BY <2>1 DEF RowsTyped
  <2>3. JobsTyped'
    BY <2>1 DEF JobsTyped
  <2> QED BY <2>1, <2>2, <2>3, TypedGroups
<1>2. CASE JobDelete(j)
  <2>1. /\ UNCHANGED <<cargoStatus, held, pc, arg, suggVars, respVars, jpool, jsugg>>
        /\ jpc' = [jpc EXCEPT ![j] = "lockDoomed"]
        /\ jset' = [jset EXCEPT ![j] = Unanswered]
    BY <1>2 DEF JobDelete, JobTo, vars, dbVars, reqVars
  <2>2. JobsTyped'
    BY <2>1 DEF JobsTyped, Unanswered
  <2> QED BY <2>1, <2>2, TypedGroups
<1>3. CASE JobLockDoomed(j)
  <2>1. PICK s \in jset[j] :
           /\ \/ held' = Grant(held, j, s, "forUpdate") /\ UNCHANGED jobVars
              \/ /\ JobTo(j, "lockDoomed", jset[j] \ {s})
                 /\ UNCHANGED <<held, jpool, jsugg>>
    BY <1>3 DEF JobLockDoomed
  <2>2. UNCHANGED <<cargoStatus, pc, arg, suggVars, respVars>> /\ jpc[j] = "lockDoomed"
    BY <1>3 DEF JobLockDoomed, dbVars
  <2>3. s \in Row /\ "forUpdate" \in LockMode
    BY <2>2 DEF JobsTyped, Row, LockMode
  <2>4. CASE held' = Grant(held, j, s, "forUpdate") /\ UNCHANGED jobVars
    BY <2>2, <2>3, <2>4, LockTyped, TypedGroups
  <2>5. CASE JobTo(j, "lockDoomed", jset[j] \ {s}) /\ UNCHANGED <<held, jpool, jsugg>>
    <3>1. JobsTyped'
      BY <2>2, <2>5 DEF JobsTyped, JobTo
    <3> QED BY <2>2, <2>5, <3>1, TypedGroups
  <2> QED BY <2>1, <2>4, <2>5
<1>4. CASE JobCascade(j)
  <2>1. /\ UNCHANGED <<cargoStatus, pc, arg, members, respVars, jpool, jsugg>>
        /\ suggStatus' = [s \in Sugg |-> IF s \in jset[j] THEN "deleted" ELSE suggStatus[s]]
        /\ response' = [s \in Sugg |-> IF s \in jset[j] THEN NoRows ELSE response[s]]
        /\ held' = Release(held, j)
        /\ jpc' = [jpc EXCEPT ![j] = "list"] /\ jset' = [jset EXCEPT ![j] = {}]
    BY <1>4 DEF JobCascade, JobTo, dbVars
  <2>2. RowsTyped'
    BY <2>1 DEF RowsTyped, NoRows, Response
  <2>3. JobsTyped'
    BY <2>1 DEF JobsTyped
  <2> QED BY <2>1, <2>2, <2>3, LockTyped, TypedGroups
<1>5. CASE JobList(j)
  <2>1. UNCHANGED <<cargoStatus, held, pc, arg, suggVars, respVars>>
    BY <1>5 DEF JobList, vars, dbVars, reqVars
  <2>2. CASE JobEnd(j)
    BY <2>1, <2>2, JobEndTyped, TypedGroups
  <2>3. CASE JobTo(j, "group", {}) /\ jpool' = [jpool EXCEPT ![j] = FreeCargos] /\ UNCHANGED jsugg
    <3>1. JobsTyped'
      BY <2>3 DEF JobsTyped, JobTo, FreeCargos
    <3> QED BY <2>1, <3>1, TypedGroups
  <2> QED BY <1>5, <2>2, <2>3 DEF JobList
<1>6. CASE JobGroup(j)
  <2>1. UNCHANGED <<cargoStatus, held, pc, arg, suggVars, respVars>>
    BY <1>6 DEF JobGroup, vars, dbVars, reqVars
  <2>2. CASE JobEnd(j)
    BY <2>1, <2>2, JobEndTyped, TypedGroups
  <2>3. ASSUME NEW group \in SUBSET jpool[j], NEW kept \in Kept(group),
               JobTo(j, "create", kept), jpool' = [jpool EXCEPT ![j] = @ \ group],
               UNCHANGED jsugg
        PROVE  Typed'
    <3>1. kept \subseteq Cargo
      BY <2>3 DEF Kept, JobsTyped
    <3>2. JobsTyped'
      BY <2>3, <3>1 DEF JobsTyped, JobTo
    <3> QED BY <2>1, <3>2, TypedGroups
  <2> QED BY <1>6, <2>2, <2>3 DEF JobGroup
<1>7. CASE JobCreate(j)
  <2>1. PICK s \in Sugg : /\ suggStatus' = [suggStatus EXCEPT ![s] = "suggested"]
                          /\ jsugg' = [jsugg EXCEPT ![j] = s]
    BY <1>7 DEF JobCreate
  <2>2. /\ UNCHANGED <<cargoStatus, held, pc, arg, response, members, respVars, jpool>>
        /\ jpc[j] = "create" /\ JobTo(j, "addMember", jset[j])
    BY <1>7 DEF JobCreate, vars, dbVars, reqVars
  <2>3. RowsTyped'
    BY <2>1, <2>2 DEF RowsTyped
  <2>4. JobsTyped'
    BY <2>1, <2>2 DEF JobsTyped, JobTo
  <2> QED BY <2>2, <2>3, <2>4, TypedGroups
<1>8. CASE JobAddMember(j)
  <2>1. PICK c \in jset[j] :
           \/ /\ response' = [response EXCEPT ![jsugg[j]][c] = "pending"]
              /\ JobTo(j, IF jset[j] = {c} THEN "group" ELSE "addMember", jset[j] \ {c})
              /\ UNCHANGED <<jpool, jsugg>>
           \/ JobEnd(j) /\ UNCHANGED response
    BY <1>8 DEF JobAddMember
  <2>2. /\ UNCHANGED <<cargoStatus, held, pc, arg, suggStatus, members, respVars>>
        /\ jpc[j] = "addMember"
    BY <1>8 DEF JobAddMember, vars, dbVars, reqVars
  <2>3. c \in Cargo /\ jsugg[j] \in Sugg
    BY <2>2 DEF JobsTyped
  <2>4. CASE JobEnd(j) /\ UNCHANGED response
    BY <2>2, <2>4, JobEndTyped, TypedGroups DEF suggVars
  <2>5. CASE /\ response' = [response EXCEPT ![jsugg[j]][c] = "pending"]
             /\ JobTo(j, IF jset[j] = {c} THEN "group" ELSE "addMember", jset[j] \ {c})
             /\ UNCHANGED <<jpool, jsugg>>
    <3>1. RowsTyped'
      BY <2>2, <2>3, <2>5 DEF RowsTyped, Response
    <3>2. JobsTyped'
      BY <2>2, <2>3, <2>5 DEF JobsTyped, JobTo
    <3> QED BY <2>2, <3>1, <3>2, TypedGroups
  <2> QED BY <2>1, <2>4, <2>5
<1>9. CASE JobAbort(j)
  <2>1. /\ UNCHANGED <<cargoStatus, pc, arg, suggVars, respVars>>
        /\ JobEnd(j) /\ held' = Release(held, j)
    BY <1>9 DEF JobAbort, dbVars
  <2> QED BY <2>1, JobEndTyped, LockTyped, TypedGroups
<1> QED
  BY <1>1, <1>2, <1>3, <1>4, <1>5, <1>6, <1>7, <1>8, <1>9 DEF JobStep

\* The statements of an answer.
LEMMA RespEndTyped ==
    ASSUME AnswersTyped, NEW q \in Resp, rpc' = [rpc EXCEPT ![q] = "idle"],
           rarg' = [rarg EXCEPT ![q] = NoAnswer], seen' = [seen EXCEPT ![q] = NoRows],
           toClose' = [toClose EXCEPT ![q] = {}]
    PROVE  AnswersTyped'
BY DEF AnswersTyped, NoRows, Response

\* An answer that ends without effect.
LEMMA DropTyped ==
    ASSUME Typed, NEW q \in Resp, RespEnd(q), UNCHANGED suggVars
    PROVE  Typed'
<1>1. AnswersTyped'
  BY RespEndTyped DEF RespEnd, Typed
<1>2. /\ UNCHANGED <<cargoStatus, pc, arg, suggVars, jobVars>> /\ held' = Release(held, q)
      /\ q \in Tx
  BY DEF RespEnd, dbVars, Tx
<1> QED BY <1>1, <1>2, LockTyped, TypedGroups DEF Typed

LEMMA AnswerTyped ==
    ASSUME Typed, NEW q \in Resp,
           \/ \E s \in Sugg, c \in Cargo, a \in {"agreed", "declined"} : BeginAnswer(q, s, c, a)
           \/ AnswerStep(q) \/ RespAbort(q)
    PROVE  Typed'
<1> USE DEF Typed
<1> q \in Tx
  BY DEF Tx
<1> DEFINE s == rarg[q].sugg
           c == rarg[q].cargo
<1>0. rpc[q] # "idle" => /\ rarg[q] \in Answer /\ s \in Sugg /\ c \in Cargo
                         /\ rarg[q].answer \in {"agreed", "declined"}
                         /\ <<s, c>> \in Row /\ s \in Row
  <2>1. rpc[q] # "idle" => rarg[q] \in Answer
    BY DEF AnswersTyped
  <2> QED BY <2>1 DEF Answer, Row
<1> HIDE DEF s, c
<1>1. ASSUME NEW x \in Sugg, NEW d \in Cargo, NEW a \in {"agreed", "declined"},
             BeginAnswer(q, x, d, a)
      PROVE  Typed'
  <2>1. /\ UNCHANGED <<cargoStatus, held, pc, arg, suggVars, jobVars, seen, toClose>>
        /\ rpc' = [rpc EXCEPT ![q] = "listMembers"]
        /\ rarg' = [rarg EXCEPT ![q] = [sugg |-> x, cargo |-> d, answer |-> a]]
    BY <1>1 DEF BeginAnswer, Answering, vars, dbVars, reqVars
  <2>2. [sugg |-> x, cargo |-> d, answer |-> a] \in Answer
    BY DEF Answer
  <2>3. AnswersTyped'
    BY <2>1, <2>2 DEF AnswersTyped
  <2> QED BY <2>1, <2>3, TypedGroups
<1>2. CASE ListMembers(q)
  <2>1. CASE RespEnd(q) /\ UNCHANGED suggVars
    BY <2>1, DropTyped
  <2>2. CASE /\ seen' = [seen EXCEPT ![q] = [response[s] EXCEPT ![c] = rarg[q].answer]]
             /\ Answering(q, "setResponse") /\ UNCHANGED <<vars, suggVars, jobVars, rarg, toClose>>
    <3>1. UNCHANGED <<cargoStatus, held, pc, arg>>
      BY <2>2 DEF vars, dbVars, reqVars
    <3>2. rpc[q] # "idle"
      BY <1>2 DEF ListMembers
    <3>3. [response[s] EXCEPT ![c] = rarg[q].answer] \in [Cargo -> Response]
      BY <1>0, <3>2 DEF RowsTyped, Response
    <3>4. AnswersTyped'
      BY <2>2, <3>2, <3>3 DEF AnswersTyped, Answering
    <3> QED BY <2>2, <3>1, <3>4, TypedGroups
  <2> QED BY <1>2, <2>1, <2>2 DEF ListMembers, s, c
<1>3. CASE SetResponse(q)
  <2>1. CASE RespEnd(q) /\ UNCHANGED suggVars
    BY <2>1, DropTyped
  <2>2. CASE /\ held' = Grant(held, q, <<s, c>>, "noKeyUpdate")
             /\ Answering(q, IF Waiting(q) THEN "respCommit"
                             ELSE IF Merges(q) THEN "closeCargo" ELSE "resolve")
             /\ toClose' = [toClose EXCEPT ![q] = IF Merges(q) THEN Agreed(q) ELSE {}]
             /\ UNCHANGED <<dbVars, pc, arg, limit, suggVars, jobVars, rarg, seen>>
    <3>1. UNCHANGED cargoStatus /\ "noKeyUpdate" \in LockMode
      BY <2>2 DEF dbVars, LockMode
    <3>2. rpc[q] # "idle"
      BY <1>3 DEF SetResponse
    <3>3. Agreed(q) \in SUBSET Cargo
      BY DEF Agreed, With
    <3>4. AnswersTyped'
      BY <2>2, <3>2, <3>3 DEF AnswersTyped, Answering
    <3>5. LocksTyped'
      BY <1>0, <2>2, <3>1, <3>2, LockTyped
    <3> QED BY <2>2, <3>1, <3>4, <3>5, TypedGroups
  <2> QED BY <1>3, <2>1, <2>2 DEF SetResponse, s, c
<1>4. CASE CloseCargo(q)
  <2>1. PICK d \in toClose[q] : /\ held' = Grant(held, q, d, "noKeyUpdate")
                                /\ toClose' = [toClose EXCEPT ![q] = @ \ {d}]
    BY <1>4 DEF CloseCargo
  <2>2. /\ UNCHANGED <<cargoStatus, pc, arg, suggVars, jobVars, rarg, seen>>
        /\ rpc' = [rpc EXCEPT ![q] = "notifyOwner"] /\ rpc[q] # "idle"
    BY <1>4 DEF CloseCargo, Answering, dbVars
  <2>3. d \in Row /\ "noKeyUpdate" \in LockMode
    BY DEF AnswersTyped, Row, LockMode
  <2>4. AnswersTyped'
    BY <2>1, <2>2 DEF AnswersTyped
  <2> QED BY <2>1, <2>2, <2>3, <2>4, LockTyped, TypedGroups
<1>5. CASE NotifyOwner(q)
  <2> DEFINE owners == {Owner[d] : d \in Agreed(q) \ toClose[q]}
  <2>1. /\ UNCHANGED <<cargoStatus, pc, arg, suggVars, jobVars, rarg, seen, toClose>>
        /\ rpc' = [rpc EXCEPT ![q] = IF toClose[q] = {} THEN "resolve" ELSE "closeCargo"]
        /\ rpc[q] # "idle"
        /\ held' = held \cup {[tx |-> q, row |-> u, mode |-> "keyShare"] : u \in owners}
    BY <1>5 DEF NotifyOwner, Answering, dbVars
  <2>2. owners \subseteq Row
    BY OwnerType DEF Agreed, With, Row
  <2> HIDE DEF owners
  <2>3. LocksTyped'
    BY <2>1, <2>2 DEF LocksTyped, Locks, LockMode
  <2>4. AnswersTyped'
    BY <2>1 DEF AnswersTyped
  <2> QED BY <2>1, <2>3, <2>4, TypedGroups
<1>6. CASE Resolve(q)
  <2>1. CASE RespEnd(q) /\ UNCHANGED suggVars
    BY <2>1, DropTyped
  <2>2. CASE /\ held' = Grant(held, q, s, "noKeyUpdate") /\ Answering(q, "respCommit")
             /\ UNCHANGED <<dbVars, pc, arg, limit, suggVars, jobVars, rarg, seen, toClose>>
    <3>1. UNCHANGED cargoStatus /\ "noKeyUpdate" \in LockMode /\ rpc[q] # "idle"
      BY <1>6, <2>2 DEF dbVars, LockMode, Resolve
    <3>2. AnswersTyped'
      BY <2>2, <3>1 DEF AnswersTyped, Answering
    <3>3. LocksTyped'
      BY <1>0, <2>2, <3>1, LockTyped
    <3> QED BY <2>2, <3>1, <3>2, <3>3, TypedGroups
  <2> QED BY <1>6, <2>1, <2>2 DEF Resolve, s
<1>7. CASE CommitAnswer(q)
  <2>1. /\ rpc[q] # "idle" /\ held' = Release(held, q) /\ UNCHANGED <<pc, arg, jobVars>>
        /\ rpc' = [rpc EXCEPT ![q] = "idle"] /\ rarg' = [rarg EXCEPT ![q] = NoAnswer]
        /\ seen' = [seen EXCEPT ![q] = NoRows] /\ toClose' = [toClose EXCEPT ![q] = {}]
    BY <1>7 DEF CommitAnswer
  <2>2. /\ response' = [response EXCEPT ![s][c] = rarg[q].answer]
        /\ suggStatus' = [suggStatus EXCEPT ![s] =
              IF Waiting(q) THEN @ ELSE IF Merges(q) THEN "both_agreed" ELSE "declined"]
    BY <1>7 DEF CommitAnswer, s, c
  <2>3. /\ response' \in [Sugg -> [Cargo -> Response]]
        /\ suggStatus' \in [Sugg -> {"absent", "suggested", "both_agreed", "declined", "deleted"}]
    BY <1>0, <2>1, <2>2 DEF RowsTyped, Response
  <2>4. /\ members' \in [Cons -> SUBSET Cargo]
        /\ cargoStatus' \in [Cargo -> {"absent", "open", "matched", "closed"}]
    BY <1>7 DEF CommitAnswer, RowsTyped, Agreed, With, ClosedBy
  <2>5. AnswersTyped'
    BY <2>1, RespEndTyped
  <2> QED BY <2>1, <2>3, <2>4, <2>5, LockTyped, TypedGroups DEF RowsTyped
<1>8. CASE RespAbort(q)
  BY <1>8, DropTyped DEF RespAbort
<1> QED
  BY <1>1, <1>2, <1>3, <1>4, <1>5, <1>6, <1>7, <1>8 DEF AnswerStep

\* The statements of a selection or an offer.
LEMMA FinishTyped ==
    ASSUME Typed, NEW r \in Req, Finish(r)
    PROVE  LocksTyped' /\ RequestsTyped'
BY LockTyped DEF Finish, Typed, RequestsTyped, PC, Tx

LEMMA RequestTyped ==
    ASSUME Typed, CompetitionStep, UNCHANGED <<suggVars, respVars, jobVars>>
    PROVE  Typed'
<1> USE DEF Typed
<1>1. PICK r \in Req : \/ \E o \in Offer : \/ BeginOffer(r, o)
                                           \/ BeginSelect(r, Owner[CargoOf[o]], CargoOf[o], o)
                       \/ RequestStep(r)
                       \/ Abort(r)
  BY DEF CompetitionStep
<1>2. ASSUME Reject(r) PROVE Typed'
  BY <1>2, FinishTyped, TypedGroups DEF Reject, dbVars
<1>3. ASSUME NEW l \in PC, Goto(r, l), UNCHANGED <<cargoStatus, held>>,
             \/ UNCHANGED arg /\ pc[r] # "idle"
             \/ \E a \in Arg : arg' = [arg EXCEPT ![r] = a]
      PROVE  Typed'
  <2>1. RequestsTyped'
    BY <1>3 DEF RequestsTyped, Goto
  <2> QED BY <1>3, <2>1, TypedGroups
<1>4. ASSUME NEW l \in PC, Goto(r, l), UNCHANGED <<cargoStatus, arg>>, pc[r] # "idle",
             NEW row \in Row, NEW mode \in LockMode, held' = Grant(held, r, row, mode)
      PROVE  Typed'
  <2>1. RequestsTyped'
    BY <1>4 DEF RequestsTyped, Goto
  <2>2. LocksTyped'
    BY <1>4, LockTyped DEF Tx
  <2> QED BY <1>4, <2>1, <2>2, TypedGroups
<1>5. pc[r] # "idle" => /\ arg[r] \in Arg /\ arg[r].user \in Row /\ arg[r].cargo \in Row
                        /\ arg[r].offer \in Offer /\ arg[r].cargo \in Cargo
  BY DEF RequestsTyped, Arg, Row
<1>6. {"lockClient", "insertOffer", "lockCargo", "checkLimit", "insertReveal", "commit"} \subseteq PC
  BY DEF PC, InTx
<1>7. ASSUME NEW o \in Offer, BeginOffer(r, o) PROVE Typed'
  <2>1. [user |-> Author[o], cargo |-> CargoOf[o], offer |-> o] \in Arg
    BY AuthorType, CargoOfType DEF Arg
  <2> QED BY <1>3, <1>6, <1>7, <2>1 DEF BeginOffer, dbVars
<1>8. ASSUME NEW o \in Offer, BeginSelect(r, Owner[CargoOf[o]], CargoOf[o], o) PROVE Typed'
  <2>1. [user |-> Owner[CargoOf[o]], cargo |-> CargoOf[o], offer |-> o] \in Arg
    BY OwnerType, CargoOfType DEF Arg
  <2> QED BY <1>3, <1>6, <1>8, <2>1 DEF BeginSelect, dbVars
<1>9. CASE LockClient(r)
  BY <1>4, <1>5, <1>6, <1>9 DEF LockClient, dbVars, LockMode
<1>10. CASE LockCargo(r)
  BY <1>2, <1>4, <1>5, <1>6, <1>10 DEF LockCargo, dbVars, LockMode
<1>11. CASE CheckLimit(r)
  <2>1. CASE Reject(r)
    BY <1>2, <2>1
  <2>2. CASE Goto(r, "insertReveal") /\ UNCHANGED <<dbVars, held, arg, limit>>
    BY <1>3, <1>6, <1>11, <2>2 DEF CheckLimit, dbVars
  <2> QED BY <1>11, <2>1, <2>2 DEF CheckLimit
<1>12. CASE InsertReveal(r)
  <2>1. Author[arg[r].offer] \in Row /\ pc[r] # "idle"
    BY <1>5, <1>12, AuthorType DEF InsertReveal, Row
  <2> QED BY <1>4, <1>6, <1>12, <2>1 DEF InsertReveal, dbVars, LockMode
<1>13. CASE InsertOffer(r)
  BY <1>13, FinishTyped, TypedGroups DEF InsertOffer
<1>14. CASE CommitSelect(r)
  <2>1. Finish(r) /\ UNCHANGED suggVars
        /\ cargoStatus' = [cargoStatus EXCEPT ![arg[r].cargo] = "matched"]
    BY <1>14 DEF CommitSelect
  <2>2. RowsTyped'
    BY <2>1 DEF RowsTyped, suggVars
  <2> QED BY <2>1, <2>2, FinishTyped, TypedGroups
<1>15. CASE Abort(r)
  BY <1>2, <1>15 DEF Abort
<1> QED
  BY <1>1, <1>7, <1>8, <1>9, <1>10, <1>11, <1>12, <1>13, <1>14, <1>15
  DEF RequestStep, SelectStep

LEMMA StepTyped == Typed /\ [ConsNext]_consVars => Typed'
<1> SUFFICES ASSUME Typed, [ConsNext]_consVars PROVE Typed'
  OBVIOUS
<1>1. CASE UNCHANGED consVars
  BY <1>1, TypedGroups DEF consVars, vars, dbVars, reqVars, Typed
<1>2. ASSUME NEW c \in Cargo, SubmitCargo(c) \/ JobStep(c) \/ JobAbort(c) PROVE Typed'
  BY <1>2, JobTyped
<1>3. ASSUME NEW q \in Resp,
             \/ \E s \in Sugg, c \in Cargo, a \in {"agreed", "declined"} : BeginAnswer(q, s, c, a)
             \/ AnswerStep(q) \/ RespAbort(q)
      PROVE  Typed'
  BY <1>3, AnswerTyped
<1>4. CASE CompetitionStep /\ UNCHANGED <<suggVars, respVars, jobVars>>
  BY <1>4, RequestTyped
<1> QED BY <1>1, <1>2, <1>3, <1>4 DEF ConsNext

\* Any number of selections, answers and matching jobs, interleaved in any
\* order on the same rows, keep every variable within its type, and an answer
\* under way knows what it answers.
THEOREM ConsTypeCorrect == ConsSpec => []ConsTypeOK
<1>1. ConsInit => Typed
  BY TypedStart
<1>2. Typed /\ [ConsNext]_consVars => Typed'
  BY StepTyped
<1>3. Typed => ConsTypeOK
  BY TypedMeans
<1> QED BY <1>1, <1>2, <1>3, PTL DEF ConsSpec

-----------------------------------------------------------------------------
(* The inductive invariant: what the row locks guarantee to the requests    *)
(* that hold them, and what is left of it when the locks are gone.          *)

\* Past its first UPDATE an answer holds its own member row, so that nobody
\* dissolves the suggestion; then the cargos it has closed, and in the end the
\* suggestion it resolves.
AnswerLocked(q) ==
    LET s == rarg[q].sugg
    IN rpc[q] \in {"closeCargo", "notifyOwner", "resolve", "respCommit"} =>
        /\ Holds(held, q, <<s, rarg[q].cargo>>, "noKeyUpdate")
        /\ suggStatus[s] # "deleted"
        /\ Merges(q) => \A c \in Agreed(q) \ toClose[q] : Holds(held, q, c, "noKeyUpdate")
        /\ rpc[q] \in {"resolve", "respCommit"} => toClose[q] = {}
        /\ rpc[q] = "respCommit" => (Waiting(q) \/ Holds(held, q, s, "noKeyUpdate"))

\* The rows it listed without a lock may be outdated, but nobody takes an
\* answer back: who had agreed then has answered now.
AnswerKnows(q) ==
    LET s == rarg[q].sugg  c == rarg[q].cargo
    IN /\ rpc[q] # "idle" => suggStatus[s] # "absent"
       /\ rpc[q] \notin {"idle", "listMembers"} =>
            \/ suggStatus[s] = "deleted"
            \/ /\ response[s][c] # "none"
               /\ \A d \in Cargo \ {c} :
                     seen[q][d] = "agreed" => response[s][d] \in {"agreed", "declined"}

\* A job deletes only suggestions that are still open.
Doomed(j) == jpc[j] = "lockDoomed" => \A s \in jset[j] :
    Holds(held, j, s, "forUpdate") => suggStatus[s] = "suggested"

\* A suggestion that a job is recording is no other job's, and it adds every
\* member once.
Fresh(j) == jpc[j] = "addMember" =>
    /\ suggStatus[jsugg[j]] # "absent"
    /\ \/ suggStatus[jsugg[j]] = "deleted"
       \/ \A c \in jset[j] : response[jsugg[j]][c] = "none"
    /\ \A i \in Cargo : (i # j /\ jpc[i] = "addMember") => jsugg[i] # jsugg[j]

AbsentIsEmpty == \A s \in Sugg : suggStatus[s] = "absent" => response[s] = NoRows

\* The suggestion a consolidated request comes from is resolved, for good, and
\* each of the members has answered it.
Resolved(s) == suggStatus[s] \in {"both_agreed", "declined"}
Witnessed(k) == members[k] # {} =>
    /\ Cardinality(members[k]) >= 2
    /\ \E s \in Sugg : Resolved(s) /\ \A c \in members[k] : response[s][c] \in {"agreed", "declined"}

Selecting(r) == pc[r] \in Guarded =>
    /\ Holds(held, r, arg[r].cargo, "forUpdate")
    /\ MaySelect(r)

Inv == /\ Typed /\ LocksCompatible
       /\ \A r \in Req : Selecting(r)
       /\ \A q \in Resp : AnswerLocked(q) /\ AnswerKnows(q)
       /\ \A j \in Cargo : Doomed(j) /\ Fresh(j)
       /\ AbsentIsEmpty
       /\ \A k \in Cons : Witnessed(k)
       /\ MergedAreClosed

\* What a step does to the rows of the suggestions: none comes back, a resolved
\* one stays resolved, and no answer is taken back.
Progress == \A s \in Sugg :
    /\ suggStatus[s] # "absent" => suggStatus'[s] # "absent"
    /\ suggStatus[s] = "deleted" => suggStatus'[s] = "deleted"
    /\ Resolved(s) => Resolved(s)'
    /\ \/ suggStatus'[s] = "deleted"
       \/ \A c \in Cargo :
             /\ response[s][c] # "none" => response'[s][c] # "none"
             /\ response[s][c] \in {"agreed", "declined"} =>
                    response'[s][c] \in {"agreed", "declined"}

\* A step of t moves no other request, answer or job.
Alone(t) ==
    /\ \A r \in Req : r # t => pc'[r] = pc[r] /\ arg'[r] = arg[r]
    /\ \A q \in Resp : q # t => /\ rpc'[q] = rpc[q] /\ rarg'[q] = rarg[q]
                                /\ seen'[q] = seen[q] /\ toClose'[q] = toClose[q]
    /\ \A j \in Cargo : j # t => /\ jpc'[j] = jpc[j] /\ jset'[j] = jset[j]
                                 /\ jsugg'[j] = jsugg[j]

\* ... and leaves the rows the others rely on as they need them.
Spares(t) ==
    /\ \A r \in Req : (r # t /\ pc[r] \in Guarded) =>
          cargoStatus'[arg[r].cargo] = cargoStatus[arg[r].cargo]
    /\ \A q \in Resp : (q # t /\ rpc[q] \in {"closeCargo", "notifyOwner", "resolve", "respCommit"}) =>
          suggStatus'[rarg[q].sugg] # "deleted"
    /\ \A j \in Cargo : (j # t /\ jpc[j] = "lockDoomed") => \A s \in jset[j] :
          Holds(held, j, s, "forUpdate") => suggStatus'[s] = "suggested"
    /\ \A j \in Cargo : (j # t /\ jpc[j] = "addMember") =>
          \/ suggStatus'[jsugg[j]] = "deleted"
          \/ \A c \in jset[j] : response'[jsugg[j]][c] = "none"

\* What t itself has established for its next statement.
Ready(t) ==
    /\ t \in Req => Selecting(t)'
    /\ t \in Resp => AnswerLocked(t)' /\ AnswerKnows(t)'
    /\ t \in Cargo => /\ Doomed(t)'
                      /\ jpc'[t] = "addMember" =>
                            /\ suggStatus'[jsugg'[t]] # "absent"
                            /\ \/ suggStatus'[jsugg'[t]] = "deleted"
                               \/ \A c \in jset'[t] : response'[jsugg'[t]][c] = "none"
                            /\ \A j \in Cargo : (j # t /\ jpc[j] = "addMember") =>
                                  jsugg'[t] # jsugg[j]

Rows == <<cargoStatus, suggStatus, response, members>>

-----------------------------------------------------------------------------
(* The invariant in pieces: the others, then the rows.                      *)

LEMMA OthersSelecting ==
    ASSUME Inv, NEW t, Frame(t), Alone(t), Spares(t), NEW r \in Req, r # t
    PROVE  Selecting(r)'
BY DEF Inv, Frame, Alone, Spares, Selecting, MaySelect

LEMMA OthersLocked ==
    ASSUME Inv, NEW t, Frame(t), Alone(t), Spares(t), NEW q \in Resp, q # t
    PROVE  AnswerLocked(q)'
<1>1. /\ rpc'[q] = rpc[q] /\ rarg'[q] = rarg[q] /\ seen'[q] = seen[q] /\ toClose'[q] = toClose[q]
      /\ \A row, mode : Holds(held', q, row, mode) <=> Holds(held, q, row, mode)
  BY DEF Alone, Frame
<1>2. (Merges(q)' <=> Merges(q)) /\ Agreed(q)' = Agreed(q) /\ (Waiting(q)' <=> Waiting(q))
  BY <1>1 DEF Merges, Waiting, Agreed
<1>3. rpc[q] \in {"closeCargo", "notifyOwner", "resolve", "respCommit"} =>
          suggStatus'[rarg[q].sugg] # "deleted"
  BY DEF Spares
<1>4. AnswerLocked(q)
  BY DEF Inv
<1> QED BY <1>1, <1>2, <1>3, <1>4 DEF AnswerLocked

LEMMA OthersKnow ==
    ASSUME Inv, NEW t, Progress, Alone(t), NEW q \in Resp, q # t
    PROVE  AnswerKnows(q)'
<1>1. rpc'[q] = rpc[q] /\ rarg'[q] = rarg[q] /\ seen'[q] = seen[q]
  BY DEF Alone
<1>2. AnswerKnows(q) /\ (rpc[q] # "idle" => rarg[q].sugg \in Sugg /\ rarg[q].cargo \in Cargo)
  BY DEF Inv, Typed, AnswersTyped, Answer
<1> QED BY <1>1, <1>2 DEF AnswerKnows, Progress

LEMMA OthersDoomed ==
    ASSUME Inv, NEW t, Frame(t), Alone(t), Spares(t), NEW j \in Cargo, j # t
    PROVE  Doomed(j)'
BY DEF Frame, Alone, Spares, Doomed

LEMMA OthersFresh ==
    ASSUME Inv, NEW t, Progress, Alone(t), Spares(t), Ready(t), NEW j \in Cargo, j # t
    PROVE  Fresh(j)'
<1> SUFFICES ASSUME jpc'[j] = "addMember" PROVE Fresh(j)'
  BY DEF Fresh
<1>1. jpc[j] = "addMember" /\ jset'[j] = jset[j] /\ jsugg'[j] = jsugg[j] /\ jsugg[j] \in Sugg
  BY DEF Alone, Inv, Typed, JobsTyped
<1>2. suggStatus'[jsugg[j]] # "absent"
  BY <1>1 DEF Inv, Fresh, Progress
<1>3. \/ suggStatus'[jsugg[j]] = "deleted"
      \/ \A c \in jset[j] : response'[jsugg[j]][c] = "none"
  BY <1>1 DEF Spares
<1>4. ASSUME NEW i \in Cargo, i # j, jpc'[i] = "addMember"
      PROVE  jsugg'[i] # jsugg[j]
  <2>1. CASE i = t
    BY <1>1, <1>4, <2>1 DEF Ready
  <2>2. CASE i # t
    BY <1>1, <1>4, <2>2 DEF Alone, Inv, Fresh
  <2> QED BY <2>1, <2>2
<1> QED BY <1>1, <1>2, <1>3, <1>4 DEF Fresh

LEMMA WitnessKept ==
    ASSUME Inv, Progress, NEW k \in Cons, members'[k] = members[k]
    PROVE  Witnessed(k)'
<1> SUFFICES ASSUME members[k] # {} PROVE Witnessed(k)'
  BY DEF Witnessed
<1>1. PICK s \in Sugg : Resolved(s) /\ \A c \in members[k] : response[s][c] \in {"agreed", "declined"}
  BY DEF Inv, Witnessed
<1>2. Resolved(s)' /\ suggStatus'[s] # "deleted"
  BY <1>1 DEF Progress, Resolved
<1>3. \A c \in members[k] : response'[s][c] \in {"agreed", "declined"}
  BY <1>1, <1>2 DEF Progress, Inv, Typed, RowsTyped
<1> QED BY <1>2, <1>3 DEF Inv, Witnessed

\* Together.
LEMMA Keeps ==
    ASSUME Inv, Typed', NEW t, Frame(t), Alone(t), Progress, Spares(t), Ready(t),
           AbsentIsEmpty', \A k \in Cons : Witnessed(k)', MergedAreClosed'
    PROVE  Inv'
<1>1. ASSUME NEW j \in Cargo PROVE Doomed(j)' /\ Fresh(j)'
  <2>1. CASE j # t
    BY <2>1, OthersDoomed, OthersFresh
  <2>2. CASE j = t
    <3>1. Doomed(t)' /\ Alone(t)
      BY <2>2 DEF Ready
    <3>2. Fresh(t)'
      BY <2>2 DEF Fresh, Alone, Ready
    <3> QED BY <2>2, <3>1, <3>2
  <2> QED BY <2>1, <2>2
<1>2. ASSUME NEW q \in Resp PROVE AnswerLocked(q)' /\ AnswerKnows(q)'
  <2>1. CASE q # t
    BY <2>1, OthersLocked, OthersKnow
  <2>2. CASE q = t
    BY <2>2 DEF Ready
  <2> QED BY <2>1, <2>2
<1>3. ASSUME NEW r \in Req PROVE Selecting(r)'
  <2>1. CASE r # t
    BY <2>1, OthersSelecting
  <2>2. CASE r = t
    BY <2>2 DEF Ready
  <2> QED BY <2>1, <2>2
<1> QED BY <1>1, <1>2, <1>3 DEF Inv, Frame

\* A statement that leaves the suggestions alone.
LEMMA SparesSuggestions ==
    ASSUME Inv, NEW t, UNCHANGED <<suggStatus, response>>,
           \A r \in Req : (r # t /\ pc[r] \in Guarded) =>
              cargoStatus'[arg[r].cargo] = cargoStatus[arg[r].cargo]
    PROVE  Spares(t)
<1>1. \A q \in Resp : rpc[q] \in {"closeCargo", "notifyOwner", "resolve", "respCommit"} =>
          suggStatus[rarg[q].sugg] # "deleted"
  BY DEF Inv, AnswerLocked
<1>2. \A j \in Cargo : Doomed(j) /\ Fresh(j)
  BY DEF Inv
<1> QED BY <1>1, <1>2 DEF Spares, Doomed, Fresh

\* A statement that changes no row.
LEMMA KeepsRows ==
    ASSUME Inv, Typed', NEW t, Frame(t), Alone(t), Ready(t), UNCHANGED Rows
    PROVE  Inv' /\ Progress
<1> USE DEF Rows
<1>1. Progress
  BY DEF Progress, Resolved
<1>2. Spares(t)
  BY SparesSuggestions
<1>3. AbsentIsEmpty' /\ MergedAreClosed'
  BY DEF Inv, AbsentIsEmpty, MergedAreClosed, Merged
<1>4. \A k \in Cons : Witnessed(k)'
  BY <1>1, WitnessKept
<1> QED BY <1>1, <1>2, <1>3, <1>4, Keeps

-----------------------------------------------------------------------------
(* The steps of a matching job.                                             *)

LEMMA JobAlone ==
    ASSUME Inv, NEW j \in Cargo, UNCHANGED <<pc, arg, respVars>>,
           \A i \in Cargo : i # j => jpc'[i] = jpc[i] /\ jset'[i] = jset[i] /\ jsugg'[i] = jsugg[i]
    PROVE  Alone(j)
BY DEF Alone, respVars

LEMMA JobOnly ==
    ASSUME JobsTyped, NEW j \in Cargo,
           \/ JobEnd(j) \/ UNCHANGED jobVars
           \/ /\ \E l, set : JobTo(j, l, set)
              /\ UNCHANGED jsugg \/ \E s : jsugg' = [jsugg EXCEPT ![j] = s]
    PROVE  \A i \in Cargo : i # j => jpc'[i] = jpc[i] /\ jset'[i] = jset[i] /\ jsugg'[i] = jsugg[i]
BY DEF JobsTyped, JobEnd, JobTo, jobVars

\* A job holds locks as a transaction that is neither a request nor an answer.
LEMMA JobReady ==
    ASSUME NEW j \in Cargo, Doomed(j)', jpc'[j] # "addMember"
    PROVE  Ready(j)
BY TxDisjoint DEF Ready

LEMMA SubmitCargoInv ==
    ASSUME Inv, Typed', NEW j \in Cargo, SubmitCargo(j)
    PROVE  Inv' /\ Progress
<1>1. /\ UNCHANGED <<held, pc, arg, suggStatus, response, members, respVars, jsugg>>
      /\ cargoStatus[j] = "absent" /\ cargoStatus' = [cargoStatus EXCEPT ![j] = "open"]
      /\ JobTo(j, "delete", {})
  BY DEF SubmitCargo, CreateCargo, reqVars, suggVars
<1>2. Alone(j)
  BY <1>1, JobAlone, JobOnly DEF Inv, Typed
<1>3. Frame(j)
  BY <1>1, SameFrame DEF Inv
<1>4. jpc'[j] = "delete"
  BY <1>1 DEF JobTo, Inv, Typed, JobsTyped
<1>5. Ready(j)
  BY <1>4, JobReady DEF Doomed
<1>6. Progress
  BY <1>1 DEF Progress, Resolved
<1>7. ASSUME NEW r \in Req, pc[r] \in Guarded PROVE arg[r].cargo # j
  BY <1>1, <1>7 DEF Inv, Selecting, MaySelect
<1>8. Spares(j)
  <2>1. \A r \in Req : pc[r] \in Guarded => cargoStatus'[arg[r].cargo] = cargoStatus[arg[r].cargo]
    BY <1>1, <1>7 DEF Inv, Typed, RowsTyped
  <2> QED BY <1>1, <2>1, SparesSuggestions
<1>9. AbsentIsEmpty' /\ MergedAreClosed'
  <2>1. \A c \in Cargo : cargoStatus'[c] = "closed" <=> cargoStatus[c] = "closed"
    BY <1>1 DEF Inv, Typed, RowsTyped
  <2> QED BY <1>1, <2>1 DEF Inv, AbsentIsEmpty, MergedAreClosed, Merged
<1>10. \A k \in Cons : Witnessed(k)'
  BY <1>1, <1>6, WitnessKept
<1> QED BY <1>2, <1>3, <1>5, <1>6, <1>8, <1>9, <1>10, Keeps

\* The statements of a job that change no row and take no lock.
LEMMA JobReadsInv ==
    ASSUME Inv, Typed', NEW j \in Cargo, JobDelete(j) \/ JobList(j) \/ JobGroup(j)
    PROVE  Inv' /\ Progress
<1>1. UNCHANGED <<Rows, held, pc, arg, respVars>>
  BY DEF JobDelete, JobList, JobGroup, vars, dbVars, reqVars, suggVars, Rows
<1>2. Frame(j)
  BY <1>1, SameFrame DEF Inv
<1>3. Alone(j)
  <2>1. \/ JobEnd(j)
        \/ (\E l, set : JobTo(j, l, set)) /\ UNCHANGED jsugg
    BY DEF JobDelete, JobList, JobGroup
  <2> QED BY <1>1, <2>1, JobAlone, JobOnly DEF Inv, Typed
<1>4. Doomed(j)' /\ jpc'[j] # "addMember"
  <2>1. CASE JobDelete(j)
    BY <1>1, <2>1 DEF JobDelete, JobTo, Doomed, Unanswered, Inv, Typed, JobsTyped, Rows
  <2>2. CASE JobList(j) \/ JobGroup(j)
    <3>1. jpc'[j] \in {"idle", "group", "create"}
      BY <2>2 DEF JobList, JobGroup, JobTo, JobEnd, Inv, Typed, JobsTyped
    <3> QED BY <3>1 DEF Doomed
  <2> QED BY <2>1, <2>2
<1> QED BY <1>1, <1>2, <1>3, <1>4, JobReady, KeepsRows

\* A job that waited for a suggestion and finds it answered leaves it alone.
LEMMA JobLockDoomedInv ==
    ASSUME Inv, Typed', NEW j \in Cargo, JobLockDoomed(j)
    PROVE  Inv' /\ Progress
<1>1. UNCHANGED <<Rows, pc, arg, respVars>> /\ jpc[j] = "lockDoomed"
  BY DEF JobLockDoomed, dbVars, suggVars, Rows
<1>2. PICK s \in jset[j] :
         /\ Available(held, j, s, "forUpdate")
         /\ \/ /\ suggStatus[s] = "suggested" /\ held' = Grant(held, j, s, "forUpdate")
               /\ UNCHANGED jobVars
            \/ JobTo(j, "lockDoomed", jset[j] \ {s}) /\ UNCHANGED <<held, jsugg>>
  BY DEF JobLockDoomed
<1>3. Alone(j)
  BY <1>1, <1>2, JobAlone, JobOnly DEF Inv, Typed
<1>4. Frame(j)
  BY <1>2, GrantFrame, SameFrame DEF Inv
<1>5. Doomed(j)' /\ jpc'[j] # "addMember"
  <2>1. CASE /\ suggStatus[s] = "suggested" /\ held' = Grant(held, j, s, "forUpdate")
             /\ UNCHANGED jobVars
    BY <1>1, <2>1 DEF Inv, Doomed, Grant, Holds, jobVars, Rows
  <2>2. CASE JobTo(j, "lockDoomed", jset[j] \ {s}) /\ UNCHANGED <<held, jsugg>>
    BY <1>1, <2>2 DEF Inv, Doomed, JobTo, Rows, Typed, JobsTyped
  <2> QED BY <1>2, <2>1, <2>2
<1> QED BY <1>1, <1>3, <1>4, <1>5, JobReady, KeepsRows

\* The deletion takes only suggestions that nobody has resolved, and none whose
\* answer is being recorded: it waits for the member rows.
LEMMA JobCascadeInv ==
    ASSUME Inv, Typed', NEW j \in Cargo, JobCascade(j)
    PROVE  Inv' /\ Progress
<1>1. /\ UNCHANGED <<cargoStatus, members, pc, arg, respVars, jsugg>>
      /\ jpc[j] = "lockDoomed" /\ JobTo(j, "list", {}) /\ held' = Release(held, j)
      /\ suggStatus' = [s \in Sugg |-> IF s \in jset[j] THEN "deleted" ELSE suggStatus[s]]
      /\ response' = [s \in Sugg |-> IF s \in jset[j] THEN NoRows ELSE response[s]]
  BY DEF JobCascade, dbVars
<1>2. \A s \in jset[j] : /\ Holds(held, j, s, "forUpdate") /\ suggStatus[s] = "suggested"
                         /\ \A c \in Cargo : Available(held, j, <<s, c>>, "forUpdate")
  BY <1>1 DEF JobCascade, Inv, Doomed
<1>3. Alone(j)
  BY <1>1, JobAlone, JobOnly DEF Inv, Typed
<1>4. Frame(j)
  BY <1>1, ReleaseFrame DEF Inv
<1>5. Ready(j)
  <2>1. jpc'[j] = "list"
    BY <1>1 DEF JobTo, Inv, Typed, JobsTyped
  <2> QED BY <2>1, JobReady DEF Doomed
<1>6. Progress
  BY <1>1, <1>2 DEF Progress, Resolved
<1>7. ASSUME NEW q \in Resp, rpc[q] \in {"closeCargo", "notifyOwner", "resolve", "respCommit"}
      PROVE  suggStatus'[rarg[q].sugg] # "deleted"
  <2>1. q # j /\ rarg[q].sugg \in Sugg /\ rarg[q].cargo \in Cargo
    BY <1>7, TxDisjoint DEF Inv, Typed, AnswersTyped, Answer
  <2>2. AnswerLocked(q)
    BY DEF Inv
  <2>3. /\ Holds(held, q, <<rarg[q].sugg, rarg[q].cargo>>, "noKeyUpdate")
        /\ suggStatus[rarg[q].sugg] # "deleted"
    BY <1>7, <2>2 DEF AnswerLocked
  <2>4. rarg[q].sugg \notin jset[j]
    BY <1>2, <2>1, <2>3, UpdateExcludes
  <2> QED BY <1>1, <2>1, <2>3, <2>4
<1>8. ASSUME NEW i \in Cargo, i # j, jpc[i] = "lockDoomed", NEW s \in jset[i],
             Holds(held, i, s, "forUpdate")
      PROVE  suggStatus'[s] = "suggested"
  <2>1. s \in Sugg /\ suggStatus[s] = "suggested"
    BY <1>8 DEF Inv, Typed, JobsTyped, Doomed
  <2>2. s \notin jset[j]
    BY <1>2, <1>8, HoldersExclude DEF Inv
  <2> QED BY <1>1, <2>1, <2>2
<1>9. \A i \in Cargo : jpc[i] = "addMember" =>
         \/ suggStatus'[jsugg[i]] = "deleted"
         \/ \A c \in jset[i] : response'[jsugg[i]][c] = "none"
  BY <1>1 DEF Inv, Typed, JobsTyped, Fresh
<1>10. Spares(j)
  BY <1>1, <1>7, <1>8, <1>9 DEF Spares
<1>11. AbsentIsEmpty' /\ MergedAreClosed'
  BY <1>1 DEF Inv, AbsentIsEmpty, MergedAreClosed, Merged
<1>12. \A k \in Cons : Witnessed(k)'
  BY <1>1, <1>6, WitnessKept
<1> QED BY <1>3, <1>4, <1>5, <1>6, <1>10, <1>11, <1>12, Keeps

LEMMA JobCreateInv ==
    ASSUME Inv, Typed', NEW j \in Cargo, JobCreate(j)
    PROVE  Inv' /\ Progress
<1>1. /\ UNCHANGED <<cargoStatus, response, members, held, pc, arg, respVars>>
      /\ JobTo(j, "addMember", jset[j]) /\ jpc[j] = "create"
  BY DEF JobCreate, vars, dbVars, reqVars
<1>2. PICK s \in Sugg : /\ suggStatus[s] = "absent"
                        /\ suggStatus' = [suggStatus EXCEPT ![s] = "suggested"]
                        /\ jsugg' = [jsugg EXCEPT ![j] = s]
  BY DEF JobCreate
<1>3. Alone(j)
  BY <1>1, <1>2, JobAlone, JobOnly DEF Inv, Typed
<1>4. Frame(j)
  BY <1>1, SameFrame DEF Inv
<1>5. \A t \in Sugg : t # s => suggStatus'[t] = suggStatus[t]
  BY <1>2 DEF Inv, Typed, RowsTyped
<1>6. Progress
  BY <1>1, <1>2, <1>5 DEF Progress, Resolved, Inv, Typed, RowsTyped
<1>7. Ready(j)
  <2>1. /\ jpc'[j] = "addMember" /\ jset'[j] = jset[j] /\ jset[j] \subseteq Cargo
        /\ jsugg'[j] = s /\ suggStatus'[s] = "suggested"
    BY <1>1, <1>2 DEF JobTo, Inv, Typed, JobsTyped, RowsTyped
  <2>2. \A c \in jset[j] : response'[s][c] = "none"
    BY <1>1, <1>2, <2>1 DEF Inv, AbsentIsEmpty, NoRows
  <2>3. \A i \in Cargo : jpc[i] = "addMember" => s # jsugg[i]
    BY <1>2 DEF Inv, Fresh
  <2> QED BY <2>1, <2>2, <2>3, TxDisjoint DEF Ready, Doomed
<1>8. Spares(j)
  <2>1. \A q \in Resp : rpc[q] \in {"closeCargo", "notifyOwner", "resolve", "respCommit"} =>
           suggStatus'[rarg[q].sugg] # "deleted"
    BY <1>2, <1>5 DEF Inv, AnswerLocked, Typed, AnswersTyped, Answer, RowsTyped
  <2>2. \A i \in Cargo : jpc[i] = "lockDoomed" => \A t \in jset[i] :
           Holds(held, i, t, "forUpdate") => suggStatus'[t] = "suggested"
    BY <1>2, <1>5 DEF Inv, Doomed, Typed, JobsTyped, RowsTyped
  <2>3. \A i \in Cargo : jpc[i] = "addMember" =>
           \/ suggStatus'[jsugg[i]] = "deleted"
           \/ \A c \in jset[i] : response'[jsugg[i]][c] = "none"
    BY <1>1, <1>2, <1>5 DEF Inv, Fresh, Typed, JobsTyped, RowsTyped
  <2> QED BY <1>1, <2>1, <2>2, <2>3 DEF Spares
<1>9. AbsentIsEmpty' /\ MergedAreClosed'
  BY <1>1, <1>2, <1>5 DEF Inv, AbsentIsEmpty, MergedAreClosed, Merged, Typed, RowsTyped
<1>10. \A k \in Cons : Witnessed(k)'
  BY <1>1, <1>6, WitnessKept
<1> QED BY <1>3, <1>4, <1>6, <1>7, <1>8, <1>9, <1>10, Keeps

\* A member row is new when it is inserted: it overwrites no answer.
LEMMA JobAddMemberInv ==
    ASSUME Inv, Typed', NEW j \in Cargo, JobAddMember(j)
    PROVE  Inv' /\ Progress
<1> DEFINE s == jsugg[j]
<1>1. /\ UNCHANGED <<cargoStatus, suggStatus, members, held, pc, arg, respVars>>
      /\ jpc[j] = "addMember" /\ s \in Sugg /\ jset[j] \subseteq Cargo
  BY DEF JobAddMember, vars, dbVars, reqVars, Inv, Typed, JobsTyped
<1>2. PICK c \in jset[j] :
         \/ /\ suggStatus[s] # "deleted" /\ response' = [response EXCEPT ![s][c] = "pending"]
            /\ JobTo(j, IF jset[j] = {c} THEN "group" ELSE "addMember", jset[j] \ {c})
            /\ UNCHANGED jsugg
         \/ JobEnd(j) /\ UNCHANGED response
  BY DEF JobAddMember
<1>3. Alone(j)
  BY <1>1, <1>2, JobAlone, JobOnly DEF Inv, Typed
<1>4. Frame(j)
  BY <1>1, SameFrame DEF Inv
<1>5. CASE JobEnd(j) /\ UNCHANGED response
  <2>1. jpc'[j] = "idle"
    BY <1>5 DEF JobEnd, Inv, Typed, JobsTyped
  <2>2. Ready(j)
    BY <2>1, JobReady DEF Doomed
  <2> QED BY <1>1, <1>3, <1>4, <1>5, <2>2, KeepsRows DEF Rows
<1>6. CASE /\ suggStatus[s] # "deleted" /\ response' = [response EXCEPT ![s][c] = "pending"]
           /\ JobTo(j, IF jset[j] = {c} THEN "group" ELSE "addMember", jset[j] \ {c})
           /\ UNCHANGED jsugg
  <2>1. suggStatus[s] # "absent" /\ \A d \in jset[j] : response[s][d] = "none"
    BY <1>1, <1>6 DEF Inv, Fresh
  <2>2. \A t \in Sugg, d \in Cargo : (t # s \/ d # c) => response'[t][d] = response[t][d]
    BY <1>1, <1>6 DEF Inv, Typed, RowsTyped
  <2>3. \A t \in Sugg : t # s => response'[t] = response[t]
    BY <1>1, <1>6 DEF Inv, Typed, RowsTyped
  <2>4. Progress
    BY <1>1, <1>2, <2>1, <2>2, <2>3 DEF Progress, Resolved, Inv, Typed, RowsTyped
  <2>5. Ready(j)
    <3>1. jpc'[j] \in {"group", "addMember"} /\ jset'[j] = jset[j] \ {c} /\ jsugg'[j] = s
      BY <1>6 DEF JobTo, Inv, Typed, JobsTyped
    <3>2. \A d \in jset'[j] : response'[s][d] = "none"
      BY <1>1, <2>1, <2>2, <3>1
    <3>3. \A i \in Cargo : (i # j /\ jpc[i] = "addMember") => s # jsugg[i]
      BY <1>1 DEF Inv, Fresh
    <3> QED BY <1>1, <2>1, <3>1, <3>2, <3>3, TxDisjoint DEF Ready, Doomed
  <2>6. \A i \in Cargo : (i # j /\ jpc[i] = "addMember") =>
           \/ suggStatus'[jsugg[i]] = "deleted"
           \/ \A d \in jset[i] : response'[jsugg[i]][d] = "none"
    BY <1>1, <2>3 DEF Inv, Fresh, Typed, JobsTyped
  <2>7. Spares(j)
    BY <1>1, <2>6 DEF Spares, Inv, AnswerLocked, Doomed
  <2>8. AbsentIsEmpty' /\ MergedAreClosed'
    BY <1>1, <2>1, <2>3 DEF Inv, AbsentIsEmpty, MergedAreClosed, Merged
  <2>9. \A k \in Cons : Witnessed(k)'
    BY <1>1, <2>4, WitnessKept
  <2> QED BY <1>3, <1>4, <2>4, <2>5, <2>7, <2>8, <2>9, Keeps
<1> QED BY <1>2, <1>5, <1>6

LEMMA JobAbortInv ==
    ASSUME Inv, Typed', NEW j \in Cargo, JobAbort(j)
    PROVE  Inv' /\ Progress
<1>1. UNCHANGED <<Rows, pc, arg, respVars>> /\ JobEnd(j) /\ held' = Release(held, j)
  BY DEF JobAbort, dbVars, suggVars, Rows
<1>2. Alone(j) /\ Frame(j)
  BY <1>1, JobAlone, JobOnly, ReleaseFrame DEF Inv, Typed
<1>3. jpc'[j] = "idle"
  BY <1>1 DEF JobEnd, Inv, Typed, JobsTyped
<1> QED BY <1>1, <1>2, <1>3, JobReady, KeepsRows DEF Doomed

-----------------------------------------------------------------------------
(* The steps of an answer.                                                  *)

LEMMA AnswerAlone ==
    ASSUME Inv, NEW q \in Resp, UNCHANGED <<pc, arg, jobVars>>,
           \A p \in Resp : p # q => /\ rpc'[p] = rpc[p] /\ rarg'[p] = rarg[p]
                                    /\ seen'[p] = seen[p] /\ toClose'[p] = toClose[p]
    PROVE  Alone(q)
BY DEF Alone, jobVars

LEMMA AnswerReady ==
    ASSUME NEW q \in Resp, AnswerLocked(q)', AnswerKnows(q)'
    PROVE  Ready(q)
BY TxDisjoint DEF Ready

LEMMA DropInv ==
    ASSUME Inv, Typed', NEW q \in Resp, RespEnd(q), UNCHANGED suggVars
    PROVE  Inv' /\ Progress
<1>1. /\ UNCHANGED <<Rows, pc, arg, jobVars>> /\ held' = Release(held, q) /\ rpc'[q] = "idle"
      /\ \A p \in Resp : p # q => /\ rpc'[p] = rpc[p] /\ rarg'[p] = rarg[p]
                                  /\ seen'[p] = seen[p] /\ toClose'[p] = toClose[p]
  BY DEF RespEnd, dbVars, suggVars, Rows, Inv, Typed, AnswersTyped
<1>2. Alone(q) /\ Frame(q)
  BY <1>1, AnswerAlone, ReleaseFrame DEF Inv
<1>3. Ready(q)
  BY <1>1, AnswerReady DEF AnswerLocked, AnswerKnows
<1> QED BY <1>1, <1>2, <1>3, KeepsRows

\* What an answer under way refers to.
LEMMA AnswerArgs ==
    ASSUME Inv, NEW q \in Resp, rpc[q] # "idle"
    PROVE  /\ rarg[q].sugg \in Sugg /\ rarg[q].cargo \in Cargo
           /\ rarg[q].answer \in {"agreed", "declined"}
           /\ AnswerLocked(q) /\ AnswerKnows(q)
BY DEF Inv, Typed, AnswersTyped, Answer

LEMMA BeginAnswerInv ==
    ASSUME Inv, Typed', NEW q \in Resp, NEW s \in Sugg, NEW c \in Cargo,
           NEW a \in {"agreed", "declined"}, BeginAnswer(q, s, c, a)
    PROVE  Inv' /\ Progress
<1>1. /\ UNCHANGED <<Rows, held, pc, arg, jobVars, seen, toClose>>
      /\ rpc' = [rpc EXCEPT ![q] = "listMembers"] /\ suggStatus[s] = "suggested"
      /\ rarg' = [rarg EXCEPT ![q] = [sugg |-> s, cargo |-> c, answer |-> a]]
  BY DEF BeginAnswer, Answering, Answerable, vars, dbVars, reqVars, suggVars, Rows
<1>2. Alone(q) /\ Frame(q)
  BY <1>1, AnswerAlone, SameFrame DEF Inv, Typed, AnswersTyped
<1>3. rpc'[q] = "listMembers" /\ rarg'[q].sugg = s /\ suggStatus'[s] = "suggested"
  BY <1>1 DEF Inv, Typed, AnswersTyped, Rows
<1>4. Ready(q)
  BY <1>3, AnswerReady DEF AnswerLocked, AnswerKnows
<1> QED BY <1>1, <1>2, <1>4, KeepsRows

\* The list is a snapshot: it is true when it is read.
LEMMA ListMembersInv ==
    ASSUME Inv, Typed', NEW q \in Resp, ListMembers(q)
    PROVE  Inv' /\ Progress
<1> DEFINE s == rarg[q].sugg
           c == rarg[q].cargo
<1>1. CASE RespEnd(q) /\ UNCHANGED suggVars
  BY <1>1, DropInv
<1>2. CASE /\ MayAnswer(response[s][c], rarg[q].answer)
           /\ seen' = [seen EXCEPT ![q] = [response[s] EXCEPT ![c] = rarg[q].answer]]
           /\ Answering(q, "setResponse")
           /\ UNCHANGED <<vars, suggVars, jobVars, rarg, toClose>>
  <2>1. /\ UNCHANGED <<Rows, held, pc, arg, jobVars, rarg, toClose>>
        /\ rpc' = [rpc EXCEPT ![q] = "setResponse"]
        /\ rpc[q] # "idle" /\ response[s][c] # "none"
    BY <1>2 DEF ListMembers, Answering, MayAnswer, vars, dbVars, reqVars, suggVars, Rows
  <2>2. Alone(q) /\ Frame(q)
    BY <1>2, <2>1, AnswerAlone, SameFrame DEF Inv, Typed, AnswersTyped
  <2>3. /\ rpc'[q] = "setResponse" /\ rarg'[q] = rarg[q] /\ s \in Sugg /\ c \in Cargo
        /\ suggStatus[s] # "absent"
        /\ \A d \in Cargo \ {c} : seen'[q][d] = response[s][d]
    BY <1>2, <2>1, AnswerArgs DEF Inv, Typed, AnswersTyped, RowsTyped, AnswerKnows
  <2>4. AnswerLocked(q)' /\ AnswerKnows(q)'
    BY <2>1, <2>3 DEF AnswerLocked, AnswerKnows, Rows
  <2> QED BY <2>1, <2>2, <2>4, AnswerReady, KeepsRows
<1> QED BY <1>1, <1>2 DEF ListMembers

\* What resolveSuggestionIfReady decides depends on the rows listed alone.
LEMMA SameDecision ==
    ASSUME NEW q, seen'[q] = seen[q]
    PROVE  (Merges(q)' <=> Merges(q)) /\ Agreed(q)' = Agreed(q) /\ (Waiting(q)' <=> Waiting(q))
BY DEF Merges, Waiting, Agreed

LEMMA SetResponseInv ==
    ASSUME Inv, Typed', NEW q \in Resp, SetResponse(q)
    PROVE  Inv' /\ Progress
<1> DEFINE row == <<rarg[q].sugg, rarg[q].cargo>>
           next == IF Waiting(q) THEN "respCommit" ELSE IF Merges(q) THEN "closeCargo" ELSE "resolve"
<1>1. CASE RespEnd(q) /\ UNCHANGED suggVars
  BY <1>1, DropInv
<1>2. CASE /\ suggStatus[rarg[q].sugg] # "deleted" /\ held' = Grant(held, q, row, "noKeyUpdate")
           /\ Answering(q, next)
           /\ toClose' = [toClose EXCEPT ![q] = IF Merges(q) THEN Agreed(q) ELSE {}]
           /\ UNCHANGED <<dbVars, pc, arg, limit, suggVars, jobVars, rarg, seen>>
  <2>1. /\ UNCHANGED <<Rows, pc, arg, jobVars, rarg, seen>> /\ rpc[q] = "setResponse"
        /\ Available(held, q, row, "noKeyUpdate")
    BY <1>2 DEF SetResponse, dbVars, suggVars, Rows
  <2>2. Alone(q)
    BY <1>2, <2>1, AnswerAlone DEF Answering, Inv, Typed, AnswersTyped
  <2>3. Frame(q) /\ Holds(held', q, row, "noKeyUpdate")
    BY <1>2, <2>1, GrantFrame DEF Inv
  <2>4. rpc'[q] = next /\ toClose'[q] = IF Merges(q) THEN Agreed(q) ELSE {}
    BY <1>2 DEF Answering, Inv, Typed, AnswersTyped
  <2>5. Merges(q) => ~Waiting(q)
    BY DEF Merges
  <2>6. AnswerLocked(q)'
    BY <1>2, <2>1, <2>3, <2>4, <2>5, SameDecision DEF AnswerLocked, Rows
  <2>7. AnswerKnows(q)'
    BY <2>1, AnswerArgs DEF AnswerKnows, Rows
  <2> QED BY <2>1, <2>2, <2>3, <2>6, <2>7, AnswerReady, KeepsRows
<1> QED BY <1>1, <1>2 DEF SetResponse

LEMMA CloseCargoInv ==
    ASSUME Inv, Typed', NEW q \in Resp, CloseCargo(q)
    PROVE  Inv' /\ Progress
<1>1. /\ UNCHANGED <<Rows, pc, arg, jobVars, rarg, seen>> /\ rpc[q] = "closeCargo"
      /\ rpc' = [rpc EXCEPT ![q] = "notifyOwner"]
  BY DEF CloseCargo, Answering, dbVars, suggVars, Rows
<1>2. PICK d \in toClose[q] : /\ Available(held, q, d, "noKeyUpdate")
                              /\ held' = Grant(held, q, d, "noKeyUpdate")
                              /\ toClose' = [toClose EXCEPT ![q] = @ \ {d}]
  BY DEF CloseCargo
<1>3. Alone(q)
  BY <1>1, <1>2, AnswerAlone DEF Inv, Typed, AnswersTyped
<1>4. /\ Frame(q) /\ Holds(held', q, d, "noKeyUpdate")
      /\ \A r, m : Holds(held, q, r, m) => Holds(held', q, r, m)
  BY <1>2, GrantFrame DEF Inv
<1>5. rpc'[q] = "notifyOwner" /\ toClose'[q] = toClose[q] \ {d}
  BY <1>1, <1>2 DEF Inv, Typed, AnswersTyped
<1>6. AnswerLocked(q)' /\ AnswerKnows(q)'
  <2>1. AnswerLocked(q) /\ AnswerKnows(q)
    BY DEF Inv
  <2>2. AnswerLocked(q)'
    BY <1>1, <1>4, <1>5, <2>1, SameDecision DEF AnswerLocked, Rows
  <2>3. AnswerKnows(q)'
    BY <1>1, <1>5, <2>1 DEF AnswerKnows, Rows
  <2> QED BY <2>2, <2>3
<1> QED BY <1>1, <1>3, <1>4, <1>6, AnswerReady, KeepsRows

LEMMA NotifyOwnerInv ==
    ASSUME Inv, Typed', NEW q \in Resp, NotifyOwner(q)
    PROVE  Inv' /\ Progress
<1> DEFINE owners == {Owner[d] : d \in Agreed(q) \ toClose[q]}
<1>1. /\ UNCHANGED <<Rows, pc, arg, jobVars, rarg, seen, toClose>> /\ rpc[q] = "notifyOwner"
      /\ rpc' = [rpc EXCEPT ![q] = IF toClose[q] = {} THEN "resolve" ELSE "closeCargo"]
  BY DEF NotifyOwner, Answering, dbVars, suggVars, Rows
<1>2. /\ \A u \in owners : Available(held, q, u, "keyShare")
      /\ held' = held \cup {[tx |-> q, row |-> u, mode |-> "keyShare"] : u \in owners}
  BY DEF NotifyOwner
<1> HIDE DEF owners
<1>3. Alone(q)
  BY <1>1, AnswerAlone DEF Inv, Typed, AnswersTyped
<1>4. Frame(q) /\ \A r, m : Holds(held, q, r, m) => Holds(held', q, r, m)
  BY <1>2, OwnersFrame DEF Inv
<1>5. rpc'[q] = IF toClose[q] = {} THEN "resolve" ELSE "closeCargo"
  BY <1>1 DEF Inv, Typed, AnswersTyped
<1>6. AnswerLocked(q) /\ AnswerKnows(q)
  BY DEF Inv
<1>7. AnswerLocked(q)'
  BY <1>1, <1>4, <1>5, <1>6, SameDecision DEF AnswerLocked, Rows
<1>8. AnswerKnows(q)'
  BY <1>1, <1>5, <1>6 DEF AnswerKnows, Rows
<1> QED BY <1>1, <1>3, <1>4, <1>7, <1>8, AnswerReady, KeepsRows

LEMMA ResolveInv ==
    ASSUME Inv, Typed', NEW q \in Resp, Resolve(q)
    PROVE  Inv' /\ Progress
<1> DEFINE s == rarg[q].sugg
<1>1. CASE RespEnd(q) /\ UNCHANGED suggVars
  BY <1>1, DropInv
<1>2. CASE /\ held' = Grant(held, q, s, "noKeyUpdate") /\ Answering(q, "respCommit")
           /\ UNCHANGED <<dbVars, pc, arg, limit, suggVars, jobVars, rarg, seen, toClose>>
  <2>1. /\ UNCHANGED <<Rows, pc, arg, jobVars, rarg, seen, toClose>> /\ rpc[q] = "resolve"
        /\ Available(held, q, s, "noKeyUpdate")
    BY <1>2 DEF Resolve, dbVars, suggVars, Rows
  <2>2. Alone(q) /\ rpc'[q] = "respCommit"
    BY <1>2, <2>1, AnswerAlone DEF Answering, Inv, Typed, AnswersTyped
  <2>3. /\ Frame(q) /\ Holds(held', q, s, "noKeyUpdate")
        /\ \A r, m : Holds(held, q, r, m) => Holds(held', q, r, m)
    BY <1>2, <2>1, GrantFrame DEF Inv
  <2>4. AnswerLocked(q) /\ AnswerKnows(q)
    BY DEF Inv
  <2>5. AnswerLocked(q)'
    BY <2>1, <2>2, <2>3, <2>4, SameDecision DEF AnswerLocked, Rows
  <2>6. AnswerKnows(q)'
    BY <2>1, <2>2, <2>4 DEF AnswerKnows, Rows
  <2> QED BY <2>1, <2>2, <2>3, <2>5, <2>6, AnswerReady, KeepsRows
<1> QED BY <1>1, <1>2 DEF Resolve

\* The commit of an answer: the locks it holds protect what it overwrites.
LEMMA CommitAnswerInv ==
    ASSUME Inv, Typed', NEW q \in Resp, CommitAnswer(q)
    PROVE  Inv' /\ Progress
<1>0. PICK s \in Sugg, c \in Cargo : s = rarg[q].sugg /\ c = rarg[q].cargo
  BY AnswerArgs DEF CommitAnswer
<1>1. /\ rpc[q] = "respCommit" /\ held' = Release(held, q) /\ UNCHANGED <<pc, arg, jobVars>>
      /\ rpc' = [rpc EXCEPT ![q] = "idle"] /\ rarg' = [rarg EXCEPT ![q] = NoAnswer]
      /\ seen' = [seen EXCEPT ![q] = NoRows] /\ toClose' = [toClose EXCEPT ![q] = {}]
      /\ response' = [response EXCEPT ![s][c] = rarg[q].answer]
      /\ suggStatus' = [suggStatus EXCEPT ![s] =
            IF Waiting(q) THEN @ ELSE IF Merges(q) THEN "both_agreed" ELSE "declined"]
  BY <1>0 DEF CommitAnswer
<1>2. /\ rarg[q].answer \in {"agreed", "declined"}
      /\ AnswerLocked(q) /\ AnswerKnows(q)
  BY <1>1, AnswerArgs
<1>3. /\ Holds(held, q, <<s, c>>, "noKeyUpdate") /\ suggStatus[s] \notin {"deleted", "absent"}
      /\ Merges(q) => \A d \in Agreed(q) : Holds(held, q, d, "noKeyUpdate")
      /\ Waiting(q) \/ Holds(held, q, s, "noKeyUpdate")
      /\ response[s][c] # "none"
      /\ \A d \in Cargo \ {c} : seen[q][d] = "agreed" => response[s][d] \in {"agreed", "declined"}
  BY <1>0, <1>1, <1>2 DEF AnswerLocked, AnswerKnows
<1>4. /\ suggStatus'[s] = IF Waiting(q) THEN suggStatus[s]
                          ELSE IF Merges(q) THEN "both_agreed" ELSE "declined"
      /\ \A t \in Sugg : t # s => suggStatus'[t] = suggStatus[t] /\ response'[t] = response[t]
      /\ response'[s][c] = rarg[q].answer
      /\ \A d \in Cargo : d # c => response'[s][d] = response[s][d]
  BY <1>1, <1>2 DEF Inv, Typed, RowsTyped
<1>5. Alone(q) /\ Frame(q)
  BY <1>1, AnswerAlone, ReleaseFrame DEF Inv, Typed, AnswersTyped
<1>6. Ready(q)
  <2>1. rpc'[q] = "idle"
    BY <1>1 DEF Inv, Typed, AnswersTyped
  <2> QED BY <2>1, AnswerReady DEF AnswerLocked, AnswerKnows
<1>7. Progress
  <2>1. ASSUME NEW t \in Sugg
        PROVE  /\ suggStatus[t] # "absent" => suggStatus'[t] # "absent"
               /\ suggStatus[t] = "deleted" => suggStatus'[t] = "deleted"
               /\ Resolved(t) => Resolved(t)'
    BY <1>2, <1>3, <1>4 DEF Resolved
  <2>2. ASSUME NEW t \in Sugg, NEW d \in Cargo
        PROVE  /\ response[t][d] # "none" => response'[t][d] # "none"
               /\ response[t][d] \in {"agreed", "declined"} =>
                      response'[t][d] \in {"agreed", "declined"}
    BY <1>2, <1>4
  <2> QED BY <2>1, <2>2 DEF Progress
<1>8. /\ members' \in [Cons -> SUBSET Cargo]
      /\ \/ /\ Merges(q)
            /\ \E k \in Cons : /\ members[k] = {}
                               /\ members' = [members EXCEPT ![k] = Agreed(q)]
            /\ cargoStatus' = ClosedBy(q)
         \/ ~Merges(q) /\ UNCHANGED <<members, cargoStatus>>
  BY DEF CommitAnswer, Typed, RowsTyped
<1>9. Spares(q)
  <2>1. ASSUME NEW r \in Req, pc[r] \in Guarded
        PROVE  cargoStatus'[arg[r].cargo] = cargoStatus[arg[r].cargo]
    <3>1. /\ r # q /\ Selecting(r) /\ arg[r].cargo \in Cargo
          /\ Holds(held, r, arg[r].cargo, "forUpdate")
      BY <2>1, TxDisjoint DEF Inv, Selecting, Guarded, Typed, RequestsTyped, Arg
    <3>2. Merges(q) => arg[r].cargo \notin Agreed(q)
      BY <1>3, <3>1, HoldersExclude DEF Inv
    <3> QED BY <1>8, <3>1, <3>2 DEF ClosedBy
  <2>2. ASSUME NEW p \in Resp, rpc[p] \in {"closeCargo", "notifyOwner", "resolve", "respCommit"}
        PROVE  suggStatus'[rarg[p].sugg] # "deleted"
    <3>1. rarg[p].sugg \in Sugg /\ suggStatus[rarg[p].sugg] # "deleted"
      BY <2>2, AnswerArgs DEF AnswerLocked
    <3> QED BY <1>3, <1>4, <3>1
  <2>3. ASSUME NEW j \in Cargo, jpc[j] = "lockDoomed", NEW t \in jset[j],
               Holds(held, j, t, "forUpdate")
        PROVE  suggStatus'[t] = "suggested"
    <3>1. t \in Sugg /\ suggStatus[t] = "suggested" /\ j # q
      BY <2>3, TxDisjoint DEF Inv, Typed, JobsTyped, Doomed
    <3>2. t = s => Waiting(q)
      BY <1>3, <2>3, <3>1, HoldersExclude DEF Inv
    <3> QED BY <1>4, <3>1, <3>2
  <2>4. ASSUME NEW j \in Cargo, jpc[j] = "addMember"
        PROVE  \/ suggStatus'[jsugg[j]] = "deleted"
               \/ \A d \in jset[j] : response'[jsugg[j]][d] = "none"
    <3>1. jsugg[j] \in Sugg /\ jset[j] \subseteq Cargo /\ Fresh(j)
      BY <2>4 DEF Inv, Typed, JobsTyped
    <3> QED BY <1>3, <1>4, <2>4, <3>1 DEF Fresh
  <2> QED BY <2>1, <2>2, <2>3, <2>4 DEF Spares
<1>10. AbsentIsEmpty'
  BY <1>2, <1>3, <1>4, <1>7 DEF Inv, AbsentIsEmpty, Progress
<1>11. CASE ~Merges(q)
  <2>1. MergedAreClosed'
    BY <1>8, <1>11 DEF Inv, MergedAreClosed, Merged
  <2>2. \A k \in Cons : Witnessed(k)'
    BY <1>7, <1>8, <1>11, WitnessKept
  <2> QED BY <1>5, <1>6, <1>7, <1>9, <1>10, <2>1, <2>2, Keeps
<1>12. CASE Merges(q)
  <2>1. PICK k \in Cons : members[k] = {} /\ members' = [members EXCEPT ![k] = Agreed(q)]
    BY <1>8, <1>12
  <2>2. members'[k] = Agreed(q) /\ \A l \in Cons : l # k => members'[l] = members[l]
    BY <2>1 DEF Inv, Typed, RowsTyped
  <2>3. Agreed(q) \subseteq Cargo /\ Cardinality(Agreed(q)) >= 2 /\ ~Waiting(q)
    BY <1>12 DEF Agreed, With, Merges
  <2>4. \A d \in Agreed(q) : response'[s][d] \in {"agreed", "declined"}
    BY <1>2, <1>3, <1>4 DEF Agreed, With
  <2>5. Resolved(s)'
    BY <1>4, <1>12, <2>3 DEF Resolved
  <2>6. Witnessed(k)'
    BY <1>2, <2>2, <2>3, <2>4, <2>5 DEF Witnessed
  <2>7. \A l \in Cons : Witnessed(l)'
    BY <1>7, <2>2, <2>6, WitnessKept
  <2>8. MergedAreClosed'
    <3>1. Merged' = Merged \cup Agreed(q)
      BY <2>1, <2>2 DEF Merged
    <3>2. {d \in Cargo : cargoStatus'[d] = "closed"}
             = {d \in Cargo : cargoStatus[d] = "closed"} \cup Agreed(q)
      BY <1>8, <1>12, <2>3 DEF ClosedBy
    <3> QED BY <3>1, <3>2 DEF Inv, MergedAreClosed
  <2> QED BY <1>5, <1>6, <1>7, <1>9, <1>10, <2>7, <2>8, Keeps
<1> QED BY <1>11, <1>12

-----------------------------------------------------------------------------
(* The steps of a selection or an offer.                                    *)

LEMMA RequestAlone ==
    ASSUME Inv, NEW r \in Req, UNCHANGED <<respVars, jobVars>>,
           \A p \in Req : p # r => pc'[p] = pc[p] /\ arg'[p] = arg[p]
    PROVE  Alone(r)
BY DEF Alone, respVars, jobVars

LEMMA RequestReady ==
    ASSUME NEW r \in Req, Selecting(r)'
    PROVE  Ready(r)
BY TxDisjoint DEF Ready

\* A request that waits for nothing, or has waited, and changes no row.
LEMMA MoveConsInv ==
    ASSUME Inv, Typed', NEW r \in Req, UNCHANGED <<cargoStatus, suggVars, respVars, jobVars>>,
           NEW l, Goto(r, l),
           UNCHANGED arg \/ \E a : arg' = [arg EXCEPT ![r] = a],
           \/ UNCHANGED held
           \/ \E row, mode : Available(held, r, row, mode) /\ held' = Grant(held, r, row, mode),
           Selecting(r)'
    PROVE  Inv' /\ Progress
<1>1. UNCHANGED Rows
  BY DEF suggVars, Rows
<1>2. Alone(r)
  BY RequestAlone DEF Goto, Inv, Typed, RequestsTyped
<1>3. Frame(r)
  BY GrantFrame, SameFrame DEF Inv
<1> QED BY <1>1, <1>2, <1>3, RequestReady, KeepsRows

\* A request that ends without closing the competition.
LEMMA FinishConsInv ==
    ASSUME Inv, Typed', NEW r \in Req, Finish(r),
           UNCHANGED <<cargoStatus, suggVars, respVars, jobVars>>
    PROVE  Inv' /\ Progress
<1>1. UNCHANGED Rows
  BY DEF suggVars, Rows
<1>2. Alone(r) /\ pc'[r] = "idle"
  BY RequestAlone DEF Finish, Inv, Typed, RequestsTyped
<1>3. Frame(r)
  BY ReleaseFrame DEF Finish, Inv
<1>4. Selecting(r)'
  BY <1>2 DEF Selecting, Guarded
<1> QED BY <1>1, <1>2, <1>3, <1>4, RequestReady, KeepsRows

LEMMA SelectInv ==
    ASSUME Inv, Typed', NEW r \in Req, SelectStep(r),
           UNCHANGED <<suggVars, respVars, jobVars>>
    PROVE  Inv' /\ Progress
<1>1. ASSUME Reject(r) PROVE Inv' /\ Progress
  BY <1>1, FinishConsInv DEF Reject, dbVars
<1>2. CASE LockClient(r)
  <2>1. pc'[r] = "lockCargo"
    BY <1>2 DEF LockClient, Goto, Inv, Typed, RequestsTyped
  <2>2. Selecting(r)'
    BY <2>1 DEF Selecting, Guarded
  <2> QED BY <1>2, <2>2, MoveConsInv DEF LockClient, dbVars
<1>3. CASE LockCargo(r)
  <2>1. CASE ~MaySelect(r)
    BY <1>1, <1>3, <2>1 DEF LockCargo
  <2>2. CASE MaySelect(r)
    <3>1. /\ Available(held, r, arg[r].cargo, "forUpdate")
          /\ held' = Grant(held, r, arg[r].cargo, "forUpdate")
          /\ Goto(r, "checkLimit") /\ UNCHANGED <<cargoStatus, arg>>
      BY <1>3, <2>2 DEF LockCargo, dbVars
    <3>2. Selecting(r)'
      BY <2>2, <3>1 DEF Selecting, MaySelect, Holds, Grant
    <3> QED BY <3>1, <3>2, MoveConsInv
  <2> QED BY <2>1, <2>2
<1>4. CASE CheckLimit(r)
  <2>1. CASE ~WithinLimit(r)
    BY <1>1, <1>4, <2>1 DEF CheckLimit
  <2>2. CASE WithinLimit(r)
    <3>1. Goto(r, "insertReveal") /\ UNCHANGED <<cargoStatus, held, arg>> /\ pc[r] = "checkLimit"
      BY <1>4, <2>2 DEF CheckLimit, dbVars
    <3>2. Selecting(r)'
      BY <3>1 DEF Inv, Selecting, Guarded, MaySelect
    <3> QED BY <3>1, <3>2, MoveConsInv
  <2> QED BY <2>1, <2>2
<1>5. CASE InsertReveal(r)
  <2>1. /\ Goto(r, "commit") /\ UNCHANGED <<cargoStatus, arg>> /\ pc[r] = "insertReveal"
        /\ Available(held, r, Author[arg[r].offer], "keyShare")
        /\ held' = Grant(held, r, Author[arg[r].offer], "keyShare")
    BY <1>5 DEF InsertReveal, dbVars
  <2>2. Selecting(r)'
    BY <2>1 DEF Inv, Selecting, Guarded, MaySelect, Holds, Grant
  <2> QED BY <2>1, <2>2, MoveConsInv
<1>6. CASE CommitSelect(r)
  <2>1. PICK c \in Cargo : c = arg[r].cargo
    BY <1>6 DEF CommitSelect, Inv, Typed, RequestsTyped, Arg
  <2>2. /\ pc[r] = "commit" /\ Finish(r) /\ UNCHANGED <<suggStatus, response, members>>
        /\ cargoStatus' = [cargoStatus EXCEPT ![c] = "matched"]
    BY <1>6, <2>1 DEF CommitSelect, suggVars
  <2>3. Holds(held, r, c, "forUpdate") /\ cargoStatus[c] = "open"
    BY <2>1, <2>2 DEF Inv, Selecting, Guarded, MaySelect
  <2>4. Alone(r) /\ pc'[r] = "idle"
    BY <2>2, RequestAlone DEF Finish, Inv, Typed, RequestsTyped
  <2>5. Frame(r)
    BY <2>2, ReleaseFrame DEF Finish, Inv
  <2>6. Ready(r)
    BY <2>4, RequestReady DEF Selecting, Guarded
  <2>7. Progress
    BY <2>2 DEF Progress, Resolved
  <2>8. \A p \in Req : (p # r /\ pc[p] \in Guarded) => arg[p].cargo # c
    BY <2>3, HoldersExclude DEF Inv, Selecting
  <2>9. Spares(r)
    <3>1. \A p \in Req : (p # r /\ pc[p] \in Guarded) =>
             cargoStatus'[arg[p].cargo] = cargoStatus[arg[p].cargo]
      BY <2>2, <2>8 DEF Inv, Typed, RowsTyped
    <3> QED BY <2>2, <3>1, SparesSuggestions
  <2>10. AbsentIsEmpty' /\ MergedAreClosed'
    <3>1. \A d \in Cargo : cargoStatus'[d] = "closed" <=> cargoStatus[d] = "closed"
      BY <2>2, <2>3 DEF Inv, Typed, RowsTyped
    <3> QED BY <2>2, <3>1 DEF Inv, AbsentIsEmpty, MergedAreClosed, Merged
  <2>11. \A k \in Cons : Witnessed(k)'
    BY <2>2, <2>7, WitnessKept
  <2> QED BY <2>4, <2>6, <2>7, <2>9, <2>10, <2>11, <2>5, Keeps
<1> QED BY <1>2, <1>3, <1>4, <1>5, <1>6 DEF SelectStep

LEMMA RequestInv ==
    ASSUME Inv, Typed', CompetitionStep, UNCHANGED <<suggVars, respVars, jobVars>>
    PROVE  Inv' /\ Progress
<1>1. PICK r \in Req : \/ \E o \in Offer : \/ BeginOffer(r, o)
                                           \/ BeginSelect(r, Owner[CargoOf[o]], CargoOf[o], o)
                       \/ RequestStep(r)
                       \/ Abort(r)
  BY DEF CompetitionStep
<1>2. ASSUME NEW o \in Offer,
             BeginOffer(r, o) \/ BeginSelect(r, Owner[CargoOf[o]], CargoOf[o], o)
      PROVE  Inv' /\ Progress
  <2>1. PICK l \in {"insertOffer", "lockClient"} :
           /\ Goto(r, l) /\ UNCHANGED <<cargoStatus, held>>
           /\ \E a : arg' = [arg EXCEPT ![r] = a]
    BY <1>2 DEF BeginOffer, BeginSelect, dbVars
  <2>2. Selecting(r)'
    BY <2>1 DEF Selecting, Guarded, Goto, Inv, Typed, RequestsTyped
  <2> QED BY <2>1, <2>2, MoveConsInv
<1>3. CASE SelectStep(r)
  BY <1>3, SelectInv
<1>4. CASE InsertOffer(r)
  BY <1>4, FinishConsInv DEF InsertOffer
<1>5. CASE Abort(r)
  BY <1>5, FinishConsInv DEF Abort, Reject, dbVars
<1> QED BY <1>1, <1>2, <1>3, <1>4, <1>5 DEF RequestStep

-----------------------------------------------------------------------------
(* The results.                                                             *)

LEMMA StartInv == ConsInit => Inv
<1> SUFFICES ASSUME ConsInit PROVE Inv
  OBVIOUS
<1>1. Typed
  BY TypedStart
<1>2. LocksCompatible /\ \A r \in Req : Selecting(r)
  BY DEF ConsInit, Init, LocksCompatible, Selecting, Guarded
<1>3. \A q \in Resp : AnswerLocked(q) /\ AnswerKnows(q)
  BY DEF ConsInit, AnswerLocked, AnswerKnows
<1>4. \A j \in Cargo : Doomed(j) /\ Fresh(j)
  BY DEF ConsInit, Doomed, Fresh
<1>5. AbsentIsEmpty /\ \A k \in Cons : Witnessed(k)
  BY DEF ConsInit, AbsentIsEmpty, Witnessed
<1>6. MergedAreClosed
  BY DEF ConsInit, Init, MergedAreClosed, Merged
<1> QED BY <1>1, <1>2, <1>3, <1>4, <1>5, <1>6 DEF Inv

LEMMA StepInv == Inv /\ [ConsNext]_consVars => Inv' /\ Progress
<1> SUFFICES ASSUME Inv, [ConsNext]_consVars PROVE Inv' /\ Progress
  OBVIOUS
<1>0. Typed'
  BY StepTyped DEF Inv
<1>1. CASE UNCHANGED consVars
  <2>1. UNCHANGED <<Rows, held, pc, arg, respVars, jobVars>>
    BY <1>1 DEF consVars, vars, dbVars, reqVars, suggVars, Rows
  <2>2. Progress
    BY <2>1 DEF Progress, Resolved, Rows
  <2>3. LocksCompatible' /\ \A r \in Req : Selecting(r)'
    BY <2>1 DEF Inv, LocksCompatible, Selecting, MaySelect, Rows
  <2>4. ASSUME NEW q \in Resp PROVE AnswerLocked(q)' /\ AnswerKnows(q)'
    <3>1. UNCHANGED <<held, rpc, rarg, seen, toClose, suggStatus, response>>
      BY <2>1 DEF respVars, Rows
    <3>2. AnswerLocked(q) /\ AnswerKnows(q)
      BY DEF Inv
    <3>3. AnswerLocked(q)'
      BY <3>1, <3>2, SameDecision DEF AnswerLocked
    <3> QED BY <3>1, <3>2, <3>3 DEF AnswerKnows
  <2>5. \A j \in Cargo : Doomed(j)' /\ Fresh(j)'
    BY <2>1 DEF Inv, Doomed, Fresh, jobVars, Rows
  <2>6. AbsentIsEmpty' /\ MergedAreClosed' /\ \A k \in Cons : Witnessed(k)'
    BY <2>1, <2>2, WitnessKept DEF Inv, AbsentIsEmpty, MergedAreClosed, Merged, Rows
  <2> QED BY <1>0, <2>2, <2>3, <2>4, <2>5, <2>6 DEF Inv
<1>2. ASSUME NEW j \in Cargo, SubmitCargo(j) \/ JobStep(j) \/ JobAbort(j)
      PROVE  Inv' /\ Progress
  BY <1>0, <1>2, SubmitCargoInv, JobReadsInv, JobLockDoomedInv, JobCascadeInv, JobCreateInv,
     JobAddMemberInv, JobAbortInv DEF JobStep
<1>3. ASSUME NEW q \in Resp,
             \/ \E s \in Sugg, c \in Cargo, a \in {"agreed", "declined"} : BeginAnswer(q, s, c, a)
             \/ AnswerStep(q) \/ RespAbort(q)
      PROVE  Inv' /\ Progress
  BY <1>0, <1>3, BeginAnswerInv, ListMembersInv, SetResponseInv, CloseCargoInv, NotifyOwnerInv,
     ResolveInv, CommitAnswerInv, DropInv DEF AnswerStep, RespAbort
<1>4. CASE CompetitionStep /\ UNCHANGED <<suggVars, respVars, jobVars>>
  BY <1>0, <1>4, RequestInv
<1> QED BY <1>1, <1>2, <1>3, <1>4 DEF ConsNext

\* In every reachable state, whatever answers, jobs and selections run at the
\* same time on the same cargos, the closed cargos are the merged ones: the
\* merge takes their rows before it commits, and a selection that holds a row
\* keeps its cargo open.
THEOREM MergedCargosClosed == ConsSpec => []MergedAreClosed
<1>1. ConsInit => Inv
  BY StartInv
<1>2. Inv /\ [ConsNext]_consVars => Inv'
  BY StepInv
<1>3. Inv => MergedAreClosed
  BY DEF Inv
<1> QED BY <1>1, <1>2, <1>3, PTL DEF ConsSpec

\* A consolidated request always joins two cargos or more, all of them answered
\* in a suggestion that was resolved and can no longer be dissolved, although
\* the merge decides on rows that it has listed without a lock.
THEOREM MergesAnswered == ConsSpec => []MergeHasAnswers
<1>1. ConsInit => Inv
  BY StartInv
<1>2. Inv /\ [ConsNext]_consVars => Inv'
  BY StepInv
<1>3. Inv => MergeHasAnswers
  BY DEF Inv, Witnessed, MergeHasAnswers
<1> QED BY <1>1, <1>2, <1>3, PTL DEF ConsSpec

\* No step brings a deleted suggestion back, reopens a resolved one, or takes
\* an answer back to "pending" or away, short of deleting the suggestion.
THEOREM AnswersAreKept == ConsSpec => [][Progress]_consVars
<1>1. ConsInit => Inv
  BY StartInv
<1>2. Inv /\ [ConsNext]_consVars => Inv' /\ Progress
  BY StepInv
<1> QED BY <1>1, <1>2, PTL DEF ConsSpec

-----------------------------------------------------------------------------
(* The competition, although its cargos are merged away underneath it.      *)

\* An offer that is being recorded is new, one that is being selected exists
\* and belongs to the cargo, and a cargo that can still be selected for has
\* no selected offer.
Claims == \A r \in Req : pc[r] \in {"insertReveal", "commit"} =>
    /\ offerStatus[arg[r].offer] # "absent"
    /\ CargoOf[arg[r].offer] = arg[r].cargo
OpenUnsold == \A c \in Cargo : cargoStatus[c] \in {"absent", "open"} => SelectedOffers(c) = {}
Sales == /\ offerStatus \in [Offer -> {"absent", "submitted", "selected"}]
         /\ OfferFresh /\ Claims /\ OpenUnsold

\* What is not the commit of a selection opens no cargo a second time.
NotReopened == \A c \in Cargo :
    cargoStatus'[c] \in {"absent", "open"} => cargoStatus[c] \in {"absent", "open"}

LEMMA StartSales == ConsInit => Sales
BY DEF ConsInit, Init, Sales, OfferFresh, Claims, OpenUnsold, SelectedOffers

LEMMA UnsoldKept ==
    ASSUME OpenUnsold, NotReopened, UNCHANGED offerStatus
    PROVE  OpenUnsold'
BY DEF OpenUnsold, NotReopened, SelectedOffers

\* Matching jobs and answers neither insert an offer nor select one.
LEMMA ConsolidationSales ==
    ASSUME Inv, Sales, [ConsNext]_consVars, ~CompetitionStep
    PROVE  Sales' /\ UNCHANGED <<offerStatus, reveals>>
<1> USE DEF vars, dbVars, reqVars
<1> DEFINE Elsewhere == UNCHANGED <<offerStatus, reveals, pc, arg>> /\ NotReopened
<1>1. ASSUME NEW c \in Cargo, SubmitCargo(c) PROVE Elsewhere
  BY <1>1 DEF SubmitCargo, CreateCargo, NotReopened, Inv, Typed, RowsTyped
<1>2. ASSUME NEW c \in Cargo, JobStep(c) \/ JobAbort(c) PROVE Elsewhere
  BY <1>2 DEF JobStep, JobDelete, JobLockDoomed, JobCascade, JobList, JobGroup, JobCreate,
     JobAddMember, JobAbort, NotReopened
<1>3. ASSUME NEW q \in Resp, NEW s \in Sugg, NEW c \in Cargo, NEW a, BeginAnswer(q, s, c, a)
      PROVE  Elsewhere
  BY <1>3 DEF BeginAnswer, NotReopened
<1>4. ASSUME NEW q \in Resp, AnswerStep(q) \/ RespAbort(q) PROVE Elsewhere
  <2>1. CASE CommitAnswer(q)
    BY <2>1 DEF CommitAnswer, ClosedBy, NotReopened
  <2>2. CASE ~CommitAnswer(q)
    BY <1>4, <2>2 DEF AnswerStep, ListMembers, SetResponse, CloseCargo, NotifyOwner, Resolve,
       RespAbort, RespEnd, NotReopened
  <2> QED BY <2>1, <2>2
<1>5. Elsewhere
  <2>1. CASE UNCHANGED consVars
    BY <2>1 DEF consVars, NotReopened
  <2>2. CASE ConsNext
    BY <2>2, <1>1, <1>2, <1>3, <1>4 DEF ConsNext
  <2> QED BY <2>1, <2>2
<1> QED BY <1>5, UnsoldKept DEF Sales, OfferFresh, Claims

\* A selection that commits knows its offer, and that the cargo is unsold.
LEMMA CommitKnows ==
    ASSUME Inv, Sales, NEW r \in Req, CommitSelect(r)
    PROVE  LET u == arg[r].user  c == arg[r].cargo  o == arg[r].offer
           IN /\ u \in User /\ c \in Cargo /\ o \in Offer
              /\ CargoOf[o] = c /\ offerStatus[o] # "absent"
              /\ SelectedOffers(c) = {}
              /\ cargoStatus' = [cargoStatus EXCEPT ![c] = "matched"]
              /\ offerStatus' = [offerStatus EXCEPT ![o] = "selected"]
              /\ reveals' = reveals \cup {[client |-> u, participant |-> Author[o], cargo |-> c]}
<1>1. pc[r] = "commit"
  BY DEF CommitSelect
<1>2. arg[r].user \in User /\ arg[r].cargo \in Cargo /\ arg[r].offer \in Offer
  BY <1>1 DEF Inv, Typed, RequestsTyped, Arg
<1>3. MaySelect(r)
  BY <1>1 DEF Inv, Selecting, Guarded
<1>4. offerStatus[arg[r].offer] # "absent" /\ CargoOf[arg[r].offer] = arg[r].cargo
  BY <1>1 DEF Sales, Claims
<1>5. SelectedOffers(arg[r].cargo) = {}
  BY <1>2, <1>3 DEF Sales, OpenUnsold, MaySelect
<1> QED BY <1>2, <1>4, <1>5 DEF CommitSelect

\* The award is one step of the competition.
LEMMA CommitSells ==
    ASSUME Inv, Sales, NEW r \in Req, CommitSelect(r)
    PROVE  OpenUnsold' /\ \E o \in Offer : Comp!Award(o)
<1>1. PICK u \in User, c \in Cargo, o \in Offer :
        /\ CargoOf[o] = c /\ offerStatus[o] # "absent" /\ SelectedOffers(c) = {}
        /\ cargoStatus' = [cargoStatus EXCEPT ![c] = "matched"]
        /\ offerStatus' = [offerStatus EXCEPT ![o] = "selected"]
        /\ reveals' = reveals \cup {[client |-> u, participant |-> Author[o], cargo |-> c]}
  BY CommitKnows
<1>2. \A p \in Offer : offerStatus'[p] = IF p = o THEN "selected" ELSE offerStatus[p]
  BY <1>1 DEF Sales
<1>3. SelectedOffers(c)' = {o}
  <2>1. \A p \in Offer : CargoOf[p] = c => offerStatus[p] # "selected"
    BY <1>1 DEF SelectedOffers
  <2> QED BY <1>1, <1>2, <2>1 DEF SelectedOffers
<1>4. ASSUME NEW d \in Cargo, d # c PROVE SelectedOffers(d)' = SelectedOffers(d)
  BY <1>1, <1>2, <1>4 DEF SelectedOffers
<1>5. OpenUnsold'
  <2>1. \A d \in Cargo : cargoStatus'[d] = IF d = c THEN "matched" ELSE cargoStatus[d]
    BY <1>1 DEF Inv, Typed, RowsTyped
  <2> QED BY <1>4, <2>1 DEF Sales, OpenUnsold
<1>6. WinnerMap[c] = NoBid /\ WinnerMap' = [WinnerMap EXCEPT ![c] = o]
  <2>1. TheOne({}) = NoBid /\ TheOne({o}) = o
    BY DEF TheOne
  <2> QED BY <1>1, <1>3, <1>4, <2>1 DEF WinnerMap
<1>7. Bids' = Bids /\ o \in Bids
  BY <1>1, <1>2 DEF Bids
<1>8. Revealed' = Revealed \cup {<<c, Author[o]>>}
  <2> DEFINE x == [client |-> u, participant |-> Author[o], cargo |-> c]
  <2>1. reveals' = reveals \cup {x} /\ x.cargo = c /\ x.participant = Author[o]
    BY <1>1
  <2> HIDE DEF x
  <2> QED BY <2>1 DEF Revealed
<1>9. Comp!Award(o)
  BY <1>1, <1>6, <1>7, <1>8 DEF Comp!Award, WinnerMap, Bids, Revealed
<1> QED BY <1>5, <1>9

\* An inserted offer is a new bid.
LEMMA InsertBids ==
    ASSUME Inv, Sales, NEW r \in Req, InsertOffer(r)
    PROVE  OpenUnsold' /\ \E o \in Offer : Comp!Submit(o)
<1>1. PICK o \in Offer :
        /\ offerStatus[o] = "absent"
        /\ offerStatus' = [offerStatus EXCEPT ![o] = "submitted"]
        /\ UNCHANGED <<cargoStatus, reveals>>
  BY DEF InsertOffer, Sales, OfferFresh, Inv, Typed, RequestsTyped, Arg
<1>2. Bids' = Bids \cup {o}
  BY <1>1 DEF Bids, Sales
<1>3. \A c \in Cargo : SelectedOffers(c)' = SelectedOffers(c)
  BY <1>1 DEF SelectedOffers, Sales
<1>4. WinnerMap' = WinnerMap
  BY <1>3, Zenon DEF WinnerMap
<1>5. Revealed' = Revealed
  BY <1>1 DEF Revealed
<1>6. OpenUnsold'
  BY <1>1, <1>3 DEF Sales, OpenUnsold
<1>7. Comp!Submit(o)
  BY <1>1, <1>2, <1>4, <1>5 DEF Comp!Submit, WinnerMap, Bids, Revealed
<1> QED BY <1>6, <1>7

\* The rest of a request changes no offer, and checks before it claims one.
LEMMA RequestClaims ==
    ASSUME Inv, Sales, NEW r \in Req,
           \/ RequestStep(r) \/ Abort(r)
           \/ \E o \in Offer : BeginOffer(r, o) \/ BeginSelect(r, Owner[CargoOf[o]], CargoOf[o], o)
    PROVE  /\ offerStatus' \in [Offer -> {"absent", "submitted", "selected"}]
           /\ OfferFresh' /\ Claims'
           /\ InsertOffer(r) \/ CommitSelect(r) \/ UNCHANGED <<cargoStatus, offerStatus, reveals>>
<1> USE DEF dbVars, Goto, Finish, Reject
<1>1. /\ pc \in [Req -> PC] /\ arg \in [Req -> Arg \cup {NoArg}]
      /\ \A q \in Req : pc[q] # "idle" => arg[q] \in Arg
  BY DEF Inv, Typed, RequestsTyped
<1>2. CASE InsertOffer(r)
  <2>1. PICK o \in Offer : /\ pc[r] = "insertOffer" /\ o = arg[r].offer
                           /\ offerStatus' = [offerStatus EXCEPT ![o] = "submitted"]
                           /\ pc' = [pc EXCEPT ![r] = "idle"]
                           /\ arg' = [arg EXCEPT ![r] = NoArg]
    BY <1>1, <1>2 DEF InsertOffer, Arg
  <2>2. \A p \in Offer : offerStatus'[p] = IF p = o THEN "submitted" ELSE offerStatus[p]
    BY <2>1 DEF Sales
  <2>3. \A q \in Req : IF q = r THEN pc'[q] = "idle" ELSE pc'[q] = pc[q] /\ arg'[q] = arg[q]
    BY <1>1, <2>1
  <2>4. \A q \in Req : pc[q] # "idle" => arg[q].offer \in Offer
    BY <1>1 DEF Arg
  <2>5. OfferFresh'
    BY <2>1, <2>2, <2>3, <2>4 DEF Sales, OfferFresh
  <2>6. Claims'
    BY <2>1, <2>2, <2>3, <2>4 DEF Sales, Claims
  <2>7. offerStatus' \in [Offer -> {"absent", "submitted", "selected"}]
    BY <2>1 DEF Sales
  <2> QED BY <1>2, <2>5, <2>6, <2>7
<1>3. CASE CommitSelect(r)
  <2>1. PICK o \in Offer : /\ pc[r] = "commit" /\ o = arg[r].offer /\ offerStatus[o] # "absent"
                           /\ offerStatus' = [offerStatus EXCEPT ![o] = "selected"]
                           /\ pc' = [pc EXCEPT ![r] = "idle"]
                           /\ arg' = [arg EXCEPT ![r] = NoArg]
    BY <1>1, <1>3 DEF CommitSelect, Arg, Sales, Claims
  <2>2. \A p \in Offer : offerStatus'[p] = IF p = o THEN "selected" ELSE offerStatus[p]
    BY <2>1 DEF Sales
  <2>3. \A q \in Req : IF q = r THEN pc'[q] = "idle" ELSE pc'[q] = pc[q] /\ arg'[q] = arg[q]
    BY <1>1, <2>1
  <2>4. \A q \in Req : pc[q] # "idle" => arg[q].offer \in Offer
    BY <1>1 DEF Arg
  <2>5. OfferFresh'
    BY <2>1, <2>2, <2>3, <2>4 DEF Sales, OfferFresh
  <2>6. Claims'
    BY <2>1, <2>2, <2>3, <2>4 DEF Sales, Claims
  <2>7. offerStatus' \in [Offer -> {"absent", "submitted", "selected"}]
    BY <2>1 DEF Sales
  <2> QED BY <1>3, <2>5, <2>6, <2>7
<1>4. ASSUME NEW o \in Offer, BeginOffer(r, o)
      PROVE  OfferFresh' /\ Claims' /\ UNCHANGED <<cargoStatus, offerStatus, reveals>>
  <2>1. /\ pc' = [pc EXCEPT ![r] = "insertOffer"]
        /\ arg' = [arg EXCEPT ![r] = [user |-> Author[o], cargo |-> CargoOf[o], offer |-> o]]
        /\ UNCHANGED <<cargoStatus, offerStatus, reveals>>
        /\ pc[r] = "idle" /\ offerStatus[o] = "absent"
        /\ \A q \in Req : pc[q] = "insertOffer" => arg[q].offer # o
    BY <1>4 DEF BeginOffer
  <2>2. \A q \in Req : IF q = r THEN pc'[q] = "insertOffer" /\ arg'[q].offer = o
                                ELSE pc'[q] = pc[q] /\ arg'[q] = arg[q]
    BY <1>1, <2>1
  <2> QED BY <2>1, <2>2 DEF Sales, OfferFresh, Claims
<1>5. ASSUME ~InsertOffer(r), ~CommitSelect(r), \A o \in Offer : ~BeginOffer(r, o)
      PROVE  OfferFresh' /\ Claims' /\ UNCHANGED <<cargoStatus, offerStatus, reveals>>
  <2>1. /\ UNCHANGED <<cargoStatus, offerStatus, reveals>>
        /\ \A q \in Req : q # r => pc'[q] = pc[q] /\ arg'[q] = arg[q]
    BY <1>1, <1>5 DEF RequestStep, SelectStep, LockClient, LockCargo, CheckLimit, InsertReveal,
       Abort, BeginSelect
  <2>2. pc'[r] # "insertOffer"
    BY <1>1, <1>5 DEF RequestStep, SelectStep, LockClient, LockCargo, CheckLimit, InsertReveal,
       Abort, BeginSelect
  <2>3. pc'[r] \in {"insertReveal", "commit"} =>
          /\ arg'[r] = arg[r]
          /\ pc[r] \in {"insertReveal", "commit"} \/ WithinLimit(r)
    BY <1>1, <1>5 DEF RequestStep, SelectStep, LockClient, LockCargo, CheckLimit, InsertReveal,
       Abort, BeginSelect
  <2>4. OfferFresh'
    BY <2>1, <2>2 DEF Sales, OfferFresh
  <2>5. Claims'
    BY <2>1, <2>3 DEF Sales, Claims, WithinLimit
  <2> QED BY <2>1, <2>4, <2>5
<1>6. CASE \E o \in Offer : BeginOffer(r, o)
  BY <1>4, <1>6 DEF Sales
<1>7. CASE ~InsertOffer(r) /\ ~CommitSelect(r) /\ ~\E o \in Offer : BeginOffer(r, o)
  BY <1>5, <1>7 DEF Sales
<1> QED BY <1>2, <1>3, <1>6, <1>7

\* The competition of single cargos survives the merges: selections, answers
\* and matching jobs interleave in any order on the same rows, and still a bid
\* is anonymous until it wins, the award is one step, and a cargo that was
\* awarded is not awarded again -- not even after a merge closed it.
THEOREM CompetitionSurvivesMerges == ConsSpec => ImplementsCompetition
<1>1. Inv /\ Sales /\ [ConsNext]_consVars => Sales' /\ [Comp!Next]_(Comp!compVars)
  <2> SUFFICES ASSUME Inv, Sales, [ConsNext]_consVars
               PROVE  Sales' /\ [Comp!Next]_(Comp!compVars)
    OBVIOUS
  <2>1. UNCHANGED <<offerStatus, reveals>> => UNCHANGED Comp!compVars
    <3> SUFFICES ASSUME UNCHANGED <<offerStatus, reveals>> PROVE UNCHANGED Comp!compVars
      OBVIOUS
    <3>1. UNCHANGED <<WinnerMap, Bids, Revealed>>
      BY DEF WinnerMap, SelectedOffers, Bids, Revealed
    <3> QED BY <3>1 DEF Comp!compVars, WinnerMap, Bids, Revealed
  <2>2. CASE ~CompetitionStep
    BY <2>1, <2>2, ConsolidationSales
  <2>3. CASE CompetitionStep
    <3>1. PICK r \in Req :
            \/ RequestStep(r) \/ Abort(r)
            \/ \E o \in Offer : BeginOffer(r, o) \/ BeginSelect(r, Owner[CargoOf[o]], CargoOf[o], o)
      BY <2>3 DEF CompetitionStep
    <3>2. /\ offerStatus' \in [Offer -> {"absent", "submitted", "selected"}]
          /\ OfferFresh' /\ Claims'
          /\ InsertOffer(r) \/ CommitSelect(r) \/ UNCHANGED <<cargoStatus, offerStatus, reveals>>
      BY <3>1, RequestClaims
    <3>3. OpenUnsold' /\ [Comp!Next]_(Comp!compVars)
      <4>1. CASE InsertOffer(r)
        BY <4>1, InsertBids DEF Comp!Next
      <4>2. CASE CommitSelect(r)
        BY <4>2, CommitSells DEF Comp!Next
      <4>3. CASE UNCHANGED <<cargoStatus, offerStatus, reveals>>
        BY <2>1, <4>3, UnsoldKept DEF NotReopened, Sales
      <4> QED BY <3>2, <4>1, <4>2, <4>3
    <3> QED BY <3>2, <3>3 DEF Sales
  <2> QED BY <2>2, <2>3
<1>2. ConsInit => Inv /\ Sales /\ Comp!Init
  BY StartInv, StartSales, InitCompetition DEF ConsInit
<1> QED
  BY <1>1, <1>2, StepInv, PTL DEF ConsSpec, ImplementsCompetition, Comp!Spec

-----------------------------------------------------------------------------
(* One answer and one matching job at a time, beside any selections.  The    *)
(* runs on two of them show that nothing but the load of the server keeps    *)
(* the following promises; here is that the load is all they depend on.      *)

Serial == IsFiniteSet(Cargo) /\ MaxJobs = 1 /\ \A p, q \in Resp : p = q

OneJob == \A i, j \in Cargo : (jpc[i] # "idle" /\ jpc[j] # "idle") => i = j

\* What the answer has listed is still so, except for members added since.
Current(q) ==
    LET s == rarg[q].sugg  c == rarg[q].cargo
    IN /\ rpc[q] # "idle" => suggStatus[s] \in {"suggested", "deleted"}
       /\ (rpc[q] \notin {"idle", "listMembers"} /\ suggStatus[s] # "deleted") =>
            /\ seen[q][c] = rarg[q].answer
            /\ \A d \in Cargo \ {c} : seen[q][d] # "none" => response[s][d] = seen[q][d]

\* The candidates of a job stay free until it adds them.
PoolFree(j) == jpc[j] \in {"group", "create", "addMember"} =>
    /\ jpool[j] \cap jset[j] = {}
    /\ \A c \in jpool[j] \cup jset[j], s \in Sugg : Active(s) => response[s][c] = "none"

SomePending(s) == (suggStatus[s] = "suggested" /\ response[s] # NoRows) =>
    With(response[s], "pending") # {}

\* A merged cargo has its suggestion, which keeps it out of every other.
Claimed(c) == \E s \in Sugg : suggStatus[s] = "both_agreed" /\ response[s][c] # "none"
MergedClaimed == \A k \in Cons : \A c \in members[k] : Claimed(c)

SerialRows == /\ \A s \in Sugg : SomePending(s)
              /\ OneSuggestionAtATime /\ MergedClaimed /\ MergedOnce
SerialInv == /\ OneJob
             /\ \A j \in Cargo : PoolFree(j)
             /\ \A q \in Resp : Current(q)
             /\ SerialRows

\* Selections and offers concern none of it.
LEMMA SerialSame ==
    ASSUME SerialInv, UNCHANGED <<suggVars, respVars, jobVars>>
    PROVE  SerialInv'
<1> USE DEF suggVars, respVars, jobVars
<1>1. OneJob' /\ \A j \in Cargo : PoolFree(j)'
  BY DEF SerialInv, OneJob, PoolFree, Active
<1>2. \A q \in Resp : Current(q)'
  BY DEF SerialInv, Current
<1>3. SerialRows'
  BY DEF SerialInv, SerialRows, SomePending, OneSuggestionAtATime, Active, MergedClaimed,
         Claimed, MergedOnce
<1> QED BY <1>1, <1>2, <1>3 DEF SerialInv

\* A job that moves is the only one, before and after.
LEMMA OnlyJob ==
    ASSUME SerialInv, NEW j \in Cargo, \A i \in Cargo : i # j => jpc'[i] = jpc[i],
           PoolFree(j)', jpc[j] # "idle" \/ \A i \in Cargo : jpc[i] = "idle"
    PROVE  OneJob' /\ \A i \in Cargo : PoolFree(i)'
<1>1. \A i \in Cargo : i # j => jpc'[i] = "idle"
  BY DEF SerialInv, OneJob
<1> QED BY <1>1 DEF OneJob, PoolFree

\* A statement of a job that changes nothing of the suggestions.
LEMMA JobSerial ==
    ASSUME SerialInv, NEW j \in Cargo, UNCHANGED <<suggVars, respVars>>,
           \A i \in Cargo : i # j => jpc'[i] = jpc[i],
           PoolFree(j)', jpc[j] # "idle" \/ \A i \in Cargo : jpc[i] = "idle"
    PROVE  SerialInv'
<1>1. OneJob' /\ \A i \in Cargo : PoolFree(i)'
  BY OnlyJob
<1>2. \A q \in Resp : Current(q)'
  BY DEF SerialInv, Current, suggVars, respVars
<1>3. SerialRows'
  BY DEF SerialInv, SerialRows, SomePending, OneSuggestionAtATime, Active, MergedClaimed,
         Claimed, MergedOnce, suggVars
<1> QED BY <1>1, <1>2, <1>3 DEF SerialInv

\* A statement of the answer that changes nothing of the suggestions.
LEMMA AnswerSerial ==
    ASSUME Serial, SerialInv, NEW q \in Resp, UNCHANGED <<suggVars, jobVars>>, Current(q)'
    PROVE  SerialInv'
<1>1. OneJob' /\ \A j \in Cargo : PoolFree(j)'
  BY DEF SerialInv, OneJob, PoolFree, Active, suggVars, jobVars
<1>2. \A p \in Resp : Current(p)'
  BY DEF Serial
<1>3. SerialRows'
  BY DEF SerialInv, SerialRows, SomePending, OneSuggestionAtATime, Active, MergedClaimed,
         Claimed, MergedOnce, suggVars
<1> QED BY <1>1, <1>2, <1>3 DEF SerialInv

LEMMA SubmitSerial ==
    ASSUME Serial, Inv, SerialInv, NEW j \in Cargo, SubmitCargo(j)
    PROVE  SerialInv'
<1>1. /\ Cardinality({i \in Cargo : jpc[i] # "idle"}) < MaxJobs
      /\ JobTo(j, "delete", {}) /\ UNCHANGED <<suggVars, respVars>>
  BY DEF SubmitCargo
<1>2. \A i \in Cargo : jpc[i] = "idle"
  <2> DEFINE busy == {i \in Cargo : jpc[i] # "idle"}
  <2>1. IsFiniteSet(busy)
    BY FS_Subset DEF Serial
  <2>2. Cardinality(busy) \in Nat /\ (Cardinality(busy) = 0 <=> busy = {})
    BY <2>1, FS_CardinalityType, FS_EmptySet
  <2>3. busy = {}
    BY <1>1, <2>2 DEF Serial
  <2> QED BY <2>3
<1>3. jpc'[j] = "delete" /\ \A i \in Cargo : i # j => jpc'[i] = jpc[i]
  BY <1>1 DEF JobTo, Inv, Typed, JobsTyped
<1>4. PoolFree(j)'
  BY <1>3 DEF PoolFree
<1> QED BY <1>1, <1>2, <1>3, <1>4, JobSerial

\* The end of a job.
LEMMA EndSerial ==
    ASSUME Inv, SerialInv, NEW j \in Cargo, jpc[j] # "idle", JobEnd(j),
           UNCHANGED <<suggVars, respVars>>
    PROVE  SerialInv'
<1>1. jpc'[j] = "idle" /\ \A i \in Cargo : i # j => jpc'[i] = jpc[i]
  BY DEF JobEnd, Inv, Typed, JobsTyped
<1>2. PoolFree(j)'
  BY <1>1 DEF PoolFree
<1> QED BY <1>1, <1>2, JobSerial

LEMMA JobReadsSerial ==
    ASSUME Inv, SerialInv, NEW j \in Cargo,
           JobDelete(j) \/ JobLockDoomed(j) \/ JobList(j) \/ JobGroup(j) \/ JobAbort(j)
    PROVE  SerialInv'
<1>1. UNCHANGED <<suggVars, respVars>> /\ jpc[j] # "idle"
  BY DEF JobDelete, JobLockDoomed, JobList, JobGroup, JobAbort
<1>2. CASE JobEnd(j)
  BY <1>1, <1>2, EndSerial
<1>3. CASE JobDelete(j) \/ JobLockDoomed(j)
  <2>1. jpc'[j] = "lockDoomed" /\ \A i \in Cargo : i # j => jpc'[i] = jpc[i]
    BY <1>3 DEF JobDelete, JobLockDoomed, JobTo, jobVars, Inv, Typed, JobsTyped
  <2>2. PoolFree(j)'
    BY <2>1 DEF PoolFree
  <2> QED BY <1>1, <2>1, <2>2, JobSerial
<1>4. CASE JobTo(j, "group", {}) /\ jpool' = [jpool EXCEPT ![j] = FreeCargos]
  <2>1. /\ jpc'[j] = "group" /\ \A i \in Cargo : i # j => jpc'[i] = jpc[i]
        /\ jset'[j] = {} /\ jpool'[j] = FreeCargos
    BY <1>4 DEF JobTo, Inv, Typed, JobsTyped
  <2>2. PoolFree(j)'
    BY <1>1, <2>1 DEF PoolFree, FreeCargos, Active, suggVars
  <2> QED BY <1>1, <2>1, <2>2, JobSerial
<1>5. ASSUME NEW group \in SUBSET jpool[j], NEW kept \in Kept(group), jpc[j] = "group",
             JobTo(j, "create", kept), jpool' = [jpool EXCEPT ![j] = @ \ group]
      PROVE  SerialInv'
  <2>1. /\ jpc'[j] = "create" /\ \A i \in Cargo : i # j => jpc'[i] = jpc[i]
        /\ jset'[j] = kept /\ jpool'[j] = jpool[j] \ group /\ kept \subseteq group
    BY <1>5 DEF JobTo, Kept, Inv, Typed, JobsTyped
  <2>2. PoolFree(j)'
    BY <1>1, <1>5, <2>1 DEF SerialInv, PoolFree, Active, suggVars
  <2> QED BY <1>1, <2>1, <2>2, JobSerial
<1> QED BY <1>2, <1>3, <1>4, <1>5 DEF JobList, JobGroup, JobAbort

LEMMA CascadeSerial ==
    ASSUME Serial, Inv, SerialInv, NEW j \in Cargo, JobCascade(j)
    PROVE  SerialInv'
<1>1. /\ UNCHANGED <<members, respVars, jsugg, jpool>> /\ jpc[j] = "lockDoomed"
      /\ JobTo(j, "list", {}) /\ \A s \in jset[j] : suggStatus[s] = "suggested"
      /\ suggStatus' = [s \in Sugg |-> IF s \in jset[j] THEN "deleted" ELSE suggStatus[s]]
      /\ response' = [s \in Sugg |-> IF s \in jset[j] THEN NoRows ELSE response[s]]
  BY DEF JobCascade, Inv, Doomed
<1>2. \A s \in Sugg : \/ suggStatus'[s] = "deleted" /\ suggStatus[s] = "suggested"
                      \/ suggStatus'[s] = suggStatus[s] /\ response'[s] = response[s]
  BY <1>1
<1>3. OneJob' /\ \A i \in Cargo : PoolFree(i)'
  <2>1. jpc'[j] = "list" /\ \A i \in Cargo : i # j => jpc'[i] = jpc[i]
    BY <1>1 DEF JobTo, Inv, Typed, JobsTyped
  <2>2. PoolFree(j)'
    BY <2>1 DEF PoolFree
  <2> QED BY <1>1, <2>1, <2>2, OnlyJob
<1>4. ASSUME NEW q \in Resp PROVE Current(q)'
  <2>1. Current(q) /\ (rpc[q] # "idle" => rarg[q].sugg \in Sugg) /\ UNCHANGED <<rpc, rarg, seen>>
    BY <1>1 DEF SerialInv, Inv, Typed, AnswersTyped, Answer, respVars
  <2> QED BY <1>2, <2>1 DEF Current
<1>5. SerialRows'
  BY <1>1, <1>2 DEF SerialInv, SerialRows, SomePending, OneSuggestionAtATime, Active,
     MergedClaimed, Claimed, MergedOnce
<1> QED BY <1>3, <1>4, <1>5 DEF SerialInv

LEMMA CreateSerial ==
    ASSUME Inv, SerialInv, NEW j \in Cargo, JobCreate(j)
    PROVE  SerialInv'
<1>1. /\ UNCHANGED <<response, members, respVars, jpool>>
      /\ JobTo(j, "addMember", jset[j]) /\ jpc[j] = "create"
  BY DEF JobCreate
<1>2. PICK s \in Sugg : /\ suggStatus[s] = "absent"
                        /\ suggStatus' = [suggStatus EXCEPT ![s] = "suggested"]
  BY DEF JobCreate
<1>3. /\ suggStatus'[s] = "suggested" /\ response[s] = NoRows
      /\ \A t \in Sugg : t # s => suggStatus'[t] = suggStatus[t]
      /\ \A c \in Cargo : response[s][c] = "none"
  BY <1>2 DEF Inv, AbsentIsEmpty, NoRows, Typed, RowsTyped
<1>4. OneJob' /\ \A i \in Cargo : PoolFree(i)'
  <2>1. /\ jpc'[j] = "addMember" /\ \A i \in Cargo : i # j => jpc'[i] = jpc[i]
        /\ jset'[j] = jset[j] /\ jpool'[j] = jpool[j] /\ jset[j] \subseteq Cargo
        /\ jpool[j] \subseteq Cargo
    BY <1>1 DEF JobTo, Inv, Typed, JobsTyped
  <2>2. PoolFree(j)'
    BY <1>1, <1>3, <2>1 DEF SerialInv, PoolFree, Active
  <2> QED BY <1>1, <2>1, <2>2, OnlyJob
<1>5. ASSUME NEW q \in Resp PROVE Current(q)'
  <2>1. Current(q) /\ (rpc[q] # "idle" => rarg[q].sugg \in Sugg) /\ UNCHANGED <<rpc, rarg, seen>>
    BY <1>1 DEF SerialInv, Inv, Typed, AnswersTyped, Answer, respVars
  <2> QED BY <1>1, <1>2, <1>3, <2>1 DEF Current
<1>6. \A t \in Sugg : SomePending(t)'
  BY <1>1, <1>3 DEF SerialInv, SerialRows, SomePending, With, NoRows
<1>7. OneSuggestionAtATime'
  BY <1>1, <1>3 DEF SerialInv, SerialRows, OneSuggestionAtATime, Active
<1>8. MergedClaimed' /\ MergedOnce'
  BY <1>1, <1>2, <1>3 DEF SerialInv, SerialRows, MergedClaimed, Claimed, MergedOnce
<1> QED BY <1>4, <1>5, <1>6, <1>7, <1>8 DEF SerialInv, SerialRows

\* A member that is added was free, and is out of the pool.
LEMMA AddMemberSerial ==
    ASSUME Inv, SerialInv, NEW j \in Cargo, JobAddMember(j)
    PROVE  SerialInv'
<1>1. PICK s \in Sugg, c \in Cargo :
         /\ s = jsugg[j] /\ c \in jset[j]
         /\ \/ /\ suggStatus[s] # "deleted" /\ response' = [response EXCEPT ![s][c] = "pending"]
               /\ JobTo(j, IF jset[j] = {c} THEN "group" ELSE "addMember", jset[j] \ {c})
               /\ UNCHANGED <<jpool, jsugg>>
            \/ JobEnd(j) /\ UNCHANGED response
  BY DEF JobAddMember, Inv, Typed, JobsTyped
<1>2. /\ UNCHANGED <<suggStatus, members, respVars>>
      /\ jpc[j] = "addMember" /\ jset[j] \subseteq Cargo /\ jpool[j] \subseteq Cargo
  BY DEF JobAddMember, Inv, Typed, JobsTyped
<1>3. CASE JobEnd(j) /\ UNCHANGED response
  BY <1>2, <1>3, EndSerial DEF suggVars
<1>4. CASE /\ suggStatus[s] # "deleted" /\ response' = [response EXCEPT ![s][c] = "pending"]
           /\ JobTo(j, IF jset[j] = {c} THEN "group" ELSE "addMember", jset[j] \ {c})
           /\ UNCHANGED <<jpool, jsugg>>
  <2>1. /\ response'[s][c] = "pending" /\ response[s][c] = "none"
        /\ \A t \in Sugg : t # s => response'[t] = response[t]
        /\ \A d \in Cargo : d # c => response'[s][d] = response[s][d]
    BY <1>1, <1>2, <1>4 DEF Inv, Fresh, Typed, RowsTyped
  <2>2. \A t \in Sugg : Active(t) => response[t][c] = "none"
    BY <1>1, <1>2 DEF SerialInv, PoolFree
  <2>3. OneJob' /\ \A i \in Cargo : PoolFree(i)'
    <3>1. /\ jpc'[j] \in {"group", "addMember"} /\ \A i \in Cargo : i # j => jpc'[i] = jpc[i]
          /\ jset'[j] = jset[j] \ {c} /\ jpool'[j] = jpool[j] /\ c \notin jpool[j]
      BY <1>1, <1>2, <1>4 DEF JobTo, SerialInv, PoolFree, Inv, Typed, JobsTyped
    <3>2. \A d \in jpool[j] \cup jset'[j], t \in Sugg : response'[t][d] = response[t][d]
      BY <1>2, <2>1, <3>1
    <3>3. PoolFree(j)'
      BY <1>2, <3>1, <3>2 DEF SerialInv, PoolFree, Active
    <3> QED BY <1>2, <3>1, <3>3, OnlyJob
  <2>4. ASSUME NEW q \in Resp PROVE Current(q)'
    <3>1. /\ Current(q) /\ AnswerKnows(q) /\ UNCHANGED <<rpc, rarg, seen>>
          /\ rpc[q] # "idle" => rarg[q].sugg \in Sugg /\ rarg[q].cargo \in Cargo
      BY <1>2 DEF SerialInv, Inv, Typed, AnswersTyped, Answer, respVars
    <3>2. (rpc[q] \notin {"idle", "listMembers"} /\ suggStatus[rarg[q].sugg] # "deleted") =>
              \A d \in Cargo \ {rarg[q].cargo} : seen[q][d] # "none" =>
                  response'[rarg[q].sugg][d] = seen[q][d]
      BY <2>1, <3>1 DEF Current
    <3> QED BY <1>2, <3>1, <3>2 DEF Current
  <2>5. \A t \in Sugg : SomePending(t)'
    BY <1>2, <2>1 DEF SerialInv, SerialRows, SomePending, With
  <2>6. OneSuggestionAtATime'
    BY <1>2, <2>1, <2>2 DEF SerialInv, SerialRows, OneSuggestionAtATime, Active
  <2>7. MergedClaimed' /\ MergedOnce'
    <3>1. \A t \in Sugg, d \in Cargo : response[t][d] # "none" => response'[t][d] # "none"
      BY <2>1
    <3> QED BY <1>2, <3>1 DEF SerialInv, SerialRows, MergedClaimed, Claimed, MergedOnce,
                              Inv, Typed, RowsTyped
  <2> QED BY <2>3, <2>4, <2>5, <2>6, <2>7 DEF SerialInv, SerialRows
<1> QED BY <1>1, <1>3, <1>4

LEMMA BeginAnswerSerial ==
    ASSUME Serial, Inv, SerialInv, NEW q \in Resp, NEW s \in Sugg, NEW c \in Cargo,
           NEW a \in {"agreed", "declined"}, BeginAnswer(q, s, c, a)
    PROVE  SerialInv'
<1>1. /\ UNCHANGED <<suggVars, jobVars>> /\ suggStatus[s] = "suggested"
      /\ rpc' = [rpc EXCEPT ![q] = "listMembers"]
      /\ rarg' = [rarg EXCEPT ![q] = [sugg |-> s, cargo |-> c, answer |-> a]]
  BY DEF BeginAnswer, Answering, Answerable
<1>2. rpc'[q] = "listMembers" /\ rarg'[q].sugg = s /\ suggStatus'[s] = "suggested"
  BY <1>1 DEF Inv, Typed, AnswersTyped, suggVars
<1>3. Current(q)'
  BY <1>2 DEF Current
<1> QED BY <1>1, <1>3, AnswerSerial

\* The statements of an answer before its commit.
LEMMA AnswerMoveSerial ==
    ASSUME Serial, Inv, SerialInv, NEW q \in Resp,
           \/ ListMembers(q) \/ SetResponse(q) \/ CloseCargo(q) \/ NotifyOwner(q) \/ Resolve(q)
           \/ RespAbort(q)
    PROVE  SerialInv'
<1>1. UNCHANGED suggVars /\ rpc[q] # "idle"
  BY DEF ListMembers, SetResponse, CloseCargo, NotifyOwner, Resolve, RespAbort
<1>2. CASE RespEnd(q)
  <2>1. rpc'[q] = "idle" /\ UNCHANGED jobVars
    BY <1>2 DEF RespEnd, Inv, Typed, AnswersTyped
  <2>2. Current(q)'
    BY <2>1 DEF Current
  <2> QED BY <1>1, <2>1, <2>2, AnswerSerial
<1>3. ASSUME NEW l, Answering(q, l), rpc[q] # "listMembers", UNCHANGED <<jobVars, rarg, seen>>
      PROVE  SerialInv'
  <2>1. Current(q)'
    BY <1>1, <1>3 DEF SerialInv, Current, suggVars
  <2> QED BY <1>1, <1>3, <2>1, AnswerSerial
<1>4. CASE /\ seen' = [seen EXCEPT ![q] = [response[rarg[q].sugg] EXCEPT
                                              ![rarg[q].cargo] = rarg[q].answer]]
           /\ UNCHANGED <<jobVars, rarg>>
  <2>1. rarg[q].sugg \in Sugg /\ rarg[q].cargo \in Cargo
    BY <1>1, AnswerArgs
  <2>2. /\ seen'[q][rarg[q].cargo] = rarg[q].answer
        /\ \A d \in Cargo \ {rarg[q].cargo} : seen'[q][d] = response[rarg[q].sugg][d]
    BY <1>4, <2>1 DEF Inv, Typed, AnswersTyped, RowsTyped
  <2>3. Current(q)'
    BY <1>1, <1>4, <2>2 DEF SerialInv, Current, suggVars
  <2> QED BY <1>1, <1>4, <2>3, AnswerSerial
<1>5. CASE ListMembers(q)
  BY <1>2, <1>4, <1>5 DEF ListMembers
<1>6. CASE SetResponse(q)
  <2>1. rpc[q] # "listMembers"
    BY <1>6 DEF SetResponse
  <2> QED BY <1>2, <1>3, <1>6, <2>1 DEF SetResponse
<1>7. CASE CloseCargo(q)
  <2>1. rpc[q] # "listMembers"
    BY <1>7 DEF CloseCargo
  <2> QED BY <1>3, <1>7, <2>1 DEF CloseCargo
<1>8. CASE NotifyOwner(q)
  <2>1. rpc[q] # "listMembers"
    BY <1>8 DEF NotifyOwner
  <2> QED BY <1>3, <1>8, <2>1 DEF NotifyOwner
<1>9. CASE Resolve(q)
  <2>1. rpc[q] # "listMembers"
    BY <1>9 DEF Resolve
  <2> QED BY <1>2, <1>3, <1>9, <2>1 DEF Resolve
<1> QED BY <1>2, <1>5, <1>6, <1>7, <1>8, <1>9 DEF RespAbort

\* The commit: the members it merges agree now, and none of them was merged.
LEMMA CommitSerial ==
    ASSUME Serial, Inv, SerialInv, Typed', NEW q \in Resp, CommitAnswer(q)
    PROVE  /\ SerialInv'
           /\ \A k \in Cons : members'[k] # members[k] =>
                 \E s \in Sugg : \A c \in members'[k] : response'[s][c] = "agreed"
<1>0. PICK s \in Sugg, c \in Cargo : s = rarg[q].sugg /\ c = rarg[q].cargo
  BY AnswerArgs DEF CommitAnswer
<1>1. /\ rpc[q] = "respCommit" /\ UNCHANGED jobVars /\ rpc' = [rpc EXCEPT ![q] = "idle"]
      /\ response' = [response EXCEPT ![s][c] = rarg[q].answer]
      /\ suggStatus' = [suggStatus EXCEPT ![s] =
            IF Waiting(q) THEN @ ELSE IF Merges(q) THEN "both_agreed" ELSE "declined"]
  BY <1>0 DEF CommitAnswer
<1>2. /\ rarg[q].answer \in {"agreed", "declined"}
      /\ AnswerLocked(q) /\ AnswerKnows(q) /\ Current(q)
  BY <1>1, AnswerArgs DEF SerialInv
<1>3. /\ suggStatus[s] = "suggested" /\ response[s][c] # "none"
      /\ seen[q][c] = rarg[q].answer
      /\ \A d \in Cargo \ {c} : seen[q][d] # "none" => response[s][d] = seen[q][d]
  BY <1>0, <1>1, <1>2 DEF AnswerLocked, AnswerKnows, Current
<1>4. /\ suggStatus'[s] = IF Waiting(q) THEN "suggested"
                          ELSE IF Merges(q) THEN "both_agreed" ELSE "declined"
      /\ \A t \in Sugg : t # s => suggStatus'[t] = suggStatus[t] /\ response'[t] = response[t]
      /\ response'[s][c] = rarg[q].answer
      /\ \A d \in Cargo : d # c => response'[s][d] = response[s][d]
  BY <1>1, <1>3 DEF Inv, Typed, RowsTyped
<1>5. \A t \in Sugg, d \in Cargo : /\ response'[t][d] # "none" <=> response[t][d] # "none"
                                   /\ Active(t)' => Active(t)
  BY <1>2, <1>3, <1>4 DEF Active
<1>6. OneJob' /\ \A j \in Cargo : PoolFree(j)'
  <2>1. OneJob'
    BY <1>1 DEF SerialInv, OneJob, jobVars
  <2>2. ASSUME NEW j \in Cargo, jpc[j] \in {"group", "create", "addMember"} PROVE PoolFree(j)'
    <3>1. PoolFree(j) /\ jpool[j] \cup jset[j] \subseteq Cargo \cup Sugg
      BY DEF SerialInv, Inv, Typed, JobsTyped
    <3>2. UNCHANGED <<jpool, jset>>
      BY <1>1 DEF jobVars
    <3>3. ASSUME NEW d \in jpool[j] \cup jset[j], NEW t \in Sugg, Active(t)'
          PROVE  response'[t][d] = "none"
      <4>1. Active(t) /\ response[t][d] = "none"
        BY <1>4, <1>3, <2>2, <3>1, <3>3 DEF PoolFree, Active
      <4>2. d # c \/ t # s
        BY <1>3, <4>1
      <4> QED BY <1>1, <4>1, <4>2 DEF Inv, Typed, RowsTyped
    <3> QED BY <2>2, <3>1, <3>2, <3>3 DEF PoolFree
  <2>3. \A j \in Cargo : PoolFree(j)'
    BY <1>1, <2>2 DEF PoolFree, jobVars
  <2> QED BY <2>1, <2>3
<1>7. \A p \in Resp : Current(p)'
  <2>1. rpc'[q] = "idle" /\ \A p \in Resp : p = q
    BY <1>1 DEF Serial, Inv, Typed, AnswersTyped
  <2> QED BY <2>1 DEF Current
<1>8. ASSUME NEW t \in Sugg PROVE SomePending(t)'
  <2>1. CASE t # s
    BY <1>4, <2>1 DEF SerialInv, SerialRows, SomePending
  <2>2. CASE t = s /\ Waiting(q)
    <3>1. PICK d \in Cargo : seen[q][d] = "pending"
      BY <2>2 DEF Waiting, With
    <3>2. response'[s][d] = "pending"
      BY <1>2, <1>3, <1>4, <3>1
    <3> QED BY <2>2, <3>2 DEF SomePending, With
  <2>3. CASE t = s /\ ~Waiting(q)
    BY <1>4, <2>3 DEF SomePending
  <2> QED BY <2>1, <2>2, <2>3
<1>9. OneSuggestionAtATime'
  BY <1>5 DEF SerialInv, SerialRows, OneSuggestionAtATime
<1>10. ASSUME NEW d \in Cargo, Claimed(d) PROVE Claimed(d)'
  BY <1>3, <1>4, <1>5, <1>10 DEF Claimed
<1>11. CASE ~Merges(q)
  <2>1. UNCHANGED members
    BY <1>11 DEF CommitAnswer
  <2>2. MergedClaimed' /\ MergedOnce'
    BY <1>10, <2>1 DEF SerialInv, SerialRows, MergedClaimed, MergedOnce, Inv, Typed, RowsTyped
  <2> QED BY <1>6, <1>7, <1>8, <1>9, <2>1, <2>2 DEF SerialInv, SerialRows
<1>12. CASE Merges(q)
  <2>1. PICK k \in Cons : members[k] = {} /\ members' = [members EXCEPT ![k] = Agreed(q)]
    BY <1>12 DEF CommitAnswer
  <2>2. /\ members'[k] = Agreed(q) /\ \A l \in Cons : l # k => members'[l] = members[l]
        /\ ~Waiting(q) /\ Agreed(q) \subseteq Cargo
    BY <1>12, <2>1 DEF Inv, Typed, RowsTyped, Merges, Agreed, With
  <2>3. \A d \in Agreed(q) : response'[s][d] = "agreed" /\ response[s][d] # "none"
    BY <1>3, <1>4 DEF Agreed, With
  <2>4. \A d \in Agreed(q) : Claimed(d)'
    BY <1>4, <1>12, <2>2, <2>3 DEF Claimed
  <2>5. MergedClaimed'
    BY <1>10, <2>1, <2>2, <2>4 DEF SerialInv, SerialRows, MergedClaimed, Inv, Typed, RowsTyped
  <2>6. ASSUME NEW l \in Cons, l # k PROVE members[l] \cap Agreed(q) = {}
    <3>1. SUFFICES ASSUME NEW d \in Agreed(q), d \in members[l] PROVE FALSE
      OBVIOUS
    <3>2. PICK t \in Sugg : suggStatus[t] = "both_agreed" /\ response[t][d] # "none"
      BY <3>1 DEF SerialInv, SerialRows, MergedClaimed, Claimed
    <3>3. t # s /\ Active(t) /\ Active(s)
      BY <1>3, <3>2 DEF Active
    <3> QED BY <2>2, <2>3, <3>2, <3>3 DEF SerialInv, SerialRows, OneSuggestionAtATime
  <2>7. MergedOnce'
    <3>1. ASSUME NEW i \in Cons, NEW l \in Cons, i # l PROVE members'[i] \cap members'[l] = {}
      <4>1. CASE i # k /\ l # k
        BY <2>2, <3>1, <4>1 DEF SerialInv, SerialRows, MergedOnce
      <4>2. CASE i = k \/ l = k
        BY <2>2, <2>6, <3>1, <4>2
      <4> QED BY <4>1, <4>2
    <3> QED BY <3>1 DEF MergedOnce
  <2>8. \A l \in Cons : members'[l] # members[l] =>
           \E t \in Sugg : \A d \in members'[l] : response'[t][d] = "agreed"
    BY <2>2, <2>3
  <2> QED BY <1>6, <1>7, <1>8, <1>9, <2>5, <2>7, <2>8 DEF SerialInv, SerialRows
<1> QED BY <1>11, <1>12

Merging == \A k \in Cons : members'[k] # members[k] =>
    \E s \in Sugg : \A c \in members'[k] : response'[s][c] = "agreed"

LEMMA StartSerial == ConsInit => SerialInv
BY DEF ConsInit, SerialInv, SerialRows, OneJob, PoolFree, Current, SomePending,
       OneSuggestionAtATime, Active, MergedClaimed, MergedOnce

LEMMA StepSerial ==
    ASSUME Serial, Inv, SerialInv, [ConsNext]_consVars
    PROVE  SerialInv' /\ Merging
<1>0. Typed'
  BY StepTyped DEF Inv
<1>1. CASE UNCHANGED members
  <2>1. Merging
    BY <1>1 DEF Merging
  <2>2. SerialInv'
    <3>1. CASE UNCHANGED consVars
      BY <3>1, SerialSame DEF consVars
    <3>2. ASSUME NEW j \in Cargo, SubmitCargo(j) \/ JobStep(j) \/ JobAbort(j)
          PROVE  SerialInv'
      BY <3>2, SubmitSerial, JobReadsSerial, CascadeSerial, CreateSerial, AddMemberSerial DEF JobStep
    <3>3. ASSUME NEW q \in Resp,
                 \/ \E s \in Sugg, c \in Cargo, a \in {"agreed", "declined"} : BeginAnswer(q, s, c, a)
                 \/ AnswerStep(q) \/ RespAbort(q)
          PROVE  SerialInv'
      BY <1>0, <3>3, BeginAnswerSerial, AnswerMoveSerial, CommitSerial DEF AnswerStep
    <3>4. CASE CompetitionStep /\ UNCHANGED <<suggVars, respVars, jobVars>>
      BY <3>4, SerialSame
    <3> QED BY <3>1, <3>2, <3>3, <3>4 DEF ConsNext
  <2> QED BY <2>1, <2>2
<1>2. CASE ~UNCHANGED members
  <2>1. PICK q \in Resp : CommitAnswer(q)
    BY <1>2 DEF ConsNext, consVars, suggVars, SubmitCargo, JobStep, JobDelete, JobLockDoomed,
       JobCascade, JobList, JobGroup, JobCreate, JobAddMember, JobAbort, BeginAnswer, AnswerStep,
       ListMembers, SetResponse, CloseCargo, NotifyOwner, Resolve, RespAbort
  <2> QED BY <1>0, <2>1, CommitSerial DEF Merging
<1> QED BY <1>1, <1>2

\* Of a server that runs one matching job and one answer at a time, whatever
\* selections it serves beside them, every answered suggestion is resolved, a
\* cargo waits for one suggestion at a time and is merged once.
THEOREM SerialResolved == ASSUME Serial PROVE ConsSpec => []AnsweredIsResolved
<1>1. ConsInit => Inv /\ SerialInv
  BY StartInv, StartSerial
<1>2. Inv /\ SerialInv /\ [ConsNext]_consVars => Inv' /\ SerialInv'
  BY StepInv, StepSerial
<1>3. SerialInv => AnsweredIsResolved
  BY DEF SerialInv, SerialRows, SomePending, AnsweredIsResolved
<1> QED BY <1>1, <1>2, <1>3, PTL DEF ConsSpec

\* ... a cargo waits for the answer of one suggestion at a time,
THEOREM SerialOneSuggestion == ASSUME Serial PROVE ConsSpec => []OneSuggestionAtATime
<1>1. ConsInit => Inv /\ SerialInv
  BY StartInv, StartSerial
<1>2. Inv /\ SerialInv /\ [ConsNext]_consVars => Inv' /\ SerialInv'
  BY StepInv, StepSerial
<1>3. SerialInv => OneSuggestionAtATime
  BY DEF SerialInv, SerialRows
<1> QED BY <1>1, <1>2, <1>3, PTL DEF ConsSpec

\* ... it is merged into one consolidated request,
THEOREM SerialMergedOnce == ASSUME Serial PROVE ConsSpec => []MergedOnce
<1>1. ConsInit => Inv /\ SerialInv
  BY StartInv, StartSerial
<1>2. Inv /\ SerialInv /\ [ConsNext]_consVars => Inv' /\ SerialInv'
  BY StepInv, StepSerial
<1>3. SerialInv => MergedOnce
  BY DEF SerialInv, SerialRows
<1> QED BY <1>1, <1>2, <1>3, PTL DEF ConsSpec

\* ... and only together with cargos whose owners agree at that moment.
THEOREM SerialDeclinedOut == ASSUME Serial PROVE ConsSpec => DeclinedStaysOut
<1>1. ConsInit => Inv /\ SerialInv
  BY StartInv, StartSerial
<1>2. Inv /\ SerialInv /\ [ConsNext]_consVars => Inv' /\ SerialInv' /\ Merging
  BY StepInv, StepSerial
<1> QED BY <1>1, <1>2, PTL DEF ConsSpec, DeclinedStaysOut, Merging

=============
