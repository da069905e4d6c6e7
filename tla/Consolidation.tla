---------------------------- MODULE Consolidation ----------------------------
(***************************************************************************)
(* Group consolidation on top of the single-cargo competition.  Creating a *)
(* cargo starts a job that dissolves the unanswered suggestions, collects  *)
(* the free open cargos, asks the matcher for groups and records new       *)
(* suggestions, statement by statement, outside a transaction.  The owners *)
(* agree or decline, each in a transaction that takes no lock before its   *)
(* first UPDATE; the last answer merges the agreed cargos.  Selections of  *)
(* OfferSelection go on meanwhile on the same cargos.                      *)
(***************************************************************************)
EXTENDS OfferSelection

CONSTANTS
    Sugg, Cons,     \* ids of suggestions and of consolidated requests (uuid)
    Resp,           \* concurrent agree / decline requests
    MaxJobs         \* bound: CreateCargo requests being served at a time

\* The transactions of a selection, an answer and a job (named by its cargo).
ASSUME TxDisjoint == Req \cap Resp = {} /\ (Req \cup Resp) \cap Cargo = {}

VARIABLES
    suggStatus,     \* [Sugg -> "absent" | "suggested" | "both_agreed" | "declined" | "deleted"]
    response,       \* [Sugg -> [Cargo -> "none" | "pending" | "agreed" | "declined"]]
    members,        \* [Cons -> SUBSET Cargo], {} when the row does not exist
    rpc, rarg,      \* per answer: next statement, [sugg, cargo, answer]
    seen,           \* ... the member rows it listed, its own answer filled in
    toClose,        \* ... the cargos it has still to close
    jpc,            \* per cargo: next statement of the job its creation started
    jset,           \* ... the set that statement works on
    jpool,          \* ... the candidates not yet in a group
    jsugg           \* ... the suggestion it is recording

suggVars == <<suggStatus, response, members>>
respVars == <<rpc, rarg, seen, toClose>>
jobVars == <<jpc, jset, jpool, jsugg>>
consVars == <<vars, suggVars, respVars, jobVars>>

NoAnswer == [sugg |-> "none", cargo |-> "none", answer |-> "none"]
NoRows == [c \in Cargo |-> "none"]
With(rows, answer) == {c \in Cargo : rows[c] = answer}

ConsInit ==
    /\ Init
    /\ suggStatus = [s \in Sugg |-> "absent"]
    /\ response = [s \in Sugg |-> NoRows]
    /\ members = [k \in Cons |-> {}]
    /\ rpc = [q \in Resp |-> "idle"]
    /\ rarg = [q \in Resp |-> NoAnswer]
    /\ seen = [q \in Resp |-> NoRows]
    /\ toClose = [q \in Resp |-> {}]
    /\ jpc = [c \in Cargo |-> "idle"]
    /\ jset = [c \in Cargo |-> {}]
    /\ jpool = [c \in Cargo |-> {}]
    /\ jsugg = [c \in Cargo |-> "none"]

-----------------------------------------------------------------------------
(* The job of CreateCargoRequest: suggestConsolidations.                   *)

JobTo(j, l, set) == /\ jpc' = [jpc EXCEPT ![j] = l]
                    /\ jset' = [jset EXCEPT ![j] = set]

JobEnd(j) == /\ jpc' = [jpc EXCEPT ![j] = "idle"]
             /\ jset' = [jset EXCEPT ![j] = {}]
             /\ jpool' = [jpool EXCEPT ![j] = {}]
             /\ jsugg' = [jsugg EXCEPT ![j] = "none"]

SubmitCargo(c) ==
    /\ Cardinality({j \in Cargo : jpc[j] # "idle"}) < MaxJobs
    /\ CreateCargo(c)
    /\ JobTo(c, "delete", {})
    /\ UNCHANGED <<jpool, jsugg, suggVars, respVars>>

\* The DELETE takes its snapshot: suggestions that nobody has answered.
Unanswered == {s \in Sugg : /\ suggStatus[s] = "suggested"
                            /\ With(response[s], "agreed") = {}
                            /\ With(response[s], "declined") = {}}

JobDelete(j) ==
    /\ jpc[j] = "delete"
    /\ JobTo(j, "lockDoomed", Unanswered)
    /\ UNCHANGED <<jpool, jsugg, vars, suggVars, respVars>>

\* ... waits for each row and, having waited, looks at its new version,
JobLockDoomed(j) ==
    /\ jpc[j] = "lockDoomed"
    /\ \E s \in {x \in jset[j] : ~Holds(held, j, x, "forUpdate")} :
          /\ Available(held, j, s, "forUpdate")
          /\ \/ /\ suggStatus[s] = "suggested"
                /\ held' = Grant(held, j, s, "forUpdate")
                /\ UNCHANGED jobVars
             \/ /\ suggStatus[s] # "suggested"
                /\ JobTo(j, "lockDoomed", jset[j] \ {s})
                /\ UNCHANGED <<held, jpool, jsugg>>
    /\ UNCHANGED <<dbVars, pc, arg, limit, suggVars, respVars>>

\* ... then ON DELETE CASCADE waits for the member rows and removes them,
\* answered meanwhile or not.
JobCascade(j) ==
    /\ jpc[j] = "lockDoomed"
    /\ \A s \in jset[j] : /\ Holds(held, j, s, "forUpdate")
                          /\ \A c \in Cargo : Available(held, j, <<s, c>>, "forUpdate")
    /\ suggStatus' = [s \in Sugg |-> IF s \in jset[j] THEN "deleted" ELSE suggStatus[s]]
    /\ response' = [s \in Sugg |-> IF s \in jset[j] THEN NoRows ELSE response[s]]
    /\ held' = Release(held, j)
    /\ JobTo(j, "list", {})
    /\ UNCHANGED <<jpool, jsugg, dbVars, pc, arg, limit, members, respVars>>

\* ListOpenCargoWithoutActiveSuggestion, and the matcher's answer on it.
Active(s) == suggStatus[s] \in {"suggested", "both_agreed"}

\* Mutants: cargos that wait for an answer, or that are closed, are offered again.
OpenCargos == {c \in Cargo : cargoStatus[c] = "open"}
UnsuggestedCargos == {c \in Cargo : /\ cargoStatus[c] # "absent"
                                    /\ \A s \in Sugg : suggStatus[s] = "suggested" =>
                                                          response[s][c] = "none"}

FreeCargos == {c \in Cargo : /\ cargoStatus[c] = "open"
                             /\ \A s \in Sugg : Active(s) => response[s][c] = "none"}

JobList(j) ==
    /\ jpc[j] = "list"
    /\ \/ /\ Cardinality(FreeCargos) >= 2
          /\ JobTo(j, "group", {})
          /\ jpool' = [jpool EXCEPT ![j] = FreeCargos]
          /\ UNCHANGED jsugg
       \/ Cardinality(FreeCargos) < 2 /\ JobEnd(j)
    /\ UNCHANGED <<vars, suggVars, respVars>>

\* One group of the matcher (external: any cargos of the pool, each in at most
\* one group), without the cargos that share a suggestion, however old, with
\* one already kept (ExistsSuggestionForPair).
Conflict(c, d) == \E s \in Sugg : response[s][c] # "none" /\ response[s][d] # "none"
Kept(group) == {k \in SUBSET group :
    /\ \A c, d \in k : c # d => ~Conflict(c, d)
    /\ \A c \in group \ k : \E d \in k : Conflict(c, d)}

JobGroup(j) ==
    /\ jpc[j] = "group"
    /\ \/ \E group \in SUBSET jpool[j] : \E kept \in Kept(group) :
             /\ Cardinality(kept) >= 2
             /\ JobTo(j, "create", kept)
             /\ jpool' = [jpool EXCEPT ![j] = @ \ group]
             /\ UNCHANGED jsugg
       \/ JobEnd(j)
    /\ UNCHANGED <<vars, suggVars, respVars>>

\* CreateSuggestion, then one AddSuggestionMember per cargo, each on its own.
JobCreate(j) ==
    /\ jpc[j] = "create"
    /\ \E s \in Sugg :
          /\ suggStatus[s] = "absent"
          /\ suggStatus' = [suggStatus EXCEPT ![s] = "suggested"]
          /\ jsugg' = [jsugg EXCEPT ![j] = s]
    /\ JobTo(j, "addMember", jset[j])
    /\ UNCHANGED <<jpool, vars, response, members, respVars>>

JobAddMember(j) ==
    LET s == jsugg[j]
    IN /\ jpc[j] = "addMember"
       /\ \E c \in jset[j] :
             /\ \A row \in {s, c, Owner[c]} : Available(held, j, row, "keyShare")
             /\ \/ /\ suggStatus[s] # "deleted"
                   /\ response' = [response EXCEPT ![s][c] = "pending"]
                   /\ JobTo(j, IF jset[j] = {c} THEN "group" ELSE "addMember", jset[j] \ {c})
                   /\ UNCHANGED <<jpool, jsugg>>
                \/ suggStatus[s] = "deleted" /\ JobEnd(j) /\ UNCHANGED response
       /\ UNCHANGED <<vars, suggStatus, members, respVars>>

JobAbort(j) ==
    /\ jpc[j] # "idle"
    /\ JobEnd(j)
    /\ held' = Release(held, j)
    /\ UNCHANGED <<dbVars, pc, arg, limit, suggVars, respVars>>

-----------------------------------------------------------------------------
(* AgreeConsolidation and DeclineConsolidation, called by the cargo's owner. *)

Answering(q, l) == rpc' = [rpc EXCEPT ![q] = l]

RespEnd(q) == /\ rpc' = [rpc EXCEPT ![q] = "idle"]
              /\ rarg' = [rarg EXCEPT ![q] = NoAnswer]
              /\ seen' = [seen EXCEPT ![q] = NoRows]
              /\ toClose' = [toClose EXCEPT ![q] = {}]
              /\ held' = Release(held, q)
              /\ UNCHANGED <<dbVars, pc, arg, limit, jobVars>>

\* BEGIN, and GetSuggestionByID: only a suggestion that is not resolved.
Answerable(s) == suggStatus[s] = "suggested"

BeginAnswer(q, s, c, a) ==
    /\ rpc[q] = "idle"
    /\ Answerable(s) /\ cargoStatus[c] # "absent"
    /\ Answering(q, "listMembers")
    /\ rarg' = [rarg EXCEPT ![q] = [sugg |-> s, cargo |-> c, answer |-> a]]
    /\ UNCHANGED <<vars, suggVars, jobVars, seen, toClose>>

\* ListSuggestionMembers, without a lock.  Not a member, or answered already
\* (a declined cargo cannot agree; an agreed one may still decline): the end.
MayAnswer(mine, a) == mine = "pending" \/ (mine = "agreed" /\ a = "declined")

ListMembers(q) ==
    LET s == rarg[q].sugg  c == rarg[q].cargo  a == rarg[q].answer
    IN /\ rpc[q] = "listMembers"
       /\ \/ /\ MayAnswer(response[s][c], a)
             /\ seen' = [seen EXCEPT ![q] = [response[s] EXCEPT ![c] = a]]
             /\ Answering(q, "setResponse")
             /\ UNCHANGED <<vars, jobVars, rarg, toClose>>
          \/ ~MayAnswer(response[s][c], a) /\ RespEnd(q)
       /\ UNCHANGED suggVars

\* Mutants: everybody who answered is merged; one cargo suffices; a refusal
\* leaves the others waiting.
Answered(q) == With(seen[q], "agreed") \cup With(seen[q], "declined")

\* resolveSuggestionIfReady decides on the rows listed before.
Agreed(q) == With(seen[q], "agreed")
WaitsForAll(q) == With(seen[q], "pending") \cup With(seen[q], "declined") # {}
Waiting(q) == LET p == With(seen[q], "pending")
              IN p # {} /\ Cardinality(Agreed(q)) + Cardinality(p) >= 2
MergesAlone(q) == ~Waiting(q) /\ Cardinality(Agreed(q)) >= 1
Merges(q) == ~Waiting(q) /\ Cardinality(Agreed(q)) >= 2

\* SetSuggestionMemberResponse waits for the member row; 0 rows if dissolved.
SetResponse(q) ==
    LET row == <<rarg[q].sugg, rarg[q].cargo>>
    IN /\ rpc[q] = "setResponse"
       /\ Available(held, q, row, "noKeyUpdate")
       /\ \/ /\ suggStatus[rarg[q].sugg] # "deleted"
             /\ held' = Grant(held, q, row, "noKeyUpdate")
             /\ Answering(q, IF Waiting(q) THEN "respCommit"
                             ELSE IF Merges(q) THEN "closeCargo" ELSE "resolve")
             /\ toClose' = [toClose EXCEPT ![q] = IF Merges(q) THEN Agreed(q) ELSE {}]
             /\ UNCHANGED <<dbVars, pc, arg, limit, jobVars, rarg, seen>>
          \/ suggStatus[rarg[q].sugg] = "deleted" /\ RespEnd(q)
       /\ UNCHANGED suggVars

\* createConsolidatedFromMembers: UPDATE cargo_requests for each agreed cargo,
\* whatever its status is by now ...
CloseCargo(q) ==
    /\ rpc[q] = "closeCargo"
    /\ \E c \in toClose[q] :
          /\ Available(held, q, c, "noKeyUpdate")
          /\ held' = Grant(held, q, c, "noKeyUpdate")
          /\ toClose' = [toClose EXCEPT ![q] = @ \ {c}]
    /\ Answering(q, "notifyOwner")
    /\ UNCHANGED <<dbVars, pc, arg, limit, suggVars, jobVars, rarg, seen>>

\* ... and a notification, whose foreign key waits for the owner's row.
NotifyOwner(q) ==
    LET owners == {Owner[c] : c \in Agreed(q) \ toClose[q]}
    IN /\ rpc[q] = "notifyOwner"
       /\ \A u \in owners : Available(held, q, u, "keyShare")
       /\ held' = held \cup {[tx |-> q, row |-> u, mode |-> "keyShare"] : u \in owners}
       /\ Answering(q, IF toClose[q] = {} THEN "resolve" ELSE "closeCargo")
       /\ UNCHANGED <<dbVars, pc, arg, limit, suggVars, jobVars, rarg, seen, toClose>>

\* UpdateSuggestionStatus waits for the suggestion's row.
Resolve(q) ==
    LET s == rarg[q].sugg
    IN /\ rpc[q] = "resolve"
       /\ Available(held, q, s, "noKeyUpdate")
       /\ \/ /\ suggStatus[s] # "deleted"
             /\ held' = Grant(held, q, s, "noKeyUpdate")
             /\ Answering(q, "respCommit")
             /\ UNCHANGED <<dbVars, pc, arg, limit, jobVars, rarg, seen, toClose>>
          \/ suggStatus[s] = "deleted" /\ RespEnd(q)
       /\ UNCHANGED suggVars

\* Mutant: the merge closes the cargos that are still open.
ClosedIfOpen(q) == [d \in Cargo |->
    IF d \in Agreed(q) /\ cargoStatus[d] = "open" THEN "closed" ELSE cargoStatus[d]]

ClosedBy(q) == [d \in Cargo |-> IF d \in Agreed(q) THEN "closed" ELSE cargoStatus[d]]

\* COMMIT.
CommitAnswer(q) ==
    LET s == rarg[q].sugg  c == rarg[q].cargo
    IN /\ rpc[q] = "respCommit"
       /\ response' = [response EXCEPT ![s][c] = rarg[q].answer]
       /\ suggStatus' = [suggStatus EXCEPT ![s] =
             IF Waiting(q) THEN @ ELSE IF Merges(q) THEN "both_agreed" ELSE "declined"]
       /\ \/ /\ Merges(q)
             /\ \E k \in Cons : /\ members[k] = {}
                               /\ members' = [members EXCEPT ![k] = Agreed(q)]
             /\ cargoStatus' = ClosedBy(q)
          \/ ~Merges(q) /\ UNCHANGED <<members, cargoStatus>>
       /\ rpc' = [rpc EXCEPT ![q] = "idle"]
       /\ rarg' = [rarg EXCEPT ![q] = NoAnswer]
       /\ seen' = [seen EXCEPT ![q] = NoRows]
       /\ toClose' = [toClose EXCEPT ![q] = {}]
       /\ held' = Release(held, q)
       /\ UNCHANGED <<offerStatus, reveals, chats, asked, subscribed, eligible,
                      pc, arg, limit, jobVars>>

RespAbort(q) == rpc[q] # "idle" /\ RespEnd(q) /\ UNCHANGED suggVars

-----------------------------------------------------------------------------
JobStep(j) == \/ JobDelete(j) \/ JobLockDoomed(j) \/ JobCascade(j) \/ JobList(j)
              \/ JobGroup(j) \/ JobCreate(j) \/ JobAddMember(j)
AnswerStep(q) == \/ ListMembers(q) \/ SetResponse(q) \/ CloseCargo(q)
                 \/ NotifyOwner(q) \/ Resolve(q) \/ CommitAnswer(q)

\* The requests of OfferSelection.  Well-formed selections only, and accounts
\* that do not change: the rest is checked on OfferSelection alone.
CompetitionStep ==
    \E r \in Req :
        \/ \E o \in Offer : \/ BeginOffer(r, o)
                            \/ BeginSelect(r, Owner[CargoOf[o]], CargoOf[o], o)
        \/ RequestStep(r)
        \/ Abort(r)

ConsNext ==
    \/ \E c \in Cargo : SubmitCargo(c) \/ JobStep(c) \/ JobAbort(c)
    \/ \E q \in Resp :
          \/ \E s \in Sugg, c \in Cargo, a \in {"agreed", "declined"} : BeginAnswer(q, s, c, a)
          \/ AnswerStep(q)
          \/ RespAbort(q)
    \/ CompetitionStep /\ UNCHANGED <<suggVars, respVars, jobVars>>

ConsSpec == ConsInit /\ [][ConsNext]_consVars

(***************************************************************************)
(* Fairness, as in OfferSelection: started requests are executed, waiters  *)
(* of a row are served in turn, a deadlock is broken.                      *)
(***************************************************************************)
ConsWants == [t \in Req \cup Resp \cup Cargo |->
    IF t \in Req THEN Wants[t]
    ELSE IF t \in Resp THEN
      CASE rpc[t] = "setResponse" ->
             {[row |-> <<rarg[t].sugg, rarg[t].cargo>>, mode |-> "noKeyUpdate"]}
        [] rpc[t] = "closeCargo"  -> {[row |-> c, mode |-> "noKeyUpdate"] : c \in toClose[t]}
        [] rpc[t] = "notifyOwner" ->
             {[row |-> Owner[c], mode |-> "keyShare"] : c \in Agreed(t) \ toClose[t]}
        [] rpc[t] = "resolve"     -> {[row |-> rarg[t].sugg, mode |-> "noKeyUpdate"]}
        [] OTHER -> {}
    ELSE IF jpc[t] = "lockDoomed" THEN
      {[row |-> row, mode |-> "forUpdate"] : row \in jset[t] \cup (jset[t] \X Cargo)}
    ELSE {}]

ConsVictim(t) ==
    /\ Deadlocked(held, ConsWants, t)
    /\ \/ t \in Req /\ Abort(t) /\ UNCHANGED <<suggVars, respVars, jobVars>>
       \/ t \in Resp /\ RespAbort(t)
       \/ t \in Cargo /\ JobAbort(t)

ConsFairness ==
    /\ \A r \in Req : SF_consVars(RequestStep(r) /\ UNCHANGED <<suggVars, respVars, jobVars>>)
    /\ \A q \in Resp : SF_consVars(AnswerStep(q))
    /\ \A c \in Cargo : SF_consVars(JobStep(c))
    /\ \A t \in Req \cup Resp \cup Cargo : WF_consVars(ConsVictim(t))

ConsFairSpec == ConsSpec /\ ConsFairness

-----------------------------------------------------------------------------
\* Every variable ranges over its type, and a request under way knows what it
\* answers.
ConsTypeOK ==
    /\ cargoStatus \in [Cargo -> {"absent", "open", "matched", "closed"}]
    /\ held \subseteq [tx : Req \cup Resp \cup Cargo, mode : LockMode,
                      row : User \cup Cargo \cup Sugg \cup (Sugg \X Cargo)]
    /\ suggStatus \in [Sugg -> {"absent", "suggested", "both_agreed", "declined", "deleted"}]
    /\ response \in [Sugg -> [Cargo -> {"none", "pending", "agreed", "declined"}]]
    /\ members \in [Cons -> SUBSET Cargo]
    /\ rpc \in [Resp -> {"idle", "listMembers", "setResponse", "closeCargo", "notifyOwner",
                       "resolve", "respCommit"}]
    /\ rarg \in [Resp -> [sugg : Sugg, cargo : Cargo, answer : {"agreed", "declined"}]
                        \cup {NoAnswer}]
    /\ seen \in [Resp -> [Cargo -> {"none", "pending", "agreed", "declined"}]]
    /\ toClose \in [Resp -> SUBSET Cargo]
    /\ jpc \in [Cargo -> {"idle", "delete", "lockDoomed", "list", "group", "create", "addMember"}]
    /\ jset \in [Cargo -> SUBSET (Cargo \cup Sugg)]
    /\ jpool \in [Cargo -> SUBSET Cargo]
    /\ jsugg \in [Cargo -> Sugg \cup {"none"}]
    /\ \A q \in Resp : rpc[q] # "idle" => rarg[q] # NoAnswer

Quiet(s) == \A q \in Resp : rpc[q] # "idle" => rarg[q].sugg # s
Merged == UNION {members[k] : k \in Cons}

\* The closed cargos are exactly the members of the consolidated requests:
\* no cargo leaves its own competition without entering a shared one, and
\* none stays selectable after it was merged, although the merge and a
\* selection of the same cargo race for the row.
MergedAreClosed == {c \in Cargo : cargoStatus[c] = "closed"} = Merged

\* A consolidated request joins at least two cargos, and the owner of each of
\* them has answered the suggestion (an answer seen by the merge was final or
\* turned into a refusal, never withdrawn to pending).
MergeHasAnswers == \A k \in Cons : members[k] # {} =>
    /\ Cardinality(members[k]) >= 2
    /\ \E s \in Sugg : \A c \in members[k] : response[s][c] \in {"agreed", "declined"}

\* With every answer in and no answer under way a suggestion is resolved
\* (AgreeConsolidation: "once all members have answered, those who agreed, two
\* or more, are merged into one consolidation, in one transaction").
AnsweredIsResolved == \A s \in Sugg :
    (suggStatus[s] = "suggested" /\ Quiet(s) /\ response[s] # NoRows) =>
        With(response[s], "pending") # {}

\* A repeated agreement is a no-op: a cargo is merged once, into one
\* consolidated request.
MergedOnce == \A k, l \in Cons : k # l => members[k] \cap members[l] = {}

\* Whoever declined goes on alone: a merge joins cargos whose owners agree at
\* the moment it commits (resolveSuggestionIfReady).
DeclinedStaysOut == [][\A k \in Cons : members'[k] # members[k] =>
    \E s \in Sugg : \A c \in members'[k] : response'[s][c] = "agreed"]_consVars

\* A cargo waits for the answer of one suggestion at a time
\* (ListOpenCargoWithoutActiveSuggestion: the pool holds cargos "not already
\* tied up in a pending suggestion").
OneSuggestionAtATime == \A s, t \in Sugg : \A c \in Cargo :
    (s # t /\ Active(s) /\ Active(t)) => (response[s][c] = "none" \/ response[t][c] = "none")

\* Every answer, every job and every selection of the same cargos ends,
\* whatever locks they wait for.
AnswersEnd == /\ RequestsEnd
              /\ \A q \in Resp : rpc[q] # "idle" ~> rpc[q] = "idle"
              /\ \A c \in Cargo : jpc[c] # "idle" ~> jpc[c] = "idle"
=============================================================================
