-------------------------------- MODULE Chat --------------------------------
(***************************************************************************)
(* One chat: messages, and the windows in which its participants read it.  *)
(* A message takes its created_at from the server's clock and is inserted  *)
(* later.  A window loads the newest page, then polls for what is created  *)
(* after its cursor, one request at a time; its owner's messages appear    *)
(* when the server answers, beside the polls.  Composed with Accounts,     *)
(* whose statuses each request reads.                                      *)
(***************************************************************************)
EXTENDS Accounts

CONSTANTS
    Message, Sender,          \* [Message -> User]; numbered as they are begun
    Page,                     \* rows per answer
    Reader,                   \* bound: who opens a window
    Serial                    \* bound: one message between clock and INSERT at a time

ASSUME MessagesType == Message \subseteq Nat \ {0} /\ IsFiniteSet(Message)
ASSUME SenderType == Sender \in [Message -> Reader]
ASSUME PageType == Page \in Nat \ {0} /\ Reader \subseteq User /\ Serial \in BOOLEAN

VARIABLES
    members,                  \* chat_participants
    sending,                  \* per message: how far it is
    createdAt, now,           \* per message: its time; the clock of the servers
    view,                     \* per reader: what the window is waiting for
    after, answer,            \* per reader: the open request, the answer on its way
    shown, cursor,            \* per reader: messages on the screen; the last one, or 0
    frozen                    \* history: what was stored when its owner was cut off

messageVars == <<members, sending, createdAt, now>>
windowVars == <<view, after, answer, shown, cursor>>
chatVars == <<messageVars, windowVars, frozen>>

Stored == {m \in Message : sending[m] \in {"stored", "sent"}}

ChatInit ==
    /\ members = {}
    /\ sending = [m \in Message |-> "absent"]
    /\ createdAt = [m \in Message |-> 0] /\ now = 0
    /\ view = [u \in Reader |-> "closed"]
    /\ after = [u \in Reader |-> 0] /\ answer = [u \in Reader |-> {}]
    /\ shown = [u \in Reader |-> {}] /\ cursor = [u \in Reader |-> 0]
    /\ frozen = [u \in Reader |-> {}]

-----------------------------------------------------------------------------
\* Mutants: the status is not read; a poll is answered with the newest page.
AnyMember(u) == u \in members

Newest(S) == {P \in SUBSET S : /\ Cardinality(P) = IF Cardinality(S) < Page
                                                     THEN Cardinality(S) ELSE Page
                               /\ \A x \in P, y \in S \ P : createdAt[x] >= createdAt[y]}

\* requireEligibleUser and requireChatParticipant.
MayUse(u) == isEligibleStatus(u) /\ u \in members

\* ORDER BY created_at LIMIT, from either end; messages of the same time come
\* in any order.
Oldest(S) == {P \in SUBSET S : /\ Cardinality(P) = IF Cardinality(S) < Page
                                                     THEN Cardinality(S) ELSE Page
                               /\ \A x \in P, y \in S \ P : createdAt[x] <= createdAt[y]}

ListByChatID(c) ==
    IF c = 0 THEN Newest(Stored)
    ELSE Oldest({m \in Stored : createdAt[m] > createdAt[c]})

\* The deal's transaction adds a participant (OfferSelection, GroupDeal).
AddParticipant(u) ==
    /\ members' = members \cup {u}
    /\ UNCHANGED <<accountVars, job, sending, createdAt, now, windowVars, frozen>>

\* SendChatMessage: the checks and the time; a window is open.
BeginSend(m) ==
    /\ sending[m] = "absent" /\ view[Sender[m]] # "closed"
    /\ MayUse(Sender[m])
    /\ \A x \in Message : /\ x < m => sending[x] # "absent"
                          /\ Serial => sending[x] # "stamped"
    /\ sending' = [sending EXCEPT ![m] = "stamped"]
    /\ now' \in IF Serial THEN {now + 1} ELSE {now, now + 1}
    /\ createdAt' = [createdAt EXCEPT ![m] = now']
    /\ UNCHANGED <<accountVars, job, members, windowVars, frozen>>

\* The INSERT, or its failure.
InsertMessage(m) ==
    /\ sending[m] = "stamped"
    /\ sending' \in {[sending EXCEPT ![m] = s] : s \in {"stored", "lost"}}
    /\ UNCHANGED <<accountVars, job, members, createdAt, now, windowVars, frozen>>

\* The answer reaches the window: appendMessages([msg]) moves the cursor.  When
\* the answer is lost, the message stays stored and a poll brings it.
AnswerSend(m) ==
    LET u == Sender[m]
    IN /\ sending[m] = "stored"
       /\ sending' = [sending EXCEPT ![m] = "sent"]
       /\ shown' = [shown EXCEPT ![u] = @ \cup {m}]
       /\ cursor' = [cursor EXCEPT ![u] = m]
       /\ UNCHANGED <<accountVars, job, members, createdAt, now, view, after, answer, frozen>>

-----------------------------------------------------------------------------
Ask(u, v, c) ==
    /\ view' = [view EXCEPT ![u] = v]
    /\ after' = [after EXCEPT ![u] = c]
    /\ UNCHANGED <<accountVars, job, messageVars, answer, shown, cursor, frozen>>

OpenChat(u) == view[u] = "closed" /\ Ask(u, "loading", 0)
PollChat(u) == view[u] = "idle" /\ Ask(u, "polling", cursor[u])

\* ListChatMessages.
ReadMessages(u) ==
    /\ view[u] \in {"loading", "polling"}
    /\ MayUse(u)
    /\ view' = [view EXCEPT ![u] = IF @ = "loading" THEN "loaded" ELSE "polled"]
    /\ \E P \in ListByChatID(after[u]) : answer' = [answer EXCEPT ![u] = P]
    /\ UNCHANGED <<accountVars, job, messageVars, after, shown, cursor, frozen>>

\* The first answer is shown instead of what is there, a later one beside it.
ShowAnswer(u) ==
    LET latest == {m \in answer[u] : \A x \in answer[u] : createdAt[x] <= createdAt[m]}
    IN /\ view[u] \in {"loaded", "polled"}
       /\ view' = [view EXCEPT ![u] = "idle"]
       /\ shown' = [shown EXCEPT ![u] = IF view[u] = "loaded" THEN answer[u]
                                        ELSE @ \cup answer[u]]
       /\ \E m \in IF answer[u] = {} THEN {cursor[u]} ELSE latest :
            cursor' = [cursor EXCEPT ![u] = m]
       /\ after' = [after EXCEPT ![u] = 0]
       /\ answer' = [answer EXCEPT ![u] = {}]
       /\ UNCHANGED <<accountVars, job, messageVars, frozen>>

\* Refused or lost: the window shows nothing new and polls again later.
NoAnswer(u) ==
    /\ view[u] \notin {"closed", "idle"}
    /\ view' = [view EXCEPT ![u] = "idle"]
    /\ after' = [after EXCEPT ![u] = 0]
    /\ answer' = [answer EXCEPT ![u] = {}]
    /\ UNCHANGED <<accountVars, job, messageVars, shown, cursor, frozen>>

\* The history of a change of status.
FollowReaders ==
    /\ frozen' = [u \in Reader |-> IF isEligibleStatus(u)' THEN {}
                                  ELSE IF isEligibleStatus(u) THEN Stored ELSE frozen[u]]
    /\ UNCHANGED <<messageVars, windowVars>>

ChatStep ==
    \/ \E u \in Reader : \/ AddParticipant(u) \/ OpenChat(u) \/ PollChat(u)
                         \/ ReadMessages(u) \/ ShowAnswer(u) \/ NoAnswer(u)
    \/ \E m \in Message : BeginSend(m) \/ InsertMessage(m) \/ AnswerSend(m)

-----------------------------------------------------------------------------
ChatTypeOK ==
    /\ members \subseteq Reader
    /\ sending \in [Message -> {"absent", "stamped", "stored", "sent", "lost"}]
    /\ createdAt \in [Message -> Nat] /\ now \in Nat
    /\ view \in [Reader -> {"closed", "loading", "polling", "loaded", "polled", "idle"}]
    /\ after \in [Reader -> Message \cup {0}]
    /\ cursor \in [Reader -> Message \cup {0}]
    /\ answer \in [Reader -> SUBSET Message] /\ shown \in [Reader -> SUBSET Message]
    /\ frozen \in [Reader -> SUBSET Message]

Own(u) == {m \in Message : Sender[m] = u}

\* Only a participant reads the chat, and a blocked or rejected account reads
\* nothing that was stored after it lost its status (the comment in
\* ListMyChats), whatever it had open or was waiting for.
EntitledReaders == \A u \in Reader :
    /\ u \notin members => shown[u] = {} /\ answer[u] = {}
    /\ ~isEligibleStatus(u) => shown[u] \cup answer[u] \subseteq frozen[u] \cup Own(u)

\* No message is missing between those on the screen and the cursor.
NoGap(u) == \A x \in shown[u], m \in Stored \ shown[u] :
    createdAt[x] < createdAt[m] => createdAt[m] > createdAt[cursor[u]]

\* A long chat truncates its history, not its live tail (the comment on
\* ListByChatID): who only reads misses nothing after the first message on the
\* screen, through pages, lost answers and blocks, if messages become visible
\* in the order of their times (Serial).
TailComplete == \A u \in Reader : Own(u) = {} => NoGap(u)

\* The same for everybody whose window waits for no answer: one who writes
\* into the chat misses nothing either.
LiveTail == \A u \in Reader : view[u] = "idle" => NoGap(u)

-----------------------------------------------------------------------------
\* What the entitlement rests on: windows show what is stored, and whoever
\* sends is a participant, as is whoever an answer is on its way to.
ChatInv ==
    /\ \A u \in Reader : shown[u] \cup answer[u] \subseteq Stored
    /\ \A m \in Message : sending[m] # "absent" => Sender[m] \in members

\* What the tail rests on.  Messages enter the table in the order of their
\* times; a window that is not written in has shown nothing after its cursor,
\* and an answer on its way leaves out nothing between the cursor it was asked
\* with and its own last row.
Written == {m \in Message : sending[m] # "absent"}
Newer(m, S) == \A x \in S : createdAt[x] < createdAt[m]

InOrder == \A m \in Written :
    /\ createdAt[m] <= now
    /\ \A x \in Written \ {m} : createdAt[x] # createdAt[m]
    /\ sending[m] = "stamped" => Newer(m, Written \ {m})

NothingBetween(u) ==
    LET asked == {after[u]} \ {0}
    IN /\ \A x \in answer[u] : Newer(x, asked)
       /\ \A m \in Stored \ answer[u] :
             (\E x \in answer[u] \cup asked : createdAt[x] < createdAt[m]) => Newer(m, answer[u])

TailOf(u) ==
    /\ IF cursor[u] = 0 THEN shown[u] = {}
       ELSE cursor[u] \in shown[u] /\ Newer(cursor[u], shown[u] \ {cursor[u]})
    /\ view[u] \in {"closed", "loading", "loaded"} => cursor[u] = 0
    /\ view[u] \notin {"closed", "idle"} => after[u] = cursor[u]
    /\ view[u] \in {"loaded", "polled"} => NothingBetween(u)
    /\ NoGap(u)

TailInv == Serial => InOrder /\ \A u \in Reader : Own(u) = {} => TailOf(u)
=============================================================================
