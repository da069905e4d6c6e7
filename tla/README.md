# A TLA+ model of the cargo platform

This directory models the platform in TLA+: the competitions in which carriers,
drivers and customs representatives bid anonymously, the consolidation of several
clients' cargos into one request, the deal its members close together and what that
deal entitles its parties to, the warehouse that dispatches batches, and the ground
all of this stands on: accounts, tools, sessions, chat windows, notifications and
files.  TLC checks the models on small instances; TLAPS proves the main theorems for
instances of every size.

Everything is written from the Go code in `src/internal`, the SQL it runs, the matching
service in `src/matching` and the chat page of `src/web`.  `PROJECT.json` names, for
each definition, the lines it stands for.

## 1. The system

A client submits cargo requests, partners (carriers, customs, warehouses) bid
on them; contacts stay hidden until a bid is chosen.  The server is a set of Go
services over one PostgreSQL database at READ COMMITTED.  Each HTTP request runs
in its own goroutine; a request is a sequence of SQL statements, some inside a
transaction, some each committed on its own.  Nearly all shared state is in the
database, so what can go wrong is decided by *which statements share a
transaction, which rows they lock, and what they read before they lock*.  Outside
the database there are the object storage, which shares no transaction with it, a map
of recent activity in each server's memory, tokens that cannot be taken back, and the
windows of the web client.

| component | state it keeps | operations | how it interacts | what must hold |
|---|---|---|---|---|
| **Single-cargo competition** (`cargo_service`, `select_service`) | `cargo_requests.status`, `offers.status`, `contact_reveals`, `chats` | CreateCargoRequest, CreateOffer, SelectOffer | locks users' rows; starts the matching job; repeat-deal notices | one winner, one reveal and one chat per cargo, all or nothing; the contact limit cannot be overshot; requests end in spite of deadlocks |
| **Consolidation suggestions** (`consolidation_service`) | `consolidation_suggestions`, `..._members.response`, `consolidated_requests` and members | suggestConsolidations, AgreeConsolidation, DeclineConsolidation | reads and closes the cargos of the competition; asks the matcher | a cargo is in one active suggestion; answered suggestions are resolved, once; those who declined are not merged |
| **Cargo matcher** (`matching/main.py`) | none | group cargos by route, volume and weight | called by the matching job | disjoint groups within the limits, nothing left that fits |
| **Group deal** (`consolidated_flow_service`) | invite status, initiator, acceptances, payments, votes, group offers, chat | Invite, Pay, Accept, CreateConsolidatedOffer, SelectConsolidatedOffer | subscriptions and payments of the members; chat; opens the customs competition | only paid or subscribed members enter; one majority closes the deal, once; the chat stays closed to losing carriers |
| **Customs competition** (`customs_service`) | `customs_offers`, the group's chat | CreateCustomsOffer, SelectCustomsOffer by any member | opens with the group's deal | one representative wins, whatever members select in parallel |
| **Ratings, favourites, documents, repeat deals** (`rating_service`, `antifraud_service`) | ratings, favourites, deal documents | CreateRating, AddFavorite, UploadDealDocument, NotifyRepeatDeal | count the completed deals of a pair, each query in its own way | one rating per deal; no way around the anonymity of losing bids |
| **Disclosure** (status page, select answers, chat list, favourites) | none of its own | views that name users to users | read votes, acceptances, chats, bids, favourites | nobody is named whom no deal discloses |
| **Driver competitions** (`driver_competition_service`) | `driver_competitions`, `driver_offers` | manual and automatic announcement, offers, selection | announced by hand and by thresholds | one winner per competition, whose driver alone gets the chat; automatic announcements do not pile up |
| **Thresholds, warehouse batches** (`dispatch_threshold_service`, `warehouse_batch_service`) | thresholds, batches, their members and chats | set and delete a threshold; syncWarehouseBatch | announces driver competitions, opens chats, reads the matched cargos | one active batch per route, built whole; a cargo travels once; below the threshold the batch is dispatched |
| **Registration, verification, moderation** (`registration_service`, `admin_service`, `admin_users_service`) | `users.status`, verifications, audit log | Register, reviewVerification, BlockUser, UnblockUser | read at the start of nearly every request | the log explains the status, however reviews and blocks interleave |
| **Employees** (`employees_service`) | `users.parent_company_id` | CreateEmployee, SetEmployeeBlocked | inherit their company's tools | one level of hierarchy, under a company that was verified |
| **Tools, permission sets, fleet** (`my_tools_service`, `admin_tools_service`, `permission_set_service`, `fleet_service`) | `user_tools`, `tools.is_active`, sets, vehicles | SetMyTools, SetUserTools, ApplyPermissionSet, UpdateTool, AddMyVehicle | gate employees, vehicles, lists, notifications | admin tools come from staff; a replacement is whole; limits are kept |
| **Routes, lists, notifications** (`route_service`, `cargo_service`, `notification_service`) | participant routes, notifications | routes of participants and staff, fan-out, lists, mark read | one radius rule in three queries | nobody misses what is open; who is told finds it |
| **Files** (`registration_service`, `antifraud_service`, `fill_report_service`) | object storage, rows naming its keys | uploads of documents, deal documents, report photos | status, tools | a row never shows another file, or none |
| **Sessions, rate limiter, activity** (`registration_service`, `middleware`) | tokens, `login_attempts`, `last_active_at`, a map in memory | Login, Refresh, the limiter, TouchLastActive | read the status once | a blocked account's session ends; the limit is overshot by how much; visits are stamped |
| **Chat** (`chat_service`, `message_repository`, `ChatsPage.tsx`) | messages; per window what is shown and a cursor | send, list after a cursor, poll | deals add participants; status is read per request | only the entitled read; no message is skipped |
| **Settings, staff accounts, analytics, HTTP wiring, commands, migrations, other pages** | single rows | — | — | no protocol of several steps |

The hard behaviours, all listed with their lines under "hazards" in
`PROJECT.json`: decisions taken on unlocked reads (`respondConsolidation`,
`InviteConsolidated`, the matching job, `reviewVerification`, `CreateEmployee`), row
locks taken in different orders by different services (deadlocks), sequences of
statements that are not in a transaction and may stop half-way (a save of a threshold,
`SetMyTools`, uploads, fan-outs), counts followed by inserts (vehicles, login
attempts), statuses read before the statement they justify, values recomputed later
over data that has changed (the group's majority, the parties of a deal), and
answers that reach a window in another order than they were asked for.

## 2. The modules

    RowLocks          PostgreSQL's row locks and its deadlock detector (operators)
    Competition       what every competition promises (abstract)
    OfferSelection    extends RowLocks, implements Competition
    Consolidation     extends OfferSelection: the two interleave on the same cargos
    Matcher           the grouping algorithm, checked beside Consolidation
    GroupDeal         implements Competition
    AfterDeal         extends GroupDeal; its customs competition implements Competition
    Disclosure        extends AfterDeal: who is named to whom
    RatingScore       the composite score, checked beside AfterDeal
    Dispatch          implements Competition
    Accounts          status, hierarchy, reviews; the requests that are under way
    Tools             extends Accounts: who holds which tool, and what tools gate
    Notices           extends Tools: routes, lists, notifications
    Uploads           extends Tools: files and rows
    Sessions          extends Accounts: tokens, limiter, activity
    Chat              extends Accounts: one chat and its windows
    Platform          composes Accounts, Tools, Notices, Uploads, Sessions, Chat
    *Proofs           theorems about the module of that name, but:
    ToolProofs, SessionProofs   about Platform, the second continuing the first
    AlgorithmProofs   about Matcher and RatingScore
    MC*.tla, MC*_*.cfg     instances for TLC

**RowLocks** (external: PostgreSQL).  A lock table is a set of
`[tx, row, mode]`; `FOR UPDATE`, `UPDATE` and the foreign-key check of an
`INSERT` map to `forUpdate`, `noKeyUpdate`, `keyShare`.  `Deadlocked` finds a
cycle of the wait-for graph through the transaction in question.

**Competition** is the abstract specification: bids accumulate, and one step
`Award` closes a lot, names its winner and reveals the author of the winning
bid alone.  Nothing is ever undone.

**OfferSelection** models SelectOffer statement group by statement group: the
client's row is locked (`LockClient`, which also reads the limit), then the
cargo's (`LockCargo`, with the ownership and status checks), the reveals are
counted (`CheckLimit`), the reveal is inserted (`InsertReveal`, waiting for the
carrier's row through the foreign key), and the rest commits (`CommitSelect`).
Writes inside the transaction become visible at `CommitSelect` because nobody
else reads uncommitted rows; the locks they take are visible at once.
CreateOffer is an unlocked check (`BeginOffer`) and an INSERT (`InsertOffer`).
`Abort` is a lost connection, a stopped server or a deadlock victim.
SetUserSubscription and SetUserStatus are single UPDATEs that wait for the row.

**Consolidation** adds the matching job of CreateCargoRequest: the DELETE of
unanswered suggestions (snapshot, wait for each row, cascade), the list of free
cargos, the groups, the suggestion and its member rows, each statement on its
own; and Agree/Decline: `ListMembers` reads without a lock, `SetResponse` waits
for the member row, `CloseCargo` and `NotifyOwner` lock cargos and owners one by
one, `Resolve` the suggestion, `CommitAnswer` makes it all visible.  The matcher
is asked through a contract: it may return any disjoint groups of the pool.  The code
keeps of a group the cargos that fit one after another; over all orders these are the
maximal conflict-free subsets, which is `Kept`.

**Matcher** is the service itself, a greedy grouping as two nested loops over the pool in
the order of creation: `Gather` grows one group around a seed, `Rounds` goes over the seeds.
Loops are recursive functions, each state from the one before.  Of the map only the
symmetry of the distance is kept.  Two operators say what an answer is worth: `KeepsTheContract`
is what Consolidation takes from it, `NoneLeft` is "all that fit travel together".  TLC
evaluates both on pools of up to four cargos (`MCConsolidation`), and both are proved for
every pool (section 4).

**GroupDeal** models one consolidated request.  Invite, pay and bid are
statements committed one by one, so they are several actions each; accept and
vote hold `FOR UPDATE` on the consolidated row, which every other writer of
these tables needs as well, so each is a read of the user followed by one atomic
step.  `Majority` is the code's "more than half of the accepted members".

**AfterDeal** goes on where the group's deal is closed, while the deal's own requests
continue: customs bids (check, then INSERT under a UNIQUE constraint), the selection by
any member under the lock of the consolidated row, ratings and favourites over this deal
and earlier ones, and the three queries that count deals.  **Disclosure** adds the views
that show names: each is an operator written from its own query.  **RatingScore** is the
composite score in exact arithmetic, where the code rounds binary fractions.  `MCAfterDeal`
evaluates its properties on inputs around each cap, and the cases of the unit test; the
properties are proved for all inputs.

**Dispatch** models one route of a warehouse.  SetRouteDispatchThreshold
(`Save`) is a sequence of statements committed one by one, each an action: save the
threshold (`Upsert`); look for an open competition and announce one
(`CheckOpen`, `Announce`); then either dispatch the active batches (`Dispatch`), or
look for an active one (`CheckActive`), list the matched cargos that are in no
batch (`ListCandidates`), and build the batch (`CreateBatch`, `OpenChat`,
`AddMember`, `JoinClient` for each cargo).  `Abort` leaves what is committed.
Drivers bid by an unlocked check and an INSERT; SelectDriverBid holds `FOR UPDATE`
on the competition's row, which the foreign key of a bid needs, so it is one
step.

**Accounts** keeps the statuses, the hierarchy, the verification and the last entry of the
audit log of each account, and `job`: what each request in flight has read and is about
to do.  A review is a read (`BeginReview`), the UPDATE of the verification, which locks
its row and shows nothing to others (`WriteVerdict`), and the commit with status and
log (`CommitReview`).  CreateEmployee and SetEmployeeBlocked are checks, then a statement.

**Tools** adds the rows of `user_tools`.  SetMyTools runs its DELETE and each INSERT on the
pool (`BeginMyTools`, `ClearTools`, `InsertTool`, `EndMyTools`); staff and permission sets
run the same statements in one transaction (`BeginSetUserTools`, `CommitUserTools`), whose
locked rows the others wait for.  A DELETE removes the rows it has seen
(`Remaining`, `AfterDelete`); a row inserted since makes the primary key refuse the
INSERT.  `UserHasTool` is the access check, with the tools an employee inherits.
Vehicles are a count and an INSERT.

**Notices** has the routes, what is open, the fan-outs (an audience, then one INSERT after
another) and the lists.  The radius rule is written three times, as in the three
queries (`MatchesAudience`, `MatchesList`, `MatchesThreshold`), with the haversine
distance reduced to points of one meridian.

**Uploads** has check, storage and row of each upload as separate steps.  **Sessions** has the
limiter's count and INSERT and its clean-up, tokens as remaining lifetimes, Refresh as a check
and a signature, the activity map and its UPDATE, restarts, and a clock that ticks between
requests.  **Chat** takes the time of a message before its INSERT, and models the chat page's
window: load, poll after a cursor, append, and the answers that may be lost.

**Platform** composes these six.  They share accounts and requests; each step of one tells
the others what they keep of it (`Follow`).  `scope` picks the kinds of operations that
interleave in a behaviour; the proofs need no bound on it.

### Abstractions

- Rows a request inserts have ids of their own (`uuid.New()`): an offer, a
  suggestion or a consolidated request is a member of a finite set, used once.
- Wording is left out: notification texts, labels, file contents.  Where a notice's
  foreign key makes a transaction wait (`NotifyOwner`), the wait is kept.
- In the deal modules tools and the cargo's geography do not change; they are
  constants (`ToolHolder`, `Author`, `Owner`, `CargoOf`).  In GroupDeal and AfterDeal
  accounts stay eligible and waiting for users' rows is not shown: both are checked on
  OfferSelection.  The payment provider is the sandbox one, which keeps no state.
- In Dispatch the accrued volume is compared with the threshold once per save: the
  save finds it `reached` or `below`.  The setting `driver_competition_auto` may be
  on or off whenever it is read.  A cargo once matched stays a candidate until it
  travels (that a merge may close it is Consolidation's matter).  Notices and the
  reminder are left out.  `torn` and `interrupted` remember which saves were lost.
- In Consolidation the selections on the same cargos are well-formed (the owner's
  own cargo and an offer made on it); malformed ones are checked on OfferSelection.
- Passwords, signatures and token formats are left out: a token is its remaining lifetime.
  All credential requests come from one address.  A failing statement of the limiter or of
  the stamp is a branch of its action, since the code goes on.
- In Notices what opens and closes is an event; the modules that decide when are
  OfferSelection, Consolidation, Dispatch and AfterDeal.  Customs competitions and hauls are
  announced or listed without a route, as in the code.
- History variables (`everActive`, `granted`, `lastAsked`, `overlapped`, `muddled`,
  `frozen`, `age`, `cutOff`, `served`, `lost`, `seen`, `fresh`) record what the properties
  speak about; no guard reads them, except that `age` is the
  clean-up's clock and frees the ids of old rows.

## 3. What the runs check

Properties that hold:

| run | instance | shows |
|---|---|---|
| `sel_race` | one client with two cargos, three offers, two requests at a time, limits 1 (free) and 2 (subscribed), subscriptions and statuses changing | `DealIsWhole`, the limit (`RevealWithinLimit`), `ImplementsCompetition`.  Three offers for at most two reveals make the limit bite, in the same step in which another request counts |
| `sel_mutual` | two clients who bid on each other's cargo, under fairness | the lock cycle of the two selections happens and is broken: `RequestsEnd`; `RepeatDealAsked` |
| `cons_serial` | three cargos, three suggestions, two consolidated requests, one answer and one job at a time (the two interleaving) | the documented behaviour: `AnsweredIsResolved`, `MergedOnce`, `OneSuggestionAtATime`, `DeclinedStaysOut`; the pools of the matcher are evaluated here |
| `cons_race` | two cargos, two answers at a time, a job, a selection | what survives the races: `MergedAreClosed`, `MergeHasAnswers` |
| `cons_live` | the same with one answer, under fairness | `AnswersEnd`: the merge locks cargos then owners, the selection owners then cargos; the deadlock is reached and resolved, and every answer, job and selection ends |
| `group_deal` | three members (one pays, one's subscription changes), two carriers, two requests at a time that may stop half-way | `ClosedOnce`, `ShownIsClosed`, `EntryIsPaid`, `ImplementsCompetition` |
| `after_deal` | three members, two carriers, three customs bids of two representatives, two customs requests, two earlier deals: one of the rating member with a carrier, one of the other carrier with himself, who bid on a cargo of his own | `CustomsOnce`, `CustomsImplementCompetition`, `OncePerDeal`, `PartnersAreRevealed`, `DealsMirrored`, `NamesAreEntitled`; the inputs of the composite score are evaluated here |
| `dispatch_serial` | two cargos of different clients, two competitions, two drivers who bid on one of them, two batches, one save at a time that may stop between any two statements | `CompetitionSettles`, `OneAutomatic`, `OneActiveBatch`, `CargoTravelsOnce`, `BatchIsWhole`, `BatchFollowsThreshold`, `ImplementsCompetition` |
| `platform_access` | a company that registers and one approved before, two possible employees, two tools, two requests; ten families of operations that share tables (`Families`) | see below |

`platform_access` has one property per hazard: `LogExplainsCompany` (reviews, blocks and
registrations of parallel moderators always leave a log whose last entry explains the
status), `Hierarchy`, `NoSelfPromotion` and `ToolsTogether` (replacements of tools that overlap,
or are lost half-way), `FleetWithinLimit` and `AttemptsBounded` (by how much a count before an
INSERT overshoots), `SilentSessionEnds` (a block against a refresh about to sign),
`EntitledReaders` and `TailComplete` (blocks, pages, lost answers and polls against what
a window shows), `NeverMissed` (a fan-out that reads its audience after the cargo is in the
list, against changes of routes, tools and statuses) and `RowsShowTheirFile`.

Each property has a mutant (`PROJECT.json`): a plausible bug in one definition
— a dropped re-check, a plain SELECT where the code locks, a count taken too
early, a majority of non-members, a key without its uuid — under which TLC finds it
violated.

Type invariants and the inductive invariants of the proofs are in no run: they are proved
(section 4), for all values of the constants.

### Where the code departs from its own comments

Each of these is a run that checks one property taken from a comment, and a trace
that violates it:

| run | comment | what the code does |
|---|---|---|
| `cons_unresolved` | "when all members have answered, those who agreed are merged" | the last two answers, given at the same time, each see the other pending; nobody resolves the suggestion |
| `group_late` | "the deal is already closed ... just reveal the matched carrier" | with four members, an acceptance after the closing dilutes the majority: the closed deal is shown as waiting |
| `chat_gap` | "keeps the NEWEST 200 so a long chat truncates its history, not its live tail" | a window's own message moves its cursor past what others wrote since its last poll, which it then never asks for |

The models contain the steps of more departures that no run records.

*Single cargo.*  An offer inserted after the deal stays submitted for ever.
SelectConsolidatedOffer does not ask for documents of a repeated deal, as SelectOffer does.

*Suggestions.*  An answer committed while the DELETE of unanswered suggestions waits
is cascaded away with the group (`JobCascade`); two matching jobs at a time put
one cargo into two active suggestions (`OneSuggestionAtATime` needs
`MaxJobs = 1`); an agreement sent twice passes the unlocked no-op check twice and
merges twice (`MergedOnce`), two parallel answers may both resolve one suggestion, and a
refusal committed while the last agreement waits is ignored by the merge
(`DeclinedStaysOut`): all need one answer at a time.  A merge sets a cargo that was matched
meanwhile to closed (`ClosedBy`, consolidation_service.go:402), after which its deal cannot be rated.  The
cargos that a conflict drops from a group are not regrouped in the same job, a group's members match
its first cargo and not each other, and capacity limits may be edited between suggestion and
merge.

*Group deal.*  A request lost between SetInvite and AddAcceptance leaves an
initiator who has not accepted and whom both handlers refuse from then on
(`Abort` after `SetInvite`); two invitations at the same moment lock everybody out
(consolidated_flow_service.go:54), and an inviter whose invitation was replaced before its
acceptance was inserted stays in the chat (`Entered`).  PayConsolidated charges before
the INSERT that detects the repeated payment, which costs nothing with the sandbox provider.
Members who never entered the group may select the representative and see the carrier.

*After the deal.*  The votes for losing carriers stay, and rating_repository.go counts a member
and a losing carrier it voted for as parties of a completed deal: hence `Disagreed` in
`PartnersAreRevealed`, `DealsMirrored` and `NamesAreEntitled`.  A late customs bid stays submitted.  A
rating that names no deal may pick one that is already rated and be refused although another
is free.  ListSuspiciousPairs multiplies its rows by the pair's documents
(antifraud_repository.go:155).

*Warehouse.*  An announcement by hand between `CheckOpen` and `Announce` gives the route
two open competitions (`OneAutomatic` speaks of automatic ones only); a bid inserted after
its competition closed stays submitted for ever (`InsertBid`); a batch
whose save was lost (`torn`) stays active and incomplete, and `HasActiveForRoute`
keeps it from being built again until a save below the threshold dispatches it;
two saves at a time open two active batches, although "an active batch exists already:
saving a threshold again does not duplicate chats" (warehouse_batch_service.go:33), and may
leave one active below the threshold.  A batch's chat names its clients to each other.
Deleting a route cascades to thresholds, driver competitions, batches and their chats
(route_service.go:91).  CreateDriverCompetition answers with an error when a notification
fails although the competition is committed; a retry announces it twice.

*Accounts.*  Blocks and reviews bypass each other: unblocking activates an account whatever its
verification says, and a verdict that was read before a block lifts it.  Two moderators may
both review one verification in spite of ErrAlreadyReviewed (`BeginReview` reads without a lock).
SetEmployeeBlocked lifts a block by staff and, like CreateModerator, leaves no audit entry.
Employees of a blocked company keep acting.

*Tools.*  SetMyTools drops tools that staff granted, and, since it runs on the pool
(my_tools_service.go:46), parallel replacements may leave the union of both or half of one:
`ToolsTogether` leaves out users after such a muddle.  Duplicate ids in a request fail
on the primary key.  UpdateTool writes back the whole row it has read, so an older
`is_active` may come back.  ApplyPermissionSet may apply contents replaced meanwhile.
An employee has a vehicle limit of its own.

*Notices and chat.*  Employees who hold a tool through their company are not notified
(`HoldsTool` looks at own tools only).  A fan-out that fails is only logged: `NeverMissed`
leaves it out.  Marking all as read also marks what arrived after the list was read, and what lies
beyond the hundred it shows.  The count of unread is not refreshed while a poll is under way
(poller.ts:22).  A message with an earlier, or equal, time that is inserted after a window's cursor
has passed is never delivered: `Serial` rules that out, and `TailComplete` needs it.  The first
answer of a window replaces what is shown, its own first message included, if that message
was stored after the answer was read (`ShowAnswer`).

### Bounds

`Req`, `Resp`, `CReq` and `Saver` bound the requests in flight, not their number: a finished
request starts again with new arguments.  Two requests in flight suffice for every
conflict above: each is between a reader and one writer, or two lock holders.
`MaxJobs` is the number of CreateCargoRequest calls being served at a time.
`Volatile` and `Payer` name the users whose subscription and payments change, `Lossy` whether
a request may stop between two statements; `after_deal` runs the group's deal with one request
that does not stop, since `group_deal` has looked at that, and `Busy` names who rates there.
`Sugg`, `Cons`, `Comp`, `Batch` and `Attempt` are the ids that exist; no run is cut short by
them in a way that hides an interleaving of two, since every property relates at
most two suggestions, two consolidated requests or two batches.
`Contested` names the driver competitions that receive bids: one is enough, since a
competition's bids touch no other.

In Platform, `Holder` names whose tools are replaced, `Owner` who keeps vehicles, `Choice` the sets
of tools that are asked for, `Volatile` the tools that are switched, `Blockable` whom staff
blocks, `Online` whose sessions are followed, `Reader` who opens a window, `Watcher` who has
routes, `Route` which ones, `Poster` who posts cargos, `Upload` the uploads, each once.
`Families` is the value of `Scopes`: sets of operations that read or write the same tables, so
that each family interleaves fully while the product of unrelated ones is left out; statuses
change in every family whose operations read them.  `Page` is one row instead of 200 and
three messages are written, so pages overflow.  `Serial` lets one message at a time
be between its clock and its INSERT.  Messages are numbered in the order they are
begun.  A tick passes only between requests: a request lasts seconds, a tick a minute or more.
Ages stop growing where the code no longer tells them apart (`Ancient`, `accessTTL`,
`touchInterval`).  Points lie on one meridian, and two tools of
the lists are one, because the rules look at each endpoint and each tool by itself.
The pools of Matcher have their cargos at three places of a line, where one country has a
larger radius than the others: enough for chains in which neighbours match and ends do not.

`SYMMETRY` on requests, drivers, batches, employees and the members without earlier deals is sound: they are interchangeable and
the properties of those runs are invariants and step properties.

Deadlock checking is off in `cons_serial`, `cons_live` and `cons_unresolved`: there the system
really may stop, when all cargos exist and are matched, merged
or waiting in no suggestion, since nobody is obliged to do anything more.

### Fairness

A request that has started is executed by its goroutine, and PostgreSQL queues
the waiters of a row, so a statement whose row is free again and again is
served: strong fairness on `RequestStep`, `AnswerStep`, `JobStep`.  The deadlock
detector runs after a second of waiting: weak fairness on the victim's abort.
Nobody is obliged to submit, answer, select or disconnect, so no fairness is
assumed of those.  The other modules have no waiting that could go round, so
they state safety only: a request of theirs ends by itself or is lost.

## 4. What is proved

TLAPS checks every theorem below for all values of the constants that satisfy the named
assumptions of the modules (ids of different kinds are different, functions are well-typed,
sets that are counted are finite, limits and lifetimes are positive).  The specifications
are the very ones TLC runs: no module is changed for a proof.

### The single-cargo competition (`OfferSelectionProofs`)

For any users, cargos, offers, requests and limits: `TypeCorrect` (`Spec => []TypeOK`);
`LocksProtect` (`Spec => []IndInv`), and from it `DealsAreWhole` (`DealIsWhole`) and `LimitKept`
(`RevealWithinLimit`); `SelectionImplementsCompetition` (`Spec => Comp!Spec`);
`RepeatDealsAreAsked` (`RepeatDealAsked`).

`DealIsWhole` is not inductive: at `CommitSelect` nothing in it says that the cargo
is still open.  The argument is the one the code relies on.  Locks of
different transactions on one row are compatible (`LocksCompatible`), so a
holder of `forUpdate` is alone.  A selection past `LockClient` holds its client's
row and knows its limit (`ClientLocked`); past `LockCargo` it holds the cargo's row,
and the cargo is open and the client's own (`CargoLocked`); past `CheckLimit`
the offer is on the cargo and the reveals are below the limit (`ChecksHold`).
Another request that would falsify one of these needs a row that is held: to
match the cargo, the cargo's row; to add a reveal of this client or to change
its subscription, the client's row.  So what was checked still holds at the
commit.  An offer about to be inserted is nobody else's (`OfferFresh`), so an
INSERT does not put a selected offer back.  The refinement follows: `CommitSelect` is
`Award`, `InsertOffer` is `Submit`, every other step stutters.

`RepeatDealsAreAsked` has an invariant of its own, `AskInv`: documents are asked of closed deals only,
and of all deals of a pair but one.  `DealIsWhole` makes the commit of a cargo the one that adds it to
the deals, of one pair; the count is over finite sets by the same induction.  The counting is
inside `CommitSelect`, which may be one step because both users' rows are locked by then (`ClientLocked`, `InsertReveal`).

### The group deal (`GroupDealProofs`)

For any finite group of clients, any offers, initial subscriptions and number of requests in
flight: `TypeCorrect`; `DealProtected` (`Spec => []DealInv`), and from it `DealClosesOnce`
(`ClosedOnce`), `ShownCarrierIsClosed` (`ShownIsClosed`), `ChatStaysPrivate`
(`ChatIsPrivate`) and `EntryWasPaid` (`EntryIsPaid`); `GroupImplementsCompetition`.

The argument has three parts.  *What a request knows* (`RequestsKnow`): a
subscription read before the transaction may be gone when the transaction runs,
so the invariant speaks of who was ever subscribed; the chat is opened only
where an initiator is known (`ChatComesFirst`).  *One majority*: two sets of more
than half of the accepted members share a member, who has one vote
(`MajorityIsUnique`); votes are for submitted bids (`VotesAreBids`), so the winner
is one.  *It stays that one*: after the closing the vote is refused, and
somebody who enters later has not voted (`EntryIsPaid` says that voters have
entered), so the growing group can take a majority away but never give one
(`MajorityShrinks`).  That is why the status page, which recounts the votes, never
shows another carrier, though it may stop showing the right one (`group_late`).

### After the deal (`AfterDealProofs`)

For any group, bids, representatives and earlier deals: `AfterIsTyped`, `AfterIsConsistent`
(`AfterSpec => []AfterInv`), `CustomsCloseOnce` (`CustomsOnce`), `BidsAreSingle`, `OutsidersStayOut`,
`PartnersWereRevealed` (`PartnersAreRevealed`), `NamesWereEntitled` (`NamesAreEntitled`),
`PartnersRateOncePerDeal` (`OncePerDeal`), `DealCountsAgree` (`DealsMirrored`), `CustomsImplements`.

The steps of GroupDeal are reused, not proved again: what its invariant
`DealInv` says is kept by each of its steps, and AfterDeal's own steps change of the
deal only the chat (`BaseInv`).  A closed deal stays as it is (`Sealed`): the
winner, and the votes behind it, do not change, so `AfterInv` can say that a bid
under way was checked against a closed deal, that the chosen carrier has a vote, that partners have
completed a deal, and that one round of notices went with the one winner.  `NamesAreEntitled`
then goes view by view: every view that shows a carrier computes a majority,
which `ShownIsClosed` makes the deal's own, and the chat holds only who entered and who was chosen.

The rows of ratings are counted by a map: each row names a deal that the two completed, and no two
the same (`RatedOnce`), because no row leaves its deal out and the UNIQUE constraint, which rows without
a deal would escape, refuses a second one; so the row's deal is a one-to-one map from rows to deals, and there are no more of the first.
`RatedOnce` stays because a completed deal is never completed less: a closed deal keeps its votes (`DealsStay`).
`DealsMirrored` compares three queries of different shape.  That the deals somebody is a party of are those
completed with somebody is set algebra (`PartiesAgree`); the composite score adds the deals as a client
to those as a carrier, so it counts those in both roles, with oneself, twice.  In a closed group
without a dissenting vote both roles come from the one winner (`GroupRoles`), and the sizes add up by
inclusion and exclusion (`ScoreCounts`).

### The warehouse's route (`DispatchProofs`)

For any drivers, cargos, competitions and batches, and any number of saves at a time:
`TypeCorrect`; `CompetitionsSettle` (`CompetitionSettles`) and `DriverCompetitionsImplement`, from
`CompInv`: a selection needs an open competition, which has no winner yet, and a bid that
arrives late is submitted, not selected; `BatchesAreWhole` (`BatchIsWhole`), from `BuildInv`:
what there is of a batch at each statement of its save (`Built`), and that no save touches
the batch of another (`OwnBatchOnly`), since its id is its own.

For one save at a time (`OneSave`, a hypothesis of the theorems: two saves do break them),
from `SerialInv`: `SavesDoNotDuplicate` (`OneActiveBatch`), because nothing becomes active
between the check and the INSERT (`CheckHolds`); `CargosTravelOnce` (`CargoTravelsOnce`), because
a candidate is in no batch but the one being filled (`CandidatesFree`);
`BatchesFollowThreshold` (`BatchFollowsThreshold`), because a save past its first statement
and not about to dispatch has not written "below" (`BelowDispatches`);
and, from `AutoInv`, `AnnouncementsDoNotPile` (`OneAutomatic`), because between the check and the INSERT
of an announcement no announced competition is open, and one created by hand is never an announced one.

### Suggestions and merges (`ConsolidationProofs`)

For any cargos, suggestions, answers, matching jobs and selections, all at a time: `ConsTypeCorrect`
(`ConsTypeOK`), `MergedCargosClosed` (`MergedAreClosed`), `MergesAnswered` (`MergeHasAnswers`) and
`AnswersAreKept`, from the invariant `Inv`.

The answer reads the member rows without a lock, so nothing it decides on need be true when it commits.
What is left is what `Inv` names.  Its own member row, taken by the first UPDATE, keeps the suggestion from
being dissolved, because the cascade waits for member rows; the cargos it closes are held until
the commit, so no selection that has checked "open" under its lock loses that (`AnswerLocked`,
`Selecting`).  Who had agreed when the rows were listed has answered now, since no statement takes an answer
back (`AnswerKnows`, and `Progress`, which is what every step keeps): a member row is inserted once,
by the one job that records its suggestion (`Fresh`), and a deletion takes only suggestions
that are open when their row is locked (`Doomed`), never a resolved one.  So the suggestion behind a
merge stays, with all of its members answered (`Witnessed`).

What two answers or two jobs at a time can break (`cons_unresolved` shows one case) holds
without them.  `Serial` is a hypothesis of the theorems, one matching job and one answer at a time, any
number of selections: `SerialResolved` (`AnsweredIsResolved`), `SerialOneSuggestion`
(`OneSuggestionAtATime`), `SerialMergedOnce` (`MergedOnce`) and `SerialDeclinedOut` (`DeclinedStaysOut`).
What the answer listed is then still so, but for members added since (`Current`); the
candidates of the job stay free until it adds them (`PoolFree`); and a merged cargo keeps its
suggestion, which keeps it out of every other (`MergedClaimed`).

`CompetitionSurvivesMerges` carries the refinement over to the composition: `ConsSpec` implements
Competition too.  The invariant of OfferSelection is of no use here.  `DealIsWhole` is false once a
merge may close a matched cargo, and answers and jobs hold locks that OfferSelection does not know.
Less is enough (`Sales`): a cargo that is open, or not yet created, has no selected offer
(`OpenUnsold`), and a selection past its checks has an offer of its own cargo (`Claims`).  A merge
only closes cargos, so it takes none back to open (`NotReopened`); and a selection commits
under the cargo's lock, which no merge gets past (`Selecting`).  So an award remains the first and
only one of its lot, though the cargo's own status may have lost the trace of it.

### Accounts, tools, notices, files (`ToolProofs`)

About `PlatformSpec`, all families of operations interleaving without a bound, for any companies,
employees, tools, requests, places and limits.  What a step does to the requests in flight and to
the accounts comes first, then the parts above them:

- `LogIsComplete` (`LogExplainsCompany`) and `HierarchyIsFlat` (`Hierarchy`), from `AccountsInv`:
  what a request has checked stays true until it writes, because a company never becomes an
  employee and what was active once has been; that two verdicts of one verification are not
  in the middle of their transactions at the same time is the row lock's doing.
- `StaffGivesAdminTools` (`NoSelfPromotion`) and `ReplacementsAreExact` (`ToolsTogether`), from `ToolsInv`:
  replacements that met know of each other; one that is alone finds the tools as its DELETE saw
  them, and has inserted all but what it has left.  `NoSelfPromotion` needs more than
  alone-ness: a request of my_tools carries no admin tool, and its DELETE only removes.
- `FleetIsBounded` (`FleetWithinLimit`): vehicles and requests about to insert one are at
  most the limit, less one, and the requests in flight; a count is a new request, which was idle.
- `NothingIsMissed` (`NeverMissed`): the audience is read after the event opens, so whoever looks at a list
  earlier than that and finds nothing is in the audience if nothing changed (`AllReached`);
  whatever changes outdates the look.  `RuleIsOne` (`OneRule`) is the fact about the three
  queries it needs: in each the band of latitudes that the index serves is implied by the radius.
- `RowsAreBacked` (`RowsShowTheirFile`), from `UploadsInv`: the file is there before the row, and keys are
  injective.

### Sessions and the chat (`SessionProofs`)

- `PlatformIsTyped` (`PlatformTypeOK`) and `PartsHold` (`PlatformInv`): types and inductive invariants of all
  six modules, on the composition.
- `SessionsEnd` (`SilentSessionEnds`), from `SessionsInv`: a refresh about to sign for an account
  cut off meanwhile was checked in this tick, so the clock of the block still stands at zero
  when the token begins to live.
- `AttemptsAreBounded` (`AttemptsBounded`): what is recent is still recorded, because the clean-up takes only rows
  older than two windows; so the count sees all that the property counts.
- `VisitsAreStamped` (`VisitIsStamped`): an entry of the map is never younger than the stamp it stands
  for, unless the stamp was lost.
- `ReadersAreEntitled` (`EntitledReaders`): windows show what is stored, and everybody an answer is on
  its way to was a participant when it was asked (`ChatInv`).
- `NothingIsSkipped` (`TailComplete`), from `TailInv`: messages enter the table in the order of their times
  (`InOrder`), a window has shown nothing after its cursor, and an answer leaves out nothing between
  the cursor it was asked with and its own last row (`NothingBetween`).

### The algorithms (`AlgorithmProofs`)

About Matcher, for every finite pool, any limits, radii and symmetric distance, volumes and weights being
natural numbers (the service computes with floats):

- `MatcherKeepsTheContract`: groups of two and more clients, disjoint, within both limits, all members along the
  seed's way.  This is what Consolidation assumes of the answer (`JobGroup`).
- `MatcherLeavesNoneThatFit`: no cargo left over fits one of the groups, and no two fit each other, in either
  order.  The loop looks only at cargos created after the seed.  Two facts make that enough: a group only
  grows, so what did not fit once never fits again (`FullerGroup`); and matching is symmetric, because either
  country's radius suffices, so whoever would fit an earlier group's seed was seen by it, or saw
  it (`SeedFits`).  With only the seed's radius asked for, the theorem would be false.

Both are inductions over the two loops.  The library's induction theorems cannot be used here, since they take a
predicate as a parameter; `NatSetInduction` derives the same for a set of numbers from a fact about finite sets (a
one-to-one map of a finite set into itself is onto), and `LoopStates` gives, for a loop over
1..n, the one function of its states.

About RatingScore, for any counts and any average of the reviews: `ScoreBounded`, `WorkNeverHurts` and
`ReviewsPullScores`, with the caps, the change of weights when there is no review, and the rounding.  The
code multiplies rounded binary fractions, so a score that lies exactly between two tenths may
be rounded to the other one there; the theorems are about the exact score.

### Only model-checked

Liveness: `RequestsEnd` and `AnswersEnd` need fairness and ENABLED, which are out of the prover's reach.
The cases of the unit tests, and the three runs of comments the code departs from.
Every invariant and every action property of the other runs is stated by a theorem.

## 5. Not modelled, and what could follow

- *Settings, staff accounts, analytics*: updates of single rows and read-only aggregates.
  Settings enter the models as constants, or as a value read once.
- *HTTP wiring, commands, migrations*: `Platform` composes what the routes offer; the commands are
  one-off tools; the migrations are where the models take constraints and cascades from.
- *The web client* except the chat window: presentation over the same requests.
- *Partly*: the report of suspicious pairs (a read-only aggregate), fill reports' averages (inputs of
  `RatingScore`), a vehicle's location (a plain UPDATE), the threshold's reminder, several
  routes of one warehouse at once (their tables do not meet except in `BatchCandidates`, by cargo),
  the in-memory rate limiter (wired to nothing), the entry count that starts a sweep of the
  activity map (a sweep may come at any time).

What would add most from here: several routes of one warehouse, a payment provider that keeps state,
and fairness for the windows of the chat.
