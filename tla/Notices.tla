------------------------------- MODULE Notices -------------------------------
(***************************************************************************)
(* What participants hear of: routes, the lists of what is open, and the   *)
(* notifications of it.  What opens is a cargo request, a consolidated     *)
(* request, a driver competition (of Dispatch) or a customs competition    *)
(* (of AfterDeal).  The rows of notifications are inserted one by one,     *)
(* after the row they are about; only those of a customs competition       *)
(* belong to the transaction of the deal.  Points lie on a meridian, at    *)
(* tenths of a degree; distances are in tenths of a kilometre.  Composed   *)
(* with Tools: the lists and the notifications depend on status and tools. *)
(***************************************************************************)
EXTENDS Tools

CONSTANTS
    Point, latitude, country, \* [Point -> Nat], [Point -> {"cn", "kz", ""}]
    cnKm, kzKm,               \* the radii, in tenths of a kilometre
    Event, Kind,              \* what opens, [Event -> Feed]
    Direction,                \* [Event -> Path], not used for customs
    Poster,                   \* the client of a cargo request
    receive_cargo_by_route, manage_customs_docs,
    Route,                    \* bound: the routes anybody enters
    Watcher                   \* bound: who has routes and reads

Feed == {"cargo", "group", "haul", "customs"}
Path == [origin : Point, destination : Point]

ASSUME PointsType == latitude \in [Point -> Nat] /\ country \in [Point -> {"cn", "kz", ""}]
ASSUME RadiiType == cnKm \in Nat \ {0} /\ kzKm \in Nat \ {0}
ASSUME EventsType == /\ Kind \in [Event -> Feed] /\ Direction \in [Event -> Path]
                     /\ Poster \in Company
ASSUME FeedToolsType == {receive_cargo_by_route, manage_customs_docs} \subseteq Tool
ASSUME RoutesType == Route \subseteq Path /\ Watcher \subseteq Company

VARIABLES
    routes,                   \* participant_routes, per watcher
    event,                    \* absent, open or closed
    fan, toTell,              \* how far the notifications are, whom they still go to
    unread, read,             \* notifications, per watcher
    seen, fresh               \* history: what the lists last showed, and the lists
                              \* that were read with the present routes and tools

fanVars == <<fan, toTell, unread, read>>
lookVars == <<seen, fresh>>
noticeVars == <<routes, event, fanVars, lookVars>>

NoticesInit ==
    /\ routes = [u \in Watcher |-> {}]
    /\ event = [e \in Event |-> "absent"]
    /\ fan = [e \in Event |-> "none"] /\ toTell = [e \in Event |-> {}]
    /\ unread = [u \in Watcher |-> {}] /\ read = [u \in Watcher |-> {}]
    /\ seen = [u \in Watcher |-> {}] /\ fresh = [u \in Watcher |-> {}]

-----------------------------------------------------------------------------
\* The rule of the radii, which three queries repeat.

Apart(p, q) == IF latitude[p] < latitude[q] THEN latitude[q] - latitude[p]
                                            ELSE latitude[p] - latitude[q]
haversine_km(p, q) == 111 * Apart(p, q)
Greatest(m, n) == IF m < n THEN n ELSE m
RadiusKm(p) == IF country[p] = "cn" THEN cnKm ELSE kzKm

Within(p, q) == haversine_km(p, q) <= Greatest(RadiusKm(p), RadiusKm(q))

\* Mutant: the radius of the route alone.
RouteRadius(r, d) == /\ haversine_km(r.origin, d.origin) <= RadiusKm(r.origin)
                     /\ haversine_km(r.destination, d.destination) <= RadiusKm(r.destination)

\* The band of latitudes that an index serves, 110 km to a degree.
InBand(p, q) == 110 * Apart(p, q) <= Greatest(cnKm, kzKm)

\* ListUserIDsWithToolAndRoute.
MatchesAudience(r, d) ==
    InBand(r.origin, d.origin) /\ Within(r.origin, d.origin) /\ Within(r.destination, d.destination)

\* ListOpenMatchingUserRoutes, and the same for consolidated requests.
MatchesList(r, d) ==
    InBand(d.origin, r.origin) /\ Within(r.origin, d.origin) /\ Within(r.destination, d.destination)

\* ForUsersMatchingRoute, which shows clients the thresholds of the offers.
MatchesThreshold(r, d) == Within(r.origin, d.origin) /\ Within(r.destination, d.destination)

-----------------------------------------------------------------------------
\* The lists, and whom the notifications go to.

FeedTool(k) == CASE k = "haul" -> manage_fleet
                 [] k = "customs" -> manage_customs_docs
                 [] OTHER -> receive_cargo_by_route

ListAvailable(u, k) == {e \in Event :
    /\ Kind[e] = k /\ event[e] = "open"
    /\ \E r \in routes[u] : MatchesList(r, Direction[e])}

ListOpenCompetitions(k) == {e \in Event : Kind[e] = k /\ event[e] = "open"}

MayList(u, k) == /\ IF k \in {"cargo", "group"} THEN isEligibleStatus(u)
                                                ELSE requireActiveUser(u)
                 /\ UserHasTool(u, FeedTool(k))

Listed(u, k) == IF k \in {"cargo", "group"} THEN ListAvailable(u, k)
                                            ELSE ListOpenCompetitions(k)

\* Their own tool counts, not the one of their company.
HoldsTool(u, t) == status[u] = "active" /\ t \in active \cap userTools[u]

ListActiveUserIDsWithTool(t) == {u \in Watcher : HoldsTool(u, t)}

ListUserIDsWithToolAndRoute(t, d) == {u \in Watcher :
    HoldsTool(u, t) /\ \E r \in routes[u] : MatchesAudience(r, d)}

Audience(e) ==
    IF Kind[e] = "customs" THEN ListActiveUserIDsWithTool(FeedTool("customs"))
    ELSE ListUserIDsWithToolAndRoute(FeedTool(Kind[e]), Direction[e])

-----------------------------------------------------------------------------
\* What opens and closes.

Open(e) == event[e] = "absent" /\ event' = [event EXCEPT ![e] = "open"]

\* CreateCargoRequest: the INSERT; the notifications follow.
CreateCargoRequest(e) ==
    /\ Kind[e] = "cargo" /\ isEligibleStatus(Poster)
    /\ Open(e)
    /\ fan' = [fan EXCEPT ![e] = "due"]
    /\ UNCHANGED <<accountVars, job, toolVars, routes, toTell, unread, read, lookVars>>

\* A driver competition, by hand or at the threshold (Dispatch).
DriverCompetitionOpens(e) ==
    /\ Kind[e] = "haul"
    /\ Open(e)
    /\ fan' = [fan EXCEPT ![e] = "due"]
    /\ UNCHANGED <<accountVars, job, toolVars, routes, toTell, unread, read, lookVars>>

\* The merge opens a consolidated request and notifies no carrier.
ConsolidatedOpens(e) ==
    /\ Kind[e] = "group"
    /\ Open(e)
    /\ UNCHANGED <<accountVars, job, toolVars, routes, fanVars, lookVars>>

\* notifyCustomsReps, inside the transaction that closes the group's deal.
CustomsOpens(e) ==
    /\ Kind[e] = "customs"
    /\ Open(e)
    /\ fan' = [fan EXCEPT ![e] = "told"]
    /\ unread' = [u \in Watcher |-> IF u \in Audience(e) THEN unread[u] \cup {e}
                                                         ELSE unread[u]]
    /\ UNCHANGED <<accountVars, job, toolVars, routes, toTell, read, lookVars>>

\* A deal, a merge or an expiry; the notifications stay.
Close(e) ==
    /\ event[e] = "open"
    /\ event' = [event EXCEPT ![e] = "closed"]
    /\ UNCHANGED <<accountVars, job, toolVars, routes, fanVars, lookVars>>

\* notifyMatchingParticipants, notifyDriversAboutCompetition: the SELECT ...
ReadAudience(e) ==
    /\ fan[e] = "due"
    /\ fan' = [fan EXCEPT ![e] = "told"]
    /\ toTell' = [toTell EXCEPT ![e] = Audience(e)]
    /\ UNCHANGED <<accountVars, job, toolVars, routes, event, unread, read, lookVars>>

\* ... and one INSERT after the other, whatever has changed since.
CreateNotification(e, u) ==
    /\ u \in toTell[e]
    /\ toTell' = [toTell EXCEPT ![e] = @ \ {u}]
    /\ unread' = [unread EXCEPT ![u] = @ \cup {e}]
    /\ UNCHANGED <<accountVars, job, toolVars, routes, event, fan, read, lookVars>>

\* A statement fails, or the server is lost: nobody notifies the others.
LoseNotifications(e) ==
    /\ fan[e] = "due" \/ toTell[e] # {}
    /\ fan' = [fan EXCEPT ![e] = "lost"]
    /\ toTell' = [toTell EXCEPT ![e] = {}]
    /\ UNCHANGED <<accountVars, job, toolVars, routes, event, unread, read, lookVars>>

-----------------------------------------------------------------------------
\* Routes and reading.

\* The lists and notifications that u's status, tools and routes let through;
\* a change outdates the lists u has read.
Reach(u) == IF requireActiveUser(u) THEN <<active \cap userTools[u], routes[u]>>
                                    ELSE <<{}, {}>>

Outdate ==
    /\ fresh' = [u \in Watcher |-> IF Reach(u)' = Reach(u) THEN fresh[u] ELSE {}]
    /\ seen' = [u \in Watcher |-> IF Reach(u)' = Reach(u) THEN seen[u] ELSE {}]

\* The history of a step of Accounts or Tools.
FollowWatchers == UNCHANGED <<routes, event, fanVars>> /\ Outdate

InsertRoute(u, r) ==
    /\ r \notin routes[u]                            \* else ErrRouteExists
    /\ routes' = [routes EXCEPT ![u] = @ \cup {r}]

DeleteRoute(u, r) ==
    /\ r \in routes[u]                               \* else ErrNotFound
    /\ routes' = [routes EXCEPT ![u] = @ \ {r}]

AddMyRoute(u, r) == requireActiveUser(u) /\ InsertRoute(u, r)
DeleteMyRoute(u, r) == requireActiveUser(u) /\ DeleteRoute(u, r)

\* By staff, for any account, with an audit entry in the same transaction.
AddUserRoute(u, r) == status[u] # "absent" /\ InsertRoute(u, r)
DeleteUserRoute(u, r) == status[u] # "absent" /\ DeleteRoute(u, r)

RouteStep(u, r) ==
    /\ AddMyRoute(u, r) \/ DeleteMyRoute(u, r) \/ AddUserRoute(u, r) \/ DeleteUserRoute(u, r)
    /\ UNCHANGED <<accountVars, job, toolVars, event, fanVars>>
    /\ Outdate

\* A participant reads one of the lists.
Look(u, k) ==
    /\ MayList(u, k)
    /\ seen' = [seen EXCEPT ![u] = {e \in @ : Kind[e] # k} \cup Listed(u, k)]
    /\ fresh' = [fresh EXCEPT ![u] = @ \cup {k}]
    /\ UNCHANGED <<accountVars, job, toolVars, routes, event, fanVars>>

\* All of them, those that came after the list of notifications was read too.
MarkMyNotificationsRead(u) ==
    /\ isEligibleStatus(u) /\ unread[u] # {}
    /\ read' = [read EXCEPT ![u] = @ \cup unread[u]]
    /\ unread' = [unread EXCEPT ![u] = {}]
    /\ UNCHANGED <<accountVars, job, toolVars, routes, event, fan, toTell, lookVars>>

EventStep(e) ==
    \/ CreateCargoRequest(e) \/ DriverCompetitionOpens(e) \/ ConsolidatedOpens(e)
    \/ CustomsOpens(e) \/ Close(e)
    \/ ReadAudience(e) \/ LoseNotifications(e) \/ \E u \in Watcher : CreateNotification(e, u)

WatcherStep(u) == \/ \E r \in Route : RouteStep(u, r)
                  \/ MarkMyNotificationsRead(u)

-----------------------------------------------------------------------------
NoticesTypeOK ==
    /\ routes \in [Watcher -> SUBSET Route]
    /\ event \in [Event -> {"absent", "open", "closed"}]
    /\ fan \in [Event -> {"none", "due", "told", "lost"}]
    /\ toTell \in [Event -> SUBSET Watcher]
    /\ unread \in [Watcher -> SUBSET Event] /\ read \in [Watcher -> SUBSET Event]
    /\ seen \in [Watcher -> SUBSET Event] /\ fresh \in [Watcher -> SUBSET Feed]

\* The lists, the notifications and the thresholds of offers follow one rule
\* (the comments on ListUserIDsWithToolAndRoute and ForUsersMatchingRoute):
\* whoever is told of something open finds it in the list, who finds a cargo
\* there is told when active with an own tool, and the clients of a cargo see
\* the thresholds of exactly those carriers who see the cargo.
OneRule == \A e \in Event, u \in Watcher : event[e] = "open" =>
    /\ u \in Audience(e) => MayList(u, Kind[e]) /\ e \in Listed(u, Kind[e])
    /\ Kind[e] \in {"cargo", "group"} =>
         /\ e \in Listed(u, Kind[e]) /\ HoldsTool(u, receive_cargo_by_route) => u \in Audience(e)
         /\ e \in Listed(u, Kind[e]) <=> \E r \in routes[u] : MatchesThreshold(r, Direction[e])

\* Nobody misses what is open: an active participant with the tool, whose last
\* list of it was read with the routes and tools of now, finds it on that list
\* or among the notifications, unless these are still to come or were lost.
NeverMissed == \A u \in Watcher, e \in Event :
    /\ event[e] = "open" /\ fan[e] \notin {"none", "due", "lost"}
    /\ Kind[e] \in fresh[u] /\ HoldsTool(u, FeedTool(Kind[e]))
    /\ Kind[e] = "haul" => \E r \in routes[u] : MatchesThreshold(r, Direction[e])
    /\ e \in Listed(u, Kind[e])
    => e \in seen[u] \cup unread[u] \cup read[u] \/ u \in toTell[e]

-----------------------------------------------------------------------------
\* What NeverMissed rests on: nobody is ever due to be told of a consolidated
\* request, and only a cargo request or a haul waits for its notifications.
NoticesInv == \A e \in Event :
    /\ fan[e] = "due" => Kind[e] \in {"cargo", "haul"}
    /\ fan[e] = "told" => Kind[e] # "group"
=============================================================================
