----------------------------- MODULE GroupDeal -----------------------------
(***************************************************************************)
(* The deal of one consolidated request: a subscribed member invites the   *)
(* others, each of them pays or has a subscription and accepts, carriers   *)
(* bid, and the accepted members vote until a majority names one bid.      *)
(* Inviting, paying and bidding are sequences of statements outside a      *)
(* transaction; accepting and voting are an unlocked read of the user      *)
(* followed by a transaction under FOR UPDATE on the consolidated row.     *)
(* Every other writer needs that row too (its UPDATE, or the foreign key   *)
(* of its INSERT), so each such transaction is one atomic step.            *)
(* Accounts stay eligible here: SetUserStatus is checked on OfferSelection.*)
(***************************************************************************)
EXTENDS Naturals, FiniteSets

CONSTANTS
    User, Client,       \* Client: the distinct owners of the member cargos
    Offer, Author,      \* [Offer -> User]; members may bid as well
    Req,                \* concurrent HTTP requests
    Subscriber,         \* who has a subscription at the start
    Volatile,           \* bound: whose subscription changes
    Payer,              \* bound: who pays, or is marked as paid
    Lossy               \* bound: a request may stop between two statements

ASSUME ClientType == Client \subseteq User /\ IsFiniteSet(Client)
ASSUME SubscriberType == Subscriber \subseteq User
ASSUME AuthorType == Author \in [Offer -> User]
ASSUME BoundsType == Volatile \subseteq User /\ Payer \subseteq User
ASSUME NoneFresh == "none" \notin User \cup Offer

VARIABLES
    status,             \* "open" | "matched"
    invite,             \* "none" | "invited" | "accepted"
    initiator,          \* initiator_client_id
    accepted,           \* consolidated_acceptances
    paid,               \* consolidated_payments, UNIQUE per client
    chatOpen, chat,     \* chat_id is set; the participants of the chat
    bids, selected,     \* the offers, and those with status selected
    vote,               \* consolidated_selections: [Client -> Offer \cup {"none"}]
    closings,           \* how often the closing notices went out
    subscribed,         \* users with has_subscription
    everSubscribed,     \* history: who ever had one
    pc, who, what,      \* per request: next statement, user, offer
    wasSubscribed       \* ... has_subscription when the user was read

dealVars == <<status, invite, initiator, accepted, chatOpen, chat, bids,
              selected, vote, closings>>
subVars == <<subscribed, everSubscribed>>
reqVars == <<pc, who, what, wasSubscribed>>
vars == <<dealVars, paid, subVars, reqVars>>

Init ==
    /\ status = "open" /\ invite = "none" /\ initiator = "none"
    /\ accepted = {} /\ paid = {}
    /\ chatOpen = FALSE /\ chat = {}
    /\ bids = {} /\ selected = {}
    /\ vote = [u \in Client |-> "none"]
    /\ closings = 0
    /\ subscribed = Subscriber /\ everSubscribed = Subscriber
    /\ pc = [r \in Req |-> "idle"]
    /\ who = [r \in Req |-> "none"]
    /\ what = [r \in Req |-> "none"]
    /\ wasSubscribed = [r \in Req |-> FALSE]

Start(r, l, u, o) ==
    /\ pc[r] = "idle"
    /\ pc' = [pc EXCEPT ![r] = l]
    /\ who' = [who EXCEPT ![r] = u]
    /\ what' = [what EXCEPT ![r] = o]
    /\ wasSubscribed' = [wasSubscribed EXCEPT ![r] = u \in subscribed]
    /\ UNCHANGED <<dealVars, paid, subVars>>

Step(r, from, to) ==
    /\ pc[r] = from
    /\ pc' = [pc EXCEPT ![r] = to]
    /\ UNCHANGED <<who, what, wasSubscribed>>

Finish(r, from) ==
    /\ pc[r] = from
    /\ pc' = [pc EXCEPT ![r] = "idle"]
    /\ who' = [who EXCEPT ![r] = "none"]
    /\ what' = [what EXCEPT ![r] = "none"]
    /\ wasSubscribed' = [wasSubscribed EXCEPT ![r] = FALSE]

-----------------------------------------------------------------------------
\* InviteConsolidated: the checks; then SetInvite and AddAcceptance, each
\* committed on its own (the notices to the other members are left out).
BeginInvite(r, u) ==
    /\ u \in Client \cap subscribed
    /\ invite = "none"
    /\ Start(r, "setInvite", u, "none")

SetInvite(r) ==
    /\ Step(r, "setInvite", "addInitiator")
    /\ invite' = "invited" /\ initiator' = who[r]
    /\ UNCHANGED <<status, accepted, chatOpen, chat, bids, selected, vote,
                   closings, paid, subVars>>

AddInitiator(r) ==
    /\ accepted' = accepted \cup {who[r]}
    /\ Finish(r, "addInitiator")
    /\ UNCHANGED <<status, invite, initiator, chatOpen, chat, bids, selected,
                   vote, closings, paid, subVars>>

-----------------------------------------------------------------------------
\* PayConsolidated: the checks, the charge (the sandbox provider keeps no
\* state), then the INSERT, which fails on the UNIQUE constraint when the
\* payment is already recorded.
BeginPay(r, u) ==
    /\ invite # "none" /\ initiator # u
    /\ Start(r, "insertPayment", u, "none")

InsertPayment(r) ==
    /\ paid' = paid \cup {who[r]}
    /\ Finish(r, "insertPayment")
    /\ UNCHANGED <<dealVars, subVars>>

\* An administrator records a payment by hand, for any user.
MarkConsolidatedPayment(u) ==
    /\ u \notin paid
    /\ paid' = paid \cup {u}
    /\ UNCHANGED <<dealVars, subVars, reqVars>>

SetUserSubscription(u) ==
    /\ \/ subscribed' = subscribed \cup {u}
       \/ subscribed' = subscribed \ {u}
    /\ everSubscribed' = everSubscribed \cup subscribed'
    /\ UNCHANGED <<dealVars, paid, reqVars>>

-----------------------------------------------------------------------------
\* AcceptConsolidated: the user is read first; the rest is one transaction.
BeginAccept(r, u) == Start(r, "accept", u, "none")

\* Mutant: neither a subscription nor a payment is asked for.
MayAcceptFree(r) == /\ invite # "none" /\ initiator # who[r]
                    /\ who[r] \notin accepted

MayAccept(r) == /\ invite # "none" /\ initiator # who[r]
                /\ who[r] \notin accepted
                /\ wasSubscribed[r] \/ who[r] \in paid

\* The first acceptance opens the chat, with the initiator.
Accept(r) ==
    /\ \/ /\ MayAccept(r)
          /\ accepted' = accepted \cup {who[r]}
          /\ \/ /\ ~chatOpen
                /\ chatOpen' = TRUE
                /\ chat' = {initiator, who[r]}
                /\ invite' = "accepted"
             \/ /\ chatOpen
                /\ chat' = chat \cup {who[r]}
                /\ UNCHANGED <<chatOpen, invite>>
       \/ ~MayAccept(r) /\ UNCHANGED <<accepted, chatOpen, chat, invite>>
    /\ Finish(r, "accept")
    /\ UNCHANGED <<status, initiator, bids, selected, vote, closings,
                   paid, subVars>>

-----------------------------------------------------------------------------
\* CreateConsolidatedOffer: the check, then the INSERT.
BeginOffer(r, o) ==
    /\ status = "open"
    /\ o \notin bids /\ \A q \in Req : pc[q] = "insertOffer" => what[q] # o
    /\ Start(r, "insertOffer", Author[o], o)

InsertOffer(r) ==
    /\ bids' = bids \cup {what[r]}
    /\ Finish(r, "insertOffer")
    /\ UNCHANGED <<status, invite, initiator, accepted, chatOpen, chat,
                   selected, vote, closings, paid, subVars>>

-----------------------------------------------------------------------------
\* groupSelectionState: the offers with more than half of the accepted members.
Votes(v, acc, o) == {u \in acc : v[u] = o}
Majority(v, acc) ==
    {o \in Offer : Cardinality(Votes(v, acc, o)) * 2 > Cardinality(acc)}

GroupSelectionState ==
    LET voters == {u \in accepted : vote[u] # "none"}
    IN IF voters = {} THEN "none"
       ELSE IF Majority(vote, accepted) # {} THEN "matched"
       ELSE IF voters = accepted THEN "mismatch"
       ELSE "waiting_other"

\* SelectConsolidatedOffer: a matched group is answered without a change.
BeginSelect(r, u, o) == Start(r, "select", u, o)

\* Mutants: a vote after the closing; a vote of a member who has not accepted.
MayVoteAgain(r) == /\ invite = "accepted"
                   /\ who[r] \in accepted
                   /\ what[r] \in bids
MayVoteUnaccepted(r) == /\ invite = "accepted" /\ status = "open"
                        /\ what[r] \in bids

MayVote(r) == /\ invite = "accepted" /\ status = "open"
              /\ who[r] \in accepted
              /\ what[r] \in bids

\* The winner's author joins the chat, if there is one.
CarrierJoins(winners) ==
    IF chatOpen THEN chat \cup {Author[o] : o \in winners} ELSE chat

Select(r) ==
    LET v == [vote EXCEPT ![who[r]] = what[r]]
        winners == Majority(v, accepted)
    IN /\ \/ /\ MayVote(r)
             /\ vote' = v
             /\ \/ /\ winners # {}
                   /\ selected' = selected \cup winners
                   /\ status' = "matched"
                   /\ chat' = CarrierJoins(winners)
                   /\ closings' = closings + 1
                \/ winners = {} /\ UNCHANGED <<selected, status, chat, closings>>
          \/ ~MayVote(r) /\ UNCHANGED <<vote, selected, status, chat, closings>>
       /\ Finish(r, "select")
       /\ UNCHANGED <<invite, initiator, accepted, chatOpen, bids,
                      paid, subVars>>

\* The connection or the server is lost between two statements.
Abort(r) == /\ Lossy /\ pc[r] # "idle"
            /\ Finish(r, pc[r])
            /\ UNCHANGED <<dealVars, paid, subVars>>

-----------------------------------------------------------------------------
Next ==
    \/ \E u \in Volatile : SetUserSubscription(u)
    \/ \E u \in Payer : MarkConsolidatedPayment(u)
    \/ \E r \in Req :
          \/ \E u \in Client : BeginInvite(r, u) \/ BeginAccept(r, u)
          \/ \E u \in Client \cap Payer : BeginPay(r, u)
          \/ \E u \in Client, o \in Offer : BeginSelect(r, u, o)
          \/ \E o \in Offer : BeginOffer(r, o)
          \/ SetInvite(r) \/ AddInitiator(r)
          \/ InsertPayment(r)
          \/ Accept(r) \/ InsertOffer(r) \/ Select(r)
          \/ Abort(r)

Spec == Init /\ [][Next]_vars

-----------------------------------------------------------------------------
\* Every variable ranges over its type, and a request under way knows its user.
TypeOK ==
    /\ status \in {"open", "matched"}
    /\ invite \in {"none", "invited", "accepted"}
    /\ initiator \in Client \cup {"none"}
    /\ accepted \subseteq Client /\ paid \subseteq User
    /\ chatOpen \in BOOLEAN /\ chat \subseteq User
    /\ bids \subseteq Offer /\ selected \subseteq Offer
    /\ vote \in [Client -> Offer \cup {"none"}]
    /\ closings \in Nat
    /\ subscribed \subseteq User /\ everSubscribed \subseteq User
    /\ pc \in [Req -> {"idle", "setInvite", "addInitiator",
                       "insertPayment", "accept", "insertOffer", "select"}]
    /\ who \in [Req -> User \cup {"none"}]
    /\ what \in [Req -> Offer \cup {"none"}]
    /\ wasSubscribed \in [Req -> BOOLEAN]
    /\ \A r \in Req : pc[r] # "idle" => who[r] \in User

\* A closed deal has one selected offer, went out once and brought the
\* carrier into the chat; an open one has none of this, whatever votes race
\* ("the side effects of closing are executed exactly once").
ClosedOnce ==
    IF status = "matched"
    THEN /\ closings = 1
         /\ \E o \in bids : selected = {o} /\ Author[o] \in chat
    ELSE closings = 0 /\ selected = {}

\* The carrier that the status page computes from the votes is the one of the
\* closed deal: no carrier is shown while the competition is open, and never
\* another one (GetConsolidatedStatus decides on the votes, not the status).
ShownIsClosed == \A o \in Majority(vote, accepted) :
    status = "matched" /\ selected = {o}

\* Only members who paid or had a subscription enter the group, and only
\* they vote: the entry fee cannot be raced (AcceptConsolidated).
EntryIsPaid == /\ accepted \subseteq paid \cup everSubscribed
               /\ {u \in Client : vote[u] # "none"} \subseteq accepted

\* The chat is closed to everybody but the members who entered or invited
\* and, once the deal is closed, the carrier chosen: a losing carrier never
\* reads it.
ChatIsPrivate == \A u \in chat \ Client : \E o \in selected : Author[o] = u

-----------------------------------------------------------------------------
(* The inductive invariant behind the properties above.                    *)

\* What a request carries from its checks to its statements.
RequestsKnow == \A r \in Req :
    /\ pc[r] \in {"setInvite", "addInitiator", "accept", "select"} => who[r] \in Client
    /\ pc[r] \in {"setInvite", "addInitiator"} => who[r] \in everSubscribed
    /\ wasSubscribed[r] => who[r] \in everSubscribed
    /\ pc[r] \in {"insertOffer", "select"} => what[r] \in Offer

\* The chat is there before anybody may vote, and it has an initiator.
ChatComesFirst ==
    /\ invite # "none" => initiator \in Client
    /\ (invite = "accepted" \/ status = "matched" \/ chat # {}) => chatOpen

\* Votes name bids that were made.
VotesAreBids == \A u \in Client : vote[u] # "none" => vote[u] \in bids

DealInv == /\ RequestsKnow /\ subscribed \subseteq everSubscribed
           /\ ChatComesFirst /\ VotesAreBids
           /\ ClosedOnce /\ ShownIsClosed /\ ChatIsPrivate /\ EntryIsPaid

-----------------------------------------------------------------------------
\* The group's vote implements the abstract competition, with one lot.
Comp == INSTANCE Competition WITH
    Lot <- {"deal"}, Bid <- Offer, NoBid <- "none",
    LotOf <- [o \in Offer |-> "deal"], AuthorOf <- Author,
    winner <- [l \in {"deal"} |-> IF selected = {} THEN "none"
                                  ELSE CHOOSE o \in Offer : o \in selected],
    bids <- bids,
    revealed <- {<<"deal", Author[o]>> : o \in selected}

\* One bid wins in one step that reveals its author alone, and stays the
\* winner (Competition).
ImplementsCompetition == Comp!Spec

-----------------------------------------------------------------------------
\* "Reveal the matched carrier": a closed deal stays shown as matched, with
\* its carrier, to every member who asks or votes again.
MatchedIsShown == status = "matched" => GroupSelectionState = "matched"
=============================================================================
