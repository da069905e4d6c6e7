----------------------------- MODULE AfterDeal -----------------------------
(***************************************************************************)
(* What follows the closed deal of a consolidated request: the competition *)
(* of customs representatives for its clearance, and what a completed deal *)
(* entitles its parties to: ratings, favourites and deal documents.  The   *)
(* deal itself is GroupDeal, which goes on meanwhile.  A customs bid is    *)
(* checked and inserted in separate statements; the selection is one       *)
(* transaction under FOR UPDATE on the consolidated row, which the INSERT  *)
(* of a bid needs too (foreign key).  Ratings, favourites and documents    *)
(* check for a completed deal and insert; a completed deal stays completed *)
(* here, so each of them is one step.  Of documents only the check is here *)
(* (no statement reads their rows to decide).  Accounts stay eligible.     *)
(***************************************************************************)
EXTENDS GroupDeal

CONSTANTS
    CustomsOffer, Rep,        \* [CustomsOffer -> User]: holders of the tool
    CReq,                     \* concurrent HTTP requests on the competition
    Past,                     \* matched single-cargo deals closed before,
    PastClient, PastCarrier,  \* [Past -> User]
    Busy                      \* bound: who rates and keeps favourites

ASSUME RepType == Rep \in [CustomsOffer -> User]
ASSUME PastType == /\ IsFiniteSet(Past)
                   /\ PastClient \in [Past -> User] /\ PastCarrier \in [Past -> User]
ASSUME BusyType == Busy \subseteq User
ASSUME CustomsNoneFresh == "none" \notin CustomsOffer /\ {"group", "null"} \cap Past = {}

VARIABLES
    customs,                  \* status of each customs offer, or "absent"
    repNotices,               \* how often customs_rep_selected went out
    cpc, cwhat,               \* per request: next statement, offer
    ratings,                  \* rows per <<rater, rated, deal>>
    favorites                 \* a set of <<client, partner>>

customsVars == <<customs, repNotices, cpc, cwhat>>
partyVars == <<ratings, favorites>>
allVars == <<vars, customsVars, partyVars>>

Deal == Past \cup {"group"}
DealId == Deal \cup {"null"}

AfterInit ==
    /\ Init
    /\ customs = [o \in CustomsOffer |-> "absent"]
    /\ repNotices = 0
    /\ cpc = [q \in CReq |-> "idle"] /\ cwhat = [q \in CReq |-> "none"]
    /\ ratings = [p \in Busy \X User \X DealId |-> 0]
    /\ favorites = {}

-----------------------------------------------------------------------------
\* The customs competition.

HasSelected == \E o \in CustomsOffer : customs[o] = "selected"

CustomsFinish(q) == /\ cpc[q] = "insertCustoms"
                    /\ cpc' = [cpc EXCEPT ![q] = "idle"]
                    /\ cwhat' = [cwhat EXCEPT ![q] = "none"]

\* CreateCustomsOffer: the checks, then the INSERT.
BeginCustomsOffer(q, o) ==
    /\ status = "matched" /\ ~HasSelected
    /\ customs[o] = "absent" /\ \A p \in CReq : cwhat[p] # o
    /\ cpc[q] = "idle"
    /\ cpc' = [cpc EXCEPT ![q] = "insertCustoms"]
    /\ cwhat' = [cwhat EXCEPT ![q] = o]
    /\ UNCHANGED <<vars, partyVars, customs, repNotices>>

\* UNIQUE: one bid of a representative on one consolidation.
OfferedBy(u) == \E o \in CustomsOffer : Rep[o] = u /\ customs[o] # "absent"

InsertCustomsOffer(q) ==
    /\ CustomsFinish(q)
    /\ LET o == cwhat[q]
       IN customs' = IF OfferedBy(Rep[o]) THEN customs  \* ErrAlreadyOffered
                     ELSE [customs EXCEPT ![o] = "submitted"]
    /\ UNCHANGED <<vars, partyVars, repNotices>>

\* Mutant: a second representative may be chosen.
MaySelectAgain(o) == status = "matched" /\ customs[o] \notin {"absent", "selected"}

\* The bid that already won is answered without a change, any other bid is
\* refused once one has won.
MaySelectCustoms(o) ==
    /\ status = "matched"
    /\ customs[o] \notin {"absent", "selected"} /\ ~HasSelected

MarkSelected(o) ==
    [p \in CustomsOffer |-> IF p = o THEN "selected"
                            ELSE IF customs[p] = "submitted" THEN "rejected"
                            ELSE customs[p]]

RepJoins(o) == IF chatOpen THEN chat \cup {Rep[o]} ELSE chat

\* SelectCustomsOffer: any member of the consolidation, whether or not it
\* entered the group, picks one of the bids; all is decided under the lock.
SelectCustoms(o) ==
    /\ Client # {} /\ MaySelectCustoms(o)
    /\ customs' = MarkSelected(o)
    /\ chat' = RepJoins(o)
    /\ repNotices' = repNotices + 1
    /\ UNCHANGED <<status, invite, initiator, accepted, chatOpen, bids, selected,
                   vote, closings, paid, subVars, reqVars, cpc, cwhat, partyVars>>

\* The server is lost before the statement, or the statement fails.
AbortCustoms(q) == /\ CustomsFinish(q)
                   /\ UNCHANGED <<vars, partyVars, customs, repNotices>>

-----------------------------------------------------------------------------
\* Completed deals, as each query computes them.

Voted(c, p) == c \in Client /\ vote[c] # "none" /\ Author[vote[c]] = p

\* Of rating_repository: the deals a and b completed with each other.
completedDealsBetween(a, b) ==
    {d \in Past : <<PastClient[d], PastCarrier[d]>> \in {<<a, b>>, <<b, a>>}}
    \cup {d \in {"group"} : status = "matched" /\ (Voted(a, b) \/ Voted(b, a))}

\* Mutant: every bidder is a party.
BidderIsParty(d, u) ==
    \/ d \in Past /\ u \in {PastClient[d], PastCarrier[d]}
    \/ d = "group" /\ status = "matched"
         /\ (u \in Client \/ \E o \in bids : Author[o] = u)

\* Of antifraud_service: who may read and add documents of a deal.
requireDealParty(d, u) ==
    \/ d \in Past /\ u \in {PastClient[d], PastCarrier[d]}
    \/ d = "group" /\ status = "matched"
         /\ \E v \in User : Voted(u, v) \/ Voted(v, u)

\* Of ComponentsForUsers: the completed deals the composite score counts.
CompletedDeals(u) ==
    Cardinality({d \in Past : PastClient[d] = u})
    + Cardinality({d \in Past : PastCarrier[d] = u})
    + IF status # "matched" THEN 0
      ELSE Cardinality({o \in selected : Author[o] = u})
           + Cardinality({c \in Client : c = u /\ vote[c] # "none"})

\* Mutants: the deal is not named; any bidder counts as a partner.
NullDeal(a, b) == IF completedDealsBetween(a, b) = {} THEN {} ELSE {"null"}
AnyBidder(a, b) == IF a \in Client /\ (\E o \in bids : Author[o] = b)
                   THEN {"group"} ELSE completedDealsBetween(a, b)

\* LIMIT 1 without an order: any of them.
FindDealBetween(a, b) == completedDealsBetween(a, b)
IsDealBetween(d, a, b) == d \in completedDealsBetween(a, b)

\* UNIQUE (rated, rater, deal), which NULL deals escape.
AlreadyRated(a, b, d) == d # "null" /\ ratings[<<a, b, d>>] > 0

CreateRating(a, b) ==
    /\ a # b
    /\ \E d \in FindDealBetween(a, b) \cup {d \in Deal : IsDealBetween(d, a, b)} :
          /\ ~AlreadyRated(a, b, d)
          /\ ratings' = [ratings EXCEPT ![<<a, b, d>>] = @ + 1]
    /\ UNCHANGED <<vars, customsVars, favorites>>

AddFavorite(a, b) ==
    /\ a # b /\ FindDealBetween(a, b) # {}
    /\ favorites' = favorites \cup {<<a, b>>}
    /\ UNCHANGED <<vars, customsVars, ratings>>

RemoveFavorite(a, b) ==
    /\ <<a, b>> \in favorites
    /\ favorites' = favorites \ {<<a, b>>}
    /\ UNCHANGED <<vars, customsVars, ratings>>

-----------------------------------------------------------------------------
AfterNext ==
    \/ Next /\ UNCHANGED <<customsVars, partyVars>>
    \/ \E q \in CReq :
          \/ \E o \in CustomsOffer : BeginCustomsOffer(q, o)
          \/ InsertCustomsOffer(q) \/ AbortCustoms(q)
    \/ \E o \in CustomsOffer : SelectCustoms(o)
    \/ \E a \in Busy, b \in User :
          CreateRating(a, b) \/ AddFavorite(a, b) \/ RemoveFavorite(a, b)

AfterSpec == AfterInit /\ [][AfterNext]_allVars

-----------------------------------------------------------------------------
\* Every variable of the aftermath ranges over its type, and a request on the
\* customs competition knows its offer exactly while it is under way.
AfterTypeOK ==
    /\ customs \in [CustomsOffer -> {"absent", "submitted", "selected", "rejected"}]
    /\ repNotices \in Nat
    /\ cpc \in [CReq -> {"idle", "insertCustoms"}]
    /\ cwhat \in [CReq -> CustomsOffer \cup {"none"}]
    /\ \A q \in CReq : cpc[q] = "idle" <=> cwhat[q] = "none"
    /\ ratings \in [Busy \X User \X DealId -> Nat]
    /\ favorites \subseteq Busy \X User

Winners == {o \in CustomsOffer : customs[o] = "selected"}

\* The clearance competition opens with the closed deal and closes once: one
\* representative wins, alone joins the chat, and one round of notices goes
\* out, whichever members select in parallel and whichever bids come late
\* ("a repeated select returns the same result without duplicate side effects").
CustomsOnce ==
    /\ \A o \in CustomsOffer : customs[o] # "absent" => status = "matched"
    /\ Cardinality(Winners) = repNotices /\ repNotices <= 1
    /\ \A o \in Winners : Rep[o] \in chat

\* A representative competes with one bid, however many requests it sends.
OneBidPerRep == \A o, p \in CustomsOffer :
    (Rep[o] = Rep[p] /\ customs[o] # "absent" /\ customs[p] # "absent") => o = p

\* Of the outsiders only the chosen carrier and the chosen representative
\* read the chat of the group, over both competitions.
ChatStaysClosed ==
    chat \subseteq Client \cup {Author[o] : o \in selected}
        \cup {Rep[o] : o \in Winners}

\* The rows in which a rated b, numbered per deal.
Rows(a, b) == UNION {{d} \X (1..ratings[<<a, b, d>>]) : d \in DealId}

\* "Once per deal": nobody rates a partner more often than they completed a
\* deal together, whether or not the request names the deal.
OncePerDeal == \A a \in Busy, b \in User :
    Cardinality(Rows(a, b)) <= Cardinality(completedDealsBetween(a, b))

\* The members who voted did not vote for one and the same bid.
Disagreed == Cardinality({vote[c] : c \in Client} \ {"none"}) > 1

\* Two users whose names one of the deals disclosed to each other.
Acquainted(a, b) ==
    \/ \E d \in Past : {a, b} = {PastClient[d], PastCarrier[d]}
    \/ \E o \in selected : Author[o] \in {a, b} /\ Client \cap {a, b} # {}

\* Who has rated whom.
Rated == {p \in Busy \X User : \E d \in DealId : ratings[<<p[1], p[2], d>>] > 0}

\* Favourites and ratings are no way to learn who made a losing bid: every
\* partner has been revealed, unless the members of the group voted for
\* different carriers ("otherwise favourites would become a channel that
\* de-anonymises offers", AddFavorite).
PartnersAreRevealed ==
    \A p \in favorites \cup Rated : Disagreed \/ Acquainted(p[1], p[2])

\* Three queries count deals: for ratings between two users, for access to
\* documents, for the composite score.  They agree on everybody ("deal
\* counting mirrors completedDealsBetween"), unless the members voted for
\* different carriers; but a deal with oneself counts twice in the score.
DealsMirrored == \A u \in User :
    LET deals == {d \in Deal : requireDealParty(d, u)}
    IN /\ deals = UNION {completedDealsBetween(u, v) : v \in User}
       /\ \/ CompletedDeals(u) = Cardinality(deals) + Cardinality(completedDealsBetween(u, u))
          \/ Disagreed

-----------------------------------------------------------------------------
\* What the properties rest on, beside the invariants of the group's deal: a
\* bid under way was checked against a closed deal, the chosen carrier has a
\* vote, partners have completed a deal, and one round of notices went out
\* with the one winner.
AfterInv ==
    /\ \A q \in CReq : cpc[q] = "insertCustoms" => status = "matched"
    /\ \A o \in selected : \E c \in Client : vote[c] = o
    /\ \A p \in favorites \cup Rated : completedDealsBetween(p[1], p[2]) # {}
    /\ \/ Winners = {} /\ repNotices = 0
       \/ \E o \in CustomsOffer : Winners = {o} /\ repNotices = 1

-----------------------------------------------------------------------------
\* The customs competition implements the abstract one, with one lot.
CustomsComp == INSTANCE Competition WITH
    Lot <- {"customs"}, Bid <- CustomsOffer, NoBid <- "none",
    LotOf <- [o \in CustomsOffer |-> "customs"], AuthorOf <- Rep,
    winner <- [l \in {"customs"} |->
                 IF HasSelected THEN CHOOSE o \in CustomsOffer : customs[o] = "selected"
                 ELSE "none"],
    bids <- {o \in CustomsOffer : customs[o] # "absent"},
    revealed <- {<<"customs", Rep[o]>> : o \in Winners}

\* One representative wins in one step that reveals it alone, for good.
CustomsImplementCompetition == CustomsComp!Spec
=============================================================================
