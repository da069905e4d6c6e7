----------------------------- MODULE Disclosure -----------------------------
(***************************************************************************)
(* Who is named to whom around a group deal: the contacts and labels that  *)
(* the status page, the answers of the two selections, the list of chats   *)
(* and the favourites show.  The lists of bids carry no name and are left  *)
(* out.  The views only read the state of AfterDeal; each decides by       *)
(* itself, from other tables, whom it may show.                            *)
(***************************************************************************)
EXTENDS AfterDeal

\* Of ConsolidationRepository.
ListMemberClients == Client
IsConsolidatedMember(u) == u \in ListMemberClients
ListAcceptances == accepted
HasAcceptance(u) == u \in ListAcceptances
ListSelections == {c \in Client : vote[c] # "none"}

\* Mutant: the carrier with the most votes so far.
LeadingCarrier(u) ==
    LET ahead(o, p) == Cardinality(Votes(vote, accepted, o)) >= Cardinality(Votes(vote, accepted, p))
    IN IF IsConsolidatedMember(u) /\ ListSelections # {}
       THEN {Author[o] : o \in {o \in Offer : \A p \in Offer : ahead(o, p)}} ELSE {}

\* GetConsolidatedStatus: the contacts of the others who accepted.
Counterparts(u) == IF HasAcceptance(u) THEN ListAcceptances \ {u} ELSE {}

\* GetConsolidatedStatus: the carrier, decided on the votes alone.
CarrierContact(u) ==
    IF IsConsolidatedMember(u) /\ ListSelections # {}
    THEN {Author[o] : o \in Majority(vote, ListAcceptances)} ELSE {}

\* A member that selects in a matched group is answered with the carrier.
consolidatedMatchedResult(u) ==
    IF IsConsolidatedMember(u) /\ invite = "accepted" /\ status = "matched"
    THEN {Author[o] : o \in Majority(vote, ListAcceptances)} ELSE {}

\* SelectCustomsOffer, sent again for the bid that has won.
CustomsContact(u) ==
    IF IsConsolidatedMember(u) /\ status = "matched"
    THEN {Rep[o] : o \in {o \in CustomsOffer : customs[o] = "selected"}} ELSE {}

\* The labels of u's chats: everybody else in them, the past deals' too.
ChatLabels(u) ==
    (IF u \in chat THEN chat \ {u} ELSE {})
    \cup {PastCarrier[d] : d \in {d \in Past : PastClient[d] = u}}
    \cup {PastClient[d] : d \in {d \in Past : PastCarrier[d] = u}}

ListFavorites(u) == {v \in User : <<u, v>> \in favorites}

NamedTo(u) == Counterparts(u) \cup CarrierContact(u) \cup consolidatedMatchedResult(u)
              \cup CustomsContact(u) \cup ChatLabels(u)

-----------------------------------------------------------------------------
\* Who entered the group, and the two winners it works with.  A member whose
\* invitation another one replaced before its acceptance was inserted is still
\* in the chat that the first acceptance opened.
Entered == accepted \cup ({initiator} \ {"none"}) \cup (chat \cap Client)
Chosen == {Author[o] : o \in selected} \cup {Rep[o] : o \in Winners}

\* Whose name the deals entitle u to.
Entitled(u) ==
    {v \in User : \E d \in Past : {u, v} = {PastClient[d], PastCarrier[d]}}
    \cup (IF u \in Client THEN Chosen ELSE {})
    \cup (IF u \in Entered THEN Entered ELSE {})
    \cup (IF u \in Chosen THEN Entered \cup Chosen ELSE {})

\* Nobody is named outside a deal: members who entered know each other, all
\* members know the chosen carrier and the chosen representative, who know
\* them; a losing bidder is named to no one and is told no one, whatever
\* votes, acceptances and late bids cross ("the carrier is revealed ONLY once
\* the majority converged", GetConsolidatedStatus).  Favourites add nothing,
\* unless the members voted for different carriers.
NamesAreEntitled == \A u \in User :
    /\ NamedTo(u) \ {u} \subseteq Entitled(u)
    /\ ListFavorites(u) \subseteq Entitled(u) \/ Disagreed
=============================================================================
