--------------------------- MODULE AfterDealProofs ---------------------------
(***************************************************************************)
(* Proofs about what follows the deal of a consolidated request, for any   *)
(* members, bids and requests: the customs competition closes once and     *)
(* implements the abstract one, nobody else reads the chat or learns a     *)
(* name, and favourites and ratings reveal no losing bid.  The deal itself *)
(* is GroupDealProofs, whose lemmas hold beside the customs competition.   *)
(***************************************************************************)
EXTENDS Disclosure, GroupDealProofs

\* CustomsOnce without the cardinality, which AfterInv determines.
CustomsFollow ==
    /\ \A o \in CustomsOffer : customs[o] # "absent" => status = "matched"
    /\ \A o \in Winners : Rep[o] \in chat

AfterSafe ==
    /\ BaseInv /\ Sealed
    /\ AfterTypeOK /\ AfterInv /\ CustomsFollow
    /\ OneBidPerRep /\ ChatStaysClosed

-----------------------------------------------------------------------------
(* The kinds of steps.                                                     *)

\* A deal stays completed.
LEMMA DealsStay ==
    ASSUME NEW a, NEW b, status = "matched" => status' = "matched" /\ vote' = vote
    PROVE  completedDealsBetween(a, b) \subseteq completedDealsBetween(a, b)'
BY DEF completedDealsBetween, Voted

\* The group goes on: its chat grows by members and by the carrier chosen.
LEMMA GroupKeeps ==
    ASSUME AfterSafe, [Next]_vars, UNCHANGED <<customsVars, partyVars>>
    PROVE  AfterSafe'
<1>1. BaseInv' /\ Sealed'
  BY BaseKept, SealedKept DEF AfterSafe
<1>2. /\ chat \subseteq chat' /\ selected \subseteq selected'
      /\ chat' \subseteq chat \cup Client \cup {Author[o] : o \in selected'}
      /\ status = "matched" => status' = "matched" /\ vote' = vote /\ selected' = selected
      /\ status # "matched" /\ status' = "matched" =>
            \A o \in selected' : o \in selected \/ \E c \in Client : vote'[c] = o
  BY DealMoves DEF AfterSafe
<1>3. Winners' = Winners /\ Rated' = Rated /\ favorites' = favorites
  BY DEF Winners, Rated, customsVars, partyVars
<1>4. AfterTypeOK' /\ OneBidPerRep'
  BY DEF AfterSafe, AfterTypeOK, OneBidPerRep, customsVars, partyVars
<1>5. CustomsFollow' /\ ChatStaysClosed'
  BY <1>2, <1>3 DEF AfterSafe, CustomsFollow, ChatStaysClosed, customsVars
<1>6. \A o \in selected' : \E c \in Client : vote'[c] = o
  <2>1. CASE status = "matched"
    BY <1>2, <2>1 DEF AfterSafe, AfterInv
  <2>2. CASE status # "matched"
    <3>1. selected = {}
      BY <2>2 DEF AfterSafe, Sealed, ClosedOnce
    <3>2. status' # "matched" => selected' = {}
      BY <1>1 DEF Sealed, ClosedOnce
    <3> QED BY <1>2, <2>2, <3>1, <3>2
  <2> QED BY <2>1, <2>2
<1>7. \A p \in favorites' \cup Rated' : completedDealsBetween(p[1], p[2])' # {}
  <2> TAKE p \in favorites' \cup Rated'
  <2>1. completedDealsBetween(p[1], p[2]) # {}
    BY <1>3 DEF AfterSafe, AfterInv
  <2>2. completedDealsBetween(p[1], p[2]) \subseteq completedDealsBetween(p[1], p[2])'
    BY <1>2, DealsStay
  <2> QED BY <2>1, <2>2
<1>8. AfterInv'
  BY <1>2, <1>3, <1>6, <1>7 DEF AfterSafe, AfterInv, customsVars
<1> QED BY <1>1, <1>4, <1>5, <1>8 DEF AfterSafe

\* A step that leaves the group alone, but for a chat that may grow.
LEMMA GroupStays ==
    ASSUME BaseInv, Sealed, chat \subseteq chat', chat' \subseteq User,
           chat' # {} => chatOpen,
           UNCHANGED <<status, invite, initiator, accepted, chatOpen, bids, selected,
                       vote, closings, paid, subVars, reqVars>>
    PROVE  BaseInv' /\ Sealed'
<1>1. BaseInv'
  BY DEF BaseInv, TypeOK, RequestsKnow, ChatComesFirst, subVars, reqVars
<1>2. VotesAreBids' /\ ClosedOnce' /\ EntryIsPaid'
  BY DEF Sealed, VotesAreBids, ClosedOnce, EntryIsPaid, subVars
<1>3. ShownIsClosed'
  BY DEF Sealed, ShownIsClosed, Majority, Votes
<1> QED BY <1>1, <1>2, <1>3 DEF Sealed

LEMMA SameDeals ==
    ASSUME UNCHANGED <<status, vote>>, NEW a, NEW b
    PROVE  completedDealsBetween(a, b)' = completedDealsBetween(a, b)
BY DEF completedDealsBetween, Voted

\* A bid is checked, inserted or given up.
LEMMA BiddingKeeps ==
    ASSUME AfterSafe, NEW q \in CReq,
           \/ \E o \in CustomsOffer : BeginCustomsOffer(q, o)
           \/ InsertCustomsOffer(q) \/ AbortCustoms(q)
    PROVE  AfterSafe'
<1>1. UNCHANGED <<vars, partyVars, repNotices>>
  BY DEF BeginCustomsOffer, InsertCustomsOffer, AbortCustoms
<1>2. BaseInv' /\ Sealed' /\ UNCHANGED <<status, selected, vote, chat>>
  <2>1. UNCHANGED <<status, invite, initiator, accepted, chatOpen, chat, bids, selected,
                    vote, closings, paid, subVars, reqVars>>
    BY <1>1 DEF vars, dealVars
  <2> QED BY <2>1, GroupStays DEF AfterSafe, BaseInv, TypeOK, ChatComesFirst
<1>3. /\ \A o \in CustomsOffer : customs[o] # "absent" => customs'[o] = customs[o]
      /\ \A o \in CustomsOffer : customs'[o] # customs[o] =>
            customs'[o] = "submitted" /\ status = "matched" /\ ~OfferedBy(Rep[o])
            /\ \A p \in CustomsOffer : p # o => customs'[p] = customs[p]
      /\ customs' \in [CustomsOffer -> {"absent", "submitted", "selected", "rejected"}]
  <2>1. CASE UNCHANGED customs
    BY <2>1 DEF AfterSafe, AfterTypeOK
  <2>2. CASE InsertCustomsOffer(q)
    <3>1. /\ cpc[q] = "insertCustoms"
          /\ customs' = IF OfferedBy(Rep[cwhat[q]]) THEN customs
                        ELSE [customs EXCEPT ![cwhat[q]] = "submitted"]
      BY <2>2 DEF InsertCustomsOffer, CustomsFinish
    <3>2. status = "matched" /\ cwhat[q] \in CustomsOffer
      BY <3>1 DEF AfterSafe, AfterInv, AfterTypeOK
    <3>3. ~OfferedBy(Rep[cwhat[q]]) => customs[cwhat[q]] = "absent"
      BY <3>2 DEF OfferedBy
    <3>4. customs \in [CustomsOffer -> {"absent", "submitted", "selected", "rejected"}]
      BY DEF AfterSafe, AfterTypeOK
    <3> QED BY <3>1, <3>2, <3>3, <3>4
  <2> QED BY <2>1, <2>2 DEF BeginCustomsOffer, AbortCustoms
<1>4. Winners' = Winners /\ Rated' = Rated /\ favorites' = favorites
  BY <1>1, <1>3 DEF Winners, Rated, partyVars
<1>5. /\ cpc' \in [CReq -> {"idle", "insertCustoms"}]
      /\ cwhat' \in [CReq -> CustomsOffer \cup {"none"}]
      /\ \A p \in CReq : cpc'[p] = "idle" <=> cwhat'[p] = "none"
      /\ \A p \in CReq : cpc'[p] = "insertCustoms" => status = "matched"
  <2>1. ASSUME NEW o \in CustomsOffer, BeginCustomsOffer(q, o)
        PROVE  /\ cpc' = [cpc EXCEPT ![q] = "insertCustoms"] /\ status = "matched"
               /\ cwhat' = [cwhat EXCEPT ![q] = o] /\ o # "none"
    BY <2>1, CustomsNoneFresh DEF BeginCustomsOffer
  <2>2. InsertCustomsOffer(q) \/ AbortCustoms(q) =>
            cpc' = [cpc EXCEPT ![q] = "idle"] /\ cwhat' = [cwhat EXCEPT ![q] = "none"]
    BY DEF InsertCustomsOffer, AbortCustoms, CustomsFinish
  <2> QED BY <2>1, <2>2 DEF AfterSafe, AfterTypeOK, AfterInv
<1>6. AfterTypeOK'
  BY <1>1, <1>3, <1>5 DEF AfterSafe, AfterTypeOK, partyVars
<1>7. OneBidPerRep'
  BY <1>3 DEF AfterSafe, OneBidPerRep, OfferedBy, AfterTypeOK
<1>8. CustomsFollow' /\ ChatStaysClosed'
  BY <1>2, <1>3, <1>4 DEF AfterSafe, CustomsFollow, ChatStaysClosed, AfterTypeOK
<1>9. AfterInv'
  BY <1>1, <1>2, <1>4, <1>5, SameDeals DEF AfterSafe, AfterInv
<1> QED BY <1>2, <1>6, <1>7, <1>8, <1>9 DEF AfterSafe

\* The selection: one representative wins and joins the chat of the group.
LEMMA SelectionKeeps ==
    ASSUME AfterSafe, NEW o \in CustomsOffer, SelectCustoms(o)
    PROVE  AfterSafe' /\ Winners = {} /\ Winners' = {o}
<1>1. /\ status = "matched" /\ customs[o] \notin {"absent", "selected"}
      /\ \A p \in CustomsOffer : customs[p] # "selected"
      /\ customs' = [p \in CustomsOffer |-> IF p = o THEN "selected"
                                            ELSE IF customs[p] = "submitted" THEN "rejected"
                                            ELSE customs[p]]
      /\ chat' = IF chatOpen THEN chat \cup {Rep[o]} ELSE chat
      /\ repNotices' = repNotices + 1
      /\ UNCHANGED <<status, invite, initiator, accepted, chatOpen, bids, selected, vote,
                     closings, paid, subVars, reqVars, cpc, cwhat, partyVars>>
  BY DEF SelectCustoms, MaySelectCustoms, HasSelected, MarkSelected, RepJoins
<1>2. chatOpen /\ Rep[o] \in User /\ chat \subseteq User
  BY <1>1, RepType DEF AfterSafe, BaseInv, ChatComesFirst, TypeOK
<1>3. BaseInv' /\ Sealed'
  BY <1>1, <1>2, GroupStays DEF AfterSafe
<1>4. Winners = {} /\ Winners' = {o} /\ repNotices = 0
  BY <1>1 DEF Winners, AfterSafe, AfterInv
<1>5. /\ customs' \in [CustomsOffer -> {"absent", "submitted", "selected", "rejected"}]
      /\ \A p \in CustomsOffer : customs'[p] # "absent" <=> customs[p] # "absent"
  BY <1>1 DEF AfterSafe, AfterTypeOK
<1>6. AfterTypeOK' /\ OneBidPerRep'
  BY <1>1, <1>4, <1>5 DEF AfterSafe, AfterTypeOK, OneBidPerRep, partyVars
<1>7. CustomsFollow' /\ ChatStaysClosed'
  BY <1>1, <1>2, <1>4 DEF AfterSafe, CustomsFollow, ChatStaysClosed
<1>8. AfterInv'
  <2>1. Rated' = Rated /\ favorites' = favorites
    BY <1>1 DEF Rated, partyVars
  <2> QED BY <1>1, <1>4, <2>1, SameDeals DEF AfterSafe, AfterInv
<1> QED BY <1>3, <1>4, <1>6, <1>7, <1>8 DEF AfterSafe

\* Ratings and favourites are for partners of a completed deal.
LEMMA PartiesKeep ==
    ASSUME AfterSafe, NEW a \in Busy, NEW b \in User,
           CreateRating(a, b) \/ AddFavorite(a, b) \/ RemoveFavorite(a, b)
    PROVE  AfterSafe'
<1>1. UNCHANGED <<vars, customsVars>>
  BY DEF CreateRating, AddFavorite, RemoveFavorite
<1>2. BaseInv' /\ Sealed' /\ UNCHANGED <<status, selected, vote, chat>>
  <2>1. UNCHANGED <<status, invite, initiator, accepted, chatOpen, chat, bids, selected,
                    vote, closings, paid, subVars, reqVars>>
    BY <1>1 DEF vars, dealVars
  <2> QED BY <2>1, GroupStays DEF AfterSafe, BaseInv, TypeOK, ChatComesFirst
<1>3. /\ favorites' \cup Rated' \subseteq favorites \cup Rated \cup {<<a, b>>}
      /\ <<a, b>> \in favorites' \cup Rated' => completedDealsBetween(a, b) # {}
      /\ favorites' \subseteq Busy \X User /\ ratings' \in [Busy \X User \X DealId -> Nat]
  <2>1. CASE CreateRating(a, b)
    <3>1. PICK d \in completedDealsBetween(a, b) :
              /\ ratings' = [ratings EXCEPT ![<<a, b, d>>] = @ + 1]
              /\ UNCHANGED favorites
      BY <2>1 DEF CreateRating, FindDealBetween, IsDealBetween
    <3>2. <<a, b, d>> \in Busy \X User \X DealId
      BY DEF completedDealsBetween, DealId, Deal
    <3>3. \A p \in Busy \X User, e \in DealId :
              <<p[1], p[2], e>> # <<a, b, d>> =>
                  ratings'[<<p[1], p[2], e>>] = ratings[<<p[1], p[2], e>>]
      BY <3>1 DEF AfterSafe, AfterTypeOK
    <3>4. Rated' \subseteq Rated \cup {<<a, b>>}
      <4> SUFFICES ASSUME NEW p \in Rated', p # <<a, b>>
                   PROVE  p \in Rated
        OBVIOUS
      <4>1. p \in Busy \X User /\ p = <<p[1], p[2]>>
        BY DEF Rated
      <4>2. \A e \in DealId : <<p[1], p[2], e>> # <<a, b, d>>
        BY <4>1
      <4> QED BY <3>3, <4>1, <4>2 DEF Rated
    <3>5. ratings' \in [Busy \X User \X DealId -> Nat]
      <4> DEFINE Keys == Busy \X User \X DealId
                 k == <<a, b, d>>
      <4>1. ratings \in [Keys -> Nat] /\ k \in Keys
        BY <3>2 DEF AfterSafe, AfterTypeOK
      <4>2. ratings' = [ratings EXCEPT ![k] = @ + 1]
        BY <3>1
      <4> HIDE DEF Keys, k
      <4>3. ratings' \in [Keys -> Nat]
        BY <4>1, <4>2
      <4> QED BY <4>3 DEF Keys
    <3> QED BY <3>1, <3>4, <3>5 DEF AfterSafe, AfterTypeOK
  <2>2. CASE AddFavorite(a, b)
    BY <2>2 DEF AddFavorite, FindDealBetween, Rated, AfterSafe, AfterTypeOK
  <2>3. CASE RemoveFavorite(a, b)
    <3>1. favorites' \subseteq favorites /\ Rated' = Rated /\ ratings' = ratings
      BY <2>3 DEF RemoveFavorite, Rated
    <3>2. <<a, b>> \in favorites' \cup Rated' => completedDealsBetween(a, b) # {}
      BY <3>1 DEF AfterSafe, AfterInv
    <3> QED BY <3>1, <3>2 DEF AfterSafe, AfterTypeOK
  <2> QED BY <2>1, <2>2, <2>3
<1>4. Winners' = Winners
  BY <1>1 DEF Winners, customsVars
<1>5. AfterTypeOK' /\ OneBidPerRep'
  BY <1>1, <1>3 DEF AfterSafe, AfterTypeOK, OneBidPerRep, customsVars
<1>6. CustomsFollow' /\ ChatStaysClosed'
  BY <1>1, <1>2, <1>4 DEF AfterSafe, CustomsFollow, ChatStaysClosed, customsVars
<1>7. AfterInv'
  <2>1. \A p \in favorites' \cup Rated' : completedDealsBetween(p[1], p[2]) # {}
    BY <1>3 DEF AfterSafe, AfterInv
  <2> QED BY <1>1, <1>2, <1>4, <2>1, SameDeals DEF AfterSafe, AfterInv, customsVars
<1> QED BY <1>2, <1>5, <1>6, <1>7 DEF AfterSafe

LEMMA AfterStart == AfterInit => AfterSafe
<1> SUFFICES ASSUME AfterInit PROVE AfterSafe
  OBVIOUS
<1>1. BaseInv /\ Sealed
  BY InitBase, InitSealed DEF AfterInit
<1>2. /\ customs = [o \in CustomsOffer |-> "absent"] /\ repNotices = 0
      /\ cpc = [q \in CReq |-> "idle"] /\ cwhat = [q \in CReq |-> "none"]
      /\ ratings = [p \in Busy \X User \X DealId |-> 0]
      /\ favorites = {} /\ selected = {} /\ chat = {}
  BY DEF AfterInit, Init
<1>3. Winners = {} /\ Rated = {}
  <2>1. \A a \in Busy, b \in User, d \in DealId : ratings[<<a, b, d>>] = 0
    BY <1>2
  <2>2. ASSUME NEW p \in Rated
        PROVE  FALSE
    <3>1. PICK d \in DealId : ratings[<<p[1], p[2], d>>] > 0
      BY DEF Rated
    <3>2. p[1] \in Busy /\ p[2] \in User
      BY DEF Rated
    <3>3. ratings[<<p[1], p[2], d>>] = 0
      BY <2>1, <3>2
    <3> QED BY <3>1, <3>3
  <2> QED BY <1>2, <2>2 DEF Winners
<1>4. AfterTypeOK /\ OneBidPerRep /\ CustomsFollow /\ ChatStaysClosed
  BY <1>2, <1>3 DEF AfterTypeOK, OneBidPerRep, CustomsFollow, ChatStaysClosed
<1>5. AfterInv
  BY <1>2, <1>3 DEF AfterInv
<1> QED BY <1>1, <1>4, <1>5 DEF AfterSafe

LEMMA AfterKept == AfterSafe /\ [AfterNext]_allVars => AfterSafe'
<1> SUFFICES ASSUME AfterSafe, [AfterNext]_allVars PROVE AfterSafe'
  OBVIOUS
<1>1. CASE UNCHANGED allVars
  BY <1>1, GroupKeeps DEF allVars
<1>2. CASE AfterNext
  BY <1>2, GroupKeeps, BiddingKeeps, SelectionKeeps, PartiesKeep DEF AfterNext
<1> QED BY <1>1, <1>2

LEMMA AfterHolds == AfterSpec => []AfterSafe
BY AfterStart, AfterKept, PTL DEF AfterSpec

-----------------------------------------------------------------------------
(* What the state of a closed deal says.                                   *)

\* Unless the members disagreed, every vote is for the bid that has won.
LEMMA AgreedVotes ==
    ASSUME AfterSafe, ~Disagreed, status = "matched",
           NEW c \in Client, vote[c] # "none"
    PROVE  vote[c] \in selected
<1> DEFINE S == {vote[x] : x \in Client}
           T == S \ {"none"}
<1>1. PICK o \in bids : selected = {o}
  BY DEF AfterSafe, Sealed, ClosedOnce
<1>2. o # "none" /\ \E x \in Client : vote[x] = o
  BY <1>1, NoneFresh DEF AfterSafe, AfterInv, BaseInv, TypeOK
<1>3. vote \in Surjection(Client, S)
  BY DEF AfterSafe, BaseInv, TypeOK, Surjection
<1>4. IsFiniteSet(S)
  <2> HIDE DEF S
  <2> QED BY <1>3, ClientType, FS_Surjection
<1>5. IsFiniteSet(T) /\ Cardinality(T) \in Nat
  <2>1. IsFiniteSet(T)
    <3> HIDE DEF S
    <3> QED BY <1>4, FS_Subset
  <2> QED BY <2>1, FS_CardinalityType
<1>6. ~(Cardinality(T) > 1)
  BY DEF Disagreed
<1>7. vote[c] \in T /\ o \in T
  BY <1>2
<1>8. vote[c] = o
  <2> SUFFICES ASSUME vote[c] # o PROVE FALSE
    OBVIOUS
  <2>1. Cardinality({vote[c]}) = 1 /\ IsFiniteSet({vote[c]})
    BY FS_Singleton
  <2>2. Cardinality({vote[c]} \cup {o}) = 2 /\ IsFiniteSet({vote[c]} \cup {o})
    <3> DEFINE P == {vote[c]}
    <3>1. o \notin P
      OBVIOUS
    <3> HIDE DEF P, S, T
    <3>2. IsFiniteSet(P) => (IsFiniteSet(P \cup {o})
            /\ Cardinality(P \cup {o}) = IF o \in P THEN Cardinality(P) ELSE Cardinality(P) + 1)
      BY FS_AddElement
    <3>3. IsFiniteSet(P) /\ Cardinality(P) = 1
      BY <2>1 DEF P
    <3>4. Cardinality(P \cup {o}) = 2 /\ IsFiniteSet(P \cup {o})
      BY <3>1, <3>2, <3>3
    <3> QED BY <3>4 DEF P
  <2>3. {vote[c]} \cup {o} \subseteq T
    BY <1>7
  <2> HIDE DEF T
  <2>4. Cardinality({vote[c]} \cup {o}) <= Cardinality(T)
    BY <1>5, <2>3, FS_Subset
  <2> QED BY <1>5, <1>6, <2>2, <2>4
<1> QED BY <1>1, <1>8

LEMMA PartnersMet ==
    ASSUME AfterSafe, NEW p \in favorites \cup Rated
    PROVE  Disagreed \/ Acquainted(p[1], p[2])
<1> SUFFICES ASSUME ~Disagreed PROVE Acquainted(p[1], p[2])
  OBVIOUS
<1> DEFINE a == p[1]
           b == p[2]
<1>1. PICK d : d \in completedDealsBetween(a, b)
  BY DEF AfterSafe, AfterInv
<1>2. CASE d \in Past /\ <<PastClient[d], PastCarrier[d]>> \in {<<a, b>>, <<b, a>>}
  BY <1>2 DEF Acquainted
<1>3. CASE status = "matched" /\ (Voted(a, b) \/ Voted(b, a))
  <2>1. PICK c \in {a, b} : c \in Client /\ vote[c] # "none" /\ Author[vote[c]] \in {a, b}
    BY <1>3 DEF Voted
  <2>2. vote[c] \in selected
    BY <1>3, <2>1, AgreedVotes
  <2> QED BY <2>1, <2>2 DEF Acquainted
<1> QED BY <1>1, <1>2, <1>3 DEF completedDealsBetween

\* The carrier computed from the votes is the chosen one, or there is none.
LEMMA ShownIsChosen ==
    ASSUME AfterSafe, NEW o \in Majority(vote, accepted)
    PROVE  Author[o] \in Chosen
BY DEF AfterSafe, Sealed, ShownIsClosed, Chosen

LEMMA NamesFollowDeals ==
    ASSUME AfterSafe, NEW u \in User
    PROVE  /\ NamedTo(u) \ {u} \subseteq Entitled(u)
           /\ ListFavorites(u) \subseteq Entitled(u) \/ Disagreed
<1>0. /\ Chosen \subseteq User /\ Entered \subseteq Client /\ Client \subseteq User
      /\ chat \subseteq Entered \cup Chosen
  BY ClientType, AuthorType, RepType
     DEF AfterSafe, BaseInv, TypeOK, ChatStaysClosed, Chosen, Entered, Winners
<1>1. /\ u \in Client => Chosen \subseteq Entitled(u)
      /\ u \in Entered => Entered \cup Chosen \subseteq Entitled(u)
      /\ u \in Chosen => Entered \cup Chosen \subseteq Entitled(u)
  BY <1>0 DEF Entitled
<1>2. Counterparts(u) \subseteq Entitled(u)
  BY <1>1 DEF Counterparts, HasAcceptance, ListAcceptances, Entered
<1>3. CarrierContact(u) \cup consolidatedMatchedResult(u) \subseteq Entitled(u)
  BY <1>1, ShownIsChosen
     DEF CarrierContact, consolidatedMatchedResult, ListAcceptances, IsConsolidatedMember,
         ListMemberClients
<1>4. CustomsContact(u) \subseteq Entitled(u)
  BY <1>1 DEF CustomsContact, IsConsolidatedMember, ListMemberClients, Chosen, Winners
<1>5. ChatLabels(u) \subseteq Entitled(u)
  <2>1. u \in chat => chat \subseteq Entitled(u)
    BY <1>0, <1>1
  <2>2. /\ {PastCarrier[d] : d \in {d \in Past : PastClient[d] = u}} \subseteq Entitled(u)
        /\ {PastClient[d] : d \in {d \in Past : PastCarrier[d] = u}} \subseteq Entitled(u)
    BY PastType DEF Entitled
  <2> QED BY <2>1, <2>2 DEF ChatLabels
<1>6. ASSUME ~Disagreed, NEW v \in User, <<u, v>> \in favorites
      PROVE  v \in Entitled(u)
  <2>1. PICK d : d \in completedDealsBetween(u, v)
    BY <1>6 DEF AfterSafe, AfterInv
  <2>2. CASE d \in Past /\ <<PastClient[d], PastCarrier[d]>> \in {<<u, v>>, <<v, u>>}
    BY <2>2 DEF Entitled
  <2>3. CASE status = "matched" /\ Voted(u, v)
    <3>1. u \in Client /\ vote[u] \in selected /\ Author[vote[u]] = v
      BY <1>6, <2>3, AgreedVotes DEF Voted
    <3> QED BY <1>1, <3>1 DEF Chosen
  <2>4. CASE status = "matched" /\ Voted(v, u)
    <3>1. v \in Client /\ vote[v] \in selected /\ Author[vote[v]] = u /\ vote[v] # "none"
      BY <1>6, <2>4, AgreedVotes DEF Voted
    <3>2. u \in Chosen
      BY <3>1 DEF Chosen
    <3>3. v \in Entered
      BY <3>1 DEF AfterSafe, Sealed, EntryIsPaid, Entered
    <3> QED BY <1>1, <3>2, <3>3
  <2> QED BY <2>1, <2>2, <2>3, <2>4 DEF completedDealsBetween
<1> QED BY <1>2, <1>3, <1>4, <1>5, <1>6 DEF NamedTo, ListFavorites

-----------------------------------------------------------------------------
(* Ratings: one row per partner and deal.                                  *)

\* The completed deals of a pair are finitely many.
LEMMA DealsFinite ==
    ASSUME NEW a, NEW b
    PROVE  /\ IsFiniteSet(completedDealsBetween(a, b))
           /\ completedDealsBetween(a, b) \subseteq Deal /\ "null" \notin Deal
<1>1. IsFiniteSet(Past \cup {"group"})
  BY PastType, FS_AddElement
<1>2. completedDealsBetween(a, b) \subseteq Past \cup {"group"}
  BY DEF completedDealsBetween
<1> QED BY <1>1, <1>2, FS_Subset, CustomsNoneFresh DEF Deal

\* A row names a deal that rater and rated completed, and no other row does.
RatedOnce == \A a \in Busy, b \in User, d \in DealId :
    /\ ratings[<<a, b, d>>] <= 1
    /\ ratings[<<a, b, d>>] > 0 => d \in completedDealsBetween(a, b)

\* Steps that insert no rating keep the rows, and the deals they name.
LEMMA RowsStay ==
    ASSUME AfterSafe, RatedOnce, UNCHANGED ratings,
           status = "matched" => status' = "matched" /\ vote' = vote
    PROVE  RatedOnce'
BY DealsStay DEF RatedOnce

LEMMA RatingIsFirst ==
    ASSUME AfterSafe, RatedOnce, NEW a \in Busy, NEW b \in User, CreateRating(a, b)
    PROVE  RatedOnce'
<1>1. PICK d \in completedDealsBetween(a, b) :
          /\ ~AlreadyRated(a, b, d)
          /\ ratings' = [ratings EXCEPT ![<<a, b, d>>] = @ + 1]
  BY DEF CreateRating, FindDealBetween, IsDealBetween
<1>2. <<a, b, d>> \in Busy \X User \X DealId /\ d # "null"
  BY DealsFinite DEF DealId
<1>3. ratings \in [Busy \X User \X DealId -> Nat]
  BY DEF AfterSafe, AfterTypeOK
<1>4. ratings[<<a, b, d>>] = 0
  BY <1>1, <1>2, <1>3 DEF AlreadyRated
<1>5. UNCHANGED <<status, vote>>
  BY DEF CreateRating, vars, dealVars
<1> SUFFICES ASSUME NEW x \in Busy, NEW y \in User, NEW e \in DealId
             PROVE  /\ ratings'[<<x, y, e>>] <= 1
                    /\ ratings'[<<x, y, e>>] > 0 => e \in completedDealsBetween(x, y)'
  BY DEF RatedOnce
<1>6. completedDealsBetween(x, y)' = completedDealsBetween(x, y)
  BY <1>5, SameDeals
<1>7. CASE <<x, y, e>> = <<a, b, d>>
  <2>1. x = a /\ y = b /\ e = d
    BY <1>7
  <2>2. ratings'[<<a, b, d>>] = 1
    BY <1>1, <1>2, <1>3, <1>4
  <2> QED BY <1>1, <1>6, <2>1, <2>2
<1>8. CASE <<x, y, e>> # <<a, b, d>>
  <2>1. ratings'[<<x, y, e>>] = ratings[<<x, y, e>>]
    BY <1>1, <1>2, <1>3, <1>8
  <2> QED BY <1>6, <2>1 DEF RatedOnce
<1> QED BY <1>7, <1>8

LEMMA RatingsHold == AfterSpec => []RatedOnce
<1>1. AfterInit => RatedOnce
  BY DEF AfterInit, RatedOnce
<1>2. AfterSafe /\ RatedOnce /\ [AfterNext]_allVars => RatedOnce'
  <2> SUFFICES ASSUME AfterSafe, RatedOnce, [AfterNext]_allVars PROVE RatedOnce'
    OBVIOUS
  <2>1. CASE Next /\ UNCHANGED <<customsVars, partyVars>>
    <3>1. status = "matched" => status' = "matched" /\ vote' = vote
      BY <2>1, DealMoves DEF AfterSafe
    <3> QED BY <2>1, <3>1, RowsStay DEF partyVars
  <2>2. ASSUME NEW a \in Busy, NEW b \in User, CreateRating(a, b) PROVE RatedOnce'
    BY <2>2, RatingIsFirst
  <2>3. CASE UNCHANGED <<status, vote, ratings>>
    BY <2>3, RowsStay
  <2>4. ASSUME NEW q \in CReq,
               \/ \E o \in CustomsOffer : BeginCustomsOffer(q, o)
               \/ InsertCustomsOffer(q) \/ AbortCustoms(q)
        PROVE  UNCHANGED <<status, vote, ratings>>
    BY <2>4 DEF BeginCustomsOffer, InsertCustomsOffer, AbortCustoms, vars, dealVars, partyVars
  <2>5. ASSUME NEW o \in CustomsOffer, SelectCustoms(o)
        PROVE  UNCHANGED <<status, vote, ratings>>
    BY <2>5 DEF SelectCustoms, partyVars
  <2>6. ASSUME NEW a \in Busy, NEW b \in User, AddFavorite(a, b) \/ RemoveFavorite(a, b)
        PROVE  UNCHANGED <<status, vote, ratings>>
    BY <2>6 DEF AddFavorite, RemoveFavorite, vars, dealVars
  <2>7. UNCHANGED allVars => UNCHANGED <<status, vote, ratings>>
    BY DEF allVars, vars, dealVars, partyVars
  <2> QED BY <2>1, <2>2, <2>3, <2>4, <2>5, <2>6, <2>7 DEF AfterNext
<1> QED BY <1>1, <1>2, AfterHolds, PTL DEF AfterSpec

\* The rows of a pair are no more than its deals.
LEMMA RowsAreDeals ==
    ASSUME AfterSafe, RatedOnce, NEW a \in Busy, NEW b \in User
    PROVE  Cardinality(Rows(a, b)) <= Cardinality(completedDealsBetween(a, b))
<1> DEFINE R == Rows(a, b)
           T == completedDealsBetween(a, b)
           f == [x \in R |-> x[1]]
<1>1. ASSUME NEW x \in R
      PROVE  x = <<x[1], 1>> /\ x[1] \in T
  <2>1. PICK d \in DealId : x \in {d} \X (1..ratings[<<a, b, d>>])
    BY DEF Rows
  <2>2. ratings[<<a, b, d>>] \in Nat /\ ratings[<<a, b, d>>] <= 1
    BY DEF AfterSafe, AfterTypeOK, RatedOnce
  <2>3. x[1] = d /\ x[2] = 1 /\ x = <<d, 1>> /\ ratings[<<a, b, d>>] > 0
    BY <2>1, <2>2
  <2> QED BY <2>3 DEF RatedOnce
<1>2. f \in Injection(R, T)
  <2>1. f \in [R -> T]
    BY <1>1
  <2>2. \A x, y \in R : f[x] = f[y] => x = y
    BY <1>1
  <2> HIDE DEF R, T, f
  <2> QED BY <2>1, <2>2 DEF Injection, IsInjective
<1>3. IsFiniteSet(T)
  BY DealsFinite
<1> HIDE DEF R, T, f
<1>4. Cardinality(R) <= Cardinality(T)
  BY <1>2, <1>3, FS_Injection
<1> QED BY <1>4 DEF R, T

-----------------------------------------------------------------------------
(* The three queries that count deals.                                     *)

LEMMA PartiesAgree ==
    ASSUME NEW u \in User
    PROVE  {d \in Deal : requireDealParty(d, u)}
               = UNION {completedDealsBetween(u, v) : v \in User}
<1>1. ASSUME NEW d \in Deal, requireDealParty(d, u)
      PROVE  \E v \in User : d \in completedDealsBetween(u, v)
  BY <1>1, PastType, CustomsNoneFresh DEF requireDealParty, completedDealsBetween
<1>2. ASSUME NEW v \in User, NEW d \in completedDealsBetween(u, v)
      PROVE  d \in Deal /\ requireDealParty(d, u)
  BY DEF requireDealParty, completedDealsBetween, Deal
<1> QED BY <1>1, <1>2

\* Past deals, with or without the group's.
LEMMA WithGroup ==
    ASSUME NEW P \in SUBSET Past, NEW G \in SUBSET {"group"}
    PROVE  /\ Cardinality(P \cup G) = Cardinality(P) + (IF G = {} THEN 0 ELSE 1)
           /\ Cardinality(P) \in Nat
<1>1. IsFiniteSet(P) /\ Cardinality(P) \in Nat
  BY PastType, FS_Subset, FS_CardinalityType
<1>2. CASE G = {}
  BY <1>1, <1>2
<1>3. CASE G # {}
  <2>1. G = {"group"} /\ "group" \notin P
    BY <1>3, CustomsNoneFresh
  <2>2. Cardinality(P \cup {"group"}) = Cardinality(P) + 1
    BY <1>1, <2>1, FS_AddElement
  <2> QED BY <1>1, <1>3, <2>1, <2>2
<1> QED BY <1>2, <1>3

LEMMA AtMostOne ==
    ASSUME NEW x, NEW S \in SUBSET {x}
    PROVE  Cardinality(S) = IF S = {} THEN 0 ELSE 1
<1>1. S = {} \/ S = {x}
  OBVIOUS
<1> QED BY <1>1, FS_EmptySet, FS_Singleton

\* In a closed group that agreed, the carrier is who got a vote.
LEMMA GroupRoles ==
    ASSUME AfterSafe, ~Disagreed, status = "matched", NEW u \in User
    PROVE  /\ (\E v \in User : Voted(v, u)) <=> \E o \in selected : Author[o] = u
           /\ (\E v \in User : Voted(u, v)) <=> u \in Client /\ vote[u] # "none"
           /\ Voted(u, u) <=> (\E v \in User : Voted(v, u)) /\ (\E v \in User : Voted(u, v))
<1>1. PICK o \in bids : selected = {o}
  BY DEF AfterSafe, Sealed, ClosedOnce
<1>2. PICK c \in Client : vote[c] = o
  BY <1>1 DEF AfterSafe, AfterInv
<1>3. o \in Offer /\ o # "none" /\ Author[o] \in User /\ Client \subseteq User
  BY <1>1, NoneFresh, AuthorType, ClientType DEF AfterSafe, BaseInv, TypeOK
<1>4. \A x \in Client : vote[x] # "none" => vote[x] = o
  BY <1>1, AgreedVotes
<1> QED BY <1>1, <1>2, <1>3, <1>4 DEF Voted

\* The composite score counts each deal of a user once, one with oneself twice.
LEMMA ScoreCounts ==
    ASSUME AfterSafe, ~Disagreed, NEW u \in User
    PROVE  CompletedDeals(u) = Cardinality({d \in Deal : requireDealParty(d, u)})
                               + Cardinality(completedDealsBetween(u, u))
<1> DEFINE A == {d \in Past : PastClient[d] = u}
           B == {d \in Past : PastCarrier[d] = u}
           carried == status = "matched" /\ \E v \in User : Voted(v, u)
           sent == status = "matched" /\ \E v \in User : Voted(u, v)
           G == {d \in {"group"} : carried \/ sent}
           H == {d \in {"group"} : carried /\ sent}
<1>1. {d \in Deal : requireDealParty(d, u)} = (A \cup B) \cup G
  BY CustomsNoneFresh DEF requireDealParty, Deal
<1>2. completedDealsBetween(u, u) = (A \cap B) \cup H
  <2>1. Voted(u, u) /\ status = "matched" <=> carried /\ sent
    BY GroupRoles
  <2>2. completedDealsBetween(u, u)
            = {d \in Past : <<PastClient[d], PastCarrier[d]>> = <<u, u>>}
              \cup {d \in {"group"} : status = "matched" /\ Voted(u, u)}
    BY DEF completedDealsBetween
  <2>3. A \cap B = {d \in Past : <<PastClient[d], PastCarrier[d]>> = <<u, u>>}
    OBVIOUS
  <2>4. H = {d \in {"group"} : status = "matched" /\ Voted(u, u)}
    BY <2>1
  <2> HIDE DEF A, B, H
  <2> QED BY <2>2, <2>3, <2>4
<1>3. CompletedDeals(u) = Cardinality(A) + Cardinality(B)
          + ((IF carried THEN 1 ELSE 0) + (IF sent THEN 1 ELSE 0))
  <2>1. CASE status # "matched"
    <3>1. ~carried /\ ~sent
      BY <2>1
    <3>2. Cardinality(A) \in Nat /\ Cardinality(B) \in Nat
      BY PastType, FS_Subset, FS_CardinalityType
    <3>3. CompletedDeals(u) = Cardinality(A) + Cardinality(B) + 0
      BY <2>1 DEF CompletedDeals
    <3> HIDE DEF A, B, carried, sent
    <3> QED BY <3>1, <3>2, <3>3
  <2>2. CASE status = "matched"
    <3> DEFINE S == {o \in selected : Author[o] = u}
               M == {c \in Client : c = u /\ vote[c] # "none"}
    <3>1. PICK o \in bids : selected = {o}
      BY <2>2 DEF AfterSafe, Sealed, ClosedOnce
    <3>2. S \in SUBSET {o} /\ M \in SUBSET {u}
      BY <3>1
    <3>3. (S # {} <=> carried) /\ (M # {} <=> sent)
      <4>1. /\ (\E v \in User : Voted(v, u)) <=> \E x \in selected : Author[x] = u
            /\ (\E v \in User : Voted(u, v)) <=> u \in Client /\ vote[u] # "none"
        BY <2>2, GroupRoles
      <4> QED BY <2>2, <4>1
    <3>4. Cardinality(S) = (IF S = {} THEN 0 ELSE 1) /\ Cardinality(M) = (IF M = {} THEN 0 ELSE 1)
      BY <3>2, AtMostOne
    <3>5. CompletedDeals(u) = Cardinality(A) + Cardinality(B) + (Cardinality(S) + Cardinality(M))
      BY <2>2 DEF CompletedDeals
    <3> HIDE DEF A, B, S, M, carried, sent
    <3> QED BY <3>3, <3>4, <3>5
  <2> QED BY <2>1, <2>2
<1>4. Cardinality(A \cup B) = Cardinality(A) + Cardinality(B) - Cardinality(A \cap B)
  <2>1. IsFiniteSet(A) /\ IsFiniteSet(B)
    BY PastType, FS_Subset
  <2> HIDE DEF A, B
  <2> QED BY <2>1, FS_Union
<1>5. /\ Cardinality((A \cup B) \cup G) = Cardinality(A \cup B) + (IF G = {} THEN 0 ELSE 1)
      /\ Cardinality((A \cap B) \cup H) = Cardinality(A \cap B) + (IF H = {} THEN 0 ELSE 1)
  <2>1. A \cup B \in SUBSET Past /\ A \cap B \in SUBSET Past
        /\ G \in SUBSET {"group"} /\ H \in SUBSET {"group"}
    OBVIOUS
  <2> HIDE DEF A, B, G, H
  <2> QED BY <2>1, WithGroup
<1>6. {Cardinality(A), Cardinality(B), Cardinality(A \cap B)} \subseteq Nat
  <2>1. A \in SUBSET Past /\ B \in SUBSET Past /\ A \cap B \in SUBSET Past /\ {} \in SUBSET {"group"}
    OBVIOUS
  <2> HIDE DEF A, B
  <2> QED BY <2>1, WithGroup
<1>7. (G # {} <=> carried \/ sent) /\ (H # {} <=> carried /\ sent)
  OBVIOUS
<1>8. /\ Cardinality({d \in Deal : requireDealParty(d, u)})
            = Cardinality(A \cup B) + (IF G = {} THEN 0 ELSE 1)
      /\ Cardinality(completedDealsBetween(u, u))
            = Cardinality(A \cap B) + (IF H = {} THEN 0 ELSE 1)
  <2> HIDE DEF A, B, G, H
  <2> QED BY <1>1, <1>2, <1>5
<1>9. \A x, y, z \in Nat :
          x + y + ((IF carried THEN 1 ELSE 0) + (IF sent THEN 1 ELSE 0))
          = (x + y - z) + (IF G = {} THEN 0 ELSE 1) + (z + (IF H = {} THEN 0 ELSE 1))
  <2> HIDE DEF A, B, G, H, carried, sent
  <2> QED BY <1>7
<1>10. Cardinality(A) \in Nat /\ Cardinality(B) \in Nat /\ Cardinality(A \cap B) \in Nat
  BY <1>6
<1> HIDE DEF A, B, G, H, carried, sent
<1> QED BY <1>3, <1>4, <1>8, <1>9, <1>10

-----------------------------------------------------------------------------
(* The theorems.                                                           *)

\* Every variable of the aftermath ranges over its type.
THEOREM AfterIsTyped == AfterSpec => []AfterTypeOK
<1>1. AfterSafe => AfterTypeOK
  BY DEF AfterSafe
<1> QED BY <1>1, AfterHolds, PTL

\* What bids under way, votes, partners and notices agree on.
THEOREM AfterIsConsistent == AfterSpec => []AfterInv
<1>1. AfterSafe => AfterInv
  BY DEF AfterSafe
<1> QED BY <1>1, AfterHolds, PTL

\* One representative wins, joins the chat, and one round of notices goes out.
THEOREM CustomsCloseOnce == AfterSpec => []CustomsOnce
<1>1. AfterSafe => CustomsOnce
  <2> SUFFICES ASSUME AfterSafe PROVE Cardinality(Winners) = repNotices /\ repNotices <= 1
    BY DEF AfterSafe, CustomsFollow, CustomsOnce
  <2>1. CASE Winners = {} /\ repNotices = 0
    BY <2>1, FS_EmptySet
  <2>2. ASSUME NEW o \in CustomsOffer, Winners = {o}, repNotices = 1
        PROVE  Cardinality(Winners) = repNotices /\ repNotices <= 1
    <3>1. Cardinality({o}) = 1
      BY FS_Singleton
    <3> QED BY <2>2, <3>1
  <2> QED BY <2>1, <2>2 DEF AfterSafe, AfterInv
<1> QED BY <1>1, AfterHolds, PTL

\* A representative has one bid, however many requests it sends.
THEOREM BidsAreSingle == AfterSpec => []OneBidPerRep
<1>1. AfterSafe => OneBidPerRep
  BY DEF AfterSafe
<1> QED BY <1>1, AfterHolds, PTL

\* Only members, the chosen carrier and the chosen representative read the chat.
THEOREM OutsidersStayOut == AfterSpec => []ChatStaysClosed
<1>1. AfterSafe => ChatStaysClosed
  BY DEF AfterSafe
<1> QED BY <1>1, AfterHolds, PTL

\* Favourites and ratings reveal no losing bid of a group that agreed.
THEOREM PartnersWereRevealed == AfterSpec => []PartnersAreRevealed
<1>1. AfterSafe => PartnersAreRevealed
  BY PartnersMet DEF PartnersAreRevealed
<1> QED BY <1>1, AfterHolds, PTL

\* No view names anybody whom a deal did not disclose.
THEOREM NamesWereEntitled == AfterSpec => []NamesAreEntitled
<1>1. AfterSafe => NamesAreEntitled
  BY NamesFollowDeals DEF NamesAreEntitled
<1> QED BY <1>1, AfterHolds, PTL

\* Nobody rates a partner more often than they completed a deal together,
\* whether or not the requests name the deal.
THEOREM PartnersRateOncePerDeal == AfterSpec => []OncePerDeal
<1>1. AfterSafe /\ RatedOnce => OncePerDeal
  BY RowsAreDeals DEF OncePerDeal
<1> QED BY <1>1, AfterHolds, RatingsHold, PTL

\* The queries that count completed deals agree on everybody, while the members
\* agree; a deal with oneself counts twice in the score.
THEOREM DealCountsAgree == AfterSpec => []DealsMirrored
<1>1. AfterSafe => DealsMirrored
  BY PartiesAgree, ScoreCounts DEF DealsMirrored
<1> QED BY <1>1, AfterHolds, PTL

-----------------------------------------------------------------------------
(* The customs competition implements the abstract one.                    *)

CustomsWinner == IF HasSelected THEN CHOOSE o \in CustomsOffer : customs[o] = "selected"
                 ELSE "none"
CustomsBids == {o \in CustomsOffer : customs[o] # "absent"}

\* Steps that neither insert a bid nor select one leave the competition alone.
LEMMA CustomsStutter ==
    ASSUME [AfterNext]_allVars, ~\E q \in CReq : InsertCustomsOffer(q),
           ~\E o \in CustomsOffer : SelectCustoms(o)
    PROVE  UNCHANGED customs
BY DEF AfterNext, allVars, customsVars, BeginCustomsOffer, AbortCustoms, CreateRating,
       AddFavorite, RemoveFavorite

LEMMA SameCompetition ==
    ASSUME UNCHANGED customs
    PROVE  UNCHANGED CustomsComp!compVars
BY DEF CustomsComp!compVars, HasSelected, Winners

LEMMA InsertIsSubmit ==
    ASSUME AfterSafe, NEW q \in CReq, InsertCustomsOffer(q)
    PROVE  [CustomsComp!Next]_(CustomsComp!compVars)
<1>1. PICK b \in CustomsOffer : b = cwhat[q]
  BY DEF InsertCustomsOffer, CustomsFinish, AfterSafe, AfterTypeOK
<1>2. CASE OfferedBy(Rep[b])
  BY <1>1, <1>2, SameCompetition DEF InsertCustomsOffer
<1>3. CASE ~OfferedBy(Rep[b])
  <2>1. customs' = [customs EXCEPT ![b] = "submitted"] /\ customs[b] = "absent"
    BY <1>1, <1>3 DEF InsertCustomsOffer, OfferedBy
  <2>2. \A o \in CustomsOffer : customs'[o] = "selected" <=> customs[o] = "selected"
    BY <2>1 DEF AfterSafe, AfterTypeOK
  <2>3. Winners' = Winners /\ HasSelected' = HasSelected
    BY <2>2 DEF Winners, HasSelected
  <2>4. CustomsWinner' = CustomsWinner
    <3>1. CASE Winners = {}
      BY <2>3, <3>1 DEF CustomsWinner, HasSelected, Winners
    <3>2. CASE Winners # {}
      <4>1. PICK w \in CustomsOffer : Winners = {w}
        BY <3>2 DEF AfterSafe, AfterInv
      <4>2. HasSelected /\ HasSelected'
        BY <2>3, <4>1 DEF HasSelected, Winners
      <4>3. \A o \in CustomsOffer : customs[o] = "selected" <=> o = w
        BY <4>1 DEF Winners
      <4>4. CustomsWinner = w
        BY <4>2, <4>3 DEF CustomsWinner
      <4>5. CustomsWinner' = w
        BY <2>2, <4>2, <4>3 DEF CustomsWinner
      <4> QED BY <4>4, <4>5
    <3> QED BY <3>1, <3>2
  <2>5. CustomsBids' = CustomsBids \cup {b}
    BY <1>1, <2>1 DEF CustomsBids, AfterSafe, AfterTypeOK
  <2>6. CustomsComp!Submit(b)
    BY <2>3, <2>4, <2>5 DEF CustomsComp!Submit, CustomsWinner, CustomsBids
  <2>7. CustomsComp!Next
    BY <1>1, <2>6 DEF CustomsComp!Next
  <2> QED BY <2>7
<1> QED BY <1>2, <1>3

LEMMA SelectionIsAward ==
    ASSUME AfterSafe, NEW o \in CustomsOffer, SelectCustoms(o)
    PROVE  CustomsComp!Next
<1>1. Winners = {} /\ Winners' = {o}
  BY SelectionKeeps
<1>2. ~HasSelected /\ HasSelected'
  BY <1>1 DEF HasSelected, Winners
<1>3. CustomsWinner = "none" /\ CustomsWinner' = o
  <2>1. \A p \in CustomsOffer : customs'[p] = "selected" <=> p = o
    BY <1>1 DEF Winners
  <2> QED BY <1>2, <2>1 DEF CustomsWinner
<1>4. /\ o \in CustomsBids /\ CustomsBids' = CustomsBids
  BY DEF SelectCustoms, MaySelectCustoms, MarkSelected, CustomsBids
<1>5. [l \in {"customs"} |-> CustomsWinner']
        = [[l \in {"customs"} |-> CustomsWinner] EXCEPT !["customs"] = o]
  BY <1>3
<1>6. {<<"customs", Rep[p]>> : p \in Winners'}
        = {<<"customs", Rep[p]>> : p \in Winners} \cup {<<"customs", Rep[o]>>}
  BY <1>1
<1>7. CustomsComp!Award(o)
  BY <1>3, <1>4, <1>5, <1>6 DEF CustomsComp!Award, CustomsWinner, CustomsBids
<1> QED BY <1>7 DEF CustomsComp!Next

\* One representative wins in one step that reveals it alone, and stays the
\* winner, whichever members select in parallel and whichever bids come late.
THEOREM CustomsImplements == AfterSpec => CustomsImplementCompetition
<1>1. AfterInit => CustomsComp!Init
  <2> SUFFICES ASSUME AfterInit PROVE CustomsComp!Init
    OBVIOUS
  <2>1. customs = [o \in CustomsOffer |-> "absent"]
    BY DEF AfterInit
  <2>2. ~HasSelected /\ Winners = {} /\ CustomsBids = {}
    BY <2>1 DEF HasSelected, Winners, CustomsBids
  <2> QED BY <2>2 DEF CustomsComp!Init, CustomsBids
<1>2. AfterSafe /\ [AfterNext]_allVars => [CustomsComp!Next]_(CustomsComp!compVars)
  BY CustomsStutter, SameCompetition, InsertIsSubmit, SelectionIsAward
<1> QED
  BY <1>1, <1>2, AfterHolds, PTL DEF AfterSpec, CustomsImplementCompetition, CustomsComp!Spec
=============================================================================
