--------------------------- MODULE GroupDealProofs ---------------------------
(***************************************************************************)
(* Proofs about GroupDeal, for any finite group of clients, any offers,    *)
(* subscriptions and number of concurrent requests.                        *)
(***************************************************************************)
EXTENDS GroupDeal, FiniteSetTheorems, TLAPS

-----------------------------------------------------------------------------
(* Majorities.                                                             *)

\* A bid with a majority has a vote, of somebody who accepted.
LEMMA MajorityVoted ==
    ASSUME NEW v, NEW acc, IsFiniteSet(acc), NEW o \in Majority(v, acc)
    PROVE  \E u \in acc : v[u] = o
<1>1. IsFiniteSet(Votes(v, acc, o)) /\ Cardinality(Votes(v, acc, o)) \in Nat
      /\ Cardinality(acc) \in Nat
  <2>1. Votes(v, acc, o) \in SUBSET acc
    BY DEF Votes
  <2> QED BY <2>1, FS_Subset, FS_CardinalityType
<1>2. Cardinality(Votes(v, acc, o)) * 2 > Cardinality(acc)
  BY DEF Majority
<1>3. Cardinality(Votes(v, acc, o)) # 0
  BY <1>1, <1>2
<1>4. Votes(v, acc, o) # {}
  BY <1>1, <1>3, FS_EmptySet
<1> QED BY <1>4 DEF Votes

\* Two bids cannot both have the votes of more than half of the group.
LEMMA MajorityIsUnique ==
    ASSUME NEW v, NEW acc, IsFiniteSet(acc),
           NEW o \in Majority(v, acc), NEW p \in Majority(v, acc)
    PROVE  o = p
<1> DEFINE S == Votes(v, acc, o)
           T == Votes(v, acc, p)
<1>1. S \subseteq acc /\ T \subseteq acc
  BY DEF Votes
<1>2. Cardinality(S) \in Nat /\ Cardinality(T) \in Nat /\ Cardinality(acc) \in Nat
  BY <1>1, FS_Subset, FS_CardinalityType
<1>3. Cardinality(S) * 2 > Cardinality(acc) /\ Cardinality(T) * 2 > Cardinality(acc)
  BY DEF Majority
<1>4. Cardinality(S) + Cardinality(T) > Cardinality(acc)
  <2> HIDE DEF S, T
  <2> QED BY <1>2, <1>3
<1>5. S \cap T # {}
  <2> HIDE DEF S, T
  <2> QED BY <1>1, <1>4, FS_MajoritiesIntersect
<1> QED BY <1>5 DEF Votes

\* A new member who has not voted brings no bid closer to a majority.
LEMMA MajorityShrinks ==
    ASSUME NEW v, NEW acc, IsFiniteSet(acc), NEW u,
           u \notin acc => v[u] \notin Offer
    PROVE  Majority(v, acc \cup {u}) \subseteq Majority(v, acc)
<1> SUFFICES ASSUME NEW o \in Majority(v, acc \cup {u}) PROVE o \in Majority(v, acc)
  OBVIOUS
<1> DEFINE S == Votes(v, acc, o)
           n == Cardinality(S)
           k == Cardinality(acc)
           m == Cardinality(acc \cup {u})
<1>1. o \in Offer /\ Votes(v, acc \cup {u}, o) = S
  BY DEF Majority, Votes
<1>2. n \in Nat /\ k \in Nat /\ IsFiniteSet(acc)
  <2>1. S \in SUBSET acc
    BY DEF Votes
  <2> QED BY <2>1, FS_Subset, FS_CardinalityType
<1>3. m = k \/ m = k + 1
  BY FS_AddElement
<1>4. n * 2 > m
  BY <1>1 DEF Majority
<1>5. n * 2 > k
  <2> HIDE DEF n, m, k
  <2> QED BY <1>2, <1>3, <1>4
<1> QED BY <1>1, <1>5 DEF Majority

-----------------------------------------------------------------------------
(* The steps of Next.                                                      *)

Labels == {"setInvite", "insertPayment", "accept", "insertOffer", "select"}

\* A request starts: what its checks established.
Begins == \E r \in Req, l \in Labels, u \in User, o \in Offer \cup {"none"} :
    /\ Start(r, l, u, o)
    /\ l \in {"setInvite", "accept", "select"} => u \in Client
    /\ l = "setInvite" => u \in subscribed
    /\ l \in {"insertOffer", "select"} => o \in Offer

\* A statement of a request that runs, or the loss of one.
Proceeds == \E r \in Req :
    \/ SetInvite(r) \/ AddInitiator(r) \/ InsertPayment(r)
    \/ Accept(r) \/ InsertOffer(r) \/ Select(r) \/ Abort(r)

\* The administrator.
Administers == \/ \E u \in User : SetUserSubscription(u)
               \/ \E u \in User : MarkConsolidatedPayment(u)

\* A step of Next is of one of the three kinds.
LEMMA NextSteps ==
    ASSUME Next
    PROVE  Begins \/ Proceeds \/ Administers
<1> USE DEF Labels
<1>1. ASSUME NEW r \in Req, NEW u \in Client, BeginInvite(r, u) PROVE Begins
  BY <1>1, ClientType DEF BeginInvite, Begins
<1>2. ASSUME NEW r \in Req, NEW u \in Client, BeginAccept(r, u) PROVE Begins
  BY <1>2, ClientType DEF BeginAccept, Begins
<1>3. ASSUME NEW r \in Req, NEW u \in Client, BeginPay(r, u) PROVE Begins
  BY <1>3, ClientType DEF BeginPay, Begins
<1>4. ASSUME NEW r \in Req, NEW u \in Client, NEW o \in Offer, BeginSelect(r, u, o)
      PROVE  Begins
  BY <1>4, ClientType DEF BeginSelect, Begins
<1>5. ASSUME NEW r \in Req, NEW o \in Offer, BeginOffer(r, o) PROVE Begins
  <2>1. Author[o] \in User /\ Start(r, "insertOffer", Author[o], o)
    BY <1>5, AuthorType DEF BeginOffer
  <2> QED BY <2>1 DEF Begins
<1> QED
  BY <1>1, <1>2, <1>3, <1>4, <1>5, BoundsType DEF Next, Proceeds, Administers

-----------------------------------------------------------------------------
(* Type correctness, with what the requests carry.                         *)

RequestTypes ==
    /\ pc \in [Req -> {"idle", "setInvite", "addInitiator",
                       "insertPayment", "accept", "insertOffer", "select"}]
    /\ who \in [Req -> User \cup {"none"}]
    /\ what \in [Req -> Offer \cup {"none"}]
    /\ wasSubscribed \in [Req -> BOOLEAN]
    /\ \A r \in Req : pc[r] # "idle" => who[r] \in User

DealTypes ==
    /\ status \in {"open", "matched"}
    /\ invite \in {"none", "invited", "accepted"}
    /\ initiator \in Client \cup {"none"}
    /\ accepted \subseteq Client /\ paid \subseteq User
    /\ chatOpen \in BOOLEAN /\ chat \subseteq User
    /\ bids \subseteq Offer /\ selected \subseteq Offer
    /\ vote \in [Client -> Offer \cup {"none"}]
    /\ closings \in Nat
    /\ subscribed \subseteq User /\ everSubscribed \subseteq User

BaseInv == TypeOK /\ RequestsKnow /\ subscribed \subseteq everSubscribed /\ ChatComesFirst

\* TypeOK in two halves.
LEMMA TypeHalves == TypeOK <=> RequestTypes /\ DealTypes
BY DEF TypeOK, RequestTypes, DealTypes

\* The accepted members are finitely many.
LEMMA AcceptedFinite ==
    ASSUME TypeOK
    PROVE  IsFiniteSet(accepted)
BY ClientType, FS_Subset DEF TypeOK

\* A request that ends leaves the others what they know.
LEMMA FinishKnows ==
    ASSUME RequestTypes, RequestsKnow, NEW r \in Req, NEW l, Finish(r, l),
           UNCHANGED everSubscribed
    PROVE  RequestTypes' /\ RequestsKnow'
BY DEF RequestTypes, RequestsKnow, Finish

\* A request starts with what its checks established.
LEMMA BeginBase ==
    ASSUME BaseInv, Begins
    PROVE  BaseInv'
<1>1. RequestTypes /\ DealTypes
  BY TypeHalves DEF BaseInv
<1>2. UNCHANGED <<dealVars, paid, subVars>>
  BY DEF Begins, Start
<1> PICK r \in Req, l \in Labels, u \in User, o \in Offer \cup {"none"} :
       /\ Start(r, l, u, o)
       /\ l \in {"setInvite", "accept", "select"} => u \in Client
       /\ l = "setInvite" => u \in subscribed
       /\ l \in {"insertOffer", "select"} => o \in Offer
  BY DEF Begins
<1>3. RequestTypes'
  BY <1>1 DEF Labels, Start, RequestTypes
<1>4. \A q \in Req : q # r => /\ pc'[q] = pc[q] /\ who'[q] = who[q] /\ what'[q] = what[q]
                              /\ wasSubscribed'[q] = wasSubscribed[q]
  BY <1>1 DEF Start, RequestTypes
<1>5. pc'[r] = l /\ who'[r] = u /\ what'[r] = o /\ (wasSubscribed'[r] => u \in subscribed)
  BY <1>1 DEF Start, RequestTypes
<1>6. RequestsKnow'
  BY <1>2, <1>4, <1>5 DEF BaseInv, Labels, RequestsKnow, subVars
<1>7. DealTypes'
  BY <1>1, <1>2 DEF DealTypes, dealVars, subVars
<1>8. TypeOK'
  BY <1>7, <1>3 DEF TypeOK, DealTypes, RequestTypes
<1> QED
  BY <1>2, <1>6, <1>8 DEF BaseInv, ChatComesFirst, dealVars, subVars

\* A subscription given or taken leaves the requests what they know: they
\* know who was ever subscribed.
LEMMA AdministerBase ==
    ASSUME BaseInv, Administers
    PROVE  BaseInv'
<1>1. RequestTypes /\ DealTypes
  BY TypeHalves DEF BaseInv
<1>2. UNCHANGED <<dealVars, reqVars>> /\ everSubscribed \subseteq everSubscribed'
  BY DEF Administers, SetUserSubscription, MarkConsolidatedPayment, subVars
<1>3. DealTypes' /\ (subscribed \subseteq everSubscribed)'
  BY <1>1, <1>2 DEF Administers, SetUserSubscription, MarkConsolidatedPayment,
     DealTypes, BaseInv, dealVars, subVars
<1>4. RequestTypes' /\ RequestsKnow'
  BY <1>1, <1>2 DEF BaseInv, RequestTypes, RequestsKnow, reqVars
<1>5. TypeOK'
  BY <1>3, <1>4 DEF TypeOK, DealTypes, RequestTypes
<1> QED
  BY <1>2, <1>3, <1>4, <1>5 DEF BaseInv, ChatComesFirst, dealVars

\* The statements keep the types; the one that opens the chat has an initiator.
LEMMA ProceedBase ==
    ASSUME BaseInv, Proceeds
    PROVE  BaseInv'
<1> PICK r \in Req : \/ SetInvite(r) \/ AddInitiator(r) \/ InsertPayment(r)
                     \/ Accept(r) \/ InsertOffer(r) \/ Select(r) \/ Abort(r)
  BY DEF Proceeds
<1>1. RequestTypes /\ DealTypes /\ RequestsKnow /\ ChatComesFirst
      /\ subscribed \subseteq everSubscribed
  BY TypeHalves DEF BaseInv
<1>2. UNCHANGED subVars
  BY DEF SetInvite, AddInitiator, InsertPayment, Accept, InsertOffer, Select, Abort
<1>3. RequestTypes' /\ RequestsKnow'
  <2>1. CASE SetInvite(r)
    BY <1>1, <1>2, <2>1 DEF SetInvite, Step, RequestTypes, RequestsKnow, subVars
  <2>2. CASE ~SetInvite(r)
    <3>1. \E l : Finish(r, l)
      BY <2>2 DEF AddInitiator, InsertPayment, Accept, InsertOffer, Select, Abort
    <3> QED BY <1>1, <1>2, <3>1, FinishKnows DEF subVars
  <2> QED BY <2>1, <2>2
<1>4. DealTypes' /\ ChatComesFirst'
  <2> USE DEF DealTypes, ChatComesFirst, subVars, dealVars
  <2>1. CASE SetInvite(r)
    BY <1>1, <1>2, <2>1 DEF SetInvite, Step, RequestsKnow
  <2>2. CASE AddInitiator(r)
    BY <1>1, <1>2, <2>2 DEF AddInitiator, Finish, RequestsKnow
  <2>3. CASE InsertPayment(r)
    BY <1>1, <1>2, <2>3 DEF InsertPayment, Finish, RequestTypes
  <2>4. CASE Accept(r)
    BY <1>1, <1>2, <2>4, ClientType DEF Accept, MayAccept, Finish, RequestsKnow
  <2>5. CASE InsertOffer(r)
    BY <1>1, <1>2, <2>5 DEF InsertOffer, Finish, RequestsKnow
  <2>6. CASE Select(r)
    BY <1>1, <1>2, <2>6, AuthorType
    DEF Select, MayVote, Finish, RequestsKnow, Majority, CarrierJoins
  <2>7. CASE Abort(r)
    BY <1>1, <1>2, <2>7 DEF Abort
  <2> QED BY <2>1, <2>2, <2>3, <2>4, <2>5, <2>6, <2>7
<1>5. TypeOK'
  BY <1>3, <1>4 DEF TypeOK, DealTypes, RequestTypes
<1> QED
  BY <1>1, <1>2, <1>3, <1>4, <1>5 DEF BaseInv, subVars

\* A step that changes nothing.
LEMMA StutterBase ==
    ASSUME BaseInv, UNCHANGED vars
    PROVE  BaseInv'
BY DEF BaseInv, TypeOK, RequestsKnow, ChatComesFirst, vars, dealVars, subVars, reqVars

\* A new deal: no request is under way.
LEMMA InitBase == Init => BaseInv
<1> SUFFICES ASSUME Init PROVE BaseInv
  OBVIOUS
<1>1. RequestTypes
  BY DEF Init, RequestTypes
<1>2. DealTypes
  BY SubscriberType DEF Init, DealTypes
<1>3. RequestsKnow
  BY DEF Init, RequestsKnow
<1> QED BY <1>1, <1>2, <1>3, TypeHalves DEF Init, BaseInv, ChatComesFirst

\* A request under way carries a client where the statement needs one, and the
\* chat precedes the vote.
LEMMA BaseKept == BaseInv /\ [Next]_vars => BaseInv'
BY NextSteps, BeginBase, ProceedBase, AdministerBase, StutterBase

LEMMA BaseHolds == Spec => []BaseInv
BY BaseKept, InitBase, PTL DEF Spec

\* Type correctness, for every group.
THEOREM TypeCorrect == Spec => []TypeOK
BY BaseHolds, PTL DEF BaseInv

-----------------------------------------------------------------------------
(* The closing of the deal.                                                *)

Sealed == VotesAreBids /\ ClosedOnce /\ ShownIsClosed /\ EntryIsPaid

\* More payments and subscriptions take nobody's entry away.
LEMMA MorePaid ==
    ASSUME Sealed, UNCHANGED dealVars,
           paid \subseteq paid', everSubscribed \subseteq everSubscribed'
    PROVE  Sealed'
<1>1. VotesAreBids' /\ ClosedOnce'
  BY DEF Sealed, VotesAreBids, ClosedOnce, dealVars
<1>2. ShownIsClosed'
  BY DEF Sealed, ShownIsClosed, Majority, Votes, dealVars
<1>3. EntryIsPaid'
  BY DEF Sealed, EntryIsPaid, dealVars
<1> QED BY <1>1, <1>2, <1>3 DEF Sealed

\* A member who enters has not voted yet, so no bid gains a majority.
LEMMA EnterSealed ==
    ASSUME BaseInv, Sealed, NEW u \in Client, u \in paid \cup everSubscribed,
           accepted' = accepted \cup {u}, chat \subseteq chat',
           UNCHANGED <<status, bids, selected, vote, closings, paid, subVars>>
    PROVE  Sealed'
<1>1. VotesAreBids' /\ ClosedOnce'
  BY DEF Sealed, VotesAreBids, ClosedOnce
<1>2. EntryIsPaid'
  BY DEF Sealed, EntryIsPaid, subVars
<1>3. ShownIsClosed'
  <2>1. u \notin accepted => vote[u] \notin Offer
    BY NoneFresh DEF Sealed, EntryIsPaid
  <2>2. Majority(vote, accepted \cup {u}) \subseteq Majority(vote, accepted)
    BY <2>1, AcceptedFinite, MajorityShrinks DEF BaseInv
  <2>3. Majority(vote, accepted)' \subseteq Majority(vote, accepted)
    BY <2>2 DEF Majority, Votes
  <2> QED BY <2>3 DEF Sealed, ShownIsClosed
<1> QED BY <1>1, <1>2, <1>3 DEF Sealed

\* A vote closes the deal for one bid, or leaves no bid with a majority.
LEMMA SelectSealed ==
    ASSUME BaseInv, Sealed, NEW r \in Req, Select(r)
    PROVE  Sealed'
<1>1. CASE ~MayVote(r)
  <2>1. UNCHANGED <<dealVars, paid, subVars>>
    BY <1>1 DEF Select, dealVars, subVars
  <2> QED BY <2>1, MorePaid DEF subVars
<1>2. CASE MayVote(r)
  <2> DEFINE u == who[r]
             v == [vote EXCEPT ![u] = what[r]]
             W == Majority(v, accepted)
  <2>1. /\ u \in Client /\ u \in accepted /\ what[r] \in bids
        /\ status = "open" /\ invite = "accepted" /\ chatOpen
    BY <1>2 DEF MayVote, BaseInv, ChatComesFirst, Select, Finish, RequestsKnow
  <2>2. /\ vote' = v /\ UNCHANGED <<accepted, bids, chatOpen, paid, subVars>>
        /\ W # {} => /\ selected' = selected \cup W /\ status' = "matched"
                     /\ chat' = chat \cup {Author[o] : o \in W} /\ closings' = closings + 1
        /\ W = {} => UNCHANGED <<selected, status, chat, closings>>
    BY <1>2, <2>1 DEF Select, CarrierJoins
  <2>3. selected = {} /\ closings = 0
    BY <2>1 DEF Sealed, ClosedOnce
  <2>4. \A x \in Client : v[x] # "none" => v[x] \in bids /\ x \in accepted
    BY <2>1 DEF Sealed, VotesAreBids, EntryIsPaid, BaseInv, TypeOK
  <2>5. VotesAreBids' /\ EntryIsPaid'
    BY <2>2, <2>4 DEF Sealed, VotesAreBids, EntryIsPaid, subVars
  <2>6. Majority(vote, accepted)' = W
    BY <2>2 DEF Majority, Votes
  <2>7. CASE W = {}
    <3>1. ClosedOnce'
      BY <2>1, <2>2, <2>3, <2>7 DEF Sealed, ClosedOnce
    <3>2. ShownIsClosed'
      BY <2>6, <2>7 DEF ShownIsClosed
    <3> QED BY <2>5, <3>1, <3>2 DEF Sealed
  <2>8. CASE W # {}
    <3>1. PICK o : o \in W
      BY <2>8
    <3>2. o \in Offer
      BY <3>1 DEF Majority
    <3>3. \A p \in W : p = o
      BY <3>1, AcceptedFinite, MajorityIsUnique DEF BaseInv
    <3>4. W = {o}
      BY <3>1, <3>3
    <3>5. o \in bids
      <4>1. IsFiniteSet(accepted) /\ o \in Majority(v, accepted)
        BY <3>1, AcceptedFinite DEF BaseInv
      <4>2. \E x \in accepted : v[x] = o
        <5> HIDE DEF v
        <5> QED BY <4>1, MajorityVoted
      <4> QED BY <2>4, <3>2, <4>2, NoneFresh DEF BaseInv, TypeOK
    <3>6. selected' = {o} /\ status' = "matched" /\ closings' = 1
          /\ chat' = chat \cup {Author[o]} /\ bids' = bids
      <4>1. {Author[q] : q \in {o}} = {Author[o]}
        OBVIOUS
      <4> HIDE DEF W
      <4>2. selected' = W /\ status' = "matched" /\ closings' = 1 /\ bids' = bids
            /\ chat' = chat \cup {Author[q] : q \in W}
        BY <2>2, <2>3, <2>8
      <4> QED BY <3>4, <4>1, <4>2
    <3>7. ClosedOnce'
      BY <3>5, <3>6 DEF ClosedOnce
    <3>8. ShownIsClosed'
      BY <2>6, <3>4, <3>6 DEF ShownIsClosed
    <3> QED BY <2>5, <3>7, <3>8 DEF Sealed
  <2> QED BY <2>7, <2>8
<1> QED BY <1>1, <1>2

\* No statement of a request breaks the deal.
LEMMA ProceedSealed ==
    ASSUME BaseInv, Sealed, Proceeds
    PROVE  Sealed'
<1> PICK r \in Req : \/ SetInvite(r) \/ AddInitiator(r) \/ InsertPayment(r)
                     \/ Accept(r) \/ InsertOffer(r) \/ Select(r) \/ Abort(r)
  BY DEF Proceeds
<1>1. CASE SetInvite(r)
  <2>1. UNCHANGED <<status, accepted, chatOpen, chat, bids, selected, vote, closings,
                    paid, subVars>>
    BY <1>1 DEF SetInvite
  <2>2. VotesAreBids' /\ ClosedOnce' /\ EntryIsPaid'
    BY <2>1 DEF Sealed, VotesAreBids, ClosedOnce, EntryIsPaid, subVars
  <2>3. ShownIsClosed'
    BY <2>1 DEF Sealed, ShownIsClosed, Majority, Votes
  <2> QED BY <2>2, <2>3 DEF Sealed
<1>2. CASE AddInitiator(r)
  <2>1. who[r] \in Client /\ who[r] \in everSubscribed
    BY <1>2 DEF AddInitiator, Finish, BaseInv, RequestsKnow
  <2>2. accepted' = accepted \cup {who[r]}
        /\ UNCHANGED <<status, chat, bids, selected, vote, closings, paid, subVars>>
    BY <1>2 DEF AddInitiator
  <2> QED BY <2>1, <2>2, EnterSealed
<1>3. CASE InsertPayment(r)
  BY <1>3, MorePaid DEF InsertPayment, subVars
<1>4. CASE Accept(r)
  <2>1. CASE MayAccept(r)
    <3>1. who[r] \in Client /\ initiator \in Client
      BY <1>4, <2>1 DEF Accept, MayAccept, Finish, BaseInv, RequestsKnow, ChatComesFirst
    <3>2. who[r] \in paid \cup everSubscribed
      BY <2>1 DEF MayAccept, BaseInv, RequestsKnow
    <3>3. /\ accepted' = accepted \cup {who[r]}
          /\ UNCHANGED <<status, bids, selected, vote, closings, paid, subVars>>
          /\ chat' = chat \cup {who[r]} \/ (~chatOpen /\ chat' = {initiator, who[r]})
      BY <1>4, <2>1 DEF Accept
    <3>4. ~chatOpen => chat = {}
      BY DEF BaseInv, ChatComesFirst
    <3> QED BY <3>1, <3>2, <3>3, <3>4, EnterSealed
  <2>2. CASE ~MayAccept(r)
    <3>1. UNCHANGED <<dealVars, paid, subVars>>
      BY <1>4, <2>2 DEF Accept, dealVars, subVars
    <3> QED BY <3>1, MorePaid DEF subVars
  <2> QED BY <2>1, <2>2
<1>5. CASE InsertOffer(r)
  <2>1. bids \subseteq bids'
        /\ UNCHANGED <<status, accepted, chat, selected, vote, closings, paid, subVars>>
    BY <1>5 DEF InsertOffer
  <2>2. VotesAreBids' /\ ClosedOnce' /\ EntryIsPaid'
    BY <2>1 DEF Sealed, VotesAreBids, ClosedOnce, EntryIsPaid, subVars
  <2>3. ShownIsClosed'
    BY <2>1 DEF Sealed, ShownIsClosed, Majority, Votes
  <2> QED BY <2>2, <2>3 DEF Sealed
<1>6. CASE Select(r)
  BY <1>6, SelectSealed
<1>7. CASE Abort(r)
  BY <1>7, MorePaid DEF Abort, subVars
<1> QED BY <1>1, <1>2, <1>3, <1>4, <1>5, <1>6, <1>7

\* A new deal: nobody has entered or voted.
LEMMA InitSealed == Init => Sealed
<1> SUFFICES ASSUME Init PROVE Sealed
  OBVIOUS
<1>1. VotesAreBids /\ ClosedOnce /\ EntryIsPaid
  BY DEF Init, VotesAreBids, ClosedOnce, EntryIsPaid
<1>2. \A o \in Offer : Votes(vote, accepted, o) = {}
  BY DEF Init, Votes
<1>3. Cardinality({}) = 0 /\ accepted = {}
  BY FS_EmptySet DEF Init
<1>4. Majority(vote, accepted) = {}
  BY <1>2, <1>3 DEF Majority
<1> QED BY <1>1, <1>4 DEF Sealed, ShownIsClosed

LEMMA SealedKept == BaseInv /\ Sealed /\ [Next]_vars => Sealed'
<1> SUFFICES ASSUME BaseInv, Sealed, [Next]_vars PROVE Sealed'
  OBVIOUS
<1>1. CASE Begins
  BY <1>1, MorePaid DEF Begins, Start, subVars
<1>2. CASE Proceeds
  BY <1>2, ProceedSealed
<1>3. CASE Administers
  <2>1. UNCHANGED dealVars /\ paid \subseteq paid' /\ everSubscribed \subseteq everSubscribed'
    BY <1>3 DEF Administers, SetUserSubscription, MarkConsolidatedPayment, subVars
  <2> QED BY <2>1, MorePaid
<1>4. CASE UNCHANGED vars
  BY <1>4, MorePaid DEF vars, subVars
<1> QED BY <1>1, <1>2, <1>3, <1>4, NextSteps

\* The chat grows by members and by the carrier chosen; a closed deal keeps
\* its votes and its carrier.
LEMMA DealMoves ==
    ASSUME BaseInv, [Next]_vars
    PROVE  /\ chat \subseteq chat' /\ selected \subseteq selected'
           /\ chat' \subseteq chat \cup Client \cup {Author[o] : o \in selected'}
           /\ status = "matched" =>
                 status' = "matched" /\ vote' = vote /\ selected' = selected
           /\ status # "matched" /\ status' = "matched" =>
                 \A o \in selected' : o \in selected \/ \E c \in Client : vote'[c] = o
<1> DEFINE Goal ==
        /\ chat \subseteq chat' /\ selected \subseteq selected'
        /\ chat' \subseteq chat \cup Client \cup {Author[o] : o \in selected'}
        /\ status = "matched" =>
              status' = "matched" /\ vote' = vote /\ selected' = selected
        /\ status # "matched" /\ status' = "matched" =>
              \A o \in selected' : o \in selected \/ \E c \in Client : vote'[c] = o
<1>1. ASSUME UNCHANGED <<status, chat, selected, vote>> PROVE Goal
  BY <1>1
<1>2. CASE Begins \/ Administers \/ UNCHANGED vars
  BY <1>1, <1>2 DEF Begins, Start, Administers, SetUserSubscription,
                    MarkConsolidatedPayment, vars, dealVars
<1>3. ASSUME NEW r \in Req, Accept(r) PROVE Goal
  <2>1. /\ UNCHANGED <<status, selected, vote>>
        /\ \/ chat' = chat \/ chat' = chat \cup {who[r]}
           \/ invite # "none" /\ ~chatOpen /\ chat' = {initiator, who[r]}
    BY <1>3 DEF Accept, MayAccept
  <2>2. who[r] \in Client
    BY <1>3 DEF Accept, Finish, BaseInv, RequestsKnow
  <2>3. (~chatOpen => chat = {}) /\ (invite # "none" => initiator \in Client)
    BY DEF BaseInv, ChatComesFirst
  <2> QED BY <2>1, <2>2, <2>3
<1>4. ASSUME NEW r \in Req, Select(r) PROVE Goal
  <2> DEFINE v == [vote EXCEPT ![who[r]] = what[r]]
             W == Majority(v, accepted)
  <2>1. CASE ~MayVote(r) \/ W = {}
    <3>1. ~MayVote(r) => UNCHANGED <<status, chat, selected, vote>>
      BY <1>4 DEF Select
    <3>2. MayVote(r) /\ W = {} => status = "open" /\ UNCHANGED <<status, chat, selected>>
      BY <1>4 DEF Select, MayVote
    <3> HIDE DEF W
    <3> QED BY <1>1, <2>1, <3>1, <3>2
  <2>2. CASE MayVote(r) /\ W # {}
    <3>1. /\ status = "open" /\ vote' = v /\ selected' = selected \cup W /\ status' = "matched"
          /\ chat' = chat \/ chat' = chat \cup {Author[o] : o \in W}
      BY <1>4, <2>2 DEF Select, MayVote, CarrierJoins
    <3>2. \A o \in W : \E c \in Client : v[c] = o
      <4>1. IsFiniteSet(accepted) /\ accepted \subseteq Client
        BY AcceptedFinite DEF BaseInv, TypeOK
      <4> HIDE DEF v
      <4> QED BY <4>1, MajorityVoted
    <3> HIDE DEF v, W
    <3> QED BY <3>1, <3>2
  <2> QED BY <2>1, <2>2
<1> HIDE DEF Goal
<1>5. ASSUME Proceeds PROVE Goal
  <2>1. ASSUME NEW r \in Req, \/ SetInvite(r) \/ AddInitiator(r) \/ InsertPayment(r)
                              \/ InsertOffer(r) \/ Abort(r)
        PROVE  Goal
    BY <1>1, <2>1 DEF SetInvite, AddInitiator, InsertPayment, InsertOffer, Abort, dealVars
  <2> QED BY <1>3, <1>4, <1>5, <2>1 DEF Proceeds
<1> QED BY <1>2, <1>5, NextSteps DEF Goal

\* The inductive invariant holds in every group.
THEOREM DealProtected == Spec => []DealInv
<1>1. BaseInv /\ ChatIsPrivate /\ [Next]_vars => ChatIsPrivate'
  BY DealMoves DEF ChatIsPrivate
<1>2. Init => ChatIsPrivate
  BY DEF Init, ChatIsPrivate
<1>3. BaseInv /\ Sealed /\ ChatIsPrivate => DealInv
  BY DEF BaseInv, Sealed, DealInv
<1> QED BY <1>1, <1>2, <1>3, InitSealed, SealedKept, BaseHolds, PTL DEF Spec

\* However many votes race, the deal is closed once, for one carrier, who
\* joins the chat.
THEOREM DealClosesOnce == Spec => []ClosedOnce
<1>1. DealInv => ClosedOnce
  BY DEF DealInv
<1> QED BY <1>1, DealProtected, PTL

\* The status page never shows a carrier that the deal is not closed with.
THEOREM ShownCarrierIsClosed == Spec => []ShownIsClosed
<1>1. DealInv => ShownIsClosed
  BY DEF DealInv
<1> QED BY <1>1, DealProtected, PTL

\* Losing carriers stay out of the chat of the group.
THEOREM ChatStaysPrivate == Spec => []ChatIsPrivate
<1>1. DealInv => ChatIsPrivate
  BY DEF DealInv
<1> QED BY <1>1, DealProtected, PTL

\* Nobody enters, or votes, without a payment or a subscription.
THEOREM EntryWasPaid == Spec => []EntryIsPaid
<1>1. DealInv => EntryIsPaid
  BY DEF DealInv
<1> QED BY <1>1, DealProtected, PTL

-----------------------------------------------------------------------------
(* The competition.                                                        *)

Winner == IF selected = {} THEN "none" ELSE CHOOSE o \in Offer : o \in selected
Revealed == {<<"deal", Author[o]>> : o \in selected}

\* A vote that closes the deal awards it; any other vote changes nothing here.
LEMMA SelectAwards ==
    ASSUME BaseInv, Sealed, Sealed', NEW r \in Req, Select(r), UNCHANGED bids
    PROVE  UNCHANGED selected \/ \E o \in Offer : Comp!Award(o)
<1> SUFFICES ASSUME selected' # selected PROVE \E o \in Offer : Comp!Award(o)
  OBVIOUS
<1>1. status = "open"
  BY DEF Select, MayVote
<1>2. selected = {}
  BY <1>1 DEF Sealed, ClosedOnce
<1>3. status' = "matched"
  BY <1>2 DEF Sealed, ClosedOnce
<1>4. PICK o \in bids : selected' = {o}
  BY <1>3 DEF Sealed, ClosedOnce
<1>5. o \in Offer
  BY <1>4 DEF BaseInv, TypeOK
<1>6. Winner = "none" /\ Winner' = o
  <2>1. (CHOOSE p \in Offer : p \in {o}) = o
    BY <1>5
  <2> QED BY <1>2, <1>4, <2>1 DEF Winner
<1>7. [l \in {"deal"} |-> Winner'] = [[l \in {"deal"} |-> Winner] EXCEPT !["deal"] = o]
  BY <1>6
<1>8. Revealed' = Revealed \cup {<<"deal", Author[o]>>}
  BY <1>2, <1>4 DEF Revealed
<1> QED
  BY <1>4, <1>5, <1>6, <1>7, <1>8 DEF Comp!Award, Winner, Revealed

\* Only an INSERT and a vote touch the competition.
LEMMA OtherStutters ==
    ASSUME [Next]_vars, ~\E r \in Req : Select(r) \/ InsertOffer(r)
    PROVE  UNCHANGED <<bids, selected>>
<1>1. CASE Begins
  BY <1>1 DEF Begins, Start, dealVars
<1>2. CASE Administers
  BY <1>2 DEF Administers, SetUserSubscription, MarkConsolidatedPayment, dealVars
<1>3. CASE Proceeds
  BY <1>3 DEF Proceeds, SetInvite, AddInitiator, InsertPayment, Accept, Abort, dealVars
<1>4. CASE UNCHANGED vars
  BY <1>4 DEF vars, dealVars
<1> QED BY <1>1, <1>2, <1>3, <1>4, NextSteps

\* The members' vote implements the abstract competition: one bid wins, in
\* one step that reveals its author alone, and it stays the winner.
THEOREM GroupImplementsCompetition == Spec => ImplementsCompetition
<1>1. Init => Comp!Init
  BY DEF Init, Comp!Init
<1>2. BaseInv /\ DealInv /\ DealInv' /\ [Next]_vars => [Comp!Next]_(Comp!compVars)
  <2> SUFFICES ASSUME BaseInv, DealInv, DealInv', [Next]_vars
               PROVE  [Comp!Next]_(Comp!compVars)
    OBVIOUS
  <2>0. Sealed /\ Sealed'
    BY DEF DealInv, Sealed
  <2>1. ASSUME UNCHANGED <<bids, selected>> PROVE UNCHANGED Comp!compVars
    BY <2>1 DEF Comp!compVars
  <2>2. ASSUME NEW r \in Req, Select(r) PROVE [Comp!Next]_(Comp!compVars)
    <3>1. UNCHANGED bids
      BY <2>2 DEF Select
    <3> QED BY <2>0, <2>1, <2>2, <3>1, SelectAwards DEF Comp!Next
  <2>3. ASSUME NEW r \in Req, InsertOffer(r) PROVE [Comp!Next]_(Comp!compVars)
    <3>1. what[r] \in Offer /\ bids' = bids \cup {what[r]} /\ UNCHANGED selected
      BY <2>3 DEF InsertOffer, Finish, BaseInv, RequestsKnow
    <3>2. Comp!Submit(what[r])
      BY <3>1 DEF Comp!Submit
    <3> QED BY <3>1, <3>2 DEF Comp!Next
  <2>4. CASE ~\E r \in Req : Select(r) \/ InsertOffer(r)
    BY <2>1, <2>4, OtherStutters
  <2> QED BY <2>2, <2>3, <2>4
<1> QED
  BY <1>1, <1>2, BaseHolds, DealProtected, PTL DEF Spec, ImplementsCompetition, Comp!Spec
=============================================================================
