-------------------------- MODULE AlgorithmProofs --------------------------
(***************************************************************************)
(* Proofs about the algorithms, for all inputs: the groups of the matcher  *)
(* keep the contract that Consolidation relies on, for every pool, and     *)
(* leave nothing that fits; the composite score keeps its bounds and       *)
(* rewards what it should.  The matcher is two nested loops, so its        *)
(* proofs are inductions over the cargos that came by; the first lemmas    *)
(* derive induction from the facts about finite sets.                      *)
(***************************************************************************)
EXTENDS Matcher, RatingScore, FiniteSetTheorems, TLAPS

-----------------------------------------------------------------------------
(* Induction and loops.                                                    *)

\* Induction over the natural numbers, for a set instead of a predicate: were
\* some n missing, the successor would map the members below n into themselves,
\* one to one and therefore onto, and nothing is mapped to 0.
LEMMA NatSetInduction ==
    ASSUME NEW T, 0 \in T, \A n \in Nat : n \in T => n + 1 \in T
    PROVE  Nat \subseteq T
<1> SUFFICES ASSUME NEW n \in Nat, n \notin T
             PROVE  FALSE
  OBVIOUS
<1> DEFINE D == T \cap 0..n
           f == [i \in D |-> i + 1]
<1>1. IsFiniteSet(D)
  <2>1. IsFiniteSet(0..n)
    BY FS_Interval
  <2> QED BY <2>1, FS_Subset
<1>2. f \in Injection(D, D)
  BY DEF Injection, IsInjective
<1>3. f \in Surjection(D, D)
  <2> HIDE DEF D, f
  <2> QED BY <1>1, <1>2, FS_Injection
<1>4. 0 \in D
  OBVIOUS
<1>5. \E i \in D : f[i] = 0
  BY <1>3, <1>4 DEF Surjection
<1> QED BY <1>5

\* The same up to a bound.
LEMMA RangeInduction ==
    ASSUME NEW T, NEW n \in Nat, 0 \in T, \A k \in 1..n : k - 1 \in T => k \in T
    PROVE  \A k \in 0..n : k \in T
<1> DEFINE U == {k \in Nat : k > n \/ k \in T}
<1>1. 0 \in U
  OBVIOUS
<1>2. ASSUME NEW k \in Nat, k \in U
      PROVE  k + 1 \in U
  <2>1. CASE k + 1 > n
    BY <2>1
  <2>2. CASE ~(k + 1 > n)
    <3>1. k + 1 \in 1..n /\ (k + 1) - 1 = k /\ k \in T
      BY <1>2, <2>2
    <3> QED BY <3>1
  <2> QED BY <2>1, <2>2
<1>3. Nat \subseteq U
  <2> HIDE DEF U
  <2> QED BY <1>1, <1>2, NatSetInduction
<1> QED BY <1>3

\* A loop over 1..n: its states, from the state s before it and the step F.
Runs(S, n, s, F) ==
    {g \in [0..n -> S] : g[0] = s /\ \A k \in 1..n : g[k] = F[<<k, g[k - 1]>>]}

LEMMA LoopStates ==
    ASSUME NEW S, NEW n \in Nat, NEW s \in S, NEW F \in [(1..n) \X S -> S]
    PROVE  Runs(S, n, s, F) # {}
<1> USE DEF Runs
<1> DEFINE T == {m \in 0..n : \E g \in [0..m -> S] :
                     g[0] = s /\ \A k \in 1..m : g[k] = F[<<k, g[k - 1]>>]}
<1>1. 0 \in T
  <2> DEFINE g == [k \in 0..0 |-> s]
  <2>1. g \in [0..0 -> S] /\ g[0] = s /\ \A k \in 1..0 : g[k] = F[<<k, g[k - 1]>>]
    OBVIOUS
  <2> HIDE DEF g
  <2> QED BY <2>1
<1>2. ASSUME NEW m \in 1..n, m - 1 \in T
      PROVE  m \in T
  <2>1. PICK g \in [0..(m - 1) -> S] :
            g[0] = s /\ \A k \in 1..(m - 1) : g[k] = F[<<k, g[k - 1]>>]
    BY <1>2
  <2> DEFINE h == [k \in 0..m |-> IF k <= m - 1 THEN g[k] ELSE F[<<m, g[m - 1]>>]]
  <2>2. m - 1 \in 0..(m - 1) /\ F[<<m, g[m - 1]>>] \in S
    BY <2>1
  <2>3. h \in [0..m -> S]
    BY <2>1, <2>2
  <2>4. h[0] = s
    BY <2>1
  <2>5. ASSUME NEW k \in 1..m
        PROVE  h[k] = F[<<k, h[k - 1]>>]
    <3>1. h[k - 1] = g[k - 1]
      OBVIOUS
    <3>2. CASE k <= m - 1
      BY <2>1, <3>1, <3>2
    <3>3. CASE k = m
      <4>1. h[m] = F[<<m, g[m - 1]>>]
        OBVIOUS
      <4> QED BY <3>1, <3>3, <4>1
    <3> QED BY <3>2, <3>3
  <2> HIDE DEF h
  <2> QED BY <2>3, <2>4, <2>5
<1>3. \A k \in 0..n : k \in T
  <2> HIDE DEF T
  <2> QED BY <1>1, <1>2, RangeInduction
<1>4. n \in T
  BY <1>3
<1> QED BY <1>4

-----------------------------------------------------------------------------
(* Sums.                                                                   *)

PartialSums(members, size, n) ==
    {g \in [0..n -> Nat] :
        /\ g[0] = 0
        /\ \A k \in 1..n : g[k] = g[k - 1] + (IF k \in members THEN size[k] ELSE 0)}

LEMMA SumStates ==
    ASSUME NEW members, NEW n \in Nat, NEW size \in [1..n -> Nat]
    PROVE  \E g \in PartialSums(members, size, n) : Sum(members, size, n) = g[n]
<1> DEFINE Body(f) == [k \in 0..n |-> IF k = 0 THEN 0
                          ELSE f[k - 1] + (IF k \in members THEN size[k] ELSE 0)]
           F == [p \in (1..n) \X Nat |-> p[2] + (IF p[1] \in members THEN size[p[1]] ELSE 0)]
<1>1. F \in [(1..n) \X Nat -> Nat]
  OBVIOUS
<1>2. PICK g \in [0..n -> Nat] : g[0] = 0 /\ \A k \in 1..n : g[k] = F[<<k, g[k - 1]>>]
  <2> DEFINE S == Nat
             z == 0
  <2>1. F \in [(1..n) \X S -> S] /\ z \in S
    BY <1>1
  <2> HIDE DEF F, S, z
  <2>2. Runs(S, n, z, F) # {}
    BY <2>1, LoopStates
  <2> QED BY <2>2 DEF Runs, S, z
<1>3. \A k \in 1..n : g[k] = g[k - 1] + (IF k \in members THEN size[k] ELSE 0)
  <2>1. \A k \in 1..n, x \in Nat : F[<<k, x>>] = x + (IF k \in members THEN size[k] ELSE 0)
    OBVIOUS
  <2>2. \A k \in 1..n : g[k - 1] \in Nat
    OBVIOUS
  <2> HIDE DEF F
  <2> QED BY <1>2, <2>1, <2>2
<1>4. g = Body(g)
  BY <1>2, <1>3
<1> DEFINE f == CHOOSE f : f = Body(f)
<1>5. f = Body(f)
  <2> HIDE DEF Body
  <2> QED BY <1>4
<1>6. Sum(members, size, n) = f[n]
  BY DEF Sum
<1> HIDE DEF f
<1>7. \A k \in 0..n : k \in {j \in 0..n : f[j] = g[j]}
  <2> DEFINE T == {j \in 0..n : f[j] = g[j]}
  <2>1. 0 \in T
    BY <1>2, <1>5
  <2>2. ASSUME NEW k \in 1..n, k - 1 \in T
        PROVE  k \in T
    BY <1>3, <1>5, <2>2
  <2> HIDE DEF T
  <2>3. \A k \in 0..n : k \in T
    BY <2>1, <2>2, RangeInduction
  <2> QED BY <2>3 DEF T
<1>8. Sum(members, size, n) = g[n]
  BY <1>6, <1>7
<1> HIDE DEF F, Body
<1> QED BY <1>2, <1>3, <1>8 DEF PartialSums

\* The sum of no size, and of one more.
LEMMA EmptySum ==
    ASSUME NEW n \in Nat, NEW size \in [1..n -> Nat]
    PROVE  Sum({}, size, n) = 0
<1>0. PICK g \in PartialSums({}, size, n) : Sum({}, size, n) = g[n]
  BY SumStates
<1>1. /\ g \in [0..n -> Nat] /\ g[0] = 0
      /\ \A k \in 1..n : g[k] = g[k - 1]
  BY DEF PartialSums
<1> DEFINE T == {k \in 0..n : g[k] = 0}
<1>2. 0 \in T
  BY <1>1
<1>3. ASSUME NEW k \in 1..n, k - 1 \in T
      PROVE  k \in T
  BY <1>1, <1>3
<1>4. \A k \in 0..n : k \in T
  <2> HIDE DEF T
  <2> QED BY <1>2, <1>3, RangeInduction
<1> QED BY <1>0, <1>4

IsLarger(larger, members, j) == larger = members \cup {j}

LEMMA LargerSum ==
    ASSUME NEW n \in Nat, NEW size \in [1..n -> Nat], NEW members, NEW j \in 1..n,
           j \notin members, NEW larger, IsLarger(larger, members, j)
    PROVE  /\ Sum(members, size, n) \in Nat
           /\ Sum(larger, size, n) = Sum(members, size, n) + size[j]
<1>a. PICK g \in PartialSums(members, size, n) : Sum(members, size, n) = g[n]
  BY SumStates
<1>b. PICK h \in PartialSums(larger, size, n) : Sum(larger, size, n) = h[n]
  BY SumStates
<1>1. /\ g \in [0..n -> Nat] /\ g[0] = 0
      /\ \A k \in 1..n : g[k] = g[k - 1] + (IF k \in members THEN size[k] ELSE 0)
  BY DEF PartialSums
<1>2. /\ h \in [0..n -> Nat] /\ h[0] = 0
      /\ \A k \in 1..n : h[k] = h[k - 1] + (IF k \in larger THEN size[k] ELSE 0)
  BY DEF PartialSums
<1> USE DEF IsLarger
<1> DEFINE T == {k \in 0..n : h[k] = g[k] + (IF k >= j THEN size[j] ELSE 0)}
<1>3. 0 \in T
  BY <1>1, <1>2
<1>4. ASSUME NEW k \in 1..n, k - 1 \in T
      PROVE  k \in T
  <2>1. /\ h[k] = h[k - 1] + (IF k \in larger THEN size[k] ELSE 0)
        /\ g[k] = g[k - 1] + (IF k \in members THEN size[k] ELSE 0)
        /\ h[k - 1] = g[k - 1] + (IF k - 1 >= j THEN size[j] ELSE 0)
    <3>1. h[k] = h[k - 1] + (IF k \in larger THEN size[k] ELSE 0)
      BY <1>2
    <3>2. g[k] = g[k - 1] + (IF k \in members THEN size[k] ELSE 0)
      BY <1>1
    <3>3. h[k - 1] = g[k - 1] + (IF k - 1 >= j THEN size[j] ELSE 0)
      BY <1>4
    <3> QED BY <3>1, <3>2, <3>3
  <2>2. g[k - 1] \in Nat /\ g[k] \in Nat /\ h[k - 1] \in Nat /\ size[k] \in Nat /\ size[j] \in Nat
    <3>1. k - 1 \in 0..n /\ k \in 0..n
      OBVIOUS
    <3>2. g \in [0..n -> Nat] /\ h \in [0..n -> Nat]
      BY <1>1, <1>2
    <3> HIDE DEF T
    <3> QED BY <3>1, <3>2
  <2>3. CASE k = j
    BY <2>1, <2>2, <2>3
  <2>4. CASE k # j
    <3>1. (k \in larger <=> k \in members) /\ (k - 1 >= j <=> k >= j)
      BY <2>4
    <3>2. CASE k \in members
      <4>1. \A a, b, c, x, y, z \in Nat : a = b + x /\ y = z + x /\ b = z + c => a = y + c
        OBVIOUS
      <4>2. h[k] = h[k - 1] + size[k] /\ g[k] = g[k - 1] + size[k]
        BY <2>1, <3>1, <3>2
      <4> QED BY <2>1, <2>2, <3>1, <4>1, <4>2
    <3>3. CASE k \notin members
      <4>1. h[k] = h[k - 1] + 0 /\ g[k] = g[k - 1] + 0
        BY <2>1, <3>1, <3>3
      <4> QED BY <2>1, <2>2, <3>1, <4>1
    <3> QED BY <3>2, <3>3
  <2> QED BY <2>3, <2>4
<1>5. \A k \in 0..n : k \in T
  <2> HIDE DEF T
  <2> QED BY <1>3, <1>4, RangeInduction
<1>6. g[n] \in Nat /\ h[n] = g[n] + size[j]
  BY <1>1, <1>5
<1> QED BY <1>a, <1>b, <1>6

-----------------------------------------------------------------------------
(* Gathering a group.                                                      *)

Group(n) == [seed : 1..n, members : SUBSET (1..n), vol : Nat, wt : Nat]

Grows(group, j, used, items, limits) ==
    IF j \notin used /\ fits_group(group, j, items, limits)
    THEN Joined(group, j, items) ELSE group

LEMMA ItemTypes ==
    ASSUME NEW items \in Seq(CargoItem), NEW k \in 1..Len(items)
    PROVE  /\ items[k].volume_m3 \in Nat /\ items[k].weight_kg \in Nat
           /\ items[k].origin \in Point /\ items[k].destination \in Point
           /\ Alone(k, items) \in Group(Len(items))
           /\ \A g \in Group(Len(items)) : Joined(g, k, items) \in Group(Len(items))
<1>1. items[k] \in CargoItem
  OBVIOUS
<1>2. /\ items[k].volume_m3 \in Nat /\ items[k].weight_kg \in Nat
      /\ items[k].origin \in Point /\ items[k].destination \in Point
  BY <1>1 DEF CargoItem
<1>3. Alone(k, items) \in Group(Len(items))
  BY <1>2 DEF Alone, Group
<1>4. ASSUME NEW g \in Group(Len(items))
      PROVE  Joined(g, k, items) \in Group(Len(items))
  <2>1. g.vol \in Nat /\ g.wt \in Nat /\ g.seed \in 1..Len(items) /\ g.members \subseteq 1..Len(items)
    BY DEF Group
  <2>2. g.members \cup {k} \subseteq 1..Len(items)
    BY <2>1
  <2>3. g.vol + items[k].volume_m3 \in Nat /\ g.wt + items[k].weight_kg \in Nat
    <3>1. \A x, y \in Nat : x + y \in Nat
      OBVIOUS
    <3> QED BY <1>2, <2>1, <3>1
  <2> QED BY <2>1, <2>2, <2>3 DEF Joined, Group
<1> QED BY <1>2, <1>3, <1>4

LEMMA GatherStates ==
    ASSUME NEW items \in Seq(CargoItem), NEW i \in 1..Len(items), NEW used, NEW limits
    PROVE  LET n == Len(items)
               g == Gather(i, used, items, limits)
           IN /\ g \in [0..n -> Group(n)]
              /\ \A j \in 0..i : g[j] = Alone(i, items)
              /\ \A j \in (i + 1)..n : g[j] = Grows(g[j - 1], j, used, items, limits)
<1> DEFINE n == Len(items)
           S == Group(n)
           s == Alone(i, items)
           F == [p \in (1..n) \X S |->
                    IF p[1] <= i THEN s ELSE Grows(p[2], p[1], used, items, limits)]
           Body(f) == [j \in 0..n |-> IF j <= i THEN s ELSE Grows(f[j - 1], j, used, items, limits)]
<1>1. n \in Nat /\ s \in S
  BY ItemTypes
<1>2. ASSUME NEW k \in 1..n, NEW x \in S
      PROVE  Grows(x, k, used, items, limits) \in S
  BY ItemTypes DEF Grows
<1>3. /\ F \in [(1..n) \X S -> S]
      /\ \A k \in 1..n, x \in S :
             F[<<k, x>>] = IF k <= i THEN s ELSE Grows(x, k, used, items, limits)
  <2> HIDE DEF S, s, n
  <2> QED BY <1>1, <1>2
<1>4. PICK g \in Runs(S, n, s, F) : TRUE
  <2> HIDE DEF S, s, n, F
  <2> QED BY <1>1, <1>3, LoopStates
<1> HIDE DEF S, s, F
<1>5. /\ g \in [0..n -> S] /\ g[0] = s
      /\ \A k \in 1..n : g[k] = IF k <= i THEN s ELSE Grows(g[k - 1], k, used, items, limits)
  <2>1. g \in [0..n -> S] /\ g[0] = s /\ \A k \in 1..n : g[k] = F[<<k, g[k - 1]>>]
    BY DEF Runs
  <2>2. \A k \in 1..n : g[k - 1] \in S
    BY <1>1, <2>1
  <2> HIDE DEF n
  <2> QED BY <1>3, <2>1, <2>2
<1>6. g = Body(g)
  BY <1>1, <1>5
<1> DEFINE f == CHOOSE f : f = Body(f)
<1>7. f = Body(f)
  <2> HIDE DEF Body
  <2> QED BY <1>6
<1>8. Gather(i, used, items, limits) = f
  BY DEF Gather, Grows, s
<1> HIDE DEF f
<1>9. f = g
  <2> DEFINE T == {j \in 0..n : f[j] = g[j]}
  <2>1. 0 \in T
    BY <1>1, <1>5, <1>7
  <2>2. ASSUME NEW k \in 1..n, k - 1 \in T
        PROVE  k \in T
    BY <1>1, <1>5, <1>7, <2>2
  <2>3. \A j \in 0..n : j \in T
    <3> HIDE DEF T, n
    <3> QED BY <1>1, <2>1, <2>2, RangeInduction
  <2> QED BY <1>5, <1>7, <2>3
<1>10. \A j \in 0..i : g[j] = s
  BY <1>1, <1>5
<1>11. \A j \in (i + 1)..n : g[j] = Grows(g[j - 1], j, used, items, limits)
  BY <1>1, <1>5
<1> QED BY <1>5, <1>8, <1>9, <1>10, <1>11 DEF s, S

\* A group only grows fuller: what did not fit once never fits again.
LEMMA FullerGroup ==
    ASSUME NEW items \in Seq(CargoItem), NEW limits \in LimitPair,
           NEW g \in Group(Len(items)), NEW b \in 1..Len(items), NEW k \in 1..Len(items),
           fits_group(Joined(g, b, items), k, items, limits)
    PROVE  fits_group(g, k, items, limits)
<1> DEFINE h == Joined(g, b, items)
<1>1. /\ h.seed = g.seed /\ h.members = g.members \cup {b}
      /\ h.vol = g.vol + items[b].volume_m3 /\ h.wt = g.wt + items[b].weight_kg
      /\ g.vol \in Nat /\ g.wt \in Nat
  BY DEF Joined, Group
<1>6. limits.max_volume_m3 \in Nat /\ limits.max_weight_kg \in Nat
  BY DEF LimitPair
<1>2. /\ items[b].volume_m3 \in Nat /\ items[b].weight_kg \in Nat
      /\ items[k].volume_m3 \in Nat /\ items[k].weight_kg \in Nat
  BY ItemTypes
<1>3. Clients(g, items) \subseteq Clients(h, items)
  <2> HIDE DEF h
  <2> QED BY <1>1 DEF Clients
<1>4. /\ items[k].client_id \notin Clients(h, items)
      /\ h.vol + items[k].volume_m3 <= limits.max_volume_m3
      /\ h.wt + items[k].weight_kg <= limits.max_weight_kg
      /\ points_match(items[h.seed].origin, items[k].origin)
      /\ points_match(items[h.seed].destination, items[k].destination)
  BY DEF fits_group
<1> HIDE DEF h
<1>5. /\ g.vol + items[k].volume_m3 <= limits.max_volume_m3
      /\ g.wt + items[k].weight_kg <= limits.max_weight_kg
  <2>1. \A x, y, z, m \in Nat : (x + y) + z <= m => x + z <= m
    OBVIOUS
  <2>2. /\ (g.vol + items[b].volume_m3) + items[k].volume_m3 <= limits.max_volume_m3
        /\ (g.wt + items[b].weight_kg) + items[k].weight_kg <= limits.max_weight_kg
    BY <1>1, <1>4
  <2> QED BY <1>1, <1>2, <1>6, <2>1, <2>2
<1> QED BY <1>1, <1>3, <1>4, <1>5 DEF fits_group

\* A group around the seed i, when the cargos up to j have come by.
Keeps(g, i, j, used, items, limits) ==
    /\ g.seed = i /\ i \in g.members
    /\ g.members = {i} => g = Alone(i, items)
    /\ \A b \in g.members \ {i} :
          /\ i < b /\ b <= j /\ b \notin used
          /\ points_match(items[i].origin, items[b].origin)
          /\ points_match(items[i].destination, items[b].destination)
    /\ \A b, c \in g.members : b # c => items[b].client_id # items[c].client_id
    /\ g.vol = Volume(g.members, items) /\ g.wt = Weight(g.members, items)
    /\ g.vol >= items[i].volume_m3 /\ g.wt >= items[i].weight_kg
    /\ g.members # {i} => g.vol <= limits.max_volume_m3 /\ g.wt <= limits.max_weight_kg
    /\ \A k \in (i + 1)..j :
          k \notin used /\ k \notin g.members => ~fits_group(g, k, items, limits)

LEMMA SizeTypes ==
    ASSUME NEW items \in Seq(CargoItem)
    PROVE  /\ [k \in DOMAIN items |-> items[k].volume_m3] \in [1..Len(items) -> Nat]
           /\ [k \in DOMAIN items |-> items[k].weight_kg] \in [1..Len(items) -> Nat]
           /\ Len(items) \in Nat /\ DOMAIN items = 1..Len(items)
BY ItemTypes

LEMMA LargerLoad ==
    ASSUME NEW items \in Seq(CargoItem), NEW members, NEW j \in 1..Len(items),
           j \notin members, NEW larger, IsLarger(larger, members, j)
    PROVE  /\ Volume(larger, items) = Volume(members, items) + items[j].volume_m3
           /\ Weight(larger, items) = Weight(members, items) + items[j].weight_kg
<1>1. PICK n \in Nat : n = Len(items) /\ DOMAIN items = 1..n
  BY SizeTypes
<1>2. ASSUME NEW size \in [1..n -> Nat]
      PROVE  Sum(larger, size, n) = Sum(members, size, n) + size[j]
  <2>1. j \in 1..n
    BY <1>1
  <2> QED BY <2>1, LargerSum
<1>3. PICK vols \in [1..n -> Nat] : vols = [k \in DOMAIN items |-> items[k].volume_m3]
  BY <1>1, SizeTypes
<1>4. PICK wts \in [1..n -> Nat] : wts = [k \in DOMAIN items |-> items[k].weight_kg]
  BY <1>1, SizeTypes
<1>5. vols[j] = items[j].volume_m3 /\ wts[j] = items[j].weight_kg
  BY <1>1, <1>3, <1>4
<1>6. /\ Sum(larger, vols, n) = Sum(members, vols, n) + vols[j]
      /\ Sum(larger, wts, n) = Sum(members, wts, n) + wts[j]
  BY <1>2
<1> QED BY <1>1, <1>3, <1>4, <1>5, <1>6 DEF Volume, Weight

LEMMA AloneKeeps ==
    ASSUME NEW items \in Seq(CargoItem), NEW limits, NEW used, NEW i \in 1..Len(items)
    PROVE  Keeps(Alone(i, items), i, i, used, items, limits)
<1> DEFINE vols == [k \in DOMAIN items |-> items[k].volume_m3]
           wts == [k \in DOMAIN items |-> items[k].weight_kg]
           n == Len(items)
<1>1. Volume({}, items) = 0 /\ Weight({}, items) = 0
  <2>1. vols \in [1..n -> Nat] /\ wts \in [1..n -> Nat] /\ n \in Nat
    BY SizeTypes
  <2>2. Sum({}, vols, n) = 0 /\ Sum({}, wts, n) = 0
    <3> HIDE DEF vols, wts, n
    <3> QED BY <2>1, EmptySum
  <2> QED BY <2>2 DEF Volume, Weight
<1>2. /\ Volume({i}, items) = 0 + items[i].volume_m3
      /\ Weight({i}, items) = 0 + items[i].weight_kg
  <2>1. i \notin {} /\ IsLarger({i}, {}, i)
    BY DEF IsLarger
  <2> QED BY <1>1, <2>1, LargerLoad
<1>3. items[i].volume_m3 \in Nat /\ items[i].weight_kg \in Nat
  BY ItemTypes
<1> QED BY <1>2, <1>3 DEF Keeps, Alone

LEMMA GrowsKeeps ==
    ASSUME NEW items \in Seq(CargoItem), NEW limits \in LimitPair, NEW used,
           NEW i \in 1..Len(items), NEW j \in (i + 1)..Len(items), NEW g \in Group(Len(items)),
           Keeps(g, i, j - 1, used, items, limits)
    PROVE  Keeps(Grows(g, j, used, items, limits), i, j, used, items, limits)
<1>1. /\ j \in 1..Len(items) /\ i < j /\ Len(items) \in Nat
      /\ \A k \in (i + 1)..j : k = j \/ k \in (i + 1)..(j - 1)
      /\ \A k \in (i + 1)..j : k \in 1..Len(items)
  BY SizeTypes
<1>2. CASE ~(j \notin used /\ fits_group(g, j, items, limits))
  <2>1. Grows(g, j, used, items, limits) = g
    BY <1>2 DEF Grows
  <2>2. \A b \in g.members \ {i} : b <= j
    <3>1. \A b \in g.members : b \in Int
      BY DEF Group
    <3> QED BY <1>1, <3>1 DEF Keeps
  <2>3. \A k \in (i + 1)..j :
            k \notin used /\ k \notin g.members => ~fits_group(g, k, items, limits)
    BY <1>1, <1>2 DEF Keeps
  <2> QED BY <2>1, <2>2, <2>3 DEF Keeps
<1>3. CASE j \notin used /\ fits_group(g, j, items, limits)
  <2> DEFINE h == Joined(g, j, items)
  <2>1. Grows(g, j, used, items, limits) = h
    BY <1>3 DEF Grows
  <2>2. /\ h.seed = i /\ h.members = g.members \cup {j}
        /\ h.vol = g.vol + items[j].volume_m3 /\ h.wt = g.wt + items[j].weight_kg
        /\ g.seed = i /\ i \in g.members
    BY DEF Joined, Group, Keeps
  <2>3. /\ items[j].client_id \notin Clients(g, items)
        /\ h.vol <= limits.max_volume_m3 /\ h.wt <= limits.max_weight_kg
        /\ points_match(items[i].origin, items[j].origin)
        /\ points_match(items[i].destination, items[j].destination)
    BY <1>3, <2>2 DEF fits_group
  <2>4. /\ g.members \subseteq 1..Len(items) /\ g.vol \in Nat /\ g.wt \in Nat
    BY DEF Group
  <2>5. /\ items[j].volume_m3 \in Nat /\ items[j].weight_kg \in Nat
        /\ items[i].volume_m3 \in Nat /\ items[i].weight_kg \in Nat
    BY <1>1, ItemTypes
  <2>6. j \notin g.members /\ j # i
    BY <1>1, <2>4 DEF Keeps
  <2> HIDE DEF h
  <2>7. h.members # {i} /\ i \in h.members
    BY <2>2, <2>6
  <2>8. \A b \in h.members \ {i} :
            /\ i < b /\ b <= j /\ b \notin used
            /\ points_match(items[i].origin, items[b].origin)
            /\ points_match(items[i].destination, items[b].destination)
    <3> TAKE b \in h.members \ {i}
    <3>1. CASE b = j
      BY <1>1, <1>3, <2>3, <3>1
    <3>2. CASE b # j
      <4>1. b \in g.members \ {i} /\ b \in Int
        BY <2>2, <2>4, <3>2
      <4> QED BY <1>1, <4>1 DEF Keeps
    <3> QED BY <3>1, <3>2
  <2>9. \A b, c \in h.members : b # c => items[b].client_id # items[c].client_id
    BY <2>2, <2>3 DEF Keeps, Clients
  <2>10. h.vol = Volume(h.members, items) /\ h.wt = Weight(h.members, items)
    <3>1. IsLarger(h.members, g.members, j)
      BY <2>2 DEF IsLarger
    <3>2. g.vol = Volume(g.members, items) /\ g.wt = Weight(g.members, items)
      BY DEF Keeps
    <3> QED BY <1>1, <2>2, <2>6, <3>1, <3>2, LargerLoad
  <2>11. h.vol >= items[i].volume_m3 /\ h.wt >= items[i].weight_kg
    <3>1. g.vol >= items[i].volume_m3 /\ g.wt >= items[i].weight_kg
      BY DEF Keeps
    <3>2. \A x, y, z \in Nat : x >= y => x + z >= y
      OBVIOUS
    <3>3. g.vol + items[j].volume_m3 >= items[i].volume_m3
      BY <2>4, <2>5, <3>1, <3>2
    <3>4. g.wt + items[j].weight_kg >= items[i].weight_kg
      BY <2>4, <2>5, <3>1, <3>2
    <3> QED BY <2>2, <3>3, <3>4
  <2>12. \A k \in (i + 1)..j :
            k \notin used /\ k \notin h.members => ~fits_group(h, k, items, limits)
    <3> SUFFICES ASSUME NEW k \in (i + 1)..j, k \notin used, k \notin h.members,
                        fits_group(h, k, items, limits)
                 PROVE  FALSE
      OBVIOUS
    <3>1. k \in (i + 1)..(j - 1) /\ k \notin g.members /\ k \in 1..Len(items)
      BY <1>1, <2>2
    <3>2. fits_group(g, k, items, limits)
      BY <1>1, <3>1, FullerGroup DEF h
    <3> QED BY <3>1, <3>2 DEF Keeps
  <2>13. Keeps(h, i, j, used, items, limits)
    BY <2>2, <2>3, <2>7, <2>8, <2>9, <2>10, <2>11, <2>12 DEF Keeps
  <2> QED BY <2>1, <2>13
<1> QED BY <1>2, <1>3

LEMMA GatherKeeps ==
    ASSUME NEW items \in Seq(CargoItem), NEW limits \in LimitPair, NEW used,
           NEW i \in 1..Len(items)
    PROVE  LET n == Len(items)
               g == Gather(i, used, items, limits)[n]
           IN g \in Group(n) /\ Keeps(g, i, n, used, items, limits)
<1>1. PICK n \in Nat : n = Len(items) /\ i \in 1..n
  BY SizeTypes
<1>2. PICK g : g = Gather(i, used, items, limits)
  OBVIOUS
<1>3. /\ g \in [0..n -> Group(n)]
      /\ \A j \in 0..i : g[j] = Alone(i, items)
      /\ \A j \in (i + 1)..n : g[j] = Grows(g[j - 1], j, used, items, limits)
  BY <1>1, <1>2, GatherStates
<1> DEFINE T == {j \in 0..n : j >= i => Keeps(g[j], i, j, used, items, limits)}
<1>4. 0 \in T
  BY <1>1
<1>5. ASSUME NEW k \in 1..n, k - 1 \in T
      PROVE  k \in T
  <2>1. CASE k < i
    BY <1>1, <2>1
  <2>2. CASE k = i
    <3>1. g[k] = Alone(i, items)
      BY <1>1, <1>3, <2>2
    <3> QED BY <1>1, <2>2, <3>1, AloneKeeps
  <2>3. CASE k > i
    <3>1. k \in (i + 1)..n /\ k - 1 \in 0..n /\ k - 1 >= i
      BY <1>1, <2>3
    <3>2. Keeps(g[k - 1], i, k - 1, used, items, limits) /\ g[k - 1] \in Group(n)
      BY <1>3, <1>5, <3>1
    <3>3. Keeps(Grows(g[k - 1], k, used, items, limits), i, k, used, items, limits)
      BY <1>1, <3>1, <3>2, GrowsKeeps
    <3> QED BY <1>3, <3>1, <3>3
  <2> QED BY <1>1, <2>1, <2>2, <2>3
<1>6. \A k \in 0..n : k \in T
  <2> HIDE DEF T
  <2> QED BY <1>4, <1>5, RangeInduction
<1>7. n \in 0..n /\ n >= i
  BY <1>1
<1>8. Keeps(g[n], i, n, used, items, limits) /\ g[n] \in Group(n)
  BY <1>3, <1>6, <1>7
<1> QED BY <1>1, <1>2, <1>8

-----------------------------------------------------------------------------
(* The rounds.                                                             *)

Answer(n) == [groups : SUBSET Group(n), used : SUBSET (1..n)]
NoGroups == [groups |-> {}, used |-> {}]

\* The group that a seed gathers, and the answer after it.
Gathered(i, before, items, limits) == Gather(i, before.used, items, limits)[Len(items)]

Round(before, i, items, limits) ==
    IF i \in before.used \/ Cardinality(Gathered(i, before, items, limits).members) < 2
    THEN before
    ELSE [groups |-> before.groups \cup {Gathered(i, before, items, limits)},
          used |-> before.used \cup Gathered(i, before, items, limits).members]

LEMMA RoundStates ==
    ASSUME NEW items \in Seq(CargoItem), NEW limits \in LimitPair
    PROVE  LET n == Len(items)
               r == Rounds(items, limits)
           IN /\ r \in [0..n -> Answer(n)] /\ r[0] = NoGroups
              /\ \A i \in 1..n : r[i] = Round(r[i - 1], i, items, limits)
<1>0. PICK n \in Nat : n = Len(items)
  BY SizeTypes
<1> DEFINE S == Answer(n)
           s == NoGroups
           F == [p \in (1..n) \X S |-> Round(p[2], p[1], items, limits)]
           Body(f) == [i \in 0..n |-> IF i = 0 THEN s ELSE Round(f[i - 1], i, items, limits)]
<1>1. s \in S
  BY DEF Answer, NoGroups
<1>2. ASSUME NEW k \in 1..n, NEW x \in S
      PROVE  Round(x, k, items, limits) \in S
  <2>1. Gathered(k, x, items, limits) \in Group(n)
    BY <1>0, GatherKeeps DEF Gathered
  <2>2. Gathered(k, x, items, limits).members \subseteq 1..n
    BY <2>1 DEF Group
  <2> QED BY <2>1, <2>2 DEF Round, Answer
<1>3. F \in [(1..n) \X S -> S] /\ \A k \in 1..n, x \in S : F[<<k, x>>] = Round(x, k, items, limits)
  <2> HIDE DEF S
  <2> QED BY <1>2
<1>4. PICK g \in Runs(S, n, s, F) : TRUE
  <2> HIDE DEF S, s, F
  <2> QED BY <1>1, <1>3, LoopStates
<1> HIDE DEF S, s, F
<1>5. /\ g \in [0..n -> S] /\ g[0] = s
      /\ \A k \in 1..n : g[k] = Round(g[k - 1], k, items, limits)
  <2>1. g \in [0..n -> S] /\ g[0] = s /\ \A k \in 1..n : g[k] = F[<<k, g[k - 1]>>]
    BY DEF Runs
  <2>2. \A k \in 1..n : g[k - 1] \in S
    BY <2>1
  <2> QED BY <1>3, <2>1, <2>2
<1>6. g = Body(g)
  BY <1>5
<1> DEFINE f == CHOOSE f : f = Body(f)
<1>7. f = Body(f)
  <2> HIDE DEF Body
  <2> QED BY <1>6
<1>8. Rounds(items, limits) = f
  BY <1>0 DEF Rounds, Round, Gathered, NoGroups, s
<1> HIDE DEF f
<1>9. f = g
  <2> DEFINE T == {j \in 0..n : f[j] = g[j]}
  <2>1. 0 \in T
    BY <1>5, <1>7
  <2>2. ASSUME NEW k \in 1..n, k - 1 \in T
        PROVE  k \in T
    BY <1>5, <1>7, <2>2
  <2>3. \A j \in 0..n : j \in T
    <3> HIDE DEF T
    <3> QED BY <2>1, <2>2, RangeInduction
  <2> QED BY <1>5, <1>7, <2>3
<1> QED BY <1>0, <1>5, <1>8, <1>9 DEF s, S

\* A set of places with a known member has two or more, or is just that one.
LEMMA OneOrMore ==
    ASSUME NEW n \in Nat, NEW S \in SUBSET (1..n), NEW i \in S
    PROVE  /\ Cardinality(S) \in Nat
           /\ Cardinality(S) < 2 <=> S = {i}
<1>1. IsFiniteSet(S) /\ Cardinality(S) \in Nat
  <2>1. IsFiniteSet(1..n)
    BY FS_Interval
  <2> QED BY <2>1, FS_Subset, FS_CardinalityType
<1>2. Cardinality({i}) = 1 /\ IsFiniteSet({i})
  BY FS_Singleton
<1>3. ASSUME S # {i}
      PROVE  Cardinality(S) >= 2
  <2>1. {i} \subseteq S /\ {i} # S
    BY <1>3
  <2>2. Cardinality({i}) <= Cardinality(S) /\ (Cardinality({i}) = Cardinality(S) => {i} = S)
    BY <1>1, <2>1, FS_Subset
  <2> QED BY <1>1, <1>2, <2>1, <2>2
<1> QED BY <1>1, <1>2, <1>3

\* The answer after the seeds up to i, from all the answers before.
Answers(r, i, items, limits) ==
    /\ \A k \in 0..i : r[k].used \subseteq r[i].used
    /\ r[i].used = UNION {g.members : g \in r[i].groups}
    /\ \A g, h \in r[i].groups : g # h => g.members \cap h.members = {}
    /\ \A g \in r[i].groups :
          /\ g.seed \in 1..i /\ g.seed \notin r[g.seed - 1].used
          /\ g = Gathered(g.seed, r[g.seed - 1], items, limits)
          /\ Cardinality(g.members) >= 2
    /\ \A k \in 1..i : k \notin r[i].used =>
          Cardinality(Gathered(k, r[k - 1], items, limits).members) < 2

LEMMA RoundsAnswer ==
    ASSUME NEW items \in Seq(CargoItem), NEW limits \in LimitPair
    PROVE  \A i \in 0..Len(items) : Answers(Rounds(items, limits), i, items, limits)
<1>1. PICK n \in Nat : n = Len(items)
  BY SizeTypes
<1>2. PICK r : r = Rounds(items, limits)
  OBVIOUS
<1>3. /\ r \in [0..n -> Answer(n)] /\ r[0] = NoGroups
      /\ \A i \in 1..n : r[i] = Round(r[i - 1], i, items, limits)
  BY <1>1, <1>2, RoundStates
<1> DEFINE T == {i \in 0..n : Answers(r, i, items, limits)}
<1>4. 0 \in T
  BY <1>3 DEF Answers, NoGroups
<1>5. ASSUME NEW i \in 1..n, i - 1 \in T
      PROVE  i \in T
  <2> DEFINE before == r[i - 1]
             group == Gathered(i, before, items, limits)
  <2>1. Answers(r, i - 1, items, limits) /\ before \in Answer(n)
    BY <1>3, <1>5
  <2>2. /\ \A k \in 0..i : k = i \/ k \in 0..(i - 1)
        /\ \A k \in 1..i : k = i \/ k \in 1..(i - 1)
        /\ \A k \in 1..(i - 1) : k \in 1..i
    OBVIOUS
  <2>3. Keeps(group, i, n, before.used, items, limits) /\ group \in Group(n)
    BY <1>1, GatherKeeps DEF Gathered
  <2>4. group.seed = i /\ i \in group.members /\ group.members \subseteq 1..n
    BY <2>3 DEF Keeps, Group
  <2>5. Cardinality(group.members) \in Nat
    <3> HIDE DEF group
    <3>1. group.members \in SUBSET (1..n)
      BY <2>4
    <3> QED BY <2>4, <3>1, OneOrMore
  <2>6. r[i] = Round(before, i, items, limits)
    BY <1>3
  <2>7. CASE i \in before.used \/ Cardinality(group.members) < 2
    <3>1. r[i] = before
      BY <2>6, <2>7 DEF Round
    <3>2. \A k \in 0..i : r[k].used \subseteq r[i].used
      BY <2>1, <2>2, <3>1 DEF Answers
    <3>3. \A k \in 1..i : k \notin r[i].used =>
              Cardinality(Gathered(k, r[k - 1], items, limits).members) < 2
      BY <2>1, <2>2, <2>7, <3>1 DEF Answers
    <3>4. Answers(r, i, items, limits)
      BY <2>1, <2>2, <3>1, <3>2, <3>3 DEF Answers
    <3> QED BY <3>4
  <2>8. CASE ~(i \in before.used \/ Cardinality(group.members) < 2)
    <3>1. /\ r[i].groups = before.groups \cup {group}
          /\ r[i].used = before.used \cup group.members
      BY <2>6, <2>8 DEF Round
    <3> HIDE DEF group
    <3>2. group.members \cap before.used = {}
      BY <2>3, <2>8 DEF Keeps
    <3>3. before.used = UNION {g.members : g \in before.groups}
      BY <2>1 DEF Answers
    <3>4. \A k \in 0..i : r[k].used \subseteq r[i].used
      BY <2>1, <2>2, <3>1 DEF Answers
    <3>5. r[i].used = UNION {g.members : g \in r[i].groups}
      BY <3>1, <3>3
    <3>6. \A g, h \in r[i].groups : g # h => g.members \cap h.members = {}
      BY <2>1, <3>1, <3>2, <3>3 DEF Answers
    <3>7. \A g \in r[i].groups :
              /\ g.seed \in 1..i /\ g.seed \notin r[g.seed - 1].used
              /\ g = Gathered(g.seed, r[g.seed - 1], items, limits)
              /\ Cardinality(g.members) >= 2
      <4> TAKE g \in r[i].groups
      <4>1. CASE g = group
        BY <2>4, <2>5, <2>8, <4>1 DEF group
      <4>2. CASE g \in before.groups
        BY <2>1, <2>2, <4>2 DEF Answers
      <4> QED BY <3>1, <4>1, <4>2
    <3>8. \A k \in 1..i : k \notin r[i].used =>
              Cardinality(Gathered(k, r[k - 1], items, limits).members) < 2
      BY <2>1, <2>2, <2>4, <3>1 DEF Answers
    <3>9. Answers(r, i, items, limits)
      BY <3>4, <3>5, <3>6, <3>7, <3>8 DEF Answers
    <3> QED BY <3>9
  <2> QED BY <2>7, <2>8
<1>6. \A i \in 0..n : i \in T
  <2> HIDE DEF T
  <2> QED BY <1>4, <1>5, RangeInduction
<1> QED BY <1>1, <1>2, <1>6

\* The cargos in use only grow in number.
LEMMA UsedGrows ==
    ASSUME NEW items \in Seq(CargoItem), NEW limits \in LimitPair,
           NEW i \in 0..Len(items), NEW k \in 0..i
    PROVE  Rounds(items, limits)[k].used \subseteq Rounds(items, limits)[i].used
BY RoundsAnswer DEF Answers


-----------------------------------------------------------------------------
(* The theorems about the matcher.                                         *)

\* What they take from RoundsAnswer and GatherKeeps.
LEMMA MatchAnswer ==
    ASSUME NEW items \in Seq(CargoItem), NEW limits \in LimitPair
    PROVE  LET n == Len(items)
               r == Rounds(items, limits)
               groups == Match(items, limits)
           IN /\ r \in [0..n -> Answer(n)] /\ groups = r[n].groups
              /\ \A k \in 0..n : r[k].used \subseteq r[n].used
              /\ r[n].used = UNION {g.members : g \in groups}
              /\ \A g, h \in groups : g # h => g.members \cap h.members = {}
              /\ \A g \in groups :
                    /\ g \in Group(n) /\ Cardinality(g.members) >= 2
                    /\ g.seed \in 1..n /\ g.seed \notin r[g.seed - 1].used
                    /\ Keeps(g, g.seed, n, r[g.seed - 1].used, items, limits)
              /\ \A k \in 1..n : k \notin r[n].used =>
                    Keeps(Alone(k, items), k, n, r[k - 1].used, items, limits)
<1>1. PICK n \in Nat : n = Len(items)
  BY SizeTypes
<1>2. PICK r : r = Rounds(items, limits)
  OBVIOUS
<1>3. r \in [0..n -> Answer(n)]
  BY <1>1, <1>2, RoundStates
<1>4. Answers(r, n, items, limits)
  <2>1. n \in 0..n
    BY <1>1
  <2> QED BY <1>1, <1>2, <2>1, RoundsAnswer
<1>5. Match(items, limits) = r[n].groups
  BY <1>1, <1>2, <1>4 DEF Match, match, Answers
<1>6. ASSUME NEW k \in 1..n
      PROVE  /\ Gathered(k, r[k - 1], items, limits) \in Group(n)
             /\ Keeps(Gathered(k, r[k - 1], items, limits), k, n, r[k - 1].used, items, limits)
  BY <1>1, GatherKeeps DEF Gathered
<1>7. ASSUME NEW g \in r[n].groups
      PROVE  /\ g \in Group(n) /\ Cardinality(g.members) >= 2
             /\ g.seed \in 1..n /\ g.seed \notin r[g.seed - 1].used
             /\ Keeps(g, g.seed, n, r[g.seed - 1].used, items, limits)
  BY <1>4, <1>6 DEF Answers
<1>8. ASSUME NEW k \in 1..n, k \notin r[n].used
      PROVE  Keeps(Alone(k, items), k, n, r[k - 1].used, items, limits)
  <2>1. PICK g : g = Gathered(k, r[k - 1], items, limits)
    OBVIOUS
  <2>2. g \in Group(n) /\ Keeps(g, k, n, r[k - 1].used, items, limits) /\ Cardinality(g.members) < 2
    BY <1>4, <1>6, <1>8, <2>1 DEF Answers
  <2>3. g.members \in SUBSET (1..n) /\ k \in g.members
    BY <2>2 DEF Group, Keeps
  <2>4. g.members = {k}
    BY <2>2, <2>3, OneOrMore
  <2>5. g = Alone(k, items)
    BY <2>2, <2>4 DEF Keeps
  <2> QED BY <2>2, <2>5
<1> QED BY <1>1, <1>2, <1>3, <1>4, <1>5, <1>7, <1>8 DEF Answers

\* What the matching service answers is what Consolidation may ask of it, for
\* every pool of open cargos and all limits: groups of two and more, no cargo in
\* two groups, no client twice in a group, the group's totals those of its
\* members and within both limits, every member along the seed's way.
THEOREM MatcherKeepsTheContract ==
    ASSUME NEW items \in Seq(CargoItem), NEW limits \in LimitPair
    PROVE  KeepsTheContract(Match(items, limits), items, limits)
<1>1. PICK n \in Nat : n = Len(items) /\ DOMAIN items = 1..n
  BY SizeTypes
<1>2. PICK r : r = Rounds(items, limits)
  OBVIOUS
<1>3. PICK groups : groups = Match(items, limits)
  OBVIOUS
<1>4. \A g, h \in groups : g # h => g.members \cap h.members = {}
  BY <1>3, MatchAnswer
<1>5. ASSUME NEW g \in groups
      PROVE  /\ g.members \subseteq DOMAIN items /\ Cardinality(g.members) >= 2
             /\ g.seed \in g.members
             /\ \A b, c \in g.members : b # c => items[b].client_id # items[c].client_id
             /\ g.vol = Volume(g.members, items) /\ g.vol <= limits.max_volume_m3
             /\ g.wt = Weight(g.members, items) /\ g.wt <= limits.max_weight_kg
             /\ \A b \in g.members \ {g.seed} :
                   /\ g.seed < b
                   /\ points_match(items[g.seed].origin, items[b].origin)
                   /\ points_match(items[g.seed].destination, items[b].destination)
  <2>1. /\ g \in Group(n) /\ Cardinality(g.members) >= 2
        /\ Keeps(g, g.seed, n, r[g.seed - 1].used, items, limits)
    BY <1>1, <1>2, <1>3, MatchAnswer
  <2>2. g.members \in SUBSET (1..n) /\ g.seed \in g.members
    BY <2>1 DEF Group, Keeps
  <2>3. g.members # {g.seed}
    <3>1. \A c \in Nat : c >= 2 => ~(c < 2)
      OBVIOUS
    <3>2. Cardinality(g.members) \in Nat /\ (Cardinality(g.members) < 2 <=> g.members = {g.seed})
      BY <1>1, <2>2, OneOrMore
    <3> QED BY <2>1, <3>1, <3>2
  <2> QED BY <1>1, <2>1, <2>2, <2>3 DEF Keeps
<1> QED BY <1>3, <1>4, <1>5 DEF KeepsTheContract

LEMMA MatchBothWays ==
    ASSUME NEW p \in Point, NEW q \in Point
    PROVE  points_match(p, q) <=> points_match(q, p)
BY DistanceType DEF Point, points_match

\* If a cargo fits a group, the group's seed fits that cargo on its own: the
\* seed is no larger than its group, and points match both ways.
LEMMA SeedFits ==
    ASSUME NEW items \in Seq(CargoItem), NEW limits \in LimitPair,
           NEW g \in Group(Len(items)), g.seed \in g.members,
           g.vol >= items[g.seed].volume_m3, g.wt >= items[g.seed].weight_kg,
           NEW b \in 1..Len(items), fits_group(g, b, items, limits)
    PROVE  fits_group(Alone(b, items), g.seed, items, limits)
<1>1. PICK s : s = g.seed /\ s \in 1..Len(items) /\ g.vol \in Nat /\ g.wt \in Nat
  BY DEF Group
<1>2. /\ items[b].volume_m3 \in Nat /\ items[b].weight_kg \in Nat
      /\ items[b].origin \in Point /\ items[b].destination \in Point
      /\ items[s].volume_m3 \in Nat /\ items[s].weight_kg \in Nat
      /\ items[s].origin \in Point /\ items[s].destination \in Point
      /\ limits.max_volume_m3 \in Nat /\ limits.max_weight_kg \in Nat
  BY <1>1, ItemTypes DEF LimitPair
<1>3. /\ items[b].client_id \notin Clients(g, items)
      /\ g.vol + items[b].volume_m3 <= limits.max_volume_m3
      /\ g.wt + items[b].weight_kg <= limits.max_weight_kg
      /\ points_match(items[s].origin, items[b].origin)
      /\ points_match(items[s].destination, items[b].destination)
  BY <1>1 DEF fits_group
<1>4. items[s].client_id # items[b].client_id
  BY <1>1, <1>3 DEF Clients
<1>5. /\ items[b].volume_m3 + items[s].volume_m3 <= limits.max_volume_m3
      /\ items[b].weight_kg + items[s].weight_kg <= limits.max_weight_kg
  <2>1. \A x, y, z, m \in Nat : x >= y /\ x + z <= m => z + y <= m
    OBVIOUS
  <2> QED BY <1>1, <1>2, <1>3, <2>1
<1>6. /\ points_match(items[b].origin, items[s].origin)
      /\ points_match(items[b].destination, items[s].destination)
  BY <1>2, <1>3, MatchBothWays
<1>7. /\ Alone(b, items).seed = b /\ Alone(b, items).members = {b}
      /\ Alone(b, items).vol = items[b].volume_m3 /\ Alone(b, items).wt = items[b].weight_kg
  BY DEF Alone
<1>8. items[s].client_id \notin Clients(Alone(b, items), items)
  BY <1>4, <1>7 DEF Clients
<1> QED BY <1>1, <1>5, <1>6, <1>7, <1>8 DEF fits_group

\* Greedy, but nothing that fits is left: no cargo outside the groups would
\* still fit one of them, and no two cargos outside fit each other, in whichever
\* order they were created.  The radii differ from country to country; that
\* either one suffices makes the relation symmetric, and the argument needs it.
THEOREM MatcherLeavesNoneThatFit ==
    ASSUME NEW items \in Seq(CargoItem), NEW limits \in LimitPair
    PROVE  NoneLeft(Match(items, limits), items, limits)
<1>1. PICK n \in Nat : n = Len(items) /\ DOMAIN items = 1..n
  BY SizeTypes
<1>2. PICK r : r = Rounds(items, limits)
  OBVIOUS
<1>3. PICK groups : groups = Match(items, limits)
  OBVIOUS
<1>4. PICK left : left = 1..n \ UNION {g.members : g \in groups}
  OBVIOUS
<1>5. /\ \A k \in 0..n : r[k].used \subseteq UNION {g.members : g \in groups}
      /\ left = 1..n \ r[n].used
  BY <1>1, <1>2, <1>3, <1>4, MatchAnswer
<1>6. ASSUME NEW b \in left
      PROVE  /\ b \in 1..n /\ \A k \in 0..n : b \notin r[k].used
             /\ Keeps(Alone(b, items), b, n, r[b - 1].used, items, limits)
             /\ \A g \in groups : b \notin g.members
  <2>1. b \in 1..n /\ b \notin r[n].used
    BY <1>5
  <2> QED BY <1>1, <1>2, <1>3, <1>4, <1>5, <2>1, MatchAnswer
<1>7. ASSUME NEW b \in left, NEW k \in (b + 1)..n, k \notin r[b - 1].used
      PROVE  ~fits_group(Alone(b, items), k, items, limits)
  <2>1. Alone(b, items).members = {b} /\ k # b
    BY <1>6 DEF Alone
  <2> QED BY <1>6, <1>7, <2>1 DEF Keeps
<1>8. ASSUME NEW b \in left, NEW g \in groups, fits_group(g, b, items, limits)
      PROVE  FALSE
  <2>1. /\ g \in Group(n) /\ g.seed \in 1..n /\ g.seed \notin r[g.seed - 1].used
        /\ Keeps(g, g.seed, n, r[g.seed - 1].used, items, limits)
    BY <1>1, <1>2, <1>3, MatchAnswer
  <2>2. /\ g.seed \in g.members /\ g.vol >= items[g.seed].volume_m3
        /\ g.wt >= items[g.seed].weight_kg
    BY <2>1 DEF Keeps
  <2>3. PICK s : s = g.seed
    OBVIOUS
  <2>4. b \in 1..n /\ s \in 1..n /\ b # s
    BY <1>6, <2>1, <2>2, <2>3
  <2>5. CASE s < b
    <3>1. b \in (s + 1)..n /\ s - 1 \in 0..n
      BY <2>4, <2>5
    <3>2. b \notin r[s - 1].used /\ b \notin g.members
      BY <1>6, <3>1
    <3> QED BY <1>8, <2>1, <2>3, <3>1, <3>2 DEF Keeps
  <2>6. CASE b < s
    <3>1. s \in (b + 1)..n /\ b - 1 \in 0..(s - 1) /\ s - 1 \in 1..n
      BY <2>4, <2>6
    <3>2. s \notin r[b - 1].used
      <4>1. r[b - 1].used \subseteq r[s - 1].used
        BY <1>1, <1>2, <3>1, UsedGrows
      <4> QED BY <2>1, <2>3, <4>1
    <3>3. fits_group(Alone(b, items), s, items, limits)
      BY <1>1, <1>8, <2>1, <2>2, <2>3, <2>4, SeedFits
    <3> QED BY <1>7, <3>1, <3>2, <3>3
  <2> QED BY <2>4, <2>5, <2>6
<1>9. ASSUME NEW b \in left, NEW c \in left, b # c, fits_group(Alone(b, items), c, items, limits)
      PROVE  FALSE
  <2>1. b \in 1..n /\ c \in 1..n /\ b - 1 \in 0..n /\ c - 1 \in 0..n
    BY <1>6
  <2>2. c \notin r[b - 1].used /\ b \notin r[c - 1].used
    BY <1>6, <2>1
  <2>3. CASE b < c
    BY <1>7, <1>9, <2>1, <2>2, <2>3
  <2>4. CASE c < b
    <3>1. PICK g : g = Alone(b, items)
      OBVIOUS
    <3>2. /\ g \in Group(n) /\ g.seed = b /\ g.seed \in g.members
          /\ g.vol >= items[b].volume_m3 /\ g.wt >= items[b].weight_kg
      <4>1. items[b].volume_m3 \in Nat /\ items[b].weight_kg \in Nat /\ g \in Group(n)
        BY <1>1, <2>1, <3>1, ItemTypes
      <4> QED BY <3>1, <4>1 DEF Alone
    <3>3. fits_group(Alone(c, items), b, items, limits)
      BY <1>1, <1>9, <2>1, <3>1, <3>2, SeedFits
    <3> QED BY <1>7, <2>1, <2>2, <2>4, <3>3
  <2> QED BY <1>9, <2>1, <2>3, <2>4
<1> QED BY <1>1, <1>3, <1>4, <1>8, <1>9 DEF NoneLeft

-----------------------------------------------------------------------------
(* The composite score.                                                    *)

\* The composite score, from its parts.
Chats(c) == IF c.chatsTotal > 0 THEN c.chatsTotal ELSE 1
Unit(c) == (IF c.reviewCount > 0 THEN 730 ELSE 365) * Chats(c)
Rounded(w, u) == (2 * w + u) \div (2 * u)

LEMMA Counts ==
    ASSUME NEW c \in Components
    PROVE  /\ c.completedDeals \in Nat /\ c.daysOnPlatform \in Nat /\ c.chatMessages \in Nat
           /\ c.reviewAvg \in 0..50 /\ c.reviewCount \in Nat /\ c.chatsTotal \in Nat
           /\ c.chatsActive \in Nat /\ c.chatsActive <= c.chatsTotal
BY DEF Components

LEMMA CappedBelow ==
    ASSUME NEW n \in Nat, NEW cap \in Nat
    PROVE  Capped(n, cap) \in 0..cap /\ \A m \in Nat : n <= m => Capped(n, cap) <= Capped(m, cap)
BY DEF Capped

LEMMA CappedCounts ==
    ASSUME NEW c \in Components
    PROVE  /\ Capped(c.completedDeals, capDeals) \in 0..20
           /\ Capped(c.daysOnPlatform, capTenureDays) \in 0..365
           /\ Capped(c.chatMessages, capChatMessages) \in 0..50
<1>1. /\ c.completedDeals \in Nat /\ c.daysOnPlatform \in Nat /\ c.chatMessages \in Nat
      /\ 20 \in Nat /\ 365 \in Nat /\ 50 \in Nat
  BY Counts
<1>2. Capped(c.completedDeals, 20) \in 0..20
  BY <1>1, CappedBelow
<1>3. Capped(c.daysOnPlatform, 365) \in 0..365
  BY <1>1, CappedBelow
<1>4. Capped(c.chatMessages, 50) \in 0..50
  BY <1>1, CappedBelow
<1> QED BY <1>2, <1>3, <1>4 DEF capDeals, capTenureDays, capChatMessages

ReviewPart(c) == IF c.reviewCount > 0 THEN 365 * c.reviewAvg ELSE 0

LEMMA ReviewPartBelow ==
    ASSUME NEW c \in Components
    PROVE  /\ ReviewPart(c) \in Nat /\ ReviewPart(c) <= 18250
           /\ c.reviewCount > 0 \/ ReviewPart(c) = 0
<1>1. c.reviewAvg \in Nat /\ c.reviewAvg <= 50
  BY Counts
<1>2. 365 * c.reviewAvg \in Nat /\ 365 * c.reviewAvg <= 18250
  BY <1>1
<1> QED BY <1>2 DEF ReviewPart

LEMMA ScoreParts ==
    ASSUME NEW c \in Components
    PROVE  /\ compositeFromComponents(c) = Rounded(Weighted(c, Chats(c)), Unit(c))
           /\ Chats(c) \in Nat \ {0} /\ Unit(c) \in Nat \ {0}
           /\ Weighted(c, Chats(c)) \in Nat
<1>1. Chats(c) \in Nat \ {0} /\ c.chatsActive \in Nat
  BY Counts DEF Chats
<1>2. Unit(c) \in Nat \ {0}
  BY <1>1, Counts DEF Unit
<1>4. /\ Capped(c.completedDeals, capDeals) \in Nat
      /\ Capped(c.daysOnPlatform, capTenureDays) \in Nat
      /\ Capped(c.chatMessages, capChatMessages) \in Nat
  BY CappedCounts
<1>5. (IF c.reviewCount > 0 THEN 365 * c.reviewAvg ELSE 0) \in Nat
  BY Counts
<1>6. Weighted(c, Chats(c)) \in Nat
  <2>1. \A n, a, b, d, e, f \in Nat : n * (365 * a + 10 * b + 73 * d + e) + f \in Nat
    OBVIOUS
  <2>2. (IF c.chatsTotal > 0 THEN 3650 * c.chatsActive ELSE 0) \in Nat
    BY <1>1
  <2> QED BY <1>1, <1>4, <1>5, <2>1, <2>2 DEF Weighted
<1> QED BY <1>1, <1>2, <1>6 DEF compositeFromComponents, Chats, Unit, Rounded

\* Rounding is monotone, keeps a common factor, and is exact for whole tenths.
LEMMA RoundedUp ==
    ASSUME NEW v \in Nat, NEW w \in Nat, NEW u \in Nat \ {0}, v <= w
    PROVE  Rounded(v, u) <= Rounded(w, u)
BY DEF Rounded

LEMMA RoundedWhole ==
    ASSUME NEW q \in Nat, NEW u \in Nat \ {0}
    PROVE  Rounded(q * u, u) = q
<1>1. (2 * q * u + u) \div (2 * u) = q
  OBVIOUS
<1> QED BY <1>1 DEF Rounded

LEMMA RoundedDoubled ==
    ASSUME NEW w \in Nat, NEW u \in Nat \ {0}
    PROVE  Rounded(2 * w, 2 * u) = Rounded(w, u)
<1>1. \A a \in Nat, b \in Nat \ {0} : (2 * a) \div (2 * b) = a \div b
  OBVIOUS
<1>2. 2 * w + u \in Nat /\ 2 * u \in Nat \ {0}
  OBVIOUS
<1>3. (2 * (2 * w + u)) \div (2 * (2 * u)) = Rounded(w, u)
  BY <1>1, <1>2 DEF Rounded
<1>4. 2 * (2 * w + u) = 2 * (2 * w) + 2 * u
  OBVIOUS
<1> QED BY <1>3, <1>4 DEF Rounded

\* Whatever was counted, the score is between no and five stars: the caps, the
\* share of answered chats and the weights that are shared without reviews.
THEOREM ScoreBounded ==
    ASSUME NEW c \in Components
    PROVE  Bounded(c)
<1> DEFINE w == Weighted(c, Chats(c))
<1>1. /\ c.reviewAvg \in 0..50 /\ c.reviewCount \in Nat /\ c.chatsTotal \in Nat
      /\ c.chatsActive \in Nat /\ c.chatsActive <= c.chatsTotal
  BY Counts
<1>2. PICK n \in Nat \ {0} : n = Chats(c)
  BY ScoreParts
<1>3. PICK d \in 0..20 : d = Capped(c.completedDeals, capDeals)
  BY CappedCounts
<1>4. PICK t \in 0..365 : t = Capped(c.daysOnPlatform, capTenureDays)
  BY CappedCounts
<1>5. PICK m \in 0..50 : m = Capped(c.chatMessages, capChatMessages)
  BY CappedCounts
<1>6. PICK a \in 0..n : (IF c.chatsTotal > 0 THEN 3650 * c.chatsActive ELSE 0) = 3650 * a
  <2>1. CASE c.chatsTotal > 0
    <3>1. c.chatsActive \in 0..n
      BY <1>1, <1>2, <2>1 DEF Chats
    <3> QED BY <2>1, <3>1
  <2>2. CASE ~(c.chatsTotal > 0)
    <3>1. 0 \in 0..n /\ 3650 * 0 = 0
      OBVIOUS
    <3> QED BY <2>2, <3>1
  <2> QED BY <2>1, <2>2
<1>7. PICK r \in Nat : r = ReviewPart(c) /\ r <= 18250 /\ (c.reviewCount > 0 \/ r = 0)
  BY ReviewPartBelow
<1>8. w = n * (365 * d + 10 * t + 73 * m + r) + 3650 * a
  BY <1>2, <1>3, <1>4, <1>5, <1>6, <1>7 DEF Weighted, ReviewPart
<1> HIDE DEF w
<1>9. 365 * d + 10 * t + 73 * m <= 14600
  OBVIOUS
<1>10. w <= 50 * Unit(c)
  <2>1. PICK x \in Nat : x = 365 * d + 10 * t + 73 * m /\ x <= 14600
    BY <1>9
  <2>2. w = n * (x + r) + 3650 * a
    BY <1>8, <2>1
  <2>3. \A y \in Nat, z \in Nat : y <= z => n * y <= n * z
    OBVIOUS
  <2>4. CASE c.reviewCount > 0
    <3>1. Unit(c) = 730 * n
      <4> QED BY <1>2, <2>4 DEF Unit
    <3>1a. x + r <= 32850 /\ 50 * Unit(c) = n * 36500
      BY <1>7, <2>1, <3>1
    <3>2. n * (x + r) <= n * 32850
      BY <2>1, <2>3, <3>1a
    <3> QED BY <2>2, <3>1a, <3>2
  <2>5. CASE ~(c.reviewCount > 0)
    <3>0. r = 0
      BY <1>7, <2>5
    <3>1. r = 0 /\ Unit(c) = 365 * n
      <4> QED BY <1>2, <2>5, <3>0 DEF Unit
    <3>1a. 50 * Unit(c) = n * 18250
      BY <3>1
    <3>2. n * (x + r) <= n * 14600
      BY <2>1, <2>3, <3>1
    <3> QED BY <2>2, <3>1a, <3>2
  <2> QED BY <2>4, <2>5
<1>11. PICK u \in Nat \ {0} : u = Unit(c)
  BY ScoreParts
<1>12. w \in Nat /\ compositeFromComponents(c) = Rounded(w, u)
  BY <1>11, ScoreParts DEF w
<1>13. Rounded(w, u) <= 50
  <2>1. 50 * u \in Nat
    OBVIOUS
  <2>2. Rounded(w, u) <= Rounded(50 * u, u)
    BY <1>10, <1>11, <1>12, <2>1, RoundedUp
  <2>3. 50 \in Nat /\ \A q \in Nat : Rounded(q * u, u) = q
    BY RoundedWhole
  <2> QED BY <2>2, <2>3
<1>14. Rounded(w, u) \in Nat
  <2>1. 2 * w + u \in Nat /\ 2 * u \in Nat \ {0}
    BY <1>12
  <2>2. \A x \in Nat, y \in Nat \ {0} : x \div y \in Nat
    OBVIOUS
  <2> QED BY <2>1, <2>2 DEF Rounded
<1> QED BY <1>12, <1>13, <1>14 DEF Bounded

\* More deals, messages and answered chats score no less.
LEMMA MoreScoresMore ==
    ASSUME NEW c \in Components, NEW e \in Components,
           e.reviewCount = c.reviewCount, e.reviewAvg = c.reviewAvg,
           e.daysOnPlatform = c.daysOnPlatform, e.chatsTotal = c.chatsTotal,
           c.completedDeals <= e.completedDeals, c.chatMessages <= e.chatMessages,
           c.chatsActive <= e.chatsActive
    PROVE  compositeFromComponents(c) <= compositeFromComponents(e)
<1>1. PICK n \in Nat \ {0} : n = Chats(c) /\ n = Chats(e)
  BY ScoreParts DEF Chats
<1>2. PICK u \in Nat \ {0} : u = Unit(c) /\ u = Unit(e)
  BY <1>1, ScoreParts DEF Unit
<1>3. PICK d \in Nat, dd \in Nat :
          /\ d = Capped(c.completedDeals, capDeals) /\ dd = Capped(e.completedDeals, capDeals)
          /\ d <= dd
  <2>1. c.completedDeals \in Nat /\ e.completedDeals \in Nat /\ 20 \in Nat
    BY Counts
  <2>2. Capped(c.completedDeals, 20) <= Capped(e.completedDeals, 20)
    BY <2>1, CappedBelow
  <2> QED BY <2>2, CappedCounts DEF capDeals
<1>4. PICK m \in Nat, mm \in Nat :
          /\ m = Capped(c.chatMessages, capChatMessages)
          /\ mm = Capped(e.chatMessages, capChatMessages)
          /\ m <= mm
  <2>1. c.chatMessages \in Nat /\ e.chatMessages \in Nat /\ 50 \in Nat
    BY Counts
  <2>2. Capped(c.chatMessages, 50) <= Capped(e.chatMessages, 50)
    BY <2>1, CappedBelow
  <2> QED BY <2>2, CappedCounts DEF capChatMessages
<1>5. PICK t \in Nat : /\ t = Capped(c.daysOnPlatform, capTenureDays)
                       /\ t = Capped(e.daysOnPlatform, capTenureDays)
  BY CappedCounts
<1>6. PICK r \in Nat : /\ r = IF c.reviewCount > 0 THEN 365 * c.reviewAvg ELSE 0
                       /\ r = IF e.reviewCount > 0 THEN 365 * e.reviewAvg ELSE 0
  <2>1. c.reviewAvg \in Nat
    BY Counts
  <2> QED BY <2>1
<1>7. PICK a \in Nat, aa \in Nat :
          /\ a = (IF c.chatsTotal > 0 THEN 3650 * c.chatsActive ELSE 0)
          /\ aa = (IF e.chatsTotal > 0 THEN 3650 * e.chatsActive ELSE 0)
          /\ a <= aa
  <2>1. c.chatsActive \in Nat /\ e.chatsActive \in Nat
    BY Counts
  <2> QED BY <2>1
<1>8. Weighted(c, n) <= Weighted(e, n)
  <2>1. 365 * d + 10 * t + 73 * m + r <= 365 * dd + 10 * t + 73 * mm + r
    BY <1>3, <1>4
  <2>2. \A x \in Nat, y \in Nat : x <= y => n * x <= n * y
    OBVIOUS
  <2>3. /\ 365 * d + 10 * t + 73 * m + r \in Nat
        /\ 365 * dd + 10 * t + 73 * mm + r \in Nat
    OBVIOUS
  <2>4. n * (365 * d + 10 * t + 73 * m + r) <= n * (365 * dd + 10 * t + 73 * mm + r)
    BY <2>1, <2>2, <2>3
  <2>5. /\ n * (365 * d + 10 * t + 73 * m + r) \in Nat
        /\ n * (365 * dd + 10 * t + 73 * mm + r) \in Nat
    BY <2>3
  <2>6. n * (365 * d + 10 * t + 73 * m + r) + a <= n * (365 * dd + 10 * t + 73 * mm + r) + aa
    BY <1>7, <2>4, <2>5
  <2> QED BY <1>3, <1>4, <1>5, <1>6, <1>7, <2>6 DEF Weighted
<1> QED BY <1>1, <1>2, <1>8, ScoreParts, RoundedUp

\* Another deal, another message and another answered chat never lower the
\* score, with the caps and the rounding.
THEOREM WorkNeverHurts ==
    ASSUME NEW c \in Components
    PROVE  WorkHelps(c)
<1>1. ASSUME NEW e \in {[c EXCEPT !.completedDeals = @ + 1], [c EXCEPT !.chatMessages = @ + 1]}
      PROVE  compositeFromComponents(c) <= compositeFromComponents(e)
  <2>1. e \in Components
    BY DEF Components
  <2>2. /\ e.reviewCount = c.reviewCount /\ e.reviewAvg = c.reviewAvg
        /\ e.daysOnPlatform = c.daysOnPlatform /\ e.chatsTotal = c.chatsTotal
        /\ c.completedDeals <= e.completedDeals /\ c.chatMessages <= e.chatMessages
        /\ c.chatsActive <= e.chatsActive
    BY DEF Components
  <2> QED BY <2>1, <2>2, MoreScoresMore
<1>2. ASSUME c.chatsActive < c.chatsTotal
      PROVE  compositeFromComponents(c) <=
                 compositeFromComponents([c EXCEPT !.chatsActive = @ + 1])
  <2> DEFINE e == [c EXCEPT !.chatsActive = @ + 1]
  <2>1. e \in Components
    BY <1>2 DEF Components
  <2>2. /\ e.reviewCount = c.reviewCount /\ e.reviewAvg = c.reviewAvg
        /\ e.daysOnPlatform = c.daysOnPlatform /\ e.chatsTotal = c.chatsTotal
        /\ c.completedDeals <= e.completedDeals /\ c.chatMessages <= e.chatMessages
        /\ c.chatsActive <= e.chatsActive
    BY DEF Components
  <2> HIDE DEF e
  <2>3. compositeFromComponents(c) <= compositeFromComponents(e)
    BY <2>1, <2>2, MoreScoresMore
  <2> QED BY <2>3 DEF e
<1> QED BY <1>1, <1>2 DEF WorkHelps

\* The reviews, with half of the weight, move the score towards their average
\* and never past it, with the rounding.
THEOREM ReviewsPullScores ==
    ASSUME NEW c \in Components
    PROVE  ReviewsPull(c)
<1> SUFFICES ASSUME c.reviewCount > 0
             PROVE  ReviewsPull(c)
  BY DEF ReviewsPull
<1> DEFINE e == [c EXCEPT !.reviewCount = 0, !.reviewAvg = 0]
<1>1. e \in Components
  <2>1. 0 \in Nat /\ 0 \in 0..50
    OBVIOUS
  <2>2. /\ e \in [reviewCount : Nat, reviewAvg : 0..50, completedDeals : Nat,
                  daysOnPlatform : Nat, chatMessages : Nat, chatsTotal : Nat,
                  chatsActive : Nat]
        /\ e.chatsActive <= e.chatsTotal /\ e.reviewAvg = 0
    BY <2>1 DEF Components
  <2> HIDE DEF e
  <2> QED BY <2>2 DEF Components
<1>2. /\ e.reviewCount = 0 /\ e.chatsTotal = c.chatsTotal /\ e.chatsActive = c.chatsActive
      /\ e.completedDeals = c.completedDeals /\ e.chatMessages = c.chatMessages
      /\ e.daysOnPlatform = c.daysOnPlatform
  BY DEF Components
<1> HIDE DEF e
<1>3. PICK n \in Nat \ {0} : n = Chats(c) /\ n = Chats(e)
  BY <1>2, ScoreParts DEF Chats
<1>4. PICK u \in Nat \ {0} : u = Unit(e) /\ 2 * u = Unit(c)
  <2>1. 365 * n \in Nat \ {0} /\ 2 * (365 * n) = 730 * n
    OBVIOUS
  <2> QED BY <1>2, <1>3, <2>1 DEF Unit
<1>5. PICK w \in Nat : w = Weighted(e, n)
  BY <1>1, <1>3, ScoreParts
<1>6. PICK a \in Nat : a = c.reviewAvg
  BY Counts
<1>7. Weighted(c, n) = w + a * u
  <2>1. PICK x \in Nat : x = 365 * Capped(c.completedDeals, capDeals)
                             + 10 * Capped(c.daysOnPlatform, capTenureDays)
                             + 73 * Capped(c.chatMessages, capChatMessages)
    <3>1. \A i, j, k \in Nat : 365 * i + 10 * j + 73 * k \in Nat
      OBVIOUS
    <3>2. /\ Capped(c.completedDeals, capDeals) \in Nat
          /\ Capped(c.daysOnPlatform, capTenureDays) \in Nat
          /\ Capped(c.chatMessages, capChatMessages) \in Nat
      BY CappedCounts
    <3> QED BY <3>1, <3>2
  <2>2. PICK y \in Nat : y = IF c.chatsTotal > 0 THEN 3650 * c.chatsActive ELSE 0
    BY Counts
  <2>3. w = n * (x + 0) + y
    BY <1>2, <1>5, <2>1, <2>2 DEF Weighted
  <2>4. Weighted(c, n) = n * (x + 365 * a) + y
    BY <1>6, <2>1, <2>2 DEF Weighted
  <2>5. u = 365 * n
    BY <1>2, <1>3, <1>4 DEF Unit
  <2>6. n * (x + 365 * a) = n * x + a * (365 * n)
    OBVIOUS
  <2> QED BY <2>3, <2>4, <2>5, <2>6
<1>8. /\ compositeFromComponents(e) = Rounded(2 * w, 2 * u)
      /\ compositeFromComponents(c) = Rounded(w + a * u, 2 * u)
      /\ c.reviewAvg = Rounded(a * (2 * u), 2 * u)
  <2>1. compositeFromComponents(e) = Rounded(w, u)
    BY <1>1, <1>3, <1>4, <1>5, ScoreParts
  <2>2. compositeFromComponents(c) = Rounded(w + a * u, 2 * u)
    BY <1>3, <1>4, <1>7, ScoreParts
  <2>3. 2 * u \in Nat \ {0}
    OBVIOUS
  <2> QED BY <1>6, <2>1, <2>2, <2>3, RoundedDoubled, RoundedWhole
<1>9. PICK b \in Nat, m \in Nat, h \in Nat, v \in Nat \ {0} :
          b = 2 * w /\ m = w + a * u /\ h = a * (2 * u) /\ v = 2 * u
  <2>1. 2 * w \in Nat /\ w + a * u \in Nat /\ a * (2 * u) \in Nat /\ 2 * u \in Nat \ {0}
    OBVIOUS
  <2> QED BY <2>1
<1>10. (b <= m /\ m <= h) \/ (h <= m /\ m <= b)
  <2>1. PICK z \in Nat : z = a * u
    OBVIOUS
  <2>2. h = 2 * z
    BY <1>9, <2>1
  <2> QED BY <1>9, <2>1, <2>2
<1>11. \/ Rounded(b, v) <= Rounded(m, v) /\ Rounded(m, v) <= Rounded(h, v)
       \/ Rounded(h, v) <= Rounded(m, v) /\ Rounded(m, v) <= Rounded(b, v)
  BY <1>10, RoundedUp
<1> QED BY <1>8, <1>9, <1>11 DEF ReviewsPull, e

=============================================================================
