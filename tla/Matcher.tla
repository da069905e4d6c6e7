------------------------------ MODULE Matcher ------------------------------
(***************************************************************************)
(* The matching service: a greedy grouping of the open cargos, in the      *)
(* order of their creation.  Consolidation takes any answer that keeps     *)
(* this service's contract; here the algorithm is checked against it.  A   *)
(* cargo is known by its place in the pool, and a point by its place on    *)
(* the map with the radius of its country; of the great-circle distance    *)
(* only its symmetry matters.                                              *)
(***************************************************************************)
EXTENDS Naturals, Sequences, FiniteSets

CONSTANTS Place, Distance      \* [Place \X Place -> Nat]: haversine_km

ASSUME DistanceType == /\ Distance \in [Place \X Place -> Nat]
                       /\ \A p, q \in Place : Distance[<<p, q>>] = Distance[<<q, p>>]

Point == [at : Place, radius : Nat]
CargoItem == [client_id : Nat, origin : Point, destination : Point,
              volume_m3 : Nat, weight_kg : Nat]
LimitPair == [max_volume_m3 : Nat, max_weight_kg : Nat]

points_match(p, q) == \/ Distance[<<p.at, q.at>>] <= p.radius
                      \/ Distance[<<p.at, q.at>>] <= q.radius

\* A group as the loop keeps it: its seed, its members, the totals so far.
Alone(i, items) == [seed |-> i, members |-> {i},
                    vol |-> items[i].volume_m3, wt |-> items[i].weight_kg]

Joined(group, b, items) == [group EXCEPT !.members = @ \cup {b},
                                         !.vol = @ + items[b].volume_m3,
                                         !.wt = @ + items[b].weight_kg]

Clients(group, items) == {items[k].client_id : k \in group.members}

fits_group(group, b, items, limits) ==
    /\ items[b].client_id \notin Clients(group, items)
    /\ group.vol + items[b].volume_m3 <= limits.max_volume_m3
    /\ group.wt + items[b].weight_kg <= limits.max_weight_kg
    /\ points_match(items[group.seed].origin, items[b].origin)
    /\ points_match(items[group.seed].destination, items[b].destination)

\* The group around a seed as the later cargos that are still free come by.
Gather(i, used, items, limits) ==
    LET grown[j \in 0..Len(items)] ==
            IF j <= i THEN Alone(i, items)
            ELSE LET group == grown[j - 1]
                 IN IF j \notin used /\ fits_group(group, j, items, limits)
                    THEN Joined(group, j, items) ELSE group
    IN grown

\* The groups after each seed, and the cargos they use.
Rounds(items, limits) ==
    LET answer[i \in 0..Len(items)] ==
            IF i = 0 THEN [groups |-> {}, used |-> {}]
            ELSE LET before == answer[i - 1]
                     group == Gather(i, before.used, items, limits)[Len(items)]
                 IN IF i \in before.used \/ Cardinality(group.members) < 2 THEN before
                    ELSE [groups |-> before.groups \cup {group},
                          used |-> before.used \cup group.members]
    IN answer

match(items, limits) == Rounds(items, limits)[Len(items)].groups

\* The Go client of the service hands on the groups of two and more.
Match(items, limits) ==
    {group \in match(items, limits) : Cardinality(group.members) >= 2}

-----------------------------------------------------------------------------
\* The sum of the sizes of the members among the first n.
Sum(members, size, n) ==
    LET sum[k \in 0..n] ==
            IF k = 0 THEN 0 ELSE sum[k - 1] + (IF k \in members THEN size[k] ELSE 0)
    IN sum[n]

Volume(members, items) == Sum(members, [k \in DOMAIN items |-> items[k].volume_m3], Len(items))
Weight(members, items) == Sum(members, [k \in DOMAIN items |-> items[k].weight_kg], Len(items))

\* What Consolidation takes from an answer (JobGroup, Kept): groups of two or
\* more cargos of the pool, each cargo in one group at most, that travel
\* together within the limits, along the direction of the first.
KeepsTheContract(groups, items, limits) ==
    /\ \A g \in groups :
          /\ g.members \subseteq DOMAIN items /\ Cardinality(g.members) >= 2
          /\ g.seed \in g.members
          /\ \A b, c \in g.members : b # c => items[b].client_id # items[c].client_id
          /\ g.vol = Volume(g.members, items) /\ g.vol <= limits.max_volume_m3
          /\ g.wt = Weight(g.members, items) /\ g.wt <= limits.max_weight_kg
          /\ \A b \in g.members \ {g.seed} :
                /\ g.seed < b
                /\ points_match(items[g.seed].origin, items[b].origin)
                /\ points_match(items[g.seed].destination, items[b].destination)
    /\ \A g, h \in groups : g # h => g.members \cap h.members = {}

\* "All that fit travel together" (suggestConsolidations): no cargo is left
\* alone that would still fit a group, and no two are left that fit each other,
\* whatever the order in which they were created.
NoneLeft(groups, items, limits) ==
    LET left == DOMAIN items \ UNION {g.members : g \in groups}
    IN /\ \A b \in left, g \in groups : ~fits_group(g, b, items, limits)
       /\ \A b, c \in left : b # c => ~fits_group(Alone(b, items), c, items, limits)

=============================================================================
