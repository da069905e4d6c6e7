SPECIFICATION Spec
CONSTANTS
    ana = ana
    bob = bob
    hub = hub
    eva = eva
    fox = fox
    k1 = k1
    k2 = k2
    k3 = k3
    d1 = d1
    d2 = d2
    b1 = b1
    b2 = b2
    s1 = s1
    s2 = s2
    Warehouse = hub
    Driver = {eva, fox}
    Cargo = {k1, k3}
    ClientOf <- CargoOwner
    Comp = {d1, d2}
    Batch = {b1, b2}
    Saver = {s1}
    Contested = {d1}
    Lossy = TRUE
SYMMETRY Names
INVARIANTS CompetitionSettles OneAutomatic OneActiveBatch CargoTravelsOnce BatchIsWhole BatchFollowsThreshold
PROPERTY ImplementsCompetition
