SPECIFICATION Spec
CONSTANTS
    ana = ana
    bob = bob
    c1 = c1
    c2 = c2
    o1 = o1
    o2 = o2
    o3 = o3
    User = {ana, bob}
    Cargo = {c1, c2}
    Offer = {o1, o2, o3}
    Owner <- RaceOwner
    CargoOf <- RaceCargoOf
    Author <- RaceAuthor
    ToolHolder = {bob}
    Req = {r1, r2}
    FreeLimit = 1
    SubLimit = 2
INVARIANTS DealIsWhole
PROPERTIES RevealWithinLimit ImplementsCompetition
