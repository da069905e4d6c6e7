SPECIFICATION ConsSpec
CONSTANTS
    ana = ana
    bob = bob
    cai = cai
    dan = dan
    c1 = c1
    c2 = c2
    c3 = c3
    o1 = o1
    User = {ana, bob, cai, dan}
    Cargo = {c1, c2, c3}
    Offer = {}
    Owner <- PairOwner
    CargoOf <- OneCargoOf
    Author <- OneAuthor
    ToolHolder = {dan}
    Req = {}
    Resp = {q1}
    FreeLimit = 1
    SubLimit = 1
    Sugg = {s1, s2, s3}
    Cons = {k1, k2}
    MaxJobs = 1
    Place = {0, 2, 4}
    Distance <- Meridian
INVARIANTS AnsweredIsResolved MergedOnce OneSuggestionAtATime
PROPERTY DeclinedStaysOut
CHECK_DEADLOCK FALSE
