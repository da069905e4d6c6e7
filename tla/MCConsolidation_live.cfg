SPECIFICATION ConsFairSpec
CONSTANTS
    ana = ana
    bob = bob
    cai = cai
    dan = dan
    c1 = c1
    c2 = c2
    c3 = c3
    o1 = o1
    User = {ana, bob, cai, dan}
    Cargo = {c1, c2}
    Offer = {o1}
    Owner <- PairOwner
    CargoOf <- OneCargoOf
    Author <- OneAuthor
    ToolHolder = {dan}
    Req = {r1}
    Resp = {q1}
    FreeLimit = 1
    SubLimit = 1
    Sugg = {s1}
    Cons = {k1}
    MaxJobs = 1
    Place = {0, 2, 4}
    Distance <- Meridian
PROPERTIES AnswersEnd
CHECK_DEADLOCK FALSE
