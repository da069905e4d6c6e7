SPECIFICATION Spec
CONSTANTS
    ana = ana
    bob = bob
    cai = cai
    dan = dan
    eva = eva
    fox = fox
    o1 = o1
    o2 = o2
    r1 = r1
    r2 = r2
    User = {ana, bob, cai, dan, eva, fox}
    Client = {ana, bob, cai}
    Offer = {o1, o2}
    Author <- OfferAuthor
    Req = {r1, r2}
    Subscriber = {ana, cai}
    Volatile = {cai}
    Payer = {bob}
    Lossy = TRUE
SYMMETRY Requests
INVARIANTS ClosedOnce  EntryIsPaid
PROPERTY ImplementsCompetition
