SPECIFICATION AfterSpec
CONSTANTS
    ana = ana
    bob = bob
    cai = cai
    eva = eva
    fox = fox
    gil = gil
    hal = hal
    o1 = o1
    o2 = o2
    x1 = x1
    x2 = x2
    x3 = x3
    p1 = p1
    p2 = p2
    q1 = q1
    q2 = q2
    r1 = r1
    User = {ana, bob, cai, eva, fox, gil, hal}
    Client = {ana, bob, cai}
    Offer = {o1, o2}
    Author <- OfferAuthor
    Req = {r1}
    Subscriber = {ana, bob, cai}
    Volatile = {}
    Payer = {}
    Lossy = FALSE
    CustomsOffer = {x1, x2, x3}
    Rep <- OfferRep
    CReq = {q1, q2}
    Past = {p1, p2}
    PastClient <- PastClients
    PastCarrier <- PastCarriers
    Busy = {ana}
SYMMETRY Interchangeable
INVARIANTS CustomsOnce OncePerDeal PartnersAreRevealed DealsMirrored 
PROPERTY CustomsImplementCompetition
