SPECIFICATION Spec
CONSTANTS
    ana = ana
    bob = bob
    cai = cai
    dan = dan
    eva = eva
    fox = fox
    o1 = o1
    o2 = o2
    r1 = r1
    r2 = r2
    User = {ana, bob, cai, dan, eva, fox}
    Client = {ana, bob, cai, dan}
    Offer = {o1}
    Author <- OfferAuthor
    Req = {r1}
    Subscriber = {ana, bob, cai, dan}
    Volatile = {}
    Payer = {}
    Lossy = FALSE
INVARIANT MatchedIsShown
