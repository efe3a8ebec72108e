SPECIFICATION FairSpec
CONSTANTS
    Offers = {o1, o2}
    NoOffer = NoOffer
    Sessions = {s1, s2}
    NoSession = NoSession
    IssueCap = 2
    Calls = {c1, c2}
    Worker = Worker
    Malformed = {o2}
INVARIANTS TypeOK HoldFollowsRequest OfferFollowsRequest OneCode
PROPERTIES ImplementsDeal OverdueRequestEnds
CHECK_DEADLOCK FALSE
