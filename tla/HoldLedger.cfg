SPECIFICATION FairSpec
CONSTANTS
    A = A
    B = B
    x1 = x1
    Resources = {r1}
    Orgs = {A, B}
    Users = {u1}
    Nobody = Nobody
    Requests = {q1}
    Tickets = {t1}
    Exchanges = {x1}
    OrgOf <- MCOrgOf
    Calls = {c1}
    MaxReservations = 2
    LookupRows = 3
    HeldItemEndpoints = {}
INVARIANTS TypeOK HoldExclusive HoldOwner ExchangeAgrees
PROPERTIES ImplementsLock RunningReservationKept LapsedReservationEnds OverdueAllocationEnds OverdueExchangeEnds
CHECK_DEADLOCK FALSE
