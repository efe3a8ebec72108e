SPECIFICATION Spec
CONSTANTS
    A = A
    B = B
    x1 = x1
    Resources = {r1}
    Orgs = {A, B}
    Users = {u1}
    Nobody = Nobody
    Requests = {q1}
    Tickets = {t1}
    Exchanges = {x1}
    OrgOf <- MCOrgOf
    Calls = {c1}
    MaxReservations = 1
    LookupRows = 3
    HeldItemEndpoints = {"mark_in_use"}
INVARIANTS ExchangeHoldKept
SYMMETRY Interchangeable
CHECK_DEADLOCK FALSE
