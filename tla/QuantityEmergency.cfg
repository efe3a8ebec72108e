SPECIFICATION Spec
CONSTANTS
    A = A
    B = B
    x1 = x1
    NoOrg = NoOrg
    Pools = {r1}
    Orgs = {A, B}
    Requests = {q1, q2}
    Tickets = {t1, t2}
    Exchanges = {}
    OrgOf <- MCOrgOf
    Calls = {c1, c2}
    LookupRows = 3
    Quantities = {1, 2}
    MaxUnits = 3
SYMMETRY Interchangeable
INVARIANTS TypeOK ClaimsAgree AllocatedAccounted
CHECK_DEADLOCK FALSE
