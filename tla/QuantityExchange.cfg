SPECIFICATION Spec
CONSTANTS
    A = A
    B = B
    x1 = x1
    NoOrg = NoOrg
    Pools = {r1, r2}
    Orgs = {A, B}
    Requests = {q1}
    Tickets = {}
    Exchanges = {x1}
    OrgOf <- MCOrgOf
    Calls = {c1, c2}
    LookupRows = 2
    Quantities = {1, 2}
    MaxUnits = 2
SYMMETRY Interchangeable
INVARIANTS PoolBalanced AllocatedAccounted
PROPERTY ImplementsBank
CHECK_DEADLOCK FALSE
