SPECIFICATION Spec
CONSTANTS
    A = A
    B = B
    x1 = x1
    NoOrg = NoOrg
    Pools = {r1}
    Orgs = {A, B}
    Requests = {q1, q2}
    Tickets = {}
    Exchanges = {}
    OrgOf <- MCOrgOf
    Calls = {c1, c2}
    LookupRows = 2
    Quantities = {1, 2}
    MaxUnits = 2
PROPERTY ReleaseReturnsUnits
CHECK_DEADLOCK FALSE
