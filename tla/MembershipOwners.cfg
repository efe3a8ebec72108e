\* Two owners, as rows written outside the application may have it.
SPECIFICATION Spec
CONSTANTS
    o = o
    a = a
    b = b
    io = io
    ia = ia
    ib = ib
    Users = {a, b}
    Invites = {ia, ib}
    InviteOf <- MCInviteOfPair
    Owners = {a, b}
    Assignable = {"ADMIN", "MEMBER"}
    Calls = {c1, c2}
    MaxEpoch = 2
INVARIANTS LastOwnerKept
SYMMETRY Interchangeable
