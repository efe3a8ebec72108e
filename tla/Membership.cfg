\* The organization as the application creates it, with one owner.
SPECIFICATION Spec
CONSTANTS
    o = o
    a = a
    b = b
    io = io
    ia = ia
    ib = ib
    Users = {o, a, b}
    Invites = {io, ia, ib}
    InviteOf <- MCInviteOf
    Owners = {o}
    Assignable = {"ADMIN", "MEMBER"}
    Calls = {c1, c2}
    MaxEpoch = 5
INVARIANTS TypeOK LastOwnerKept EpochsDistinct
PROPERTIES NoLostUpdate
SYMMETRY Interchangeable
