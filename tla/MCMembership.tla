----------------------------- MODULE MCMembership -----------------------------
(* Values for Membership: o is the owner the application creates, a and b the *)
(* others, each with an invitation.                                           *)
EXTENDS Membership, TLC

CONSTANTS o, a, b, io, ia, ib

MCInviteOf == (o :> io @@ a :> ia @@ b :> ib)

MCInviteOfPair == (a :> ia @@ b :> ib)

\* a and b change places together with their invitations, and calls are alike.
Swap == (a :> b @@ b :> a @@ ia :> ib @@ ib :> ia)

Interchangeable == Permutations(Calls) \cup {Swap}
==============================================================================
