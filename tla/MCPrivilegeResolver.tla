------------------------ MODULE MCPrivilegeResolver ------------------------
(* Small instances of PrivilegeResolver for TLC. *)
EXTENDS PrivilegeResolver, TLC

CONSTANTS r1, r2, r3, r4, h1, h2, h3, h0, p1, p2

Calls3 == {r1, r2, r3}
Calls4 == {r1, r2, r3, r4}
CallSymmetry == Permutations(Requests)

\* h0 is the hash of a user who holds no privilege.
Sets == (h1 :> {p1}) @@ (h2 :> {p2}) @@ (h3 :> {p1, p2}) @@ (h0 :> {})
SetsOf == [h \in Hashes |-> Sets[h]]
=============================================================================
