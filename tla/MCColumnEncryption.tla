------------------------- MODULE MCColumnEncryption -------------------------
(* Small instances of ColumnEncryption for TLC. *)
EXTENDS ColumnEncryption, TLC

CONSTANTS p1, p2, pan, mail

Order == <<pan, mail>>
Values == {"", "ada", "v1:a:b:c:d"}

Key(id, material) == [id |-> id, material |-> material]
\* One key; a second one, made active; the first retired, or its material
\* replaced under the same id; an active id that is not there.
Deployments ==
  { [keys |-> <<Key("k1", "m1")>>, active |-> "none"],
    [keys |-> <<Key("k1", "m1"), Key("k2", "m2")>>, active |-> "k2"],
    [keys |-> <<Key("k1", "m0"), Key("k1", "m2")>>, active |-> "none"],
    [keys |-> <<Key("k2", "m2")>>, active |-> "k1"] }

Symmetry == Permutations(Procs)
=============================================================================
