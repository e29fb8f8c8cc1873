---------------------------- MODULE MCMongoHooks ----------------------------
(* Small instances of MongoHooks for TLC. *)
EXTENDS MongoHooks, TLC

CONSTANTS h1, h2, row, mail, note, p, q, k1, k2

Symmetry == Permutations(Handles) \cup Permutations(Plain) \cup Permutations(Tokens)
=============================================================================
