------------------------ MODULE MCModuleAnnouncement ------------------------
(* Small instances of ModuleAnnouncement for TLC. *)
EXTENDS ModuleAnnouncement

CONSTANTS r1, r2, a, b

\* The shapes manifests declare dependencies in.
Shapes ==
  { [kind |-> "none"],
    [kind |-> "list", items |-> <<a, b>>],
    [kind |-> "object", items |-> <<<<"business", <<a>>>>, <<"platform", <<b>>>>>>],
    [kind |-> "object", items |-> <<<<"requires", <<a>>>>, <<"optional", <<b>>>>>>] }
=============================================================================
