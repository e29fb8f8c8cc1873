---------------------------- MODULE MCEntityReads ----------------------------
(* Small instances of EntityReads for TLC. *)
EXTENDS EntityReads

\* Names tie, and are spelled with what CSV must quote.
Dictionary == <<"", "***", "active", "alice", "bob", "deleted", "here", "id7", "id9",
                "there">>
Letters ==
  [w \in ToSet(Dictionary) |->
     CASE w = "" -> <<>>
       [] w = "alice" -> <<"a", Comma>>
       [] w = "bob" -> <<Quote, Break, Quote>>
       [] w = "id7" -> <<Quote>>
       [] OTHER -> <<w>>]

Row(scope, name, secret) ==
  [scope |-> scope, status |-> "active", name |-> name, secret |-> secret]
FourRows == <<Row("here", "alice", "id7"), Row("here", "bob", "id9"),
              Row("here", "bob", "id7"), Row("there", "alice", "id9")>>

Rule(field, pattern, privilege, roles) ==
  [field |-> field, pattern |-> pattern, replacement |-> "***",
   unlessPrivilege |-> privilege, unlessRole |-> roles]
SomeDeclarations ==
  {[namespace |-> "O", deletable |-> TRUE, search |-> {"name", "secret"},
    fields |-> <<"name", "secret">>, privileges |-> [read |-> {}, export |-> {"export"}],
    rules |-> <<Rule("secret", {"id7", "id9"}, "see", {"owner"}),
                Rule("secret", {"id7"}, "audit", {})>>],
   [namespace |-> "G", deletable |-> FALSE, search |-> {},
    fields |-> <<"secret", "status", "name">>, privileges |-> [read |-> {}, export |-> {}],
    rules |-> <<>>]}

SomeCallers ==
  {[scope |-> "here", role |-> "owner", privileges |-> {"export"}],
   [scope |-> "here", role |-> "", privileges |-> {"see", "audit"}],
   [scope |-> "there", role |-> "guest", privileges |-> {"see", "export"}]}

Raw(page, size, q, sort, filter) ==
  [page |-> page, pageSize |-> size, q |-> q, sort |-> sort, order |-> "desc",
   filter |-> filter]
SomeQueries ==
  {Raw(<<>>, <<>>, {}, "none", <<>>),
   Raw(<<0>>, <<1>>, {}, "name", <<>>),
   Raw(<<1>>, <<1>>, {"bob", "id9"}, "none", "name" :> [parts |-> <<"alice">>]),
   Raw(<<2>>, <<0>>, {}, "none", "name" :> [from |-> "bob", to |-> ""]),
   Raw(<<1>>, <<9>>, {}, "none", "status" :> [parts |-> <<"active", "", "deleted">>]),
   Raw(<<1>>, <<2>>, {}, "name", "name" :> [first |-> "bob"]),
   Raw(<<1>>, <<1>>, {}, "none", "status" :> [parts |-> <<"deleted">>])}
=============================================================================
