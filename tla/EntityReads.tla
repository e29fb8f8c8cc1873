---------------------------- MODULE EntityReads ----------------------------
(***************************************************************************)
(* The reads of entity-crud: list, export and detail of service-factory.ts *)
(* with the query parser, masking and CSV they use.  A caller walks the    *)
(* pages of a list, or takes an export, while others write the table; each *)
(* page is a query of its own, followed by a count.                        *)
(*                                                                         *)
(* The repository is external: rows that tie on the sort column come in any*)
(* order, another in every query.  A value is a word, and the pattern of a *)
(* filter, search or masking rule is the set of words it matches.          *)
(***************************************************************************)
EXTENDS Naturals, Sequences, FiniteSets, SequencesExt, FiniteSetsExt, TLC

CONSTANTS
  RowIds,           \* rows, numbered in the order of their hash ids
  Inserted,         \* Inserted[i]: what row i is when it is inserted
  Words,            \* the values of columns, in the database's order
  Spelling,         \* Spelling[w]: the characters of w
  Declarations,     \* what may be declared of the entity
  Callers,          \* who reads
  Queries,          \* query strings they send
  DefaultPageSize, MaxPageSize, ExportFloor, ExportCap,
  MaxWrites         \* bound on the writes

Columns == {"scope", "status", "name", "secret"}
Vocabulary == ToSet(Words)
Rows == [Columns -> Vocabulary]
Rules == [field : STRING, pattern : SUBSET Vocabulary, replacement : Vocabulary,
          unlessPrivilege : STRING, unlessRole : SUBSET STRING]

ASSUME Limits ==
  /\ {DefaultPageSize, MaxPageSize, ExportFloor, ExportCap} \subseteq Nat \ {0}
  /\ MaxWrites \in Nat

ASSUME Table ==
  /\ RowIds \subseteq Nat /\ IsFiniteSet(RowIds)
  /\ Words \in Seq(STRING) /\ "deleted" \in Vocabulary
  /\ Inserted \in [RowIds -> Rows]
  /\ Spelling \in [Vocabulary -> Seq(STRING)]

\* What the schema of a declaration demands of it, and a query of its numbers:
\* an array of fields is not empty, and who sorts does so by a column.
ASSUME Declared ==
  /\ \A d \in Declarations : /\ d.deletable \in BOOLEAN /\ d.search \subseteq Columns
                             /\ d.fields \in Seq(Columns) \ {<<>>}
                             /\ d.rules \in Seq(Rules)
  /\ \A raw \in Queries : /\ {raw.page, raw.pageSize} \subseteq Seq(Int)
                          /\ raw.sort \in Columns \cup {"none"}

VARIABLES
  declaration,  \* the entity's
  stored,       \* the table
  writes,       \* the writes so far
  walk,         \* the caller's progress: its query and the pages it has got
  detail        \* the row it opened then

readsVars == <<declaration, stored, writes, walk, detail>>

NoRow == <<>>
NoWalk == [pc |-> "idle"]

ReadsInit ==
  /\ declaration \in Declarations
  /\ \E S \in SUBSET RowIds : stored = [i \in RowIds |-> IF i \in S THEN Inserted[i] ELSE NoRow]
  /\ writes = 0
  /\ walk = NoWalk
  /\ detail = NoRow

-----------------------------------------------------------------------------
(* parseQuery().  A number is <<n>>, and <<>> when absent or no number.     *)

ClampInt(v, fallback, low, high) ==
  IF v = <<>> THEN fallback ELSE Max({low, Min({high, v[1]})})

\* A string is split at its commas, into words with no blanks around them; an
\* object has a range's ends, "" for none, or else stands for its first value,
\* and that which is no string, or null, for the empty string.
CoerceFilter(v) ==
  CASE "first" \in DOMAIN v -> [eq |-> v.first]
    [] "parts" \notin DOMAIN v -> v
    [] Len(v.parts) = 1 -> [eq |-> v.parts[1]]
    [] OTHER -> [oneOf |-> ToSet(v.parts) \ {""}]

LastPage == 1000000
ParseQuery(raw) ==
  [page |-> ClampInt(raw.page, 1, 1, LastPage),
   pageSize |-> ClampInt(raw.pageSize, DefaultPageSize, 1, MaxPageSize),
   q |-> raw.q, sort |-> raw.sort, desc |-> raw.order = "desc",
   filters |-> [f \in DOMAIN raw.filter |-> CoerceFilter(raw.filter[f])]]

Place(w) == CHOOSE n \in DOMAIN Words : Words[n] = w

\* The words a shape admits; with neither end a range admits all.
FilterShapeToTypeOrm(shape) ==
  CASE "eq" \in DOMAIN shape -> {shape.eq}
    [] "oneOf" \in DOMAIN shape -> shape.oneOf
    [] OTHER -> {w \in Vocabulary : /\ shape.from # "" => Place(shape.from) <= Place(w)
                                    /\ shape.to # "" => Place(w) <= Place(shape.to)}

-----------------------------------------------------------------------------
(* What list() asks of the repository.                                      *)

Scoped == declaration.namespace # "G"
ScopeClause(caller) == IF Scoped THEN [scope |-> {caller.scope}] ELSE <<>>
NotDeleted == IF declaration.deletable THEN [status |-> Vocabulary \ {"deleted"}] ELSE <<>>
Filters(query) == [f \in DOMAIN query.filters |-> FilterShapeToTypeOrm(query.filters[f])]

\* Clauses assigned over others: a filter takes the place of the one on its column.
Assigned(new, old) ==
  [f \in DOMAIN new \cup DOMAIN old |-> IF f \in DOMAIN new THEN new[f] ELSE old[f]]
Where_DefaultsLast(caller, query) == Assigned(NotDeleted, Assigned(ScopeClause(caller), Filters(query)))
Where(caller, query) == Assigned(Filters(query), Assigned(NotDeleted, ScopeClause(caller)))

\* A search is one where clause per searched column, in place of its filter.
Clauses(caller, query) ==
  IF query.q # {} /\ declaration.search # {}
  THEN {Assigned([g \in {f} |-> query.q], Where(caller, query)) : f \in declaration.search}
  ELSE {Where(caller, query)}

Found(table, caller, query) ==
  {i \in RowIds : table[i] # NoRow /\ \E w \in Clauses(caller, query) :
                                    \A f \in DOMAIN w : table[i][f] \in w[f]}

\* By the sort column, or by hash id, the highest first.
Ranked(i, j, query) ==
  IF query.sort = "none" THEN i > j
  ELSE LET m == Place(stored[i][query.sort])  n == Place(stored[j][query.sort])
       IN IF query.desc THEN m >= n ELSE m <= n
Arrangements(S, query) ==
  {s \in SetToSeqs(S) : \A m, n \in DOMAIN s : m < n => Ranked(s[m], s[n], query)}

Page_SkipsOne(s, query) ==
  SubSeq(s, query.page * query.pageSize, Min({Len(s), query.page * query.pageSize}))
Page(s, query) ==
  SubSeq(s, (query.page - 1) * query.pageSize + 1, Min({Len(s), query.page * query.pageSize}))

-----------------------------------------------------------------------------
(* Masking, of a copy of each row.                                          *)

ShouldMask_UnlessBoth(rule, caller) ==
  ~ (rule.unlessPrivilege \in caller.privileges /\ caller.role \in rule.unlessRole)
ShouldMask(rule, caller) ==
  rule.unlessPrivilege \notin caller.privileges /\ caller.role \notin rule.unlessRole

ApplyPattern(word, rule) == IF word \in rule.pattern THEN rule.replacement ELSE word

ApplyRule(row, rule, caller) ==
  IF ShouldMask(rule, caller) THEN [row EXCEPT ![rule.field] = ApplyPattern(@, rule)] ELSE row

MaskRow(row, caller) ==
  LET rules == declaration.rules
      masked[n \in 0 .. Len(rules)] ==
        IF n = 0 THEN row ELSE ApplyRule(masked[n - 1], rules[n], caller)
  IN masked[Len(rules)]

\* A row as it is replied (`was` is history: as it was stored then).
Shown(i, caller) == [id |-> i, row |-> MaskRow(stored[i], caller), was |-> stored[i]]

-----------------------------------------------------------------------------
(* rowsToCsv().                                                             *)

Comma == ","
Quote == "quote"
Break == "break"

CsvCell(cell) ==
  IF {Comma, Quote, Break} \cap ToSet(cell) = {} THEN cell
  ELSE <<Quote>> \o FlattenSeq([n \in DOMAIN cell |->
                      IF cell[n] = Quote THEN <<Quote, Quote>> ELSE <<cell[n]>>]) \o <<Quote>>

Joined(parts, separator) ==
  FlattenSeq([n \in DOMAIN parts |-> IF n = 1 THEN parts[n] ELSE <<separator>> \o parts[n]])

\* The cells of an export: the declared columns' names, then a line for a row.
Lines(items) ==
  LET columns == declaration.fields
  IN <<[c \in DOMAIN columns |-> <<columns[c]>>]>>
     \o [n \in DOMAIN items |-> [c \in DOMAIN columns |-> Spelling[items[n].row[columns[c]]]]]

RowsToCsv(items) ==
  LET lines == Lines(items)
  IN Joined([n \in DOMAIN lines |-> Joined([c \in DOMAIN lines[n] |-> CsvCell(lines[n][c])],
                                           Comma)], Break)

-----------------------------------------------------------------------------
(* The requests.                                                            *)

Tied(S, query) == /\ query.sort # "none"
                  /\ \E i, j \in S : i # j /\ stored[i][query.sort] = stored[j][query.sort]

\* The first statement of findAndCount().  (`first`, `due`, `grew`, `shrank`
\* and `tied` are history: where the walk began, what matched then, and what
\* became of it since.)
Select(w) ==
  LET S == Found(stored, w.caller, w.query)
  IN \E s \in Arrangements(S, w.query) :
       LET page == Page(s, w.query)
       IN walk' = [w EXCEPT !.pc = "counting", !.got = Len(page),
                            !.seen = @ \o [n \in DOMAIN page |-> Shown(page[n], w.caller)],
                            !.due = IF w.pc = "idle" THEN S ELSE @,
                            !.tied = @ \/ Tied(S, w.query)]

Walk(op, caller, query) ==
  [pc |-> "idle", op |-> op, caller |-> caller, query |-> query,
   first |-> query.page, got |-> 0, seen |-> <<>>, total |-> 0, text |-> <<>>,
   due |-> {}, grew |-> FALSE, shrank |-> FALSE, tied |-> FALSE]

\* The guards let through who has what the declaration demands for the handler.
Permitted(caller, op) == declaration.privileges[op] \subseteq caller.privileges

List(caller, raw) ==
  /\ walk = NoWalk /\ Permitted(caller, "read")
  /\ Select(Walk("list", caller, ParseQuery(raw)))
  /\ UNCHANGED <<declaration, stored, writes, detail>>

\* exportCsv() is a list() of one large page.
ExportCsv(caller, raw) ==
  /\ walk = NoWalk /\ Permitted(caller, "export")
  /\ Select(Walk("export", caller,
       [ParseQuery(raw) EXCEPT !.page = 1,
                               !.pageSize = Min({ExportCap, Max({@, ExportFloor})})]))
  /\ UNCHANGED <<declaration, stored, writes, detail>>

\* The second statement of findAndCount(), and the reply.
Count ==
  /\ walk.pc = "counting"
  /\ walk' = [walk EXCEPT
       !.total = Cardinality(Found(stored, walk.caller, walk.query)),
       !.text = IF walk.op = "export" THEN RowsToCsv(walk.seen) ELSE @,
       !.pc = IF walk.op = "export" \/ walk.got < walk.query.pageSize THEN "done" ELSE "paging"]
  /\ UNCHANGED <<declaration, stored, writes, detail>>

\* After a full page the caller asks for the next one.
NextPage ==
  /\ walk.pc = "paging"
  /\ Select([walk EXCEPT !.query.page = @ + 1])
  /\ UNCHANGED <<declaration, stored, writes, detail>>

\* findOne() knows the scope, and nothing of soft deletion.
Reachable(i, caller) == stored[i] # NoRow /\ (Scoped => stored[i].scope = caller.scope)

FindOne(i) ==
  /\ walk.pc = "done" /\ detail = NoRow /\ Permitted(walk.caller, "read")
  /\ detail' = [id |-> i, items |-> IF Reachable(i, walk.caller)
                                    THEN <<Shown(i, walk.caller)>> ELSE <<>>]
  /\ UNCHANGED <<declaration, stored, writes, walk>>

\* Others write: what the rest of the service does to a row (until the caller
\* has opened one).
Versions(i) ==
  IF stored[i] = NoRow THEN {Inserted[i]}
  ELSE {NoRow} \cup (IF declaration.deletable THEN {[stored[i] EXCEPT !.status = "deleted"]} ELSE {})
       \cup {[stored[i] EXCEPT !.name = Inserted[j].name] : j \in RowIds}

Write(i) ==
  /\ writes < MaxWrites /\ writes' = writes + 1 /\ detail = NoRow
  /\ \E row \in Versions(i) \ {stored[i]} :
       /\ stored' = [stored EXCEPT ![i] = row]
       /\ walk' = IF walk = NoWalk THEN walk
                  ELSE LET before == Found(stored, walk.caller, walk.query)
                           after == Found(stored', walk.caller, walk.query)
                           moved == walk.query.sort # "none" /\ i \in before \cap after
                       IN [walk EXCEPT !.grew = @ \/ moved \/ ~ (after \subseteq before),
                                       !.shrank = @ \/ moved \/ ~ (before \subseteq after)]
  /\ UNCHANGED <<declaration, detail>>

WalkFinished == walk.pc = "done" /\ UNCHANGED readsVars

ReadsNext ==
  \/ \E caller \in Callers, raw \in Queries : List(caller, raw) \/ ExportCsv(caller, raw)
  \/ Count \/ NextPage
  \/ \E i \in RowIds : FindOne(i) \/ Write(i)
  \/ WalkFinished

ReadsSpec == ReadsInit /\ [][ReadsNext]_readsVars

-----------------------------------------------------------------------------
(* Properties                                                              *)

Item == [id : RowIds, row : Rows, was : Rows]

\* Types.
ReadsTypeOK ==
  /\ declaration \in Declarations
  /\ \A i \in RowIds : stored[i] = NoRow \/ stored[i] \in Rows
  /\ writes \in 0 .. MaxWrites
  /\ walk # NoWalk => /\ walk.pc \in {"counting", "paging", "done"}
                      /\ walk.op \in {"list", "export"}
                      /\ walk.caller \in Callers
                      /\ walk.seen \in Seq(Item)
                      /\ {walk.total, walk.got} \subseteq 0 .. Cardinality(RowIds)
  /\ detail # NoRow => detail.id \in RowIds /\ detail.items \in Seq(Item)

\* What is listed meets every filter, is in the caller's scope and not deleted
\* unless the query names the column; a search meets some searched column, and
\* the filters on the others.
ListedMatch ==
  walk # NoWalk => \A n \in DOMAIN walk.seen :
    LET was == walk.seen[n].was
        filters == walk.query.filters
        searched == IF walk.query.q # {} THEN declaration.search ELSE {}
        named == DOMAIN filters \cup searched
    IN /\ declaration.namespace # "G" /\ "scope" \notin named => was.scope = walk.caller.scope
       /\ declaration.deletable /\ "status" \notin named => was.status # "deleted"
       /\ searched # {} => \E f \in searched : was[f] \in walk.query.q
       /\ \A f \in DOMAIN filters \ searched : was[f] \in FilterShapeToTypeOrm(filters[f])

\* Page by page, each by a query of its own, a walk that ends has listed what
\* matched when it began: from the first page on nothing is left out while rows
\* are only added, nothing comes twice while rows only go, and if neither happened
\* only that is listed and the total is its number.  Not so where rows tie on the
\* sort column.  An export is whole when it fits its page.
WalkTells ==
  (walk.pc = "done" /\ ~ walk.tied) =>
    LET ids == [n \in DOMAIN walk.seen |-> walk.seen[n].id]
        fits == walk.op = "list" \/ Cardinality(walk.due) <= walk.query.pageSize
    IN /\ walk.first = 1 /\ ~ walk.shrank /\ fits => walk.due \subseteq ToSet(ids)
       /\ ~ walk.grew => IsInjective(ids)
       /\ ~ walk.grew /\ ~ walk.shrank =>
            ToSet(ids) \subseteq walk.due /\ walk.total = Cardinality(walk.due)

\* "a rule masks a field unless ANY of its conditions is satisfied": a reply
\* shows a stored value if every rule that matches it excuses the caller, and
\* otherwise what some rule on its column puts in its place.
Excused(rule, caller) ==
  rule.unlessPrivilege \in caller.privileges \/ caller.role \in rule.unlessRole
RulesOn(f, caller) ==
  {rule \in ToSet(declaration.rules) : rule.field = f /\ ~ Excused(rule, caller)}
ReadsAreMasked ==
  walk # NoWalk =>
    LET items == walk.seen \o (IF detail = NoRow THEN <<>> ELSE detail.items)
    IN \A n \in DOMAIN items : \A f \in DOMAIN items[n].row :
         LET rules == RulesOn(f, walk.caller)
             shown == items[n].row[f]
             was == items[n].was[f]
         IN IF \E rule \in rules : was \in rule.pattern
            THEN \E rule \in rules : shown = rule.replacement
            ELSE shown = was

\* An export, read as RFC 4180 says, gives the cells it was made of: also those
\* with commas, quotes and line breaks.
Scanned(s, ch) ==
  CASE ch = Quote -> [s EXCEPT !.open = ~ @, !.last = ch,
                               !.cell = IF ~ s.open /\ s.last = Quote THEN Append(@, ch) ELSE @]
    [] ch = Comma /\ ~ s.open -> [s EXCEPT !.last = ch, !.line = Append(@, s.cell), !.cell = <<>>]
    [] ch = Break /\ ~ s.open -> [s EXCEPT !.last = ch, !.lines = Append(@, Append(s.line, s.cell)),
                                           !.line = <<>>, !.cell = <<>>]
    [] OTHER -> [s EXCEPT !.last = ch, !.cell = Append(@, ch)]
Unread == [lines |-> <<>>, line |-> <<>>, cell |-> <<>>, open |-> FALSE, last |-> Break]
ReadCsv(text) ==
  LET scan[n \in 0 .. Len(text)] == IF n = 0 THEN Unread ELSE Scanned(scan[n - 1], text[n])
      end == scan[Len(text)]
  IN Append(end.lines, Append(end.line, end.cell))
ExportReadsBack ==
  (walk.pc = "done" /\ walk.op = "export") => ReadCsv(walk.text) = Lines(walk.seen)

\* The invariant of list(), findOne() and exportCsv(): the states are of their
\* types, what was listed matches the query and its caller's scope, and the CSV
\* of an export gives back the rows it was made of.
ReadsInv == ReadsTypeOK /\ ListedMatch /\ ExportReadsBack
=============================================================================
