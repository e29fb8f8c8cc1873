------------------------ MODULE EntityCrud_proofs ------------------------
(* What holds of entity-crud: of the writes (EntityService) for any number  *)
(* of callers, rows, fields and values, whichever rows are shared, and of   *)
(* the reads (EntityReads) for every table, declaration, caller and query.  *)
(* The two share no state.                                                  *)
EXTENDS EntityService, EntityReads, FiniteSetTheorems, SequenceTheorems,
        WellFoundedInduction, TLAPS

-----------------------------------------------------------------------------
(* EntityService                                                           *)

-----------------------------------------------------------------------------
(* The invariant                                                           *)

\* The database took one write of call c, or none; no event tells of it.
Unwritten(c) == \A k \in DOMAIN commits : commits[k].by # c
Written(c) == \E k \in DOMAIN commits : /\ commits[k].by = c
                                        /\ \A j \in DOMAIN commits : commits[j].by = c => j = k
Untold(c) == \A i \in DOMAIN trail : trail[i].by # c

\* A call has written what its progress says, and only a reply leaves an event.
Accounted(c) ==
  /\ call[c].pc \in {"idle", "saving", "deleting"} => Unwritten(c)
  /\ call[c].pc = "auditing" => Written(c)
  /\ call[c].pc = "replied" => IF call[c].code < 300 THEN Written(c) ELSE Unwritten(c)
  /\ call[c].pc # "replied" => Untold(c)

\* The event a call is about to send tells of its write.
Tellable(c) ==
  call[c].pc = "auditing" => \E k \in DOMAIN commits : TellsOf(Event(c), commits[k])

\* Some create() gave the readonly fields of a row their values.
Granted(id, row) ==
  \A f \in ReadOnly : \E k \in DOMAIN commits :
    /\ commits[k].op = "created" /\ commits[k].id = id
    /\ commits[k].row.data[f] = row.data[f]

\* What a call has in hand to write.
InHand(c) ==
  /\ call[c].pc = "saving" =>
       /\ call[c].row # None
       /\ call[c].op # "created" => Granted(call[c].id, call[c].row)
  /\ call[c].pc = "deleting" => call[c].op = "deleted" /\ call[c].row = None

\* Where callers take turns, the row is still the one the call has read.
Fresh(c) ==
  (Writing(c) /\ call[c].id \in Serial) =>
    LET row == rows[call[c].id] IN
    /\ call[c].op = "created" =>
         row = None /\ call[c].before = None /\ call[c].ifMatch = NoMatch
    /\ call[c].op = "updated" =>
         /\ row # None /\ call[c].before = row /\ ~ Stale(row, call[c].ifMatch)
         /\ \E p \in Patches : call[c].row = Patched(row, p) /\ call[c].asks = DOMAIN p
    /\ call[c].op = "deleted" =>
         /\ row # None /\ call[c].ifMatch = NoMatch
         /\ IF call[c].id \in SoftDelete
            THEN /\ call[c].row = Removed(row) /\ call[c].before = call[c].row
                 /\ call[c].asks = {"status"}
            ELSE call[c].row = None /\ call[c].before = row

\* Where callers take turns, no two are about to write one row.
TakeTurns ==
  \A c, d \in Calls :
    (Writing(c) /\ Writing(d) /\ call[c].id = call[d].id /\ call[c].id \in Serial) => c = d

Inv ==
  /\ TypeOK /\ ReadOnlyFromCreate /\ TrailTellsWrites /\ TakeTurns
  /\ \A c \in Calls : Accounted(c) /\ Tellable(c) /\ InHand(c) /\ Fresh(c)

-----------------------------------------------------------------------------
(* The parts of a step                                                     *)

InProgress ==
  [pc : {"saving", "deleting", "auditing"}, op : Ops, id : Ids,
   row : Row \cup {None}, before : Row \cup {None}, ifMatch : IfMatches,
   asks : SUBSET RowColumns]
Done == [pc : {"replied"}, code : Replies]

\* The progress of a call is of one of four shapes.
LEMMA Shapes ==
  ASSUME TypeOK, NEW c \in Calls
  PROVE  \/ call[c].pc = "idle" \/ call[c].pc = "dead"
         \/ call[c].pc = "replied" /\ call[c] \in Done
         \/ call[c].pc \in {"saving", "deleting", "auditing"} /\ call[c] \in InProgress
<1>1. call[c] \in {Idle, [pc |-> "dead"]} \cup Done \cup InProgress
  BY DEF TypeOK, Done, InProgress
<1>2. CASE call[c] \in {Idle, [pc |-> "dead"]}
  BY <1>2 DEF Idle
<1>3. CASE call[c] \in Done
  BY <1>3 DEF Done
<1>4. CASE call[c] \in InProgress
  BY <1>4 DEF InProgress
<1>5. QED
  BY <1>1, <1>2, <1>3, <1>4

\* A row is not None.
LEMMA RowThere == ASSUME NEW r \in Row PROVE r # None
BY DEF Row, None

\* A step that leaves the table, the writes and the events alone, and sets the
\* progress of one call, keeps what is said of the others.
LEMMA OneCall ==
  ASSUME Inv, NEW c \in Calls, NEW v,
         UNCHANGED <<rows, commits, trail>>, linked' \in BOOLEAN,
         call' = [call EXCEPT ![c] = v],
         v \in {[pc |-> "dead"]} \cup Done \cup InProgress,
         Accounted(c)', Tellable(c)', InHand(c)', Fresh(c)',
         v.pc \in {"saving", "deleting"} /\ v.id \in Serial =>
            \A d \in Calls : Writing(d) => call[d].id # v.id
  PROVE  Inv'
<1>1. call'[c] = v /\ \A d \in Calls : d # c => call'[d] = call[d]
  BY DEF Inv, TypeOK
<1>2. TypeOK'
  <2>1. call' \in [Calls -> {Idle, [pc |-> "dead"]} \cup Done \cup InProgress]
    BY DEF Inv, TypeOK, Done, InProgress
  <2>2. QED
    BY <2>1 DEF Inv, TypeOK, Done, InProgress
<1>3. ReadOnlyFromCreate' /\ TrailTellsWrites'
  BY DEF Inv, ReadOnlyFromCreate, TrailTellsWrites, TellsOf
<1>4. TakeTurns'
  <2> SUFFICES ASSUME NEW d \in Calls, NEW e \in Calls, d # e,
                      Writing(d)', Writing(e)', call'[d].id = call'[e].id, call'[d].id \in Serial
               PROVE  FALSE
    BY DEF TakeTurns
  <2>1. CASE d # c /\ e # c
    BY <1>1, <2>1 DEF Inv, TakeTurns, Writing
  <2>2. CASE d = c
    BY <1>1, <2>2 DEF Writing
  <2>3. CASE e = c
    BY <1>1, <2>3 DEF Writing
  <2>4. QED
    BY <2>1, <2>2, <2>3
<1>5. ASSUME NEW d \in Calls, d # c
      PROVE  Accounted(d)' /\ Tellable(d)' /\ InHand(d)' /\ Fresh(d)'
  <2>1. call'[d] = call[d]
    BY <1>1, <1>5
  <2>2. Accounted(d) /\ Tellable(d) /\ InHand(d) /\ Fresh(d)
    BY DEF Inv
  <2>3. Accounted(d)'
    BY <2>1, <2>2 DEF Accounted, Unwritten, Written, Untold
  <2>4. Tellable(d)'
    BY <2>1, <2>2 DEF Tellable, TellsOf, Event
  <2>5. InHand(d)'
    BY <2>1, <2>2 DEF InHand, Granted
  <2>6. Fresh(d)'
    BY <2>1, <2>2 DEF Fresh, Writing
  <2>7. QED
    BY <2>3, <2>4, <2>5, <2>6
<1>6. QED
  BY <1>2, <1>3, <1>4, <1>5 DEF Inv

\* A call that throws, or dies with its process.
Ending(c, v) ==
  \/ v = [pc |-> "dead"] /\ call[c].pc # "replied"
  \/ /\ call[c].pc \in {"idle", "saving", "deleting"}
     /\ \E code \in {400, 404, 409, 500} : v = Reply(code)
LEMMA Ends ==
  ASSUME Inv, NEW c \in Calls, NEW v,
         UNCHANGED <<rows, commits, trail, linked>>, call' = [call EXCEPT ![c] = v],
         Ending(c, v)
  PROVE  Inv'
<1>1. call'[c] = v
  BY DEF Inv, TypeOK
<1>2. Accounted(c)
  BY DEF Inv
<1>3. v.pc \in {"dead", "replied"} /\ v \in {[pc |-> "dead"]} \cup Done
  BY DEF Ending, Reply, Done, Replies
<1>4. Accounted(c)'
  <2>1. CASE v = [pc |-> "dead"] /\ call[c].pc # "replied"
    BY <1>1, <1>2, <2>1 DEF Accounted, Untold
  <2>2. CASE /\ call[c].pc \in {"idle", "saving", "deleting"}
             /\ \E code \in {400, 404, 409, 500} : v = Reply(code)
    <3>1. v.pc = "replied" /\ ~ (v.code < 300)
      BY <2>2 DEF Reply
    <3>2. QED
      BY <1>1, <1>2, <2>2, <3>1 DEF Accounted, Unwritten
  <2>3. QED
    BY <2>1, <2>2 DEF Ending
<1>5. Tellable(c)' /\ InHand(c)' /\ Fresh(c)'
  BY <1>1, <1>3 DEF Tellable, InHand, Fresh, Writing
<1>6. linked' \in BOOLEAN /\ UNCHANGED <<rows, commits, trail>>
  BY DEF Inv, TypeOK
<1>7. /\ v \in {[pc |-> "dead"]} \cup Done \cup InProgress
      /\ v.pc \in {"saving", "deleting"} /\ v.id \in Serial =>
            \A d \in Calls : Writing(d) => call[d].id # v.id
  BY <1>3
<1>8. QED
  BY <1>4, <1>5, <1>6, <1>7, OneCall

\* A call that has something to write.
LEMMA Begins ==
  ASSUME Inv, NEW c \in Calls, NEW pc \in {"saving", "deleting"}, NEW op \in Ops,
         NEW id \in Ids, NEW row \in Row \cup {None}, NEW before \in Row \cup {None},
         NEW m \in IfMatches, NEW asks \in SUBSET RowColumns,
         MayStart(c, id), Set(c, Busy(pc, op, id, row, before, m, asks)),
         UNCHANGED <<rows, commits, linked, trail>>,
         InHand(c)', Fresh(c)'
  PROVE  Inv'
<1> DEFINE v == Busy(pc, op, id, row, before, m, asks)
<1>1. call' = [call EXCEPT ![c] = v] /\ call'[c] = v /\ call[c] = Idle
  BY DEF Inv, TypeOK, Set, MayStart
<1>2. v \in InProgress /\ v.pc \in {"saving", "deleting"} /\ v.id = id
  BY DEF Busy, InProgress
<1>3. Accounted(c)
  BY DEF Inv
<1>4. Accounted(c)' /\ Tellable(c)'
  BY <1>1, <1>2, <1>3 DEF Accounted, Tellable, Unwritten, Untold, Idle
<1>5. linked' \in BOOLEAN
  BY DEF Inv, TypeOK
<1>6. v.id \in Serial => \A d \in Calls : Writing(d) => call[d].id # v.id
  BY <1>2 DEF MayStart
<1> HIDE DEF v
<1>7. QED
  BY <1>1, <1>2, <1>4, <1>5, <1>6, OneCall

-----------------------------------------------------------------------------
(* The actions                                                             *)

\* There are finitely many callers.
LEMMA CountNat == Cardinality(Calls) \in Nat
BY FewCalls, FS_CardinalityType

\* create() has a row of its own making in hand.
LEMMA CreateStep ==
  ASSUME Inv, NEW c \in Calls, NEW id \in Ids, NEW data \in [Fields -> Values],
         NEW status \in Statuses, Create(c, id, data, status)
  PROVE  Inv'
<1> DEFINE row == [data |-> data, status |-> status, version |-> IF Versioned THEN 1 ELSE 0]
           v == Busy("saving", "created", id, row, None, NoMatch, RowColumns)
<1>1. row \in Row /\ row # None
  BY DEF Row, None
<1>2. MayStart(c, id) /\ (id \in Serial => rows[id] = None) /\ Set(c, v)
      /\ UNCHANGED <<rows, commits, linked, trail>>
  BY DEF Create
<1>3. call'[c] = v
  BY <1>2 DEF Set, Inv, TypeOK
<1>4. /\ v.pc = "saving" /\ v.op = "created" /\ v.id = id /\ v.row = row
      /\ v.before = None /\ v.ifMatch = NoMatch
  BY DEF Busy
<1> HIDE DEF row, v
<1>5. InHand(c)' /\ Fresh(c)'
  BY <1>1, <1>2, <1>3, <1>4 DEF InHand, Fresh
<1>6. NoMatch \in IfMatches /\ "created" \in Ops
  BY CountNat DEF NoMatch, IfMatches, Ops
<1>7. QED
  BY <1>1, <1>2, <1>5, <1>6, Begins DEF v

\* Applying a body makes a row of a row: the version is bumped, and no field
\* changes but those the body names and may write.
LEMMA PatchedIs ==
  ASSUME NEW row \in Row, NEW p \in Patches
  PROVE  /\ Patched(row, p) \in Row
         /\ Patched(row, p).version = Bumped(row)
         /\ \A f \in Fields : f \notin DOMAIN p \ ReadOnly =>
              Patched(row, p).data[f] = row.data[f]
         /\ "status" \notin DOMAIN p => Patched(row, p).status = row.status
         /\ DOMAIN p \subseteq RowColumns
<1>1. /\ row.data \in [Fields -> Values] /\ row.status \in Statuses /\ row.version \in Nat
  BY DEF Row
<1>2. Bumped(row) \in Nat
  BY <1>1 DEF Bumped
<1>3. /\ DOMAIN p \subseteq RowColumns
      /\ \A k \in DOMAIN p : p[k] \in IF k = "status" THEN Statuses ELSE Values
  <2>1. PICK asked \in SUBSET RowColumns :
          /\ p \in [asked -> Values \cup Statuses]
          /\ \A k \in asked : p[k] \in IF k = "status" THEN Statuses ELSE Values
    BY DEF Patches
  <2>2. DOMAIN p = asked
    BY <2>1
  <2>3. QED
    BY <2>1, <2>2
<1>4. Patched(row, p).data \in [Fields -> Values]
  BY <1>1, <1>3, Declaration DEF Patched
<1>5. Patched(row, p).status \in Statuses
  BY <1>1, <1>3 DEF Patched
<1>6. QED
  BY <1>2, <1>3, <1>4, <1>5 DEF Patched, Row

\* update() has a patched copy in hand.
LEMMA UpdateStep ==
  ASSUME Inv, NEW c \in Calls, NEW id \in Ids, NEW p \in Bodies, NEW m \in IfMatches,
         Update(c, id, p, m)
  PROVE  Inv'
<1> DEFINE row == Patched(rows[id], p)
           asks == DOMAIN p
           v == Busy("saving", "updated", id, row, rows[id], m, asks)
<1>1. rows[id] \in Row
  BY DEF Update, Inv, TypeOK
<1>2. /\ row \in Row /\ \A f \in ReadOnly : row.data[f] = rows[id].data[f]
      /\ p \in Patches /\ asks \in SUBSET RowColumns
  BY <1>1, PatchedIs, BodiesArePatches, Declaration
<1>3. MayStart(c, id) /\ rows[id] # None /\ ~ Stale(rows[id], m) /\ Set(c, v)
      /\ UNCHANGED <<rows, commits, linked, trail>>
  BY DEF Update
<1>4. call'[c] = v
  BY <1>3 DEF Set, Inv, TypeOK
<1>5. /\ v.pc = "saving" /\ v.op = "updated" /\ v.id = id /\ v.row = row
      /\ v.before = rows[id] /\ v.ifMatch = m /\ v.asks = asks
  BY DEF Busy
<1>6. Granted(id, rows[id])
  BY <1>3 DEF Inv, ReadOnlyFromCreate, Granted
<1>7. InHand(c)'
  <2>1. row # None
    BY <1>2, RowThere
  <2> HIDE DEF row, v
  <2>2. QED
    BY <1>2, <1>3, <1>4, <1>5, <1>6, <2>1 DEF InHand, Granted
<1>8. Fresh(c)'
  <2>1. \E q \in Patches : row = Patched(rows[id], q) /\ asks = DOMAIN q
    BY <1>2
  <2> HIDE DEF row, v, asks
  <2>2. QED
    BY <1>3, <1>4, <1>5, <2>1 DEF Fresh
<1>9. "updated" \in Ops
  BY DEF Ops
<1> HIDE DEF row, asks
<1>10. QED
  BY <1>1, <1>2, <1>3, <1>7, <1>8, <1>9, Begins

\* remove() has a copy marked as deleted in hand, or nothing.
LEMMA RemoveStep ==
  ASSUME Inv, NEW c \in Calls, NEW id \in Ids, RemoveRow(c, id)
  PROVE  Inv'
<1> DEFINE soft == id \in SoftDelete
           gone == Removed(rows[id])
           row == IF soft THEN gone ELSE None
           before == IF soft THEN gone ELSE rows[id]
           pc == IF soft THEN "saving" ELSE "deleting"
           asks == IF soft THEN {"status"} ELSE RowColumns
           v == Busy(pc, "deleted", id, row, before, NoMatch, asks)
<1>1. rows[id] \in Row
  BY DEF RemoveRow, Inv, TypeOK
<1>2. gone \in Row /\ gone.data = rows[id].data
  <2>1. Bumped(rows[id]) \in Nat
    BY <1>1 DEF Bumped, Row
  <2>2. QED
    BY <1>1, <2>1 DEF Removed, Row, Statuses
<1>3. MayStart(c, id) /\ rows[id] # None /\ Set(c, v)
      /\ UNCHANGED <<rows, commits, linked, trail>>
  BY DEF RemoveRow
<1>4. call'[c] = v
  BY <1>3 DEF Set, Inv, TypeOK
<1>5. /\ v.pc = pc /\ v.op = "deleted" /\ v.id = id /\ v.row = row
      /\ v.before = before /\ v.ifMatch = NoMatch /\ v.asks = asks
  BY DEF Busy
<1>6. Granted(id, gone) /\ gone # None
  <2>1. Granted(id, rows[id])
    BY <1>3 DEF Inv, ReadOnlyFromCreate, Granted
  <2>2. QED
    BY <1>2, <2>1, RowThere DEF Granted
<1>7. InHand(c)'
  <2> HIDE DEF gone, v
  <2>1. QED
    BY <1>3, <1>4, <1>5, <1>6 DEF InHand, Granted
<1>8. Fresh(c)'
  <2> HIDE DEF v
  <2>1. QED
    BY <1>3, <1>4, <1>5 DEF Fresh
<1>9. /\ NoMatch \in IfMatches /\ "deleted" \in Ops /\ pc \in {"saving", "deleting"}
      /\ row \in Row \cup {None} /\ before \in Row \cup {None}
      /\ asks \in SUBSET RowColumns
  BY <1>1, <1>2, CountNat DEF NoMatch, IfMatches, Ops, RowColumns
<1> HIDE DEF row, before, pc, asks
<1>10. QED
  BY <1>3, <1>7, <1>8, <1>9, Begins

\* A write that the database takes.
LEMMA CommitStep ==
  ASSUME Inv, NEW c \in Calls, Writing(c), Commit(c)
  PROVE  Inv'
<1> DEFINE id == call[c].id
           row == call[c].row
           last == Len(commits) + 1
           w == [by |-> c, op |-> call[c].op, id |-> id, was |-> rows[id], row |-> row,
                 asks |-> call[c].asks]
           v == [call[c] EXCEPT !.pc = "auditing"]
<1>1. /\ rows' = [rows EXCEPT ![id] = row] /\ commits' = Append(commits, w)
      /\ call' = [call EXCEPT ![c] = v] /\ linked' = linked /\ trail' = trail
  BY DEF Commit, Set
<1>2. call[c] \in InProgress /\ call[c].pc \in {"saving", "deleting"}
  BY Shapes DEF Inv, Writing
<1>3. id \in Ids /\ row \in Row \cup {None} /\ call[c].op \in Ops
      /\ call[c].before \in Row \cup {None} /\ call[c].asks \in SUBSET RowColumns
  BY <1>2 DEF InProgress
<1>4. /\ v \in InProgress /\ v.pc = "auditing" /\ v.op = call[c].op /\ v.id = id
      /\ v.row = row /\ v.before = call[c].before
  BY <1>2 DEF InProgress
<1>5. /\ rows'[id] = row /\ \A i \in Ids : i # id => rows'[i] = rows[i]
      /\ call'[c] = v /\ \A d \in Calls : d # c => call'[d] = call[d]
  BY <1>1, <1>3 DEF Inv, TypeOK
<1>6. rows[id] \in Row \cup {None}
  BY <1>3 DEF Inv, TypeOK
<1>7. /\ last \in DOMAIN commits' /\ commits'[last] = w
      /\ \A k \in DOMAIN commits : k \in DOMAIN commits' /\ commits'[k] = commits[k]
      /\ \A k \in DOMAIN commits' : k \in DOMAIN commits \/ k = last
  BY <1>1 DEF Inv, TypeOK
<1>8. w.by = c /\ w.op = call[c].op /\ w.id = id /\ w.was = rows[id] /\ w.row = row
  OBVIOUS
<1>9. w \in [by : Calls, op : Ops, id : Ids, was : Row \cup {None}, row : Row \cup {None},
             asks : SUBSET RowColumns]
  BY <1>3, <1>6
<1>10. Accounted(c) /\ InHand(c) /\ Fresh(c)
  BY DEF Inv
<1>11. TypeOK'
  <2>1. rows' \in [Ids -> Row \cup {None}]
    BY <1>1, <1>3 DEF Inv, TypeOK
  <2>2. call' \in [Calls -> {Idle, [pc |-> "dead"]} \cup Done \cup InProgress]
    BY <1>1, <1>4 DEF Inv, TypeOK, Done, InProgress
  <2> HIDE DEF w
  <2>3. commits' \in Seq([by : Calls, op : Ops, id : Ids, was : Row \cup {None},
                          row : Row \cup {None}, asks : SUBSET RowColumns])
    BY <1>1, <1>9 DEF Inv, TypeOK
  <2>4. QED
    BY <1>1, <2>1, <2>2, <2>3 DEF Inv, TypeOK, Done, InProgress
<1> HIDE DEF w, v, last, row, id
<1>12. \A i, r : Granted(i, r) => \A f \in ReadOnly : \E k \in DOMAIN commits' :
         commits'[k].op = "created" /\ commits'[k].id = i /\ commits'[k].row.data[f] = r.data[f]
  BY <1>7 DEF Granted
<1>13. ReadOnlyFromCreate'
  <2> SUFFICES ASSUME NEW i \in Ids, rows'[i] # None, NEW f \in ReadOnly
               PROVE  \E k \in DOMAIN commits' :
                        /\ commits'[k].op = "created" /\ commits'[k].id = i
                        /\ commits'[k].row.data[f] = rows'[i].data[f]
    BY DEF ReadOnlyFromCreate
  <2>1. CASE i # id
    <3>1. Granted(i, rows[i]) /\ rows'[i] = rows[i]
      BY <1>5, <2>1 DEF Inv, ReadOnlyFromCreate, Granted
    <3>2. QED
      BY <1>12, <3>1
  <2>2. CASE i = id
    <3>1. rows'[i] = row /\ call[c].pc = "saving"
      BY <1>2, <1>5, <1>10, <2>2 DEF InHand, row
    <3>2. CASE call[c].op = "created"
      BY <1>7, <1>8, <2>2, <3>1, <3>2
    <3>3. CASE call[c].op # "created"
      <4>1. Granted(id, row)
        BY <1>10, <3>1, <3>3 DEF InHand, row, id
      <4>2. QED
        BY <1>12, <2>2, <3>1, <4>1
    <3>4. QED
      BY <3>2, <3>3
  <2>3. QED
    BY <2>1, <2>2
<1>14. TrailTellsWrites'
  BY <1>1, <1>7 DEF Inv, TrailTellsWrites, TellsOf
<1>15. TakeTurns'
  BY <1>4, <1>5 DEF Inv, TakeTurns, Writing
<1>16. ASSUME NEW d \in Calls, d # c
       PROVE  Accounted(d)' /\ Tellable(d)' /\ InHand(d)' /\ Fresh(d)'
  <2>1. call'[d] = call[d] /\ Accounted(d) /\ Tellable(d) /\ InHand(d) /\ Fresh(d)
    BY <1>5, <1>16 DEF Inv
  <2>2. Unwritten(d) => Unwritten(d)'
    BY <1>7, <1>8, <1>16 DEF Unwritten
  <2>3. Written(d) => Written(d)'
    BY <1>7, <1>8, <1>16 DEF Written
  <2>4. Accounted(d)'
    BY <1>1, <2>1, <2>2, <2>3 DEF Accounted, Untold
  <2>5. Tellable(d)'
    BY <1>7, <2>1 DEF Tellable, TellsOf, Event
  <2>6. InHand(d)'
    <3>1. Granted(call[d].id, call[d].row) =>
            \A f \in ReadOnly : \E k \in DOMAIN commits' :
              /\ commits'[k].op = "created" /\ commits'[k].id = call[d].id
              /\ commits'[k].row.data[f] = call[d].row.data[f]
      BY <1>12
    <3>2. QED
      BY <2>1, <3>1 DEF InHand, Granted
  <2>7. Fresh(d)'
    <3>1. CASE Writing(d) /\ call[d].id \in Serial
      <4>1. call[d].id # id
        BY <1>16, <3>1 DEF Inv, TakeTurns, id
      <4>2. rows'[call[d].id] = rows[call[d].id]
        BY <1>5, <3>1, <4>1, KindsOfRow
      <4>3. QED
        BY <2>1, <4>2 DEF Fresh, Writing
    <3>2. CASE ~ (Writing(d) /\ call[d].id \in Serial)
      BY <2>1, <3>2 DEF Fresh, Writing
    <3>3. QED
      BY <3>1, <3>2
  <2>8. QED
    BY <2>4, <2>5, <2>6, <2>7
<1>17. Accounted(c)'
  <2>1. Unwritten(c) /\ Untold(c)
    BY <1>2, <1>10 DEF Accounted
  <2>2. Written(c)'
    BY <1>7, <1>8, <2>1 DEF Written, Unwritten
  <2>3. QED
    BY <1>1, <1>4, <1>5, <2>1, <2>2 DEF Accounted, Untold
<1>18. Tellable(c)'
  <2> DEFINE e == [by |-> c, op |-> call[c].op, id |-> id, before |-> call[c].before,
                   after |-> IF call[c].op = "deleted" THEN None ELSE row]
  <2>1. Event(c)' = e
    BY <1>4, <1>5 DEF Event
  <2>2. /\ e.by = c /\ e.op = call[c].op /\ e.id = id /\ e.before = call[c].before
        /\ e.op # "deleted" => e.after = row
    OBVIOUS
  <2>3. id \in Serial =>
          call[c].before = IF call[c].op = "deleted" /\ id \in SoftDelete
                           THEN row ELSE rows[id]
    BY <1>3, <1>10 DEF Fresh, Writing, Ops, id, row
  <2> HIDE DEF e
  <2>4. TellsOf(e, w)
    BY <1>8, <2>2, <2>3 DEF TellsOf
  <2>5. TellsOf(Event(c)', commits'[last])
    BY <1>7, <2>1, <2>4
  <2>6. QED
    BY <1>7, <2>5 DEF Tellable, TellsOf
<1>19. InHand(c)' /\ Fresh(c)'
  BY <1>4, <1>5 DEF InHand, Fresh, Writing
<1>20. QED
  BY <1>11, <1>13, <1>14, <1>15, <1>16, <1>17, <1>18, <1>19 DEF Inv

\* The audit event, if it gets through, and the reply.
LEMMA AuditStep ==
  ASSUME Inv, NEW c \in Calls, Audit(c)
  PROVE  Inv'
<1> DEFINE v == Reply(Succeeded[call[c].op])
<1>1. /\ call[c].pc = "auditing" /\ UNCHANGED <<rows, commits, linked>>
      /\ trail' = trail \/ trail' = Append(trail, Event(c))
      /\ call' = [call EXCEPT ![c] = v]
  BY DEF Audit, Publish, Set
<1>2. call[c] \in InProgress
  BY <1>1, Shapes DEF Inv
<1>3. /\ call[c].op \in Ops /\ call[c].id \in Ids /\ call[c].before \in Row \cup {None}
      /\ call[c].row \in Row \cup {None}
  BY <1>2 DEF InProgress
<1>4. v \in Done /\ v.pc = "replied" /\ v.code \in {200, 201, 204}
  BY <1>3 DEF Reply, Done, Replies, Succeeded, Ops
<1>5. Event(c).by = c
  BY DEF Event
<1>6. Event(c) \in [by : Calls, op : Ops, id : Ids, before : Row \cup {None},
                    after : Row \cup {None}]
  BY <1>3 DEF Event
<1>7. call'[c] = v /\ \A d \in Calls : d # c => call'[d] = call[d]
  BY <1>1 DEF Inv, TypeOK
<1>8. Written(c) /\ Untold(c) /\ \E k \in DOMAIN commits : TellsOf(Event(c), commits[k])
  BY <1>1 DEF Inv, Accounted, Tellable
<1> HIDE DEF v
<1>9. /\ \A i \in DOMAIN trail : i \in DOMAIN trail' /\ trail'[i] = trail[i]
      /\ \A i \in DOMAIN trail' : i \notin DOMAIN trail =>
            i = Len(trail) + 1 /\ trail'[i] = Event(c)
  BY <1>1 DEF Inv, TypeOK
<1>10. TypeOK'
  <2>1. call' \in [Calls -> {Idle, [pc |-> "dead"]} \cup Done \cup InProgress]
    BY <1>1, <1>4 DEF Inv, TypeOK, Done, InProgress
  <2>2. trail' \in Seq([by : Calls, op : Ops, id : Ids, before : Row \cup {None},
                        after : Row \cup {None}])
    <3>1. ASSUME NEW X, NEW s \in Seq(X), NEW e \in X PROVE Append(s, e) \in Seq(X)
      OBVIOUS
    <3>2. trail \in Seq([by : Calls, op : Ops, id : Ids, before : Row \cup {None},
                         after : Row \cup {None}])
      BY DEF Inv, TypeOK
    <3>3. CASE trail' = trail
      BY <3>2, <3>3
    <3>4. CASE trail' = Append(trail, Event(c))
      BY <1>6, <3>1, <3>2, <3>4
    <3>5. QED
      BY <1>1, <3>3, <3>4
  <2>3. QED
    BY <1>1, <2>1, <2>2 DEF Inv, TypeOK, Done, InProgress
<1>11. ReadOnlyFromCreate'
  BY <1>1 DEF Inv, ReadOnlyFromCreate
<1>12. TrailTellsWrites'
  <2>1. ASSUME NEW i \in DOMAIN trail'
        PROVE  \E k \in DOMAIN commits' : TellsOf(trail'[i], commits'[k])
    BY <1>1, <1>8, <1>9 DEF Inv, TrailTellsWrites
  <2>2. ASSUME NEW i \in DOMAIN trail', NEW j \in DOMAIN trail', trail'[i].by = trail'[j].by
        PROVE  i = j
    BY <1>5, <1>8, <1>9, <2>2 DEF Inv, TrailTellsWrites, Untold
  <2>3. QED
    BY <2>1, <2>2 DEF TrailTellsWrites, TellsOf
<1>13. TakeTurns'
  BY <1>4, <1>7 DEF Inv, TakeTurns, Writing
<1>14. ASSUME NEW d \in Calls, d # c
       PROVE  Accounted(d)' /\ Tellable(d)' /\ InHand(d)' /\ Fresh(d)'
  <2>1. call'[d] = call[d] /\ Accounted(d) /\ Tellable(d) /\ InHand(d) /\ Fresh(d)
    BY <1>7, <1>14 DEF Inv
  <2>2. Untold(d) => Untold(d)'
    BY <1>5, <1>9, <1>14 DEF Untold
  <2>3. Accounted(d)'
    BY <1>1, <2>1, <2>2 DEF Accounted, Unwritten, Written
  <2>4. Tellable(d)' /\ InHand(d)' /\ Fresh(d)'
    BY <1>1, <2>1 DEF Tellable, TellsOf, Event, InHand, Granted, Fresh, Writing
  <2>5. QED
    BY <2>3, <2>4
<1>15. Accounted(c)' /\ Tellable(c)' /\ InHand(c)' /\ Fresh(c)'
  <2>1. Accounted(c)'
    BY <1>1, <1>4, <1>7, <1>8 DEF Accounted, Written
  <2>2. QED
    BY <1>4, <1>7, <2>1 DEF Tellable, InHand, Fresh, Writing
<1>16. QED
  BY <1>10, <1>11, <1>12, <1>13, <1>14, <1>15 DEF Inv

\* The invariant that is inductive.
LEMMA Invariant == Spec => []Inv
<1>1. Init => Inv
  <2> SUFFICES ASSUME Init PROVE Inv
    OBVIOUS
  <2>1. /\ rows = [id \in Ids |-> None] /\ call = [c \in Calls |-> Idle]
        /\ commits = <<>> /\ linked \in BOOLEAN /\ trail = <<>>
    BY DEF Init
  <2>2. TypeOK
    BY <2>1 DEF TypeOK
  <2>3. ReadOnlyFromCreate /\ TrailTellsWrites
    BY <2>1 DEF ReadOnlyFromCreate, TrailTellsWrites
  <2>4. \A c \in Calls : call[c].pc = "idle"
    BY <2>1 DEF Idle
  <2>5. TakeTurns
    BY <2>4 DEF TakeTurns, Writing
  <2>6. \A c \in Calls : Accounted(c) /\ Tellable(c) /\ InHand(c) /\ Fresh(c)
    BY <2>1, <2>4 DEF Accounted, Unwritten, Untold, Tellable, InHand, Fresh, Writing
  <2>7. QED
    BY <2>2, <2>3, <2>5, <2>6 DEF Inv
<1>2. Inv /\ [Next]_vars => Inv'
  <2> SUFFICES ASSUME Inv, [Next]_vars PROVE Inv'
    OBVIOUS
  <2>1. ASSUME NEW c \in Calls, NEW error \in DOMAIN ToHttp,
               call[c].pc \in {"idle", "saving", "deleting"}, Throw(c, error)
        PROVE  Inv'
    <3>1. ToHttp[error] \in {400, 404, 409, 500}
      BY DEF ToHttp
    <3>2. Ending(c, Reply(ToHttp[error]))
      BY <2>1, <3>1 DEF Ending
    <3>3. QED
      BY <2>1, <3>2, Ends DEF Throw, Set
  <2>2. ASSUME NEW c \in Calls, Invalid(c) PROVE Inv'
    BY <2>1, <2>2 DEF Invalid, ToHttp, Idle
  <2>3. ASSUME NEW c \in Calls, NEW id \in Ids, NotFound(c, id) PROVE Inv'
    BY <2>1, <2>3 DEF NotFound, MayStart, ToHttp, Idle
  <2>4. ASSUME NEW c \in Calls, NEW id \in Ids, NEW m \in IfMatches, Conflict(c, id, m)
        PROVE  Inv'
    BY <2>1, <2>4 DEF Conflict, MayStart, ToHttp, Idle
  <2>5. ASSUME NEW c \in Calls, WriteFails(c) PROVE Inv'
    BY <2>1, <2>5 DEF WriteFails, Writing, ToHttp
  <2>6. ASSUME NEW c \in Calls, Die(c) PROVE Inv'
    <3>1. Ending(c, [pc |-> "dead"])
      BY <2>6 DEF Ending, Die
    <3>2. QED
      BY <2>6, <3>1, Ends DEF Die, Set
  <2>7. ASSUME NEW c \in Calls, Save(c) \/ Delete(c) PROVE Inv'
    BY <2>7, CommitStep DEF Save, Delete, Writing
  <2>8. CASE UNCHANGED vars \/ Close
    <3>1. UNCHANGED <<rows, call, commits, trail>> /\ linked' \in BOOLEAN
      BY <2>8 DEF vars, Close, Inv, TypeOK
    <3>2. TypeOK' /\ ReadOnlyFromCreate' /\ TrailTellsWrites' /\ TakeTurns'
      BY <3>1 DEF Inv, TypeOK, ReadOnlyFromCreate, TrailTellsWrites, TellsOf, TakeTurns, Writing
    <3>3. ASSUME NEW c \in Calls
          PROVE  Accounted(c)' /\ Tellable(c)' /\ InHand(c)' /\ Fresh(c)'
      BY <3>1 DEF Inv, Accounted, Unwritten, Written, Untold, Tellable, TellsOf, Event,
                  InHand, Granted, Fresh, Writing
    <3>4. QED
      BY <3>2, <3>3 DEF Inv
  <2>9. QED
    BY <2>2, <2>3, <2>4, <2>5, <2>6, <2>7, <2>8, CreateStep, UpdateStep, RemoveStep, AuditStep
       DEF Next, Finished
<1>3. QED
  BY <1>1, <1>2, PTL DEF Spec

-----------------------------------------------------------------------------
(* Theorems                                                                *)

\* Rows, calls and trail are of their types, and a readonly field has at all
\* times a value some create() gave it.
THEOREM ReadOnlyKept == Spec => []EntityInv
<1>1. Inv => EntityInv
  BY DEF Inv, EntityInv
<1>2. QED
  BY <1>1, Invariant, PTL

\* No event without its write, and none twice.
THEOREM TrailIsTrue == Spec => []TrailTellsWrites
<1>1. Inv => TrailTellsWrites
  BY DEF Inv
<1>2. QED
  BY <1>1, Invariant, PTL

\* A caller that is answered knows whether its write was made.
THEOREM RepliesAreTrue == Spec => []RepliesTellTruth
<1>1. Inv => RepliesTellTruth
  <2> SUFFICES ASSUME Inv, NEW c \in Calls, call[c].pc = "replied"
               PROVE  Cardinality({k \in DOMAIN commits : commits[k].by = c})
                        = IF call[c].code < 300 THEN 1 ELSE 0
    BY DEF RepliesTellTruth
  <2> DEFINE own == {k \in DOMAIN commits : commits[k].by = c}
  <2>1. IF call[c].code < 300 THEN Written(c) ELSE Unwritten(c)
    BY DEF Inv, Accounted
  <2>2. CASE call[c].code < 300
    <3>1. \E k : own = {k}
      BY <2>1, <2>2 DEF Written
    <3>2. QED
      BY <2>2, <3>1, FS_Singleton
  <2>3. CASE ~ (call[c].code < 300)
    <3>1. own = {}
      BY <2>1, <2>3 DEF Unwritten
    <3>2. QED
      BY <2>3, <3>1, FS_EmptySet
  <2>4. QED
    BY <2>2, <2>3
<1>2. QED
  BY <1>1, Invariant, PTL

\* Only a write changes a row or adds to the writes.
LEMMA OnlyCommit ==
  ASSUME [Next]_vars, commits' # commits \/ rows' # rows
  PROVE  \E c \in Calls : Writing(c) /\ Commit(c)
<1>1. ASSUME NEW c \in Calls, Save(c) \/ Delete(c) PROVE Writing(c) /\ Commit(c)
  BY <1>1 DEF Save, Delete, Writing
<1>2. QED
  BY <1>1 DEF Next, Finished, vars, Throw, Invalid, Create, NotFound, Conflict, Update, RemoveRow,
              WriteFails, Audit, Die, Close

\* What a write does to a row whose callers take turns.
LEMMA TurnTaken ==
  ASSUME Inv, NEW c \in Calls, Writing(c), Commit(c), call[c].id \in Serial
  PROVE  LET id == call[c].id
             row == rows[id]
         IN  /\ id \in Ids /\ row \in Row \cup {None}
             /\ rows' = [rows EXCEPT ![id] = call[c].row] /\ rows'[id] = call[c].row
             /\ commits'[Len(commits')].op = call[c].op /\ commits'[Len(commits')].by = c
             /\ commits'[Len(commits')].asks = call[c].asks
             /\ call[c].op \in Ops /\ call[c].ifMatch \in IfMatches
             /\ Fresh(c)
<1>1. call[c] \in InProgress /\ Fresh(c)
  BY Shapes DEF Inv, Writing
<1>2. /\ call[c].id \in Ids /\ call[c].op \in Ops /\ call[c].ifMatch \in IfMatches
      /\ rows \in [Ids -> Row \cup {None}]
  BY <1>1 DEF InProgress, Inv, TypeOK
<1>3. rows' = [rows EXCEPT ![call[c].id] = call[c].row]
  BY DEF Commit
<1> DEFINE w == [by |-> c, op |-> call[c].op, id |-> call[c].id, was |-> rows[call[c].id],
                 row |-> call[c].row, asks |-> call[c].asks]
<1>4. commits' = Append(commits, w) /\ w.op = call[c].op /\ w.by = c /\ w.asks = call[c].asks
  BY DEF Commit
<1> HIDE DEF w
<1>5. commits'[Len(commits')] = w
  BY <1>4 DEF Inv, TypeOK
<1>6. QED
  BY <1>1, <1>2, <1>3, <1>4, <1>5

\* A version stands for one content of the row: every write bumps it once.
THEOREM VersionsTellApart == ASSUME Versioned PROVE Spec => VersionsCount
<1>1. Inv /\ [Next]_vars =>
        \A id \in Serial :
          (rows[id] # None /\ rows'[id] # None /\ rows'[id] # rows[id])
            => rows'[id].version = rows[id].version + 1
  <2> SUFFICES ASSUME Inv, [Next]_vars, NEW id \in Serial,
                      rows[id] # None, rows'[id] # None, rows'[id] # rows[id]
               PROVE  rows'[id].version = rows[id].version + 1
    OBVIOUS
  <2>1. PICK c \in Calls : Writing(c) /\ Commit(c)
    BY OnlyCommit
  <2>2. call[c].id = id
    <3>1. rows' = [rows EXCEPT ![call[c].id] = call[c].row] /\ id \in Ids
      BY <2>1, KindsOfRow DEF Commit
    <3>2. QED
      BY <3>1 DEF Inv, TypeOK
  <2>3. /\ rows'[id] = call[c].row /\ rows[id] \in Row /\ call[c].op \in Ops /\ Fresh(c)
    BY <2>1, <2>2, TurnTaken
  <2>4. CASE call[c].op = "updated"
    <3>1. PICK p \in Patches : call[c].row = Patched(rows[id], p)
      BY <2>1, <2>2, <2>3, <2>4 DEF Fresh
    <3>2. QED
      BY <2>3, <3>1, PatchedIs DEF Bumped
  <2>5. CASE call[c].op = "deleted"
    <3>1. call[c].row = Removed(rows[id])
      BY <2>1, <2>2, <2>3, <2>5 DEF Fresh
    <3>2. QED
      BY <2>3, <3>1 DEF Removed, Bumped, Row
  <2>6. CASE call[c].op = "created"
    BY <2>1, <2>2, <2>3, <2>6 DEF Fresh
  <2>7. QED
    BY <2>3, <2>4, <2>5, <2>6 DEF Ops
<1>2. QED
  BY <1>1, Invariant, PTL DEF Spec, VersionsCount

\* An update that named a version replaces a row of that version.
THEOREM IfMatchIsHonoured == ASSUME Versioned PROVE Spec => IfMatchHolds
<1>1. Inv /\ [Next]_vars =>
        \A c \in Calls : (WritesOver(c) /\ call[c].id \in Serial) => Honours(c)
  <2> SUFFICES ASSUME Inv, [Next]_vars, NEW c \in Calls, WritesOver(c), call[c].id \in Serial
               PROVE  Honours(c)
    OBVIOUS
  <2>1. PICK d \in Calls : Writing(d) /\ Commit(d)
    BY OnlyCommit DEF WritesOver
  <2>2. d = c
    <3> DEFINE w == [by |-> d, op |-> call[d].op, id |-> call[d].id, was |-> rows[call[d].id],
                     row |-> call[d].row, asks |-> call[d].asks]
    <3>1. commits' = Append(commits, w) /\ w.by = d
      BY <2>1 DEF Commit
    <3> HIDE DEF w
    <3>2. commits'[Len(commits')] = w
      BY <3>1 DEF Inv, TypeOK
    <3>3. QED
      BY <3>1, <3>2 DEF WritesOver
  <2>3. Fresh(c) /\ call[c].op \in Ops /\ Writing(c) /\ call[c].ifMatch # NoMatch
    BY <2>1, <2>2, TurnTaken DEF WritesOver
  <2>4. call[c].op = "updated"
    BY <2>3 DEF Fresh, Ops
  <2>5. QED
    BY <2>3, <2>4 DEF Fresh, Stale, Honours
<1>2. QED
  BY <1>1, Invariant, PTL DEF Spec, IfMatchHolds

\* No write changes a column its request does not name, nor a readonly field:
\* neither an update that overlaps others nor one of a deleted row.
THEOREM ChangesAreAskedFor == Spec => ChangesAreAsked
<1> DEFINE Kept(id) ==
      LET write == commits'[Len(commits')]
          asked == write.asks \ ReadOnly
      IN /\ \A f \in Fields : rows'[id].data[f] # rows[id].data[f] => f \in asked
         /\ rows'[id].status # rows[id].status => "status" \in asked
<1>1. Inv /\ [Next]_vars =>
        \A id \in Serial :
          (rows[id] # None /\ rows'[id] # None /\ rows'[id] # rows[id]) => Kept(id)
  <2> SUFFICES ASSUME Inv, [Next]_vars, NEW id \in Serial,
                      rows[id] # None, rows'[id] # None, rows'[id] # rows[id]
               PROVE  Kept(id)
    OBVIOUS
  <2>1. PICK c \in Calls : Writing(c) /\ Commit(c)
    BY OnlyCommit
  <2>2. call[c].id = id
    <3>1. rows' = [rows EXCEPT ![call[c].id] = call[c].row] /\ id \in Ids
      BY <2>1, KindsOfRow DEF Commit
    <3>2. QED
      BY <3>1 DEF Inv, TypeOK
  <2>3. /\ rows'[id] = call[c].row /\ rows[id] \in Row /\ call[c].op \in Ops /\ Fresh(c)
        /\ commits'[Len(commits')].asks = call[c].asks
    BY <2>1, <2>2, TurnTaken
  <2>4. "status" \notin ReadOnly
    BY Declaration
  <2>5. CASE call[c].op = "updated"
    <3>1. PICK p \in Patches : call[c].row = Patched(rows[id], p) /\ call[c].asks = DOMAIN p
      BY <2>1, <2>2, <2>3, <2>5 DEF Fresh
    <3>2. QED
      BY <2>3, <2>4, <3>1, PatchedIs
  <2>6. CASE call[c].op = "deleted"
    <3>1. CASE id \in SoftDelete
      <4>1. call[c].row = Removed(rows[id]) /\ call[c].asks = {"status"}
        BY <2>1, <2>2, <2>3, <2>6, <3>1 DEF Fresh
      <4>2. QED
        BY <2>3, <2>4, <4>1 DEF Removed, Row
    <3>2. CASE id \notin SoftDelete
      BY <2>1, <2>2, <2>3, <2>6, <3>2 DEF Fresh
    <3>3. QED
      BY <3>1, <3>2
  <2>7. CASE call[c].op = "created"
    BY <2>1, <2>2, <2>3, <2>7 DEF Fresh
  <2>8. QED
    BY <2>3, <2>5, <2>6, <2>7 DEF Ops
<1>2. QED
  BY <1>1, Invariant, PTL DEF Spec, ChangesAreAsked

-----------------------------------------------------------------------------
(* EntityReads                                                             *)
-----------------------------------------------------------------------------
(* Induction, and what is defined by recursion.                             *)

\* A set of numbers that has 0, and with a number the next one, has all.
LEMMA SetInduction ==
  ASSUME NEW K, 0 \in K, \A n \in Nat : n \in K => n + 1 \in K
  PROVE  Nat \subseteq K
<1> DEFINE R == OpToRel(<, Nat)
<1>1. IsWellFoundedOn(R, Nat)
  BY NatLessThanWellFounded
<1>2. SUFFICES ASSUME Nat \ K # {} PROVE FALSE
  OBVIOUS
<1>3. Nat \ K \subseteq Nat
  OBVIOUS
<1>4. PICK x \in Nat \ K : \A y \in Nat \ K : ~ (<<y, x>> \in R)
  <2> HIDE DEF R
  <2>1. QED
    BY <1>1, <1>2, <1>3, WFMin
<1>5. \A y \in Nat : y < x => <<y, x>> \in R
  BY DEF OpToRel
<1>6. QED
  <2> HIDE DEF R
  <2>1. x # 0
    OBVIOUS
  <2>2. x - 1 \in Nat /\ x - 1 < x /\ x = (x - 1) + 1
    BY <2>1
  <2>3. x - 1 \in K
    BY <1>4, <1>5, <2>2
  <2>4. QED
    BY <2>2, <2>3

\* A start and a step have a run of every length.
HasRun(T, x, N, step) ==
  \E g \in [0 .. N -> T] : g[0] = x /\ \A n \in 1 .. N : g[n] = step[n][g[n - 1]]

LEMMA RunExists ==
  ASSUME NEW T, NEW x \in T, NEW N \in Nat, NEW step \in [1 .. N -> [T -> T]]
  PROVE  HasRun(T, x, N, step)
<1> DEFINE IsRun(g, n) == g[0] = x /\ \A k \in 1 .. n : g[k] = step[k][g[k - 1]]
           K == {n \in Nat : n <= N => \E g \in [0 .. n -> T] : IsRun(g, n)}
<1>1. 0 \in K
  <2> DEFINE g == [n \in 0 .. 0 |-> x]
  <2>1. g \in [0 .. 0 -> T] /\ IsRun(g, 0)
    OBVIOUS
  <2>2. QED
    BY <2>1
<1>2. ASSUME NEW n \in Nat, n \in K PROVE n + 1 \in K
  <2>0. SUFFICES ASSUME n + 1 <= N PROVE \E g \in [0 .. n + 1 -> T] : IsRun(g, n + 1)
    OBVIOUS
  <2>1. PICK g \in [0 .. n -> T] : IsRun(g, n)
    BY <1>2, <2>0
  <2> DEFINE y == step[n + 1][g[n]]
             h == [k \in 0 .. n + 1 |-> IF k = n + 1 THEN y ELSE g[k]]
  <2>2. y \in T
    <3>1. g[n] \in T /\ n + 1 \in 1 .. N
      BY <2>0, <2>1
    <3>2. QED
      BY <3>1
  <2>3. y = step[n + 1][g[n]]
    OBVIOUS
  <2> HIDE DEF y
  <2>4. h \in [0 .. n + 1 -> T]
    <3>1. \A k \in 0 .. n + 1 : k # n + 1 => k \in 0 .. n
      OBVIOUS
    <3>2. QED
      BY <2>1, <2>2, <3>1
  <2>5. h[n + 1] = y /\ \A k \in 0 .. n : h[k] = g[k]
    OBVIOUS
  <2> HIDE DEF h
  <2>6. ASSUME NEW k \in 1 .. n + 1 PROVE h[k] = step[k][h[k - 1]]
    <3>1. CASE k = n + 1
      BY <2>3, <2>5, <3>1
    <3>2. CASE k # n + 1
      <4>1. k \in 1 .. n /\ k \in 0 .. n /\ k - 1 \in 0 .. n
        BY <3>2
      <4>2. QED
        BY <2>1, <2>5, <4>1
    <3>3. QED
      BY <3>1, <3>2
  <2>7. h[0] = x
    BY <2>1, <2>5
  <2>8. QED
    BY <2>4, <2>6, <2>7
<1>3. N \in K
  <2> HIDE DEF K
  <2>1. Nat \subseteq K
    BY <1>1, <1>2, SetInduction
  <2>2. QED
    BY <2>1
<1>4. QED
  BY <1>3 DEF HasRun

-----------------------------------------------------------------------------
(* Masking. *)

\* The rules of a caller's masking are applied one after another.
LEMMA MaskRowSteps ==
  ASSUME NEW caller, NEW row \in Rows, NEW rules \in Seq(Rules), rules = declaration.rules
  PROVE  \E g \in [0 .. Len(rules) -> Rows] :
           /\ g[0] = row /\ MaskRow(row, caller) = g[Len(rules)]
           /\ \A n \in 1 .. Len(rules) : g[n] = ApplyRule(g[n - 1], rules[n], caller)
<1> DEFINE N == Len(rules)
           step == [n \in 1 .. N |-> [r \in Rows |-> ApplyRule(r, rules[n], caller)]]
           Body(f) == [n \in 0 .. N |-> IF n = 0 THEN row ELSE ApplyRule(f[n - 1], rules[n], caller)]
           masked == CHOOSE f : f = Body(f)
<1>1. N \in Nat
  OBVIOUS
<1>2. ASSUME NEW n \in 1 .. N, NEW r \in Rows PROVE ApplyRule(r, rules[n], caller) \in Rows
  <2>1. rules[n] \in Rules
    OBVIOUS
  <2>2. rules[n].replacement \in Vocabulary
    BY <2>1 DEF Rules
  <2>3. r \in [Columns -> Vocabulary]
    BY DEF Rows
  <2>4. QED
    BY <2>2, <2>3 DEF ApplyRule, ApplyPattern, Rows
<1>3. step \in [1 .. N -> [Rows -> Rows]]
  BY <1>2
<1>4. \A n \in 1 .. N : \A r \in Rows : step[n][r] = ApplyRule(r, rules[n], caller)
  OBVIOUS
<1>5. PICK g \in [0 .. N -> Rows] : g[0] = row /\ \A n \in 1 .. N : g[n] = step[n][g[n - 1]]
  <2> HIDE DEF step, N
  <2>1. HasRun(Rows, row, N, step)
    BY <1>1, <1>3, RunExists
  <2>2. QED
    BY <2>1 DEF HasRun
<1>6. \A n \in 1 .. N : n - 1 \in 0 .. N /\ n \in 0 .. N
  OBVIOUS
<1>7. \A n \in 1 .. N : g[n] = ApplyRule(g[n - 1], rules[n], caller)
  <2> HIDE DEF step
  <2>1. QED
    BY <1>4, <1>5, <1>6
<1>8. g = Body(g)
  <2>1. \A n \in 0 .. N : n # 0 => n \in 1 .. N
    OBVIOUS
  <2>2. \A n \in 0 .. N : g[n] = IF n = 0 THEN row ELSE ApplyRule(g[n - 1], rules[n], caller)
    BY <1>5, <1>7, <2>1
  <2>3. QED
    BY <2>2
<1>9. masked = Body(masked)
  BY <1>8
<1>10. MaskRow(row, caller) = masked[N]
  BY DEF MaskRow
<1>11. \A n \in 0 .. N : masked[n] = IF n = 0 THEN row
                                    ELSE ApplyRule(masked[n - 1], rules[n], caller)
  BY <1>9
<1>12. masked[N] = g[N]
  <2> HIDE DEF masked
  <2> DEFINE K == {n \in Nat : n <= N => masked[n] = g[n]}
  <2>1. 0 \in K
    BY <1>5, <1>11
  <2>2. ASSUME NEW n \in Nat, n \in K PROVE n + 1 \in K
    <3>1. SUFFICES ASSUME n + 1 <= N PROVE masked[n + 1] = g[n + 1]
      OBVIOUS
    <3>2. masked[n] = g[n] /\ n + 1 \in 1 .. N /\ n + 1 \in 0 .. N /\ (n + 1) - 1 = n /\ n + 1 # 0
      BY <2>2, <3>1
    <3>3. QED
      BY <1>7, <1>11, <3>2
  <2>3. Nat \subseteq K
    <3> HIDE DEF K
    <3>1. QED
      BY <2>1, <2>2, SetInduction
  <2>4. QED
    BY <1>1, <2>3
<1>13. QED
  <2> HIDE DEF step, Body, masked
  <2>1. QED
    BY <1>5, <1>7, <1>10, <1>12

\* What MaskRow replies with in place of `was`.
Masks(row, was, caller) ==
  /\ row \in Rows
  /\ \A f \in Columns :
       LET rules == RulesOn(f, caller)
       IN IF \E rule \in rules : was[f] \in rule.pattern
          THEN \E rule \in rules : row[f] = rule.replacement
          ELSE row[f] = was[f]

LEMMA MaskRowMasks ==
  ASSUME NEW caller, NEW row \in Rows, declaration.rules \in Seq(Rules)
  PROVE  Masks(MaskRow(row, caller), row, caller)
<1> DEFINE rules == declaration.rules
           N == Len(rules)
<1>1. PICK g \in [0 .. N -> Rows] :
           /\ g[0] = row /\ MaskRow(row, caller) = g[N]
           /\ \A n \in 1 .. N : g[n] = ApplyRule(g[n - 1], rules[n], caller)
  BY MaskRowSteps
<1> DEFINE On(n, f, rule) == rule.field = f /\ ~ Excused(rule, caller) /\ \E k \in 1 .. n : rule = rules[k]
           Kept(n, f) == g[n][f] = row[f] /\ \A k \in 1 .. n : On(n, f, rules[k]) => row[f] \notin rules[k].pattern
           Put(n, f) == /\ \E k \in 1 .. n : On(n, f, rules[k]) /\ row[f] \in rules[k].pattern
                        /\ \E k \in 1 .. n : On(n, f, rules[k]) /\ g[n][f] = rules[k].replacement
           K == {n \in Nat : n <= N => \A f \in Columns : Kept(n, f) \/ Put(n, f)}
<1>2. N \in Nat
  OBVIOUS
<1>3. 0 \in K
  BY <1>1
<1>4. ASSUME NEW n \in Nat, n \in K PROVE n + 1 \in K
  <2>1. SUFFICES ASSUME n + 1 <= N, NEW f \in Columns PROVE Kept(n + 1, f) \/ Put(n + 1, f)
    <3> HIDE DEF Kept, Put
    <3>1. QED
      OBVIOUS
  <2>2. n + 1 \in 1 .. N /\ n \in 0 .. N /\ (n + 1) - 1 = n
    BY <2>1
  <2>3. g[n + 1] = ApplyRule(g[n], rules[n + 1], caller)
    BY <1>1, <2>2
  <2>4. g[n] \in [Columns -> Vocabulary]
    BY <2>2 DEF Rows
  <2>5. Kept(n, f) \/ Put(n, f)
    <3>1. n <= N
      BY <1>2, <2>1
    <3> HIDE DEF Kept, Put, N
    <3>2. QED
      BY <1>4, <3>1
  <2>6. \A k \in 1 .. n + 1 : k = n + 1 \/ k \in 1 .. n
    OBVIOUS
  <2>7. \A k \in 1 .. n : k \in 1 .. n + 1
    OBVIOUS
  <2>8. n + 1 \in 1 .. n + 1
    OBVIOUS
  <2>9. \A k \in 1 .. n : On(n, f, rules[k]) <=> On(n + 1, f, rules[k])
    BY <2>7
  <2>10. CASE rules[n + 1].field = f /\ ~ Excused(rules[n + 1], caller) /\ g[n][f] \in rules[n + 1].pattern
    <3>1. g[n + 1][f] = rules[n + 1].replacement
      BY <2>3, <2>4, <2>10 DEF ApplyRule, ApplyPattern, ShouldMask, Excused
    <3>2. On(n + 1, f, rules[n + 1])
      BY <2>8, <2>10
    <3>3. \E k \in 1 .. n + 1 : On(n + 1, f, rules[k]) /\ row[f] \in rules[k].pattern
      <4>1. CASE Kept(n, f)
        BY <2>8, <2>10, <3>2, <4>1
      <4>2. CASE Put(n, f)
        BY <2>7, <2>9, <4>2
      <4>3. QED
        BY <2>5, <4>1, <4>2
    <3>4. QED
      BY <2>8, <3>1, <3>2, <3>3
  <2>11. CASE ~ (rules[n + 1].field = f /\ ~ Excused(rules[n + 1], caller) /\ g[n][f] \in rules[n + 1].pattern)
    <3>1. g[n + 1][f] = g[n][f]
      BY <2>3, <2>4, <2>11 DEF ApplyRule, ApplyPattern, ShouldMask, Excused
    <3>2. CASE Kept(n, f)
      <4>1. \A k \in 1 .. n + 1 : On(n + 1, f, rules[k]) => row[f] \notin rules[k].pattern
        BY <2>6, <2>9, <2>11, <3>2
      <4>2. QED
        BY <3>1, <3>2, <4>1
    <3>3. CASE Put(n, f)
      BY <2>7, <2>9, <3>1, <3>3
    <3>4. QED
      BY <2>5, <3>2, <3>3
  <2>12. QED
    BY <2>10, <2>11
<1>5. N \in K
  <2> HIDE DEF K
  <2>1. Nat \subseteq K
    BY <1>3, <1>4, SetInduction
  <2>2. QED
    BY <1>2, <2>1
<1>6. ASSUME NEW f \in Columns PROVE Kept(N, f) \/ Put(N, f)
  <2> HIDE DEF Kept, Put
  <2>1. QED
    BY <1>2, <1>5
<1>7. ASSUME NEW f \in Columns, NEW k \in 1 .. N
      PROVE  On(N, f, rules[k]) <=> rules[k] \in RulesOn(f, caller)
  BY DEF RulesOn, ToSet
<1>8. ASSUME NEW f \in Columns, NEW rule \in RulesOn(f, caller)
      PROVE  \E k \in 1 .. N : rule = rules[k]
  BY DEF RulesOn, ToSet
<1>9. ASSUME NEW f \in Columns
      PROVE  LET R == RulesOn(f, caller)
             IN IF \E rule \in R : row[f] \in rule.pattern
                THEN \E rule \in R : g[N][f] = rule.replacement
                ELSE g[N][f] = row[f]
  <2>1. CASE Kept(N, f)
    <3>1. ASSUME NEW rule \in RulesOn(f, caller) PROVE row[f] \notin rule.pattern
      <4>1. PICK k \in 1 .. N : rule = rules[k]
        BY <1>8
      <4>2. On(N, f, rules[k])
        BY <1>7, <4>1
      <4>3. QED
        BY <2>1, <4>1, <4>2
    <3>2. QED
      BY <2>1, <3>1
  <2>2. CASE Put(N, f)
    BY <1>7, <2>2
  <2>3. QED
    BY <1>6, <2>1, <2>2
<1>10. g[N] \in Rows
  BY <1>2
<1>11. QED
  BY <1>1, <1>9, <1>10 DEF Masks

-----------------------------------------------------------------------------
(* Pages. *)

LEMMA LargerOfTwo ==
  ASSUME NEW a \in Int, NEW b \in Int
  PROVE  Max({a, b}) = IF a >= b THEN a ELSE b
<1> DEFINE m == IF a >= b THEN a ELSE b
<1>1. m \in {a, b} /\ \A y \in {a, b} : m >= y
  OBVIOUS
<1>2. Max({a, b}) \in {a, b} /\ \A y \in {a, b} : Max({a, b}) >= y
  BY <1>1 DEF Max
<1>3. QED
  BY <1>1, <1>2

LEMMA SmallerOfTwo ==
  ASSUME NEW a \in Int, NEW b \in Int
  PROVE  Min({a, b}) = IF a <= b THEN a ELSE b
<1> DEFINE m == IF a <= b THEN a ELSE b
<1>1. m \in {a, b} /\ \A y \in {a, b} : m <= y
  OBVIOUS
<1>2. Min({a, b}) \in {a, b} /\ \A y \in {a, b} : Min({a, b}) <= y
  BY <1>1 DEF Min
<1>3. QED
  BY <1>1, <1>2

LEMMA ClampIntIsPositive ==
  ASSUME NEW v \in Seq(Int), NEW fallback \in Nat \ {0}, NEW high \in Nat \ {0}
  PROVE  ClampInt(v, fallback, 1, high) \in Nat \ {0}
<1>1. CASE v = <<>>
  BY <1>1 DEF ClampInt
<1>2. CASE v # <<>>
  <2>1. v[1] \in Int
    BY <1>2
  <2>2. Min({high, v[1]}) \in Int
    BY <2>1, SmallerOfTwo
  <2>3. ASSUME NEW m \in Int PROVE Max({1, m}) \in Nat \ {0}
    <3>1. Max({1, m}) = IF 1 >= m THEN 1 ELSE m
      BY LargerOfTwo
    <3>2. QED
      BY <3>1
  <2>4. QED
    BY <1>2, <2>2, <2>3 DEF ClampInt
<1>3. QED
  BY <1>1, <1>2

\* A sequence of all of S by falling scores has as many before a member as there
\* are of a higher score.
LEMMA PlaceIsRank ==
  ASSUME NEW S, IsFiniteSet(S), NEW score \in [S -> Int], NEW s \in SetToSeqs(S),
         \A i, j \in S : i # j => score[i] # score[j],
         \A m, n \in DOMAIN s : m < n => score[s[m]] >= score[s[n]]
  PROVE  /\ s \in [1 .. Cardinality(S) -> S]
         /\ \A i \in S : \E n \in 1 .. Cardinality(S) : s[n] = i
         /\ \A n \in 1 .. Cardinality(S) :
              Cardinality({j \in S : score[j] > score[s[n]]}) = n - 1
<1> DEFINE N == Cardinality(S)
<1>1. N \in Nat
  BY FS_CardinalityType
<1>2. s \in [1 .. N -> S] /\ \A i, j \in 1 .. N : i # j => s[i] # s[j]
  BY DEF SetToSeqs
<1>3. \A i \in S : \E n \in 1 .. N : s[n] = i
  <2>1. s \in Injection(1 .. N, S)
    BY <1>2 DEF Injection, IsInjective
  <2>2. Cardinality(1 .. N) = N
    BY <1>1, FS_Interval
  <2>3. s \in Surjection(1 .. N, S)
    BY <2>1, <2>2, FS_Injection
  <2>4. QED
    BY <2>3 DEF Surjection
<1>4. ASSUME NEW n \in 1 .. N
      PROVE  Cardinality({j \in S : score[j] > score[s[n]]}) = n - 1
  <2> DEFINE A == {j \in S : score[j] > score[s[n]]}
             f == [m \in 1 .. n - 1 |-> s[m]]
  <2>0. n - 1 \in Nat /\ \A m \in 1 .. n - 1 : m \in 1 .. N /\ m < n
    BY <1>1
  <2>1. ASSUME NEW m \in 1 .. n - 1 PROVE s[m] \in A
    <3>1. score[s[m]] >= score[s[n]]
      BY <1>2, <2>0
    <3>2. s[m] # s[n] /\ s[m] \in S /\ s[n] \in S
      BY <1>2, <2>0
    <3>3. score[s[m]] # score[s[n]] /\ score[s[m]] \in Int /\ score[s[n]] \in Int
      BY <3>2
    <3>4. QED
      BY <3>1, <3>2, <3>3
  <2>2. ASSUME NEW j \in A PROVE \E m \in 1 .. n - 1 : s[m] = j
    <3>1. j \in S /\ score[j] > score[s[n]] /\ score[j] \in Int /\ score[s[n]] \in Int
      BY <1>2
    <3>2. PICK m \in 1 .. N : s[m] = j
      BY <1>3
    <3>3. m # n
      BY <3>1, <3>2
    <3>4. ~ (n < m)
      BY <1>2, <3>1, <3>2
    <3>5. m \in 1 .. n - 1
      BY <1>1, <3>3, <3>4
    <3>6. QED
      BY <3>2, <3>5
  <2>3. f \in [1 .. n - 1 -> A] /\ \A m \in 1 .. n - 1 : f[m] = s[m]
    BY <2>1
  <2> HIDE DEF A, f
  <2>4. f \in Surjection(1 .. n - 1, A)
    BY <2>2, <2>3 DEF Surjection
  <2>5. f \in Injection(1 .. n - 1, A)
    BY <1>2, <2>0, <2>3 DEF Injection, IsInjective
  <2>6. ExistsBijection(1 .. n - 1, A)
    BY <2>4, <2>5 DEF ExistsBijection, Bijection
  <2>7. Cardinality(A) = n - 1
    BY <2>0, <2>6, FS_CountingElements
  <2>8. QED
    BY <2>7 DEF A
<1>5. QED
  BY <1>2, <1>3, <1>4

\* The k'th page of size p.
Bounds(k, p) == /\ (k - 1) * p \in Nat /\ k * p \in Nat
                /\ k * p = (k - 1) * p + p /\ (k + 1) * p = k * p + p

LEMMA PageBounds ==
  ASSUME NEW k \in Nat \ {0}, NEW p \in Nat \ {0}
  PROVE  Bounds(k, p)
<1>1. k - 1 \in Nat
  OBVIOUS
<1>2. \A a \in Nat : a * p \in Nat
  OBVIOUS
<1>3. k * p = (k - 1) * p + p /\ (k + 1) * p = k * p + p
  OBVIOUS
<1>4. QED
  BY <1>1, <1>2, <1>3 DEF Bounds

\* A page is the part of the sequence from after the pages before it.
LEMMA PageIsPart ==
  ASSUME NEW T, NEW N \in Nat, NEW s \in [1 .. N -> T], NEW query,
         query.page \in Nat \ {0}, query.pageSize \in Nat \ {0}
  PROVE  LET page == Page(s, query)
             low == (query.page - 1) * query.pageSize
             high == query.page * query.pageSize
         IN /\ page \in Seq(T) /\ Len(page) \in 0 .. N
            /\ \A n \in 1 .. Len(page) : low + n \in 1 .. N /\ low + n <= high /\ page[n] = s[low + n]
            /\ \A m \in 1 .. N : (low < m /\ m <= high) => \E n \in 1 .. Len(page) : page[n] = s[m]
            /\ Len(page) < query.pageSize => N < high
<1> DEFINE k == query.page
           p == query.pageSize
           low == (k - 1) * p
           high == k * p
           top == Min({N, high})
           page == SubSeq(s, low + 1, top)
<1>1. low \in Nat /\ high \in Nat /\ high = low + p /\ p \in Nat \ {0}
  BY PageBounds DEF Bounds
<1>2. s \in Seq(T) /\ Len(s) = N
  OBVIOUS
<1>3. Page(s, query) = page
  BY <1>2 DEF Page
<1> HIDE DEF low, high
<1>4. top = IF N <= high THEN N ELSE high
  BY <1>1, SmallerOfTwo
<1> HIDE DEF top
<1>5. top \in Nat /\ top <= N /\ top <= high
  BY <1>1, <1>4
<1>6. \A i \in low + 1 .. top : s[i] \in T
  BY <1>1, <1>5
<1>7. /\ page \in Seq(T) /\ Len(page) = IF low + 1 <= top THEN top - low ELSE 0
      /\ \A n \in 1 .. top - (low + 1) + 1 : page[n] = s[(low + 1) + n - 1]
  BY <1>1, <1>5, <1>6, SubSeqProperties
<1> HIDE DEF page
<1>8. Len(page) \in 0 .. N
  BY <1>1, <1>5, <1>7
<1>9. ASSUME NEW n \in 1 .. Len(page)
      PROVE  low + n \in 1 .. N /\ low + n <= high /\ page[n] = s[low + n]
  <2>1. low + 1 <= top /\ n \in 1 .. top - (low + 1) + 1 /\ low + n <= top
    BY <1>1, <1>5, <1>7
  <2>2. (low + 1) + n - 1 = low + n
    BY <1>1
  <2>3. page[n] = s[(low + 1) + n - 1]
    BY <1>7, <2>1
  <2>4. QED
    BY <1>1, <1>5, <2>1, <2>2, <2>3
<1>10. ASSUME NEW m \in 1 .. N, low < m, m <= high
       PROVE  \E n \in 1 .. Len(page) : page[n] = s[m]
  <2>1. m - low \in 1 .. Len(page)
    BY <1>1, <1>4, <1>7, <1>10
  <2>2. low + (m - low) = m
    BY <1>1
  <2>3. QED
    BY <1>9, <2>1, <2>2
<1>11. ASSUME Len(page) < p PROVE N < high
  BY <1>1, <1>4, <1>7, <1>11
<1>12. QED
  BY <1>3, <1>7, <1>8, <1>9, <1>10, <1>11 DEF low, high

-----------------------------------------------------------------------------
(* Types. *)

IsQuery(q) ==
  q \in [page : Nat \ {0}, pageSize : Nat \ {0}, q : {q.q}, sort : Columns \cup {"none"},
         desc : BOOLEAN, filters : {q.filters}]

IsWalk(w) ==
  /\ w \in [pc : {"idle", "counting", "paging", "done"}, op : {"list", "export"},
            caller : Callers, query : {w.query}, first : Nat \ {0},
            got : 0 .. Cardinality(RowIds), seen : Seq(Item),
            total : 0 .. Cardinality(RowIds), text : {w.text}, due : SUBSET RowIds,
            grew : BOOLEAN, shrank : BOOLEAN, tied : BOOLEAN]
  /\ IsQuery(w.query)

ReadTypes ==
  /\ declaration \in Declarations
  /\ stored \in [RowIds -> Rows \cup {NoRow}]
  /\ writes \in 0 .. MaxWrites
  /\ walk # NoWalk => IsWalk(walk) /\ walk.pc \in {"counting", "paging", "done"}
  /\ detail # NoRow => /\ walk # NoWalk /\ walk.pc = "done"
                       /\ detail.id \in RowIds /\ detail.items \in Seq(Item)

LEMMA TypesImply == ReadTypes => ReadsTypeOK
  BY DEF ReadTypes, ReadsTypeOK, IsWalk

LEMMA NoRowIsNoRow == NoRow \notin Rows
<1>1. DOMAIN NoRow = {}
  BY DEF NoRow
<1>2. \A r \in Rows : "name" \in DOMAIN r
  BY DEF Rows, Columns
<1>3. QED
  BY <1>1, <1>2

LEMMA Sizes ==
  /\ IsFiniteSet(RowIds) /\ Cardinality(RowIds) \in Nat
  /\ \A S \in SUBSET RowIds : /\ IsFiniteSet(S) /\ Cardinality(S) \in Nat
                              /\ Cardinality(S) <= Cardinality(RowIds)
<1>1. IsFiniteSet(RowIds)
  BY Table
<1>2. ASSUME NEW S \in SUBSET RowIds
      PROVE  IsFiniteSet(S) /\ Cardinality(S) \in Nat /\ Cardinality(S) <= Cardinality(RowIds)
  BY <1>1, FS_Subset, FS_CardinalityType
<1>3. QED
  BY <1>1, <1>2, FS_CardinalityType

LEMMA QueriesAreQueries ==
  ASSUME NEW raw \in Queries
  PROVE  IsQuery(ParseQuery(raw))
<1>1. raw.page \in Seq(Int) /\ raw.pageSize \in Seq(Int) /\ raw.sort \in Columns \cup {"none"}
  BY Declared
<1>2. {DefaultPageSize, MaxPageSize, 1, LastPage} \subseteq Nat \ {0}
  BY Limits, SMT DEF LastPage
<1>3. ClampInt(raw.page, 1, 1, LastPage) \in Nat \ {0}
  BY <1>1, <1>2, ClampIntIsPositive
<1>4. ClampInt(raw.pageSize, DefaultPageSize, 1, MaxPageSize) \in Nat \ {0}
  BY <1>1, <1>2, ClampIntIsPositive
<1>5. QED
  BY <1>1, <1>3, <1>4 DEF IsQuery, ParseQuery

\* A walk's first request: a list, or an export, which is of one large page.
LEMMA WalksAreWalks ==
  ASSUME NEW caller \in Callers, NEW raw \in Queries
  PROVE  LET list == Walk("list", caller, ParseQuery(raw))
             export == Walk("export", caller,
               [ParseQuery(raw) EXCEPT !.page = 1,
                                       !.pageSize = Min({ExportCap, Max({@, ExportFloor})})])
         IN /\ IsWalk(list) /\ list.query.page = list.first
            /\ IsWalk(export) /\ export.query.page = 1 /\ export.first = 1
<1> DEFINE query == ParseQuery(raw)
           large == Min({ExportCap, Max({query.pageSize, ExportFloor})})
           first == [query EXCEPT !.page = 1]
           whole == [first EXCEPT !.pageSize = large]
<1>1. IsQuery(query)
  BY QueriesAreQueries
<1>2. large \in Nat \ {0}
  <2>1. query.pageSize \in Nat \ {0} /\ {ExportCap, ExportFloor} \subseteq Nat \ {0}
    BY <1>1, Limits DEF IsQuery
  <2>2. ASSUME NEW a \in Nat \ {0}, NEW b \in Nat \ {0}
        PROVE  Max({a, b}) \in Nat \ {0} /\ Min({a, b}) \in Nat \ {0}
    BY LargerOfTwo, SmallerOfTwo
  <2> HIDE DEF query
  <2>3. Max({query.pageSize, ExportFloor}) \in Nat \ {0}
    BY <2>1, <2>2
  <2>4. QED
    BY <2>1, <2>2, <2>3
<1> HIDE DEF query, large
<1>3. IsQuery(whole) /\ whole.page = 1
  <2>1. first \in [page : {1}, pageSize : Nat \ {0}, q : {query.q},
                   sort : Columns \cup {"none"}, desc : BOOLEAN, filters : {query.filters}]
    BY <1>1 DEF IsQuery
  <2> HIDE DEF first
  <2>2. whole \in [page : {1}, pageSize : Nat \ {0}, q : {query.q},
                   sort : Columns \cup {"none"}, desc : BOOLEAN, filters : {query.filters}]
    BY <1>2, <2>1
  <2>3. QED
    BY <2>2 DEF IsQuery
<1> HIDE DEF first, whole
<1>4. 0 \in 0 .. Cardinality(RowIds) /\ <<>> \in Seq(Item) /\ {} \in SUBSET RowIds
  BY Sizes
<1>5. ASSUME NEW op \in {"list", "export"}, NEW q, IsQuery(q)
      PROVE  /\ IsWalk(Walk(op, caller, q)) /\ Walk(op, caller, q).query = q
             /\ Walk(op, caller, q).first = q.page
  <2>1. q.page \in Nat \ {0}
    BY <1>5 DEF IsQuery
  <2>2. QED
    BY <1>4, <1>5, <2>1 DEF IsWalk, Walk
<1>6. IsWalk(Walk("list", caller, query)) /\ IsWalk(Walk("export", caller, whole))
  BY <1>1, <1>3, <1>5
<1>7. /\ Walk("list", caller, query).query.page = Walk("list", caller, query).first
      /\ Walk("export", caller, whole).query.page = 1 /\ Walk("export", caller, whole).first = 1
  BY <1>1, <1>3, <1>5
<1> HIDE DEF Walk
<1>8. whole = [ParseQuery(raw) EXCEPT !.page = 1,
                                      !.pageSize = Min({ExportCap, Max({@, ExportFloor})})]
  BY Zenon DEF query, large, first, whole
<1>9. QED
  BY <1>6, <1>7, <1>8, Zenon DEF query

-----------------------------------------------------------------------------
(* What is found, and its order. *)

LEMMA FoundAreRows ==
  ASSUME NEW table \in [RowIds -> Rows \cup {NoRow}], NEW caller, NEW query
  PROVE  /\ Found(table, caller, query) \in SUBSET RowIds
         /\ \A i \in Found(table, caller, query) : table[i] \in Rows
  BY DEF Found

\* Which page is asked for makes no difference to what is found.
LEMMA FoundOnAnyPage ==
  ASSUME NEW table, NEW caller, NEW q, NEW r, q.q = r.q, q.filters = r.filters
  PROVE  Found(table, caller, q) = Found(table, caller, r)
  BY DEF Found, Clauses, Where, Filters

LEMMA Places ==
  ASSUME NEW w \in Vocabulary
  PROVE  Place(w) \in Nat /\ Words[Place(w)] = w
<1>1. Words \in Seq(STRING)
  BY Table
<1>2. \E n \in DOMAIN Words : Words[n] = w
  BY DEF Vocabulary, ToSet
<1>3. Place(w) \in DOMAIN Words /\ Words[Place(w)] = w
  BY <1>2 DEF Place
<1>4. QED
  BY <1>1, <1>3

\* How high a row ranks.
Score(table, i, query) ==
  IF query.sort = "none" THEN i
  ELSE IF query.desc THEN Place(table[i][query.sort]) ELSE 0 - Place(table[i][query.sort])

Ahead(table, S, i, query) == {j \in S : Score(table, j, query) > Score(table, i, query)}

LEMMA ScoreRanks ==
  ASSUME NEW query, IsQuery(query), NEW S \in SUBSET RowIds, \A i \in S : stored[i] \in Rows
  PROVE  /\ \A i \in S : Score(stored, i, query) \in Int
         /\ \A i, j \in S : i # j => (Ranked(i, j, query)
                                       <=> Score(stored, i, query) >= Score(stored, j, query))
         /\ ~ Tied(S, query) => \A i, j \in S : i # j => Score(stored, i, query) # Score(stored, j, query)
<1>1. \A i \in S : i \in Nat
  BY Table
<1>2. query.sort \in Columns \cup {"none"} /\ query.desc \in BOOLEAN
  BY DEF IsQuery
<1>3. CASE query.sort = "none"
  BY <1>1, <1>3 DEF Score, Ranked
<1>4. CASE query.sort # "none"
  <2>1. \A i \in S : stored[i][query.sort] \in Vocabulary
    BY <1>2, <1>4 DEF Rows
  <2>2. \A i \in S : /\ Place(stored[i][query.sort]) \in Nat
                     /\ Words[Place(stored[i][query.sort])] = stored[i][query.sort]
    BY <2>1, Places
  <2>3. \A i \in S : Score(stored, i, query) \in Int
    BY <1>2, <1>4, <2>2 DEF Score
  <2>4. ASSUME NEW i \in S, NEW j \in S
        PROVE  Ranked(i, j, query) <=> Score(stored, i, query) >= Score(stored, j, query)
    BY <1>2, <1>4, <2>2 DEF Score, Ranked
  <2>5. ASSUME ~ Tied(S, query), NEW i \in S, NEW j \in S, i # j
        PROVE  Score(stored, i, query) # Score(stored, j, query)
    <3>1. stored[i][query.sort] # stored[j][query.sort]
      BY <1>4, <2>5 DEF Tied
    <3>2. Place(stored[i][query.sort]) # Place(stored[j][query.sort])
      BY <2>2, <3>1
    <3>3. QED
      BY <1>2, <1>4, <2>2, <3>2 DEF Score
  <2>6. QED
    BY <2>3, <2>4, <2>5
<1>5. QED
  BY <1>3, <1>4

\* The rows of a page by their rank: how many are found that rank higher.
Rank(table, S, i, query) == Cardinality(Ahead(table, S, i, query))

Low(query) == (query.page - 1) * query.pageSize
High(query) == query.page * query.pageSize

LEMMA PageOfFound ==
  ASSUME NEW query, IsQuery(query), NEW S \in SUBSET RowIds, \A i \in S : stored[i] \in Rows,
         NEW s \in Arrangements(S, query)
  PROVE  LET page == Page(s, query)
         IN /\ page \in Seq(S) /\ Len(page) \in 0 .. Cardinality(S)
            /\ \A m, n \in 1 .. Len(page) : m # n => page[m] # page[n]
            /\ ~ Tied(S, query) =>
                 /\ \A n \in 1 .. Len(page) : /\ Low(query) <= Rank(stored, S, page[n], query)
                                              /\ Rank(stored, S, page[n], query) < High(query)
                 /\ \A i \in S : (/\ Low(query) <= Rank(stored, S, i, query)
                                  /\ Rank(stored, S, i, query) < High(query))
                                 => \E n \in 1 .. Len(page) : page[n] = i
                 /\ Len(page) < query.pageSize => \A i \in S : Rank(stored, S, i, query) < High(query)
<1> DEFINE N == Cardinality(S)
           score == [i \in S |-> Score(stored, i, query)]
           page == Page(s, query)
<1>1. N \in Nat /\ IsFiniteSet(S)
  BY Sizes
<1>2. query.page \in Nat \ {0} /\ query.pageSize \in Nat \ {0}
  BY DEF IsQuery
<1>3. Low(query) \in Nat /\ High(query) \in Nat
  BY <1>2, PageBounds DEF Low, High, Bounds
<1>4. s \in [1 .. N -> S] /\ \A m, n \in 1 .. N : m # n => s[m] # s[n]
  BY DEF Arrangements, SetToSeqs
<1>5. /\ page \in Seq(S) /\ Len(page) \in 0 .. N
      /\ \A n \in 1 .. Len(page) : /\ Low(query) + n \in 1 .. N /\ Low(query) + n <= High(query)
                                   /\ page[n] = s[Low(query) + n]
      /\ \A m \in 1 .. N : (Low(query) < m /\ m <= High(query)) => \E n \in 1 .. Len(page) : page[n] = s[m]
      /\ Len(page) < query.pageSize => N < High(query)
  <2> HIDE DEF N
  <2>1. QED
    BY <1>1, <1>2, <1>4, PageIsPart DEF Low, High
<1> HIDE DEF page
<1>6. ASSUME NEW m \in 1 .. Len(page), NEW n \in 1 .. Len(page), m # n PROVE page[m] # page[n]
  <2>1. Low(query) + m # Low(query) + n
    BY <1>3, <1>5, <1>6
  <2>2. QED
    BY <1>4, <1>5, <2>1
<1>7. ASSUME ~ Tied(S, query)
      PROVE  /\ \A i \in S : \E n \in 1 .. N : s[n] = i
             /\ \A n \in 1 .. N : Rank(stored, S, s[n], query) = n - 1
  <2>1. /\ score \in [S -> Int]
        /\ \A i, j \in S : i # j => score[i] # score[j]
        /\ \A i, j \in S : i # j => (Ranked(i, j, query) <=> score[i] >= score[j])
    BY <1>7, ScoreRanks
  <2>2. s \in SetToSeqs(S) /\ DOMAIN s = 1 .. N
    BY <1>4 DEF Arrangements
  <2>3. \A m, n \in DOMAIN s : m < n => score[s[m]] >= score[s[n]]
    <3>1. \A m, n \in DOMAIN s : m < n => Ranked(s[m], s[n], query)
      BY DEF Arrangements
    <3>2. \A m, n \in 1 .. N : m < n => s[m] # s[n] /\ s[m] \in S /\ s[n] \in S
      BY <1>1, <1>4
    <3> HIDE DEF score
    <3>3. QED
      BY <2>1, <2>2, <3>1, <3>2
  <2>4. \A n \in 1 .. N : Ahead(stored, S, s[n], query) = {j \in S : score[j] > score[s[n]]}
    BY <1>4 DEF Ahead
  <2> HIDE DEF score
  <2>5. /\ \A i \in S : \E n \in 1 .. N : s[n] = i
        /\ \A n \in 1 .. N : Cardinality({j \in S : score[j] > score[s[n]]}) = n - 1
    <3>1. /\ IsFiniteSet(S) /\ score \in [S -> Int] /\ s \in SetToSeqs(S)
          /\ \A i, j \in S : i # j => score[i] # score[j]
          /\ \A m, n \in DOMAIN s : m < n => score[s[m]] >= score[s[n]]
      BY <1>1, <2>1, <2>2, <2>3
    <3>2. QED
      BY <3>1, PlaceIsRank, SMTT(60)
  <2>6. QED
    BY <2>4, <2>5 DEF Rank
<1> HIDE DEF score, N
<1>8. ASSUME ~ Tied(S, query)
      PROVE /\ \A n \in 1 .. Len(page) : /\ Low(query) <= Rank(stored, S, page[n], query)
                                         /\ Rank(stored, S, page[n], query) < High(query)
            /\ \A i \in S : (/\ Low(query) <= Rank(stored, S, i, query)
                             /\ Rank(stored, S, i, query) < High(query))
                            => \E n \in 1 .. Len(page) : page[n] = i
            /\ Len(page) < query.pageSize => \A i \in S : Rank(stored, S, i, query) < High(query)
  <2>1. ASSUME NEW n \in 1 .. Len(page)
        PROVE  /\ Low(query) <= Rank(stored, S, page[n], query)
               /\ Rank(stored, S, page[n], query) < High(query)
    <3>1. Rank(stored, S, page[n], query) = (Low(query) + n) - 1
      BY <1>5, <1>7, <1>8
    <3>2. QED
      BY <1>3, <1>5, <3>1
  <2>2. ASSUME NEW i \in S, Low(query) <= Rank(stored, S, i, query),
               Rank(stored, S, i, query) < High(query)
        PROVE  \E n \in 1 .. Len(page) : page[n] = i
    <3>1. PICK m \in 1 .. N : s[m] = i
      BY <1>7, <1>8
    <3>2. Rank(stored, S, i, query) = m - 1
      BY <1>7, <1>8, <3>1
    <3>3. Low(query) < m /\ m <= High(query)
      BY <1>1, <1>3, <2>2, <3>2
    <3>4. QED
      BY <1>5, <3>1, <3>3
  <2>3. ASSUME Len(page) < query.pageSize, NEW i \in S
        PROVE  Rank(stored, S, i, query) < High(query)
    <3>1. PICK m \in 1 .. N : s[m] = i
      BY <1>7, <1>8
    <3>2. Rank(stored, S, i, query) = m - 1
      BY <1>7, <1>8, <3>1
    <3>3. N < High(query)
      BY <1>5, <2>3
    <3>4. QED
      BY <1>1, <1>3, <3>2, <3>3
  <2>4. QED
    BY <2>1, <2>2, <2>3
<1>9. QED
  BY <1>5, <1>6, <1>8 DEF page, N

\* What ListedMatch says of one row.
Meets(was, caller, query) ==
  LET filters == query.filters
      searched == IF query.q # {} THEN declaration.search ELSE {}
      named == DOMAIN filters \cup searched
  IN /\ declaration.namespace # "G" /\ "scope" \notin named => was.scope = caller.scope
     /\ declaration.deletable /\ "status" \notin named => was.status # "deleted"
     /\ searched # {} => \E f \in searched : was[f] \in query.q
     /\ \A f \in DOMAIN filters \ searched : was[f] \in FilterShapeToTypeOrm(filters[f])

LEMMA FoundMeets ==
  ASSUME NEW table, NEW caller, NEW query, NEW i \in Found(table, caller, query)
  PROVE  Meets(table[i], caller, query)
<1> DEFINE row == table[i]
           filters == query.filters
           searched == IF query.q # {} THEN declaration.search ELSE {}
           where == Where(caller, query)
<1>1. PICK w \in Clauses(caller, query) : \A f \in DOMAIN w : row[f] \in w[f]
  BY DEF Found
<1>2. /\ \A f \in DOMAIN filters : f \in DOMAIN where /\ where[f] = FilterShapeToTypeOrm(filters[f])
      /\ (declaration.namespace # "G" /\ "scope" \notin DOMAIN filters)
           => "scope" \in DOMAIN where /\ where["scope"] = {caller.scope}
      /\ (declaration.deletable /\ "status" \notin DOMAIN filters)
           => "status" \in DOMAIN where /\ where["status"] = Vocabulary \ {"deleted"}
  <2> DEFINE old == Assigned(NotDeleted, ScopeClause(caller))
  <2>1. /\ DOMAIN Filters(query) = DOMAIN filters
        /\ \A f \in DOMAIN filters : Filters(query)[f] = FilterShapeToTypeOrm(filters[f])
    BY DEF Filters
  <2>2. declaration.namespace # "G" =>
          "scope" \in DOMAIN ScopeClause(caller) /\ ScopeClause(caller)["scope"] = {caller.scope}
    BY DEF ScopeClause, Scoped
  <2>3. "scope" \notin DOMAIN NotDeleted
    BY DEF NotDeleted
  <2>4. declaration.deletable =>
          "status" \in DOMAIN NotDeleted /\ NotDeleted["status"] = Vocabulary \ {"deleted"}
    BY DEF NotDeleted
  <2>5. declaration.namespace # "G" => "scope" \in DOMAIN old /\ old["scope"] = {caller.scope}
    BY <2>2, <2>3 DEF Assigned
  <2>6. declaration.deletable =>
          "status" \in DOMAIN old /\ old["status"] = Vocabulary \ {"deleted"}
    BY <2>4 DEF Assigned
  <2> HIDE DEF old
  <2>7. where = Assigned(Filters(query), old)
    BY DEF Where, old
  <2>8. /\ DOMAIN where = DOMAIN filters \cup DOMAIN old
        /\ \A f \in DOMAIN filters : where[f] = Filters(query)[f]
        /\ \A f \in DOMAIN old : f \notin DOMAIN filters => where[f] = old[f]
    <3>1. /\ DOMAIN where = DOMAIN Filters(query) \cup DOMAIN old
          /\ \A f \in DOMAIN Filters(query) : where[f] = Filters(query)[f]
          /\ \A f \in DOMAIN old : f \notin DOMAIN Filters(query) => where[f] = old[f]
      <4> HIDE DEF where
      <4>1. QED
        BY <2>7 DEF Assigned
    <3>2. QED
      BY <2>1, <3>1
  <2> HIDE DEF where, filters
  <2>9. QED
    BY <2>1, <2>5, <2>6, <2>8 DEF filters
<1> HIDE DEF where
<1>3. CASE searched = {}
  <2>1. w = where
    BY <1>1, <1>3 DEF Clauses, where
  <2>2. QED
    BY <1>1, <1>2, <1>3, <2>1 DEF Meets
<1>4. CASE searched # {}
  <2>1. PICK g \in searched : w = Assigned([h \in {g} |-> query.q], where)
    BY <1>1, <1>4 DEF Clauses, where
  <2>2. /\ g \in DOMAIN w /\ w[g] = query.q
        /\ \A f \in DOMAIN where \ searched : f \in DOMAIN w /\ w[f] = where[f]
    BY <2>1 DEF Assigned
  <2>3. /\ row[g] \in query.q
        /\ \A f \in DOMAIN where \ searched : row[f] \in where[f]
    BY <1>1, <2>2
  <2> HIDE DEF searched, filters
  <2>4. (declaration.namespace # "G" /\ "scope" \notin DOMAIN filters \cup searched)
          => row["scope"] = caller.scope
    BY <1>2, <2>3
  <2>5. (declaration.deletable /\ "status" \notin DOMAIN filters \cup searched)
          => row["status"] # "deleted"
    BY <1>2, <2>3
  <2>6. \A f \in DOMAIN filters \ searched : row[f] \in FilterShapeToTypeOrm(filters[f])
    BY <1>2, <2>3
  <2>7. QED
    BY <2>3, <2>4, <2>5, <2>6 DEF Meets, searched, filters
<1>5. QED
  BY <1>3, <1>4

-----------------------------------------------------------------------------
(* The walk. *)

Listed(w) == {w.seen[n].id : n \in 1 .. Len(w.seen)}

\* What the pages so far tell of `due`, what matched when the walk began, and F,
\* what matches now: they were the rows of F of a rank below `before`.  Rows that
\* are added only raise the ranks of others, and rows that go only lower them.
WalkSoFar(w, due, table, F, before) ==
  /\ w.first = 1 /\ ~ w.tied /\ ~ w.shrank =>
       /\ due \subseteq F
       /\ \A i \in due : Rank(table, F, i, w.query) < before => i \in Listed(w)
  /\ ~ w.tied /\ ~ w.grew =>
       /\ \A m, n \in 1 .. Len(w.seen) : m # n => w.seen[m].id # w.seen[n].id
       /\ \A i \in Listed(w) \cap F : Rank(table, F, i, w.query) < before
  /\ ~ w.grew /\ ~ w.shrank => F = due /\ Listed(w) \subseteq due

\* What its last reply tells.
WalkEnds(w) ==
  /\ w.op = "export" => w.pc # "paging"
  /\ w.pc = "done" => w.op = "export" \/ w.got < w.query.pageSize
  /\ (/\ w.first = 1 /\ ~ w.tied /\ ~ w.shrank
      /\ \/ w.got < w.query.pageSize
         \/ w.op = "export" /\ Cardinality(w.due) <= w.query.pageSize)
     => w.due \subseteq Listed(w)
  /\ w.pc = "done" /\ ~ w.grew /\ ~ w.shrank => w.total = Cardinality(w.due)

WalkInv ==
  walk # NoWalk =>
    /\ WalkSoFar(walk, walk.due, stored, Found(stored, walk.caller, walk.query), High(walk.query))
    /\ WalkEnds(walk)

\* What was shown matched, and is masked.
SeenInv ==
  walk # NoWalk => \A n \in 1 .. Len(walk.seen) :
    /\ Meets(walk.seen[n].was, walk.caller, walk.query)
    /\ Masks(walk.seen[n].row, walk.seen[n].was, walk.caller)

OpenedInv ==
  detail # NoRow => \A n \in 1 .. Len(detail.items) :
    Masks(detail.items[n].row, detail.items[n].was, walk.caller)

ReadInv == ReadTypes /\ SeenInv /\ OpenedInv /\ WalkInv

LEMMA ShownIsMasked ==
  ASSUME ReadTypes, NEW i \in RowIds, stored[i] \in Rows, NEW caller
  PROVE  /\ Shown(i, caller) \in Item /\ Shown(i, caller).id = i /\ Shown(i, caller).was = stored[i]
         /\ Masks(Shown(i, caller).row, stored[i], caller)
<1>1. declaration.rules \in Seq(Rules)
  BY Declared DEF ReadTypes
<1>2. Masks(MaskRow(stored[i], caller), stored[i], caller)
  BY <1>1, MaskRowMasks
<1>3. MaskRow(stored[i], caller) \in Rows
  BY <1>2 DEF Masks
<1>4. QED
  BY <1>2, <1>3 DEF Shown, Item

LEMMA SelectFacts ==
  ASSUME ReadTypes, NEW w, IsWalk(w), Select(w)
  PROVE  LET S == Found(stored, w.caller, w.query)
         IN \E s \in Arrangements(S, w.query) :
              LET page == Page(s, w.query)
              IN /\ IsWalk(walk') /\ walk'.pc = "counting"
                 /\ walk'.op = w.op /\ walk'.caller = w.caller /\ walk'.query = w.query
                 /\ walk'.first = w.first /\ walk'.grew = w.grew /\ walk'.shrank = w.shrank
                 /\ walk'.got = Len(page) /\ Len(walk'.seen) = Len(w.seen) + Len(page)
                 /\ \A n \in 1 .. Len(w.seen) : walk'.seen[n] = w.seen[n]
                 /\ \A n \in 1 .. Len(page) : walk'.seen[Len(w.seen) + n] = Shown(page[n], w.caller)
                 /\ walk'.due = (IF w.pc = "idle" THEN S ELSE w.due)
                 /\ walk'.tied = (w.tied \/ Tied(S, w.query))
<1> DEFINE S == Found(stored, w.caller, w.query)
<1>1. PICK s \in Arrangements(S, w.query) :
        LET page == Page(s, w.query)
        IN walk' = [w EXCEPT !.pc = "counting", !.got = Len(page),
                             !.seen = w.seen \o [n \in DOMAIN page |-> Shown(page[n], w.caller)],
                             !.due = IF w.pc = "idle" THEN S ELSE w.due,
                             !.tied = w.tied \/ Tied(S, w.query)]
  BY DEF Select
<1> DEFINE page == Page(s, w.query)
           new == [n \in DOMAIN page |-> Shown(page[n], w.caller)]
           due == IF w.pc = "idle" THEN S ELSE w.due
           tied == w.tied \/ Tied(S, w.query)
<1>2. S \in SUBSET RowIds /\ \A i \in S : stored[i] \in Rows
  BY FoundAreRows DEF ReadTypes
<1>3. IsQuery(w.query)
  BY DEF IsWalk
<1>4. page \in Seq(S) /\ Len(page) \in 0 .. Cardinality(S)
  BY <1>2, <1>3, PageOfFound
<1>5. Len(page) \in 0 .. Cardinality(RowIds)
  BY <1>2, <1>4, Sizes
<1>6. new \in Seq(Item) /\ Len(new) = Len(page)
      /\ \A n \in 1 .. Len(page) : new[n] = Shown(page[n], w.caller)
  <2> HIDE DEF page
  <2>1. DOMAIN page = 1 .. Len(page) /\ Len(page) \in Nat
    BY <1>4
  <2>2. \A n \in 1 .. Len(page) : Shown(page[n], w.caller) \in Item
    BY <1>2, <1>4, ShownIsMasked
  <2>3. QED
    BY <2>1, <2>2
<1>7. w.seen \in Seq(Item)
  BY DEF IsWalk
<1>8. /\ w.seen \o new \in Seq(Item) /\ Len(w.seen \o new) = Len(w.seen) + Len(page)
      /\ \A n \in 1 .. Len(w.seen) : (w.seen \o new)[n] = w.seen[n]
      /\ \A n \in 1 .. Len(page) : (w.seen \o new)[Len(w.seen) + n] = Shown(page[n], w.caller)
  <2> HIDE DEF new, page
  <2>1. /\ w.seen \o new \in Seq(Item) /\ Len(w.seen \o new) = Len(w.seen) + Len(new)
        /\ \A n \in 1 .. Len(w.seen) + Len(new) :
             (w.seen \o new)[n] = IF n <= Len(w.seen) THEN w.seen[n] ELSE new[n - Len(w.seen)]
    BY <1>6, <1>7, ConcatProperties
  <2>2. Len(w.seen) \in Nat /\ Len(page) \in Nat
    BY <1>4, <1>7
  <2>3. ASSUME NEW n \in 1 .. Len(page)
        PROVE  (w.seen \o new)[Len(w.seen) + n] = Shown(page[n], w.caller)
    <3>1. /\ Len(w.seen) + n \in 1 .. Len(w.seen) + Len(new) /\ ~ (Len(w.seen) + n <= Len(w.seen))
          /\ (Len(w.seen) + n) - Len(w.seen) = n
      BY <1>6, <2>2
    <3>2. QED
      BY <1>6, <2>1, <3>1
  <2>4. \A n \in 1 .. Len(w.seen) : n \in 1 .. Len(w.seen) + Len(new) /\ n <= Len(w.seen)
    BY <1>6, <2>2
  <2>5. QED
    BY <1>6, <2>1, <2>3, <2>4
<1>9. due \in SUBSET RowIds /\ tied \in BOOLEAN
  BY <1>2 DEF IsWalk, Tied
<1> HIDE DEF page, new, due, tied, S
<1> DEFINE seen == w.seen \o new
           v == [w EXCEPT !.pc = "counting", !.got = Len(page), !.seen = seen, !.due = due, !.tied = tied]
<1>10. walk' = v
  BY <1>1, Zenon DEF page, new, due, tied
<1>11. seen \in Seq(Item)
  BY <1>8
<1> HIDE DEF seen
<1>12. /\ IsWalk(v) /\ v.pc = "counting"
       /\ v.op = w.op /\ v.caller = w.caller /\ v.query = w.query
       /\ v.first = w.first /\ v.grew = w.grew /\ v.shrank = w.shrank
       /\ v.got = Len(page) /\ v.seen = seen /\ v.due = due /\ v.tied = tied
  BY <1>5, <1>9, <1>11 DEF IsWalk
<1> HIDE DEF v
<1>13. QED
  BY <1>8, <1>10, <1>12 DEF S, page, due, tied, seen

\* What a page adds, for a first request and for a later one.
LEMMA SelectKeeps ==
  ASSUME ReadTypes, NEW w, IsWalk(w), Select(w),
         w.op = "export" => w.pc = "idle" /\ w.query.page = 1,
         \A n \in 1 .. Len(w.seen) : /\ Meets(w.seen[n].was, w.caller, w.query)
                                     /\ Masks(w.seen[n].row, w.seen[n].was, w.caller),
         WalkSoFar(w, IF w.pc = "idle" THEN Found(stored, w.caller, w.query) ELSE w.due,
                   stored, Found(stored, w.caller, w.query), Low(w.query))
  PROVE  /\ IsWalk(walk') /\ walk'.pc = "counting"
         /\ \A n \in 1 .. Len(walk'.seen) :
              /\ Meets(walk'.seen[n].was, walk'.caller, walk'.query)
              /\ Masks(walk'.seen[n].row, walk'.seen[n].was, walk'.caller)
         /\ WalkSoFar(walk', walk'.due, stored, Found(stored, walk'.caller, walk'.query),
                      High(walk'.query))
         /\ WalkEnds(walk')
<1> DEFINE S == Found(stored, w.caller, w.query)
           q == w.query
           rank(i) == Rank(stored, S, i, q)
<1>1. PICK s \in Arrangements(S, q) :
        LET page == Page(s, q)
        IN /\ IsWalk(walk') /\ walk'.pc = "counting"
           /\ walk'.op = w.op /\ walk'.caller = w.caller /\ walk'.query = q
           /\ walk'.first = w.first /\ walk'.grew = w.grew /\ walk'.shrank = w.shrank
           /\ walk'.got = Len(page) /\ Len(walk'.seen) = Len(w.seen) + Len(page)
           /\ \A n \in 1 .. Len(w.seen) : walk'.seen[n] = w.seen[n]
           /\ \A n \in 1 .. Len(page) : walk'.seen[Len(w.seen) + n] = Shown(page[n], w.caller)
           /\ walk'.due = (IF w.pc = "idle" THEN S ELSE w.due)
           /\ walk'.tied = (w.tied \/ Tied(S, q))
  BY SelectFacts
<1> DEFINE page == Page(s, q)
           N == Len(w.seen)
           L == Len(page)
           due == IF w.pc = "idle" THEN S ELSE w.due
<1>2. S \in SUBSET RowIds /\ (\A i \in S : stored[i] \in Rows) /\ IsQuery(q)
  BY FoundAreRows DEF ReadTypes, IsWalk
<1>3. /\ page \in Seq(S) /\ L \in 0 .. Cardinality(S)
      /\ \A m, n \in 1 .. L : m # n => page[m] # page[n]
      /\ ~ Tied(S, q) =>
           /\ \A n \in 1 .. L : Low(q) <= rank(page[n]) /\ rank(page[n]) < High(q)
           /\ \A i \in S : (Low(q) <= rank(i) /\ rank(i) < High(q)) => \E n \in 1 .. L : page[n] = i
           /\ L < q.pageSize => \A i \in S : rank(i) < High(q)
  BY <1>2, PageOfFound
<1>4. N \in Nat /\ L \in Nat /\ L <= Cardinality(S) /\ Cardinality(S) \in Nat
  BY <1>2, <1>3, Sizes DEF IsWalk
<1>5. Len(walk'.seen) = N + L /\ walk'.seen \in Seq(Item)
  <2>1. Len(walk'.seen) = N + L
    BY <1>1
  <2>2. QED
    BY <1>1, <2>1 DEF IsWalk
<1>6. \A i \in S : rank(i) \in Nat /\ rank(i) < Cardinality(S)
  <2> TAKE i \in S
  <2>1. Ahead(stored, S, i, q) \in SUBSET (S \ {i})
    <3>1. \A j \in S : Score(stored, j, q) \in Int
      BY <1>2, ScoreRanks
    <3>2. QED
      BY <3>1 DEF Ahead
  <2>2. S \ {i} \in SUBSET RowIds /\ IsFiniteSet(S)
    BY <1>2, Sizes
  <2>3. /\ Cardinality(S \ {i}) = Cardinality(S) - 1 /\ IsFiniteSet(S \ {i})
    BY <2>2, FS_RemoveElement
  <2>4. /\ Cardinality(Ahead(stored, S, i, q)) <= Cardinality(S \ {i})
        /\ IsFiniteSet(Ahead(stored, S, i, q))
    BY <2>1, <2>3, FS_Subset
  <2>5. Cardinality(Ahead(stored, S, i, q)) \in Nat
    BY <2>4, FS_CardinalityType
  <2>6. QED
    BY <1>4, <2>3, <2>4, <2>5 DEF Rank
<1>7. /\ Low(q) \in Nat /\ High(q) \in Nat /\ Low(q) <= High(q)
      /\ q.page = 1 => Low(q) = 0 /\ High(q) = q.pageSize
      /\ q.pageSize \in Nat
  <2>1. q.page \in Nat \ {0} /\ q.pageSize \in Nat \ {0}
    BY <1>2 DEF IsQuery
  <2>2. Bounds(q.page, q.pageSize)
    BY <2>1, PageBounds
  <2>3. q.page = 1 => Low(q) = 0 * q.pageSize
    BY DEF Low
  <2>4. QED
    BY <2>1, <2>2, <2>3 DEF Low, High, Bounds
<1>8. \A n \in 1 .. Len(walk'.seen) : \/ n \in 1 .. N /\ walk'.seen[n] = w.seen[n]
                                      \/ \E m \in 1 .. L : /\ n = N + m /\ page[m] \in S
                                                           /\ walk'.seen[n] = Shown(page[m], w.caller)
  <2> TAKE n \in 1 .. Len(walk'.seen)
  <2>1. n \in 1 .. N \/ (n - N \in 1 .. L /\ n = N + (n - N))
    <3> HIDE DEF N, L
    <3>1. QED
      BY <1>4, <1>5
  <2>2. \A m \in 1 .. L : page[m] \in S
    BY <1>3
  <2>3. QED
    BY <1>1, <2>1, <2>2
<1>9. \A m \in 1 .. L : /\ page[m] \in S /\ N + m \in 1 .. Len(walk'.seen)
                        /\ walk'.seen[N + m] = Shown(page[m], w.caller)
                        /\ walk'.seen[N + m].id = page[m]
  <2>1. \A m \in 1 .. L : page[m] \in S /\ N + m \in 1 .. Len(walk'.seen)
    <3>1. \A m \in 1 .. L : page[m] \in S
      BY <1>3
    <3> HIDE DEF N, L
    <3>2. QED
      BY <1>4, <1>5, <3>1
  <2>2. \A m \in 1 .. L : walk'.seen[N + m] = Shown(page[m], w.caller)
    BY <1>1
  <2>3. \A i : Shown(i, w.caller).id = i
    BY DEF Shown
  <2>4. QED
    BY <2>1, <2>2, <2>3
<1>10. ASSUME NEW n \in 1 .. Len(walk'.seen)
      PROVE  /\ Meets(walk'.seen[n].was, w.caller, q)
             /\ Masks(walk'.seen[n].row, walk'.seen[n].was, w.caller)
  <2>1. CASE n \in 1 .. N /\ walk'.seen[n] = w.seen[n]
    BY <2>1
  <2>2. ASSUME NEW m \in 1 .. L, page[m] \in S, walk'.seen[n] = Shown(page[m], w.caller)
        PROVE  /\ Meets(walk'.seen[n].was, w.caller, q)
               /\ Masks(walk'.seen[n].row, walk'.seen[n].was, w.caller)
    <3>1. Meets(stored[page[m]], w.caller, q)
      BY <2>2, FoundMeets
    <3>2. Shown(page[m], w.caller).was = stored[page[m]]
          /\ Masks(Shown(page[m], w.caller).row, stored[page[m]], w.caller)
      BY <1>2, <2>2, ShownIsMasked
    <3>3. QED
      BY <2>2, <3>1, <3>2
  <2>3. QED
    BY <1>8, <2>1, <2>2
<1>11. Listed(walk') = Listed(w) \cup {page[m] : m \in 1 .. L}
  <2>1. ASSUME NEW i \in Listed(walk') PROVE i \in Listed(w) \cup {page[m] : m \in 1 .. L}
    BY <1>8, <1>9, <2>1 DEF Listed
  <2>2. ASSUME NEW i \in Listed(w) PROVE i \in Listed(walk')
    <3>1. PICK n \in 1 .. N : i = w.seen[n].id
      BY DEF Listed
    <3>2. n \in 1 .. Len(walk'.seen)
      <4> HIDE DEF N, L
      <4>1. QED
        BY <1>4, <1>5
    <3>3. walk'.seen[n] = w.seen[n]
      BY <1>1
    <3>4. QED
      BY <3>1, <3>2, <3>3 DEF Listed
  <2>3. ASSUME NEW m \in 1 .. L PROVE page[m] \in Listed(walk')
    BY <1>9 DEF Listed
  <2>4. QED
    BY <2>1, <2>2, <2>3
<1> HIDE DEF page, L, N, rank, S, due, q
<1>12. WalkSoFar(w, due, stored, S, Low(q))
  BY DEF S, due, q
<1>13. w.query = q /\ walk'.due = due /\ \A i : Rank(stored, S, i, q) = rank(i)
  BY <1>1 DEF q, due, S, rank
<1>14. walk'.tied => w.tied \/ Tied(S, q)
  BY <1>1
<1>15. ~ walk'.tied => ~ w.tied /\ ~ Tied(S, q)
  BY <1>1
<1>16. ASSUME w.first = 1, ~ walk'.tied, ~ w.shrank
       PROVE  /\ due \subseteq S
              /\ \A i \in due : rank(i) < High(q) => i \in Listed(walk')
  <2>1. due \subseteq S /\ \A i \in due : rank(i) < Low(q) => i \in Listed(w)
    BY <1>12, <1>13, <1>15, <1>16 DEF WalkSoFar
  <2>2. ASSUME NEW i \in due, rank(i) < High(q) PROVE i \in Listed(walk')
    <3>1. CASE rank(i) < Low(q)
      BY <1>11, <2>1, <2>2, <3>1
    <3>2. CASE ~ (rank(i) < Low(q))
      <4>1. Low(q) <= rank(i) /\ i \in S
        BY <1>6, <1>7, <2>1, <2>2, <3>2
      <4>2. \E n \in 1 .. L : page[n] = i
        BY <1>3, <1>15, <1>16, <2>2, <4>1
      <4>3. QED
        BY <1>11, <4>2
    <3>3. QED
      BY <3>1, <3>2
  <2>3. QED
    BY <2>1, <2>2
<1>17. ASSUME ~ walk'.tied, ~ w.grew
       PROVE  /\ \A m, n \in 1 .. Len(walk'.seen) : m # n => walk'.seen[m].id # walk'.seen[n].id
              /\ \A i \in Listed(walk') \cap S : rank(i) < High(q)
  <2>1. /\ \A m, n \in 1 .. N : m # n => w.seen[m].id # w.seen[n].id
        /\ \A i \in Listed(w) \cap S : rank(i) < Low(q)
    BY <1>12, <1>13, <1>15, <1>17 DEF WalkSoFar, N
  <2>2. \A n \in 1 .. L : /\ Low(q) <= rank(page[n]) /\ rank(page[n]) < High(q)
                          /\ page[n] \in S /\ rank(page[n]) \in Nat
    BY <1>3, <1>6, <1>9, <1>15, <1>17
  <2>3. \A n \in 1 .. L : page[n] \notin Listed(w)
    BY <1>7, <2>1, <2>2
  <2>4. \A n \in 1 .. N : w.seen[n].id \in Listed(w)
    BY DEF Listed, N
  <2>5. ASSUME NEW m \in 1 .. Len(walk'.seen), NEW n \in 1 .. Len(walk'.seen), m # n
        PROVE  walk'.seen[m].id # walk'.seen[n].id
    <3>1. CASE m \in 1 .. N /\ walk'.seen[m] = w.seen[m]
      <4>1. CASE n \in 1 .. N /\ walk'.seen[n] = w.seen[n]
        BY <2>1, <2>5, <3>1, <4>1
      <4>2. CASE \E l \in 1 .. L : n = N + l
        BY <1>9, <2>3, <2>4, <3>1, <4>2
      <4>3. QED
        BY <1>8, <4>1, <4>2
    <3>2. CASE \E k \in 1 .. L : m = N + k
      <4>1. CASE n \in 1 .. N /\ walk'.seen[n] = w.seen[n]
        BY <1>9, <2>3, <2>4, <3>2, <4>1
      <4>2. CASE \E l \in 1 .. L : n = N + l
        BY <1>3, <1>9, <2>5, <3>2, <4>2
      <4>3. QED
        BY <1>8, <4>1, <4>2
    <3>3. QED
      BY <1>8, <3>1, <3>2
  <2>6. ASSUME NEW i \in Listed(walk'), i \in S PROVE rank(i) < High(q)
    <3>1. CASE i \in Listed(w)
      BY <1>6, <1>7, <2>1, <2>6, <3>1
    <3>2. CASE \E n \in 1 .. L : page[n] = i
      BY <2>2, <3>2
    <3>3. QED
      BY <1>11, <3>1, <3>2
  <2>7. QED
    BY <2>5, <2>6
<1>18. ASSUME ~ w.grew, ~ w.shrank PROVE S = due /\ Listed(walk') \subseteq due
  <2>1. S = due /\ Listed(w) \subseteq due
    BY <1>12, <1>18 DEF WalkSoFar
  <2>2. QED
    BY <1>9, <1>11, <2>1
<1>19. WalkSoFar(walk', due, stored, S, High(q))
  <2>1. walk'.first = w.first /\ walk'.grew = w.grew /\ walk'.shrank = w.shrank /\ walk'.query = q
    BY <1>1
  <2>2. QED
    BY <1>13, <1>16, <1>17, <1>18, <2>1 DEF WalkSoFar
<1>20. ASSUME w.first = 1, ~ walk'.tied, ~ w.shrank,
              L < q.pageSize \/ (w.op = "export" /\ Cardinality(due) <= q.pageSize)
       PROVE  due \subseteq Listed(walk')
  <2>1. CASE L < q.pageSize
    BY <1>3, <1>15, <1>16, <1>20, <2>1
  <2>2. CASE w.op = "export" /\ Cardinality(due) <= q.pageSize
    <3>1. due = S /\ q.page = 1
      BY <2>2 DEF due, q
    <3>2. High(q) = q.pageSize
      BY <1>7, <3>1
    <3>3. \A i \in S : rank(i) < High(q)
      BY <1>4, <1>6, <1>7, <2>2, <3>1, <3>2
    <3>4. QED
      BY <1>16, <1>20, <3>1, <3>3
  <2>3. QED
    BY <1>20, <2>1, <2>2
<1>21. WalkEnds(walk')
  <2>1. /\ walk'.pc = "counting" /\ walk'.op = w.op /\ walk'.query = q /\ walk'.got = L
        /\ walk'.first = w.first /\ walk'.shrank = w.shrank
    BY <1>1 DEF L, page
  <2>2. walk'.due = due
    BY <1>13
  <2>3. ASSUME walk'.first = 1, ~ walk'.tied, ~ walk'.shrank,
               \/ walk'.got < walk'.query.pageSize
               \/ walk'.op = "export" /\ Cardinality(walk'.due) <= walk'.query.pageSize
        PROVE  walk'.due \subseteq Listed(walk')
    <3>1. w.first = 1 /\ ~ w.shrank
      BY <2>1, <2>3
    <3>2. L < q.pageSize \/ (w.op = "export" /\ Cardinality(due) <= q.pageSize)
      BY <2>1, <2>2, <2>3
    <3>3. QED
      BY <1>20, <2>2, <2>3, <3>1, <3>2
  <2>4. QED
    BY <2>1, <2>3 DEF WalkEnds
<1>22. S = Found(stored, walk'.caller, walk'.query) /\ walk'.query = q /\ walk'.caller = w.caller
  BY <1>1 DEF S, q
<1>23. IsWalk(walk') /\ walk'.pc = "counting"
  BY <1>1
<1>24. QED
  BY <1>10, <1>13, <1>19, <1>21, <1>22, <1>23

\* The invariant of the next state, as what the present declaration says of it.
LEMMA InvOfNext ==
  ASSUME declaration' = declaration, ReadTypes',
         walk' # NoWalk =>
           /\ \A n \in 1 .. Len(walk'.seen) :
                /\ Meets(walk'.seen[n].was, walk'.caller, walk'.query)
                /\ Masks(walk'.seen[n].row, walk'.seen[n].was, walk'.caller)
           /\ WalkSoFar(walk', walk'.due, stored', Found(stored', walk'.caller, walk'.query),
                        High(walk'.query))
           /\ WalkEnds(walk'),
         detail' # NoRow => \A n \in 1 .. Len(detail'.items) :
                              Masks(detail'.items[n].row, detail'.items[n].was, walk'.caller)
  PROVE  ReadInv'
<1>1. SeenInv'
  BY DEF SeenInv, Meets, Masks, RulesOn
<1>2. OpenedInv'
  BY DEF OpenedInv, Masks, RulesOn
<1>3. WalkInv'
  <2>1. Found(stored, walk.caller, walk.query)' = Found(stored', walk'.caller, walk'.query)
    BY DEF Found, Clauses, Where, NotDeleted, ScopeClause, Scoped
  <2>2. QED
    BY <2>1 DEF WalkInv
<1>4. QED
  BY <1>1, <1>2, <1>3 DEF ReadInv

LEMMA ReadInvInit == ReadsInit => ReadInv
<1> SUFFICES ASSUME ReadsInit PROVE ReadInv
  OBVIOUS
<1>1. stored \in [RowIds -> Rows \cup {NoRow}]
  BY Table DEF ReadsInit
<1>2. 0 \in 0 .. MaxWrites
  BY Limits
<1>3. QED
  BY <1>1, <1>2 DEF ReadsInit, ReadInv, ReadTypes, SeenInv, OpenedInv, WalkInv

LEMMA RanksAreNumbers ==
  ASSUME NEW table, NEW S \in SUBSET RowIds, NEW i, NEW query
  PROVE  Rank(table, S, i, query) \in Nat
<1>1. Ahead(table, S, i, query) \in SUBSET RowIds
  BY DEF Ahead
<1>2. QED
  BY <1>1, Sizes DEF Rank

LEMMA InvAfterSelect ==
  ASSUME ReadInv, NEW w, IsWalk(w), Select(w), UNCHANGED <<declaration, stored, writes, detail>>,
         detail = NoRow,
         w.op = "export" => w.pc = "idle" /\ w.query.page = 1,
         \A n \in 1 .. Len(w.seen) : /\ Meets(w.seen[n].was, w.caller, w.query)
                                     /\ Masks(w.seen[n].row, w.seen[n].was, w.caller),
         WalkSoFar(w, IF w.pc = "idle" THEN Found(stored, w.caller, w.query) ELSE w.due,
                   stored, Found(stored, w.caller, w.query), Low(w.query))
  PROVE  ReadInv' /\ walk'.pc = "counting"
<1>1. ReadTypes
  BY DEF ReadInv
<1>2. /\ IsWalk(walk') /\ walk'.pc = "counting"
      /\ \A n \in 1 .. Len(walk'.seen) :
           /\ Meets(walk'.seen[n].was, walk'.caller, walk'.query)
           /\ Masks(walk'.seen[n].row, walk'.seen[n].was, walk'.caller)
      /\ WalkSoFar(walk', walk'.due, stored, Found(stored, walk'.caller, walk'.query),
                   High(walk'.query))
      /\ WalkEnds(walk')
  BY <1>1, SelectKeeps
<1>3. ReadTypes'
  BY <1>1, <1>2 DEF ReadTypes, IsWalk, IsQuery
<1>4. QED
  BY <1>2, <1>3, InvOfNext

LEMMA FreshSoFar ==
  ASSUME NEW op, NEW caller, NEW q, IsQuery(q), NEW F \in SUBSET RowIds, NEW table
  PROVE  LET w == Walk(op, caller, q)
         IN /\ w.pc = "idle" /\ w.op = op /\ w.query = q /\ w.caller = caller /\ Len(w.seen) = 0
            /\ WalkSoFar(w, F, table, F, Low(q))
<1> DEFINE w == Walk(op, caller, q)
<1>1. /\ w.pc = "idle" /\ w.op = op /\ w.query = q /\ w.caller = caller /\ Len(w.seen) = 0
      /\ w.first = q.page
  BY DEF Walk
<1> HIDE DEF w
<1>2. Listed(w) = {} /\ \A m \in 1 .. Len(w.seen) : FALSE
  BY <1>1 DEF Listed
<1>3. q.page = 1 => Low(q) = 0
  <2>1. q.pageSize \in Nat
    BY DEF IsQuery
  <2>2. q.page = 1 => Low(q) = 0 * q.pageSize
    BY DEF Low
  <2>3. QED
    BY <2>1, <2>2
<1>4. \A i : Rank(table, F, i, q) \in Nat
  BY RanksAreNumbers
<1>5. q.page = 1 => \A i : ~ (Rank(table, F, i, q) < Low(q))
  BY <1>3, <1>4
<1>6. WalkSoFar(w, F, table, F, Low(q))
  BY <1>1, <1>2, <1>5 DEF WalkSoFar
<1>7. QED
  BY <1>1, <1>6 DEF w

LEMMA ListKeeps ==
  ASSUME ReadInv, NEW caller \in Callers, NEW raw \in Queries,
         List(caller, raw) \/ ExportCsv(caller, raw)
  PROVE  ReadInv' /\ walk'.pc = "counting"
<1> DEFINE query == ParseQuery(raw)
           whole == [ParseQuery(raw) EXCEPT !.page = 1,
                                            !.pageSize = Min({ExportCap, Max({@, ExportFloor})})]
<1>1. walk = NoWalk /\ UNCHANGED <<declaration, stored, writes, detail>>
  BY DEF List, ExportCsv
<1>2. detail = NoRow
  BY <1>1 DEF ReadInv, ReadTypes
<1>3. ASSUME NEW op \in {"list", "export"}, NEW q, IsWalk(Walk(op, caller, q)),
             op = "export" => q.page = 1, Select(Walk(op, caller, q))
      PROVE  ReadInv' /\ walk'.pc = "counting"
  <2> DEFINE w == Walk(op, caller, q)
             F == Found(stored, caller, q)
  <2>1. IsQuery(q)
    <3>1. w.query = q
      BY DEF Walk
    <3>2. QED
      BY <1>3, <3>1 DEF IsWalk
  <2>2. F \in SUBSET RowIds
    BY FoundAreRows DEF ReadInv, ReadTypes
  <2>3. /\ w.pc = "idle" /\ w.op = op /\ w.query = q /\ w.caller = caller /\ Len(w.seen) = 0
        /\ WalkSoFar(w, F, stored, F, Low(q))
    BY <2>1, <2>2, FreshSoFar
  <2> HIDE DEF w
  <2>4. IsWalk(w) /\ Select(w)
    BY <1>3 DEF w
  <2>5. w.op = "export" => w.pc = "idle" /\ w.query.page = 1
    BY <1>3, <2>3
  <2>6. \A n \in 1 .. Len(w.seen) : /\ Meets(w.seen[n].was, w.caller, w.query)
                                    /\ Masks(w.seen[n].row, w.seen[n].was, w.caller)
    BY <2>3
  <2>7. WalkSoFar(w, IF w.pc = "idle" THEN Found(stored, w.caller, w.query) ELSE w.due,
                  stored, Found(stored, w.caller, w.query), Low(w.query))
    BY <2>3
  <2>8. QED
    BY <1>1, <1>2, <2>4, <2>5, <2>6, <2>7, InvAfterSelect
<1>4. IsWalk(Walk("list", caller, query)) /\ IsWalk(Walk("export", caller, whole)) /\ whole.page = 1
  <2>1. /\ IsWalk(Walk("list", caller, query)) /\ IsWalk(Walk("export", caller, whole))
        /\ Walk("export", caller, whole).query.page = 1
    BY WalksAreWalks
  <2> HIDE DEF whole
  <2>2. Walk("export", caller, whole).query = whole
    BY DEF Walk
  <2>3. QED
    BY <2>1, <2>2
<1>5. CASE List(caller, raw)
  <2>1. Select(Walk("list", caller, query))
    BY <1>5 DEF List
  <2> HIDE DEF query
  <2>2. QED
    BY <1>3, <1>4, <2>1
<1>6. CASE ExportCsv(caller, raw)
  <2>1. Select(Walk("export", caller, whole))
    BY <1>6 DEF ExportCsv
  <2> HIDE DEF whole
  <2>2. QED
    BY <1>3, <1>4, <2>1
<1>7. QED
  BY <1>5, <1>6

LEMMA NextPageKeeps ==
  ASSUME ReadInv, NextPage
  PROVE  ReadInv' /\ walk'.pc = "counting"
<1> DEFINE q == walk.query
           r == [q EXCEPT !.page = q.page + 1]
           w == [walk EXCEPT !.query = r]
           F == Found(stored, walk.caller, q)
<1>1. walk.pc = "paging" /\ UNCHANGED <<declaration, stored, writes, detail>>
  BY DEF NextPage
<1>2. walk # NoWalk
  BY <1>1 DEF NoWalk
<1>3. IsWalk(walk) /\ IsQuery(q) /\ detail = NoRow
  BY <1>1, <1>2 DEF ReadInv, ReadTypes, IsWalk
<1>4. Select(w)
  BY DEF NextPage
<1>5. /\ IsQuery(r) /\ r.q = q.q /\ r.filters = q.filters /\ r.sort = q.sort /\ r.desc = q.desc
      /\ r.pageSize = q.pageSize /\ r.page = q.page + 1
  BY <1>3 DEF IsQuery
<1> HIDE DEF r
<1>6. /\ IsWalk(w) /\ w.query = r /\ w.caller = walk.caller /\ w.pc = "paging" /\ w.op = walk.op
      /\ w.seen = walk.seen /\ w.due = walk.due /\ w.first = walk.first
      /\ w.grew = walk.grew /\ w.shrank = walk.shrank /\ w.tied = walk.tied
  BY <1>1, <1>3, <1>5 DEF IsWalk
<1> HIDE DEF w
<1>7. Found(stored, w.caller, w.query) = F
  BY <1>5, <1>6, FoundOnAnyPage
<1>8. Low(r) = High(q)
  <2>1. q.page \in Nat
    BY <1>3 DEF IsQuery
  <2>2. r.page - 1 = q.page
    BY <1>5, <2>1
  <2>3. QED
    BY <1>5, <2>2 DEF Low, High
<1>9. \A i : Rank(stored, F, i, r) = Rank(stored, F, i, q)
  BY <1>5 DEF Rank, Ahead, Score
<1>10. WalkSoFar(walk, walk.due, stored, F, High(q)) /\ WalkEnds(walk)
  BY <1>2 DEF ReadInv, WalkInv
<1>11. WalkSoFar(w, walk.due, stored, F, Low(r))
  <2> HIDE DEF F, q
  <2>1. Listed(w) = Listed(walk)
    BY <1>6 DEF Listed
  <2>2. walk.query = q
    BY DEF q
  <2>3. QED
    BY <1>6, <1>8, <1>9, <1>10, <2>1, <2>2 DEF WalkSoFar
<1>12. WalkSoFar(w, IF w.pc = "idle" THEN Found(stored, w.caller, w.query) ELSE w.due,
                 stored, Found(stored, w.caller, w.query), Low(w.query))
  BY <1>6, <1>7, <1>11
<1>13. w.op # "export"
  BY <1>1, <1>6, <1>10 DEF WalkEnds
<1>14. ASSUME NEW n \in 1 .. Len(w.seen)
       PROVE  /\ Meets(w.seen[n].was, w.caller, w.query)
              /\ Masks(w.seen[n].row, w.seen[n].was, w.caller)
  <2>1. /\ Meets(walk.seen[n].was, walk.caller, q)
        /\ Masks(walk.seen[n].row, walk.seen[n].was, walk.caller)
    BY <1>2, <1>6 DEF ReadInv, SeenInv
  <2>2. ASSUME NEW was, Meets(was, walk.caller, q) PROVE Meets(was, walk.caller, r)
    <3> HIDE DEF q
    <3>1. QED
      BY <1>5, <2>2 DEF Meets
  <2>3. QED
    BY <1>6, <2>1, <2>2
<1>15. QED
  BY <1>1, <1>3, <1>4, <1>6, <1>12, <1>13, <1>14, InvAfterSelect

LEMMA CountKeeps ==
  ASSUME ReadInv, Count
  PROVE  ReadInv'
<1> DEFINE F == Found(stored, walk.caller, walk.query)
           n == Cardinality(F)
           text == IF walk.op = "export" THEN RowsToCsv(walk.seen) ELSE walk.text
           pc == IF walk.op = "export" \/ walk.got < walk.query.pageSize THEN "done" ELSE "paging"
<1>1. walk.pc = "counting" /\ UNCHANGED <<declaration, stored, writes, detail>>
  BY DEF Count
<1>2. walk # NoWalk
  BY <1>1 DEF NoWalk
<1>3. IsWalk(walk) /\ detail = NoRow
  BY <1>1, <1>2 DEF ReadInv, ReadTypes
<1>4. F \in SUBSET RowIds
  BY FoundAreRows DEF ReadInv, ReadTypes
<1>5. n \in 0 .. Cardinality(RowIds)
  BY <1>4, Sizes
<1>6. pc \in {"done", "paging"}
  OBVIOUS
<1>7. walk' = [walk EXCEPT !.total = n, !.text = text, !.pc = pc]
  BY DEF Count
<1> HIDE DEF n, text, pc
<1>8. /\ IsWalk(walk') /\ walk'.pc = pc /\ walk'.total = n
      /\ walk'.query = walk.query /\ walk'.caller = walk.caller /\ walk'.op = walk.op
      /\ walk'.got = walk.got /\ walk'.seen = walk.seen /\ walk'.due = walk.due
      /\ walk'.first = walk.first /\ walk'.grew = walk.grew /\ walk'.shrank = walk.shrank
      /\ walk'.tied = walk.tied
  BY <1>3, <1>5, <1>6, <1>7 DEF IsWalk, IsQuery
<1>9. WalkSoFar(walk, walk.due, stored, F, High(walk.query)) /\ WalkEnds(walk)
  BY <1>2 DEF ReadInv, WalkInv
<1>10. Listed(walk') = Listed(walk)
  BY <1>8 DEF Listed
<1>11. WalkSoFar(walk', walk'.due, stored, F, High(walk'.query))
  <2> HIDE DEF F
  <2>1. QED
    BY <1>8, <1>9, <1>10 DEF WalkSoFar
<1>12. WalkEnds(walk')
  <2>1. /\ walk'.op = "export" => pc = "done"
        /\ pc = "done" => walk'.op = "export" \/ walk'.got < walk'.query.pageSize
    BY <1>8 DEF pc
  <2>2. ~ walk.grew /\ ~ walk.shrank => walk'.total = Cardinality(walk'.due)
    BY <1>8, <1>9 DEF WalkSoFar, n
  <2>3. QED
    BY <1>8, <1>9, <1>10, <2>1, <2>2 DEF WalkEnds
<1>13. ReadTypes'
  BY <1>1, <1>3, <1>6, <1>8 DEF ReadInv, ReadTypes, IsWalk, IsQuery
<1>14. F = Found(stored', walk'.caller, walk'.query)
  BY <1>1, <1>8
<1>15. \A m \in 1 .. Len(walk'.seen) :
         /\ Meets(walk'.seen[m].was, walk'.caller, walk'.query)
         /\ Masks(walk'.seen[m].row, walk'.seen[m].was, walk'.caller)
  BY <1>2, <1>8 DEF ReadInv, SeenInv
<1> HIDE DEF F
<1>16. QED
  BY <1>1, <1>3, <1>11, <1>12, <1>13, <1>14, <1>15, InvOfNext

LEMMA FindOneKeeps ==
  ASSUME ReadInv, NEW i \in RowIds, FindOne(i)
  PROVE  ReadInv'
<1> DEFINE items == IF Reachable(i, walk.caller) THEN <<Shown(i, walk.caller)>> ELSE <<>>
<1>1. /\ walk.pc = "done" /\ detail' = [id |-> i, items |-> items]
      /\ UNCHANGED <<declaration, stored, writes, walk>>
  BY DEF FindOne
<1>2. walk # NoWalk
  BY <1>1 DEF NoWalk
<1>3. ReadTypes /\ SeenInv /\ WalkInv
  BY DEF ReadInv
<1>4. /\ items \in Seq(Item)
      /\ \A n \in 1 .. Len(items) : Masks(items[n].row, items[n].was, walk.caller)
  <2>1. CASE Reachable(i, walk.caller)
    <3>1. stored[i] \in Rows
      BY <1>3, <2>1 DEF Reachable, ReadTypes
    <3>2. /\ Shown(i, walk.caller) \in Item /\ Shown(i, walk.caller).was = stored[i]
          /\ Masks(Shown(i, walk.caller).row, stored[i], walk.caller)
      BY <1>3, <3>1, ShownIsMasked
    <3>3. items = <<Shown(i, walk.caller)>> /\ Len(items) = 1 /\ items[1] = Shown(i, walk.caller)
      BY <2>1
    <3>4. QED
      BY <3>2, <3>3
  <2>2. CASE ~ Reachable(i, walk.caller)
    BY <2>2
  <2>3. QED
    BY <2>1, <2>2
<1> HIDE DEF items
<1>5. detail'.id = i /\ detail'.items = items
  BY <1>1
<1>6. ReadTypes'
  BY <1>1, <1>2, <1>3, <1>4, <1>5 DEF ReadTypes, IsWalk, IsQuery
<1>7. QED
  BY <1>1, <1>2, <1>3, <1>4, <1>5, <1>6, InvOfNext DEF SeenInv, WalkInv

LEMMA VersionsAreRows ==
  ASSUME ReadTypes, NEW i \in RowIds, NEW row \in Versions(i)
  PROVE  row \in Rows \cup {NoRow}
<1>1. \A j \in RowIds : Inserted[j] \in Rows /\ Inserted[j].name \in Vocabulary
  BY Table DEF Rows, Columns
<1>2. CASE stored[i] = NoRow
  BY <1>1, <1>2 DEF Versions
<1>3. CASE stored[i] # NoRow
  <2>1. stored[i] \in [Columns -> Vocabulary]
    BY <1>3 DEF ReadTypes, Rows
  <2>2. [stored[i] EXCEPT !.status = "deleted"] \in [Columns -> Vocabulary]
    BY <2>1, Table
  <2>3. \A j \in RowIds : [stored[i] EXCEPT !.name = Inserted[j].name] \in [Columns -> Vocabulary]
    BY <1>1, <2>1
  <2>4. \/ row = NoRow
        \/ row = [stored[i] EXCEPT !.status = "deleted"]
        \/ \E j \in RowIds : row = [stored[i] EXCEPT !.name = Inserted[j].name]
    BY <1>3 DEF Versions
  <2>5. QED
    BY <2>2, <2>3, <2>4 DEF Rows
<1>4. QED
  BY <1>2, <1>3

\* Where there is more, and scores are what they were, ranks are no lower.
LEMMA RanksGrow ==
  ASSUME NEW small, NEW big \in SUBSET RowIds, small \subseteq big, NEW old, NEW new, NEW query,
         \A j \in small : Score(old, j, query) = Score(new, j, query)
  PROVE  \A j \in small : Rank(old, small, j, query) <= Rank(new, big, j, query)
<1> TAKE j \in small
<1>1. Ahead(old, small, j, query) \subseteq Ahead(new, big, j, query)
  BY DEF Ahead
<1>2. Ahead(new, big, j, query) \in SUBSET RowIds
  BY DEF Ahead
<1>3. IsFiniteSet(Ahead(new, big, j, query))
  BY <1>2, Sizes
<1>4. QED
  BY <1>1, <1>3, FS_Subset DEF Rank

\* The walk v is w after another's write, which changed the row i.
AfterWrite(w, v, i, old, new, F, G) ==
  /\ \A j \in RowIds : j # i => old[j] = new[j]
  /\ w.grew \in BOOLEAN /\ w.shrank \in BOOLEAN
  /\ v.first = w.first /\ v.tied = w.tied /\ v.query = w.query
  /\ v.seen = w.seen /\ v.due = w.due
  /\ v.grew = (w.grew \/ (w.query.sort # "none" /\ i \in F \cap G) \/ ~ (G \subseteq F))
  /\ v.shrank = (w.shrank \/ (w.query.sort # "none" /\ i \in F \cap G) \/ ~ (F \subseteq G))

LEMMA SoFarAfterWrite ==
  ASSUME NEW w, NEW v, NEW i, NEW old, NEW new, NEW before \in Nat,
         NEW F \in SUBSET RowIds, NEW G \in SUBSET RowIds,
         AfterWrite(w, v, i, old, new, F, G),
         WalkSoFar(w, w.due, old, F, before)
  PROVE  WalkSoFar(v, v.due, new, G, before)
<1> USE DEF AfterWrite
<1> DEFINE moved == w.query.sort # "none" /\ i \in F \cap G
           q == w.query
<1>1. ~ v.grew => ~ w.grew /\ ~ moved /\ G \subseteq F
  OBVIOUS
<1>2. ~ v.shrank => ~ w.shrank /\ ~ moved /\ F \subseteq G
  OBVIOUS
<1>3. \A j : /\ Rank(old, F, j, q) \in Nat /\ Rank(new, G, j, q) \in Nat
  BY RanksAreNumbers
<1>4. ASSUME ~ moved, NEW j \in F \cap G PROVE Score(old, j, q) = Score(new, j, q)
  <2>1. q.sort = "none" \/ old[j] = new[j]
    BY <1>4
  <2>2. QED
    BY <2>1 DEF Score
<1>5. Listed(v) = Listed(w)
  BY DEF Listed
<1>6. ASSUME v.first = 1, ~ v.tied, ~ v.shrank
      PROVE  /\ w.due \subseteq G
             /\ \A j \in w.due : Rank(new, G, j, q) < before => j \in Listed(w)
  <2>1. /\ w.due \subseteq F
        /\ \A j \in w.due : Rank(old, F, j, q) < before => j \in Listed(w)
    BY <1>2, <1>6 DEF WalkSoFar
  <2>2. \A j \in F : Score(old, j, q) = Score(new, j, q)
    BY <1>2, <1>4, <1>6
  <2>3. \A j \in F : Rank(old, F, j, q) <= Rank(new, G, j, q)
    BY <1>2, <1>6, <2>2, RanksGrow
  <2> HIDE DEF q
  <2>4. ASSUME NEW j \in w.due, Rank(new, G, j, q) < before PROVE j \in Listed(w)
    <3>1. Rank(old, F, j, q) <= Rank(new, G, j, q) /\ Rank(old, F, j, q) \in Nat
          /\ Rank(new, G, j, q) \in Nat
      BY <1>3, <2>1, <2>3
    <3>2. Rank(old, F, j, q) < before
      BY <2>4, <3>1
    <3>3. QED
      BY <2>1, <3>2
  <2>5. QED
    BY <1>2, <1>6, <2>1, <2>4
<1>7. ASSUME ~ v.tied, ~ v.grew
      PROVE  /\ \A m, n \in 1 .. Len(w.seen) : m # n => w.seen[m].id # w.seen[n].id
             /\ \A j \in Listed(w) \cap G : Rank(new, G, j, q) < before
  <2>1. /\ \A m, n \in 1 .. Len(w.seen) : m # n => w.seen[m].id # w.seen[n].id
        /\ \A j \in Listed(w) \cap F : Rank(old, F, j, q) < before
    BY <1>1, <1>7 DEF WalkSoFar
  <2>2. \A j \in G : Score(new, j, q) = Score(old, j, q)
    BY <1>1, <1>4, <1>7
  <2>3. \A j \in G : Rank(new, G, j, q) <= Rank(old, F, j, q)
    BY <1>1, <1>7, <2>2, RanksGrow
  <2> HIDE DEF q
  <2>4. ASSUME NEW j \in Listed(w) \cap G PROVE Rank(new, G, j, q) < before
    <3>1. /\ Rank(new, G, j, q) <= Rank(old, F, j, q) /\ Rank(old, F, j, q) < before
          /\ Rank(old, F, j, q) \in Nat /\ Rank(new, G, j, q) \in Nat
      BY <1>1, <1>3, <1>7, <2>1, <2>3
    <3>2. QED
      BY <3>1
  <2>5. QED
    BY <2>1, <2>4
<1>8. ASSUME ~ v.grew, ~ v.shrank PROVE G = w.due /\ Listed(w) \subseteq w.due
  BY <1>1, <1>2, <1>8 DEF WalkSoFar
<1>9. v.query = q
  OBVIOUS
<1> HIDE DEF q
<1>10. QED
  BY <1>5, <1>6, <1>7, <1>8, <1>9 DEF WalkSoFar

LEMMA WriteKeeps ==
  ASSUME ReadInv, NEW i \in RowIds, Write(i)
  PROVE  ReadInv'
<1>1. /\ detail = NoRow /\ UNCHANGED <<declaration, detail>> /\ writes < MaxWrites /\ writes' = writes + 1
  BY DEF Write
<1>2. PICK row \in Versions(i) :
        /\ stored' = [stored EXCEPT ![i] = row]
        /\ walk' = IF walk = NoWalk THEN walk
                   ELSE LET before == Found(stored, walk.caller, walk.query)
                            after == Found(stored', walk.caller, walk.query)
                            moved == walk.query.sort # "none" /\ i \in before \cap after
                        IN [walk EXCEPT !.grew = @ \/ moved \/ ~ (after \subseteq before),
                                        !.shrank = @ \/ moved \/ ~ (before \subseteq after)]
  BY DEF Write
<1>3. ReadTypes
  BY DEF ReadInv
<1>4. row \in Rows \cup {NoRow}
  BY <1>3, VersionsAreRows
<1>5. /\ stored' \in [RowIds -> Rows \cup {NoRow}]
      /\ \A j \in RowIds : j # i => stored[j] = stored'[j]
  BY <1>2, <1>3, <1>4 DEF ReadTypes
<1>6. writes' \in 0 .. MaxWrites
  BY <1>1, <1>3, Limits DEF ReadTypes
<1>7. CASE walk = NoWalk
  <2>1. walk' = NoWalk
    BY <1>2, <1>7
  <2>2. ReadTypes'
    BY <1>1, <1>3, <1>5, <1>6, <2>1 DEF ReadTypes
  <2>3. QED
    BY <1>1, <2>1, <2>2, InvOfNext
<1>8. CASE walk # NoWalk
  <2> DEFINE F == Found(stored, walk.caller, walk.query)
             G == Found(stored', walk.caller, walk.query)
             moved == walk.query.sort # "none" /\ i \in F \cap G
             grew == walk.grew \/ moved \/ ~ (G \subseteq F)
             shrank == walk.shrank \/ moved \/ ~ (F \subseteq G)
             v == [walk EXCEPT !.grew = grew, !.shrank = shrank]
  <2>1. IsWalk(walk) /\ walk.pc \in {"counting", "paging", "done"}
    BY <1>3, <1>8 DEF ReadTypes
  <2>2. F \in SUBSET RowIds /\ G \in SUBSET RowIds
    BY <1>3, <1>5, FoundAreRows DEF ReadTypes
  <2>3. WalkSoFar(walk, walk.due, stored, F, High(walk.query)) /\ WalkEnds(walk)
    BY <1>8 DEF ReadInv, WalkInv
  <2>4. walk' = v
    BY <1>2, <1>8, Zenon
  <2>5. grew \in BOOLEAN /\ shrank \in BOOLEAN
    OBVIOUS
  <2> HIDE DEF grew, shrank
  <2>6. /\ IsWalk(v) /\ v.pc = walk.pc /\ v.grew = grew /\ v.shrank = shrank
        /\ v.query = walk.query /\ v.caller = walk.caller /\ v.op = walk.op
        /\ v.got = walk.got /\ v.seen = walk.seen /\ v.due = walk.due
        /\ v.first = walk.first /\ v.tied = walk.tied /\ v.total = walk.total
    BY <2>1, <2>5 DEF IsWalk
  <2> HIDE DEF v
  <2>7. High(walk.query) \in Nat
    <3>1. walk.query.page \in Nat \ {0} /\ walk.query.pageSize \in Nat \ {0}
      BY <2>1 DEF IsWalk, IsQuery
    <3>2. QED
      BY <3>1, PageBounds DEF Bounds, High
  <2>8. walk.grew \in BOOLEAN /\ walk.shrank \in BOOLEAN
    BY <2>1 DEF IsWalk
  <2>9. WalkSoFar(v, v.due, stored', G, High(walk.query))
    <3> HIDE DEF F, G
    <3>1. /\ v.grew = (walk.grew \/ (walk.query.sort # "none" /\ i \in F \cap G) \/ ~ (G \subseteq F))
          /\ v.shrank = (walk.shrank \/ (walk.query.sort # "none" /\ i \in F \cap G) \/ ~ (F \subseteq G))
      BY <2>6 DEF grew, shrank
    <3>2. /\ v.first = walk.first /\ v.tied = walk.tied /\ v.query = walk.query
          /\ v.seen = walk.seen /\ v.due = walk.due
      BY <2>6
    <3> HIDE DEF moved
    <3>3. QED
      <4>1. AfterWrite(walk, v, i, stored, stored', F, G)
        BY <1>5, <2>8, <3>1, <3>2, Zenon DEF AfterWrite
      <4>2. WalkSoFar(walk, walk.due, stored, F, High(walk.query))
        BY <2>3
      <4>3. QED
        BY <2>2, <2>7, <4>1, <4>2, SoFarAfterWrite, Zenon
  <2>10. WalkEnds(v)
    <3>1. Listed(v) = Listed(walk)
      BY <2>6 DEF Listed
    <3>2. (~ grew => ~ walk.grew) /\ (~ shrank => ~ walk.shrank)
      BY DEF grew, shrank
    <3>3. QED
      BY <2>3, <2>6, <3>1, <3>2 DEF WalkEnds
  <2>11. ReadTypes'
    BY <1>1, <1>3, <1>5, <1>6, <2>1, <2>4, <2>6 DEF ReadTypes, IsWalk, IsQuery
  <2>12. \A m \in 1 .. Len(walk'.seen) :
           /\ Meets(walk'.seen[m].was, walk'.caller, walk'.query)
           /\ Masks(walk'.seen[m].row, walk'.seen[m].was, walk'.caller)
    BY <1>8, <2>4, <2>6 DEF ReadInv, SeenInv
  <2>13. /\ G = Found(stored', walk'.caller, walk'.query)
         /\ WalkSoFar(walk', walk'.due, stored', G, High(walk'.query)) /\ WalkEnds(walk')
    BY <2>4, <2>6, <2>9, <2>10
  <2> HIDE DEF G
  <2>14. QED
    BY <1>1, <2>11, <2>12, <2>13, InvOfNext
<1>9. QED
  BY <1>7, <1>8

LEMMA ReadInvNext == ReadInv /\ [ReadsNext]_readsVars => ReadInv'
<1> SUFFICES ASSUME ReadInv, [ReadsNext]_readsVars PROVE ReadInv'
  OBVIOUS
<1>1. ASSUME NEW caller \in Callers, NEW raw \in Queries, List(caller, raw) \/ ExportCsv(caller, raw)
      PROVE  ReadInv'
  BY <1>1, ListKeeps
<1>2. CASE Count
  BY <1>2, CountKeeps
<1>3. CASE NextPage
  BY <1>3, NextPageKeeps
<1>4. ASSUME NEW i \in RowIds, FindOne(i) PROVE ReadInv'
  BY <1>4, FindOneKeeps
<1>5. ASSUME NEW i \in RowIds, Write(i) PROVE ReadInv'
  BY <1>5, WriteKeeps
<1>6. CASE UNCHANGED readsVars
  <2>1. declaration' = declaration /\ stored' = stored /\ writes' = writes /\ walk' = walk /\ detail' = detail
    BY <1>6 DEF readsVars
  <2>2. ReadTypes'
    BY <2>1 DEF ReadInv, ReadTypes, IsWalk, IsQuery
  <2>3. QED
    BY <2>1, <2>2, InvOfNext DEF ReadInv, SeenInv, OpenedInv, WalkInv
<1>7. QED
  BY <1>1, <1>2, <1>3, <1>4, <1>5, <1>6 DEF ReadsNext, WalkFinished

LEMMA ReadsKeepInv == ReadsSpec => []ReadInv
<1>1. QED
  BY ReadInvInit, ReadInvNext, PTL DEF ReadsSpec

LEMMA InvLists == ReadInv => ListedMatch
<1> SUFFICES ASSUME ReadInv, walk # NoWalk, NEW n \in DOMAIN walk.seen
             PROVE  Meets(walk.seen[n].was, walk.caller, walk.query)
  BY DEF ListedMatch, Meets
<1>1. walk.seen \in Seq(Item)
  BY DEF ReadInv, ReadTypes, IsWalk
<1>2. n \in 1 .. Len(walk.seen)
  BY <1>1
<1>3. QED
  BY <1>2 DEF ReadInv, SeenInv

LEMMA InvTells == ReadInv => WalkTells
<1> SUFFICES ASSUME ReadInv, walk.pc = "done", ~ walk.tied
             PROVE  LET ids == [n \in DOMAIN walk.seen |-> walk.seen[n].id]
                        fits == walk.op = "list" \/ Cardinality(walk.due) <= walk.query.pageSize
                    IN /\ walk.first = 1 /\ ~ walk.shrank /\ fits => walk.due \subseteq ToSet(ids)
                       /\ ~ walk.grew => IsInjective(ids)
                       /\ ~ walk.grew /\ ~ walk.shrank =>
                            ToSet(ids) \subseteq walk.due /\ walk.total = Cardinality(walk.due)
  BY DEF WalkTells
<1> DEFINE ids == [n \in DOMAIN walk.seen |-> walk.seen[n].id]
           F == Found(stored, walk.caller, walk.query)
<1>1. walk # NoWalk
  BY DEF NoWalk
<1>2. walk.seen \in Seq(Item) /\ walk.op \in {"list", "export"}
  BY <1>1 DEF ReadInv, ReadTypes, IsWalk
<1>3. DOMAIN walk.seen = 1 .. Len(walk.seen)
  BY <1>2
<1>4. ToSet(ids) = Listed(walk)
  BY <1>3 DEF ToSet, Listed
<1>5. WalkSoFar(walk, walk.due, stored, F, High(walk.query)) /\ WalkEnds(walk)
  BY <1>1 DEF ReadInv, WalkInv
<1>6. ASSUME ~ walk.grew PROVE IsInjective(ids)
  BY <1>3, <1>5, <1>6 DEF WalkSoFar, IsInjective
<1>7. ~ walk.grew /\ ~ walk.shrank =>
        Listed(walk) \subseteq walk.due /\ walk.total = Cardinality(walk.due)
  BY <1>5 DEF WalkSoFar, WalkEnds
<1>8. ASSUME walk.first = 1, ~ walk.shrank,
             walk.op = "list" \/ Cardinality(walk.due) <= walk.query.pageSize
      PROVE  walk.due \subseteq Listed(walk)
  BY <1>2, <1>5, <1>8 DEF WalkEnds
<1> HIDE DEF ids
<1>9. QED
  BY <1>4, <1>6, <1>7, <1>8 DEF ids

LEMMA InvMasks == ReadInv => ReadsAreMasked
<1> DEFINE opened == IF detail = NoRow THEN <<>> ELSE detail.items
           items == walk.seen \o opened
<1> SUFFICES ASSUME ReadInv, walk # NoWalk, NEW n \in DOMAIN items,
                    NEW f \in DOMAIN items[n].row
             PROVE  LET rules == RulesOn(f, walk.caller)
                        shown == items[n].row[f]
                        was == items[n].was[f]
                    IN IF \E rule \in rules : was \in rule.pattern
                       THEN \E rule \in rules : shown = rule.replacement
                       ELSE shown = was
  BY DEF ReadsAreMasked
<1>1. walk.seen \in Seq(Item) /\ opened \in Seq(Item)
  BY DEF ReadInv, ReadTypes, IsWalk
<1>2. /\ \A m \in 1 .. Len(walk.seen) : Masks(walk.seen[m].row, walk.seen[m].was, walk.caller)
      /\ \A m \in 1 .. Len(opened) : Masks(opened[m].row, opened[m].was, walk.caller)
  BY DEF ReadInv, SeenInv, OpenedInv
<1> HIDE DEF opened
<1>3. Masks(items[n].row, items[n].was, walk.caller)
  <2>1. /\ items \in Seq(Item) /\ Len(items) = Len(walk.seen) + Len(opened)
        /\ \A m \in 1 .. Len(walk.seen) + Len(opened) :
             items[m] = IF m <= Len(walk.seen) THEN walk.seen[m] ELSE opened[m - Len(walk.seen)]
    BY <1>1, ConcatProperties
  <2> HIDE DEF items
  <2>2. n \in 1 .. Len(walk.seen) + Len(opened)
    BY <2>1
  <2>3. CASE n <= Len(walk.seen)
    <3>1. n \in 1 .. Len(walk.seen) /\ items[n] = walk.seen[n]
      BY <1>1, <2>1, <2>2, <2>3
    <3>2. QED
      BY <1>2, <3>1
  <2>4. CASE ~ (n <= Len(walk.seen))
    <3>1. n - Len(walk.seen) \in 1 .. Len(opened) /\ items[n] = opened[n - Len(walk.seen)]
      BY <1>1, <2>1, <2>2, <2>4
    <3>2. QED
      BY <1>2, <3>1
  <2>5. QED
    BY <2>3, <2>4
<1> HIDE DEF items
<1>4. f \in Columns
  BY <1>3 DEF Masks, Rows
<1>5. QED
  BY <1>3, <1>4 DEF Masks

-----------------------------------------------------------------------------
(* Reading what was written as CSV. *)

\* What cells are spelled with.
Letters == STRING \cup Columns \cup {Quote, Comma, Break}
Chars == Seq(Letters)

LEMMA MarksAreLetters ==
  /\ Quote \in Letters /\ Comma \in Letters /\ Break \in Letters
  /\ Quote # Comma /\ Quote # Break /\ Comma # Break
<1>1. Quote \in Letters /\ Comma \in Letters /\ Break \in Letters
  BY DEF Letters
<1>2. QED
  BY <1>1 DEF Quote, Comma, Break

LEMMA ShortSeqs ==
  ASSUME NEW T, NEW e \in T
  PROVE  <<e>> \in Seq(T) /\ <<e, e>> \in Seq(T) /\ <<e, e>> = <<e>> \o <<e>>
  OBVIOUS

ReaderStates ==
  [lines : Seq(Seq(Chars)), line : Seq(Chars), cell : Chars, open : BOOLEAN, last : Letters]

LEMMA ScannedFacts ==
  ASSUME NEW s \in ReaderStates, NEW ch \in Letters
  PROVE  LET z == Scanned(s, ch)
         IN /\ z \in ReaderStates /\ z.last = ch
            /\ ch = Quote =>
                 /\ z.lines = s.lines /\ z.line = s.line /\ (z.open <=> ~ s.open)
                 /\ z.cell = IF ~ s.open /\ s.last = Quote THEN Append(s.cell, ch) ELSE s.cell
            /\ ch = Comma /\ ~ s.open =>
                 z.lines = s.lines /\ z.line = Append(s.line, s.cell) /\ z.cell = <<>> /\ ~ z.open
            /\ ch = Break /\ ~ s.open =>
                 /\ z.lines = Append(s.lines, Append(s.line, s.cell))
                 /\ z.line = <<>> /\ z.cell = <<>> /\ ~ z.open
            /\ ch # Quote /\ (s.open \/ ch \notin {Comma, Break}) =>
                 /\ z.lines = s.lines /\ z.line = s.line /\ z.open = s.open
                 /\ z.cell = Append(s.cell, ch)
<1> DEFINE z == Scanned(s, ch)
<1>0. /\ s.lines \in Seq(Seq(Chars)) /\ s.line \in Seq(Chars) /\ s.cell \in Chars
      /\ s.open \in BOOLEAN /\ s.last \in Letters
  BY DEF ReaderStates
<1>1. /\ Append(s.cell, ch) \in Chars /\ <<>> \in Chars /\ <<>> \in Seq(Chars)
      /\ Append(s.line, s.cell) \in Seq(Chars)
      /\ Append(s.lines, Append(s.line, s.cell)) \in Seq(Seq(Chars))
  <2>1. Append(s.cell, ch) \in Chars /\ <<>> \in Chars
    BY <1>0 DEF Chars
  <2>2. Append(s.line, s.cell) \in Seq(Chars) /\ <<>> \in Seq(Chars)
    BY <1>0
  <2>3. Append(s.lines, Append(s.line, s.cell)) \in Seq(Seq(Chars))
    BY <1>0, <2>2
  <2>4. QED
    BY <2>1, <2>2, <2>3
<1> DEFINE cell == Append(s.cell, ch)
           line == Append(s.line, s.cell)
           lines == Append(s.lines, line)
<1>2. Quote # Comma /\ Quote # Break /\ Comma # Break
  BY MarksAreLetters
<1> HIDE DEF cell, line, lines
<1>3. CASE ch = Quote
  <2> DEFINE kept == IF ~ s.open /\ s.last = Quote THEN cell ELSE s.cell
  <2>1. z = [s EXCEPT !.open = ~ s.open, !.last = ch, !.cell = kept]
    BY <1>2, <1>3, Zenon DEF Scanned, cell
  <2>2. kept \in Chars
    BY <1>0, <1>1 DEF cell
  <2>3. (~ s.open) \in BOOLEAN
    OBVIOUS
  <2> HIDE DEF kept, z
  <2>4. /\ z \in ReaderStates /\ z.last = ch /\ z.lines = s.lines /\ z.line = s.line
        /\ z.open = ~ s.open /\ z.cell = kept
    BY <2>1, <2>2, <2>3 DEF ReaderStates
  <2>5. z.open <=> ~ s.open
    BY <2>4
  <2>6. QED
    BY <1>2, <1>3, <2>4, <2>5 DEF kept, z, cell
<1>4. CASE ch = Comma /\ ~ s.open
  <2>1. z = [s EXCEPT !.last = ch, !.line = line, !.cell = <<>>]
    BY <1>2, <1>4, Zenon DEF Scanned, line
  <2>2. line \in Seq(Chars) /\ <<>> \in Chars
    BY <1>1 DEF line
  <2> HIDE DEF z
  <2>3. /\ z \in ReaderStates /\ z.last = ch /\ z.lines = s.lines /\ z.line = line
        /\ z.open = s.open /\ z.cell = <<>>
    BY <2>1, <2>2 DEF ReaderStates
  <2>4. QED
    BY <1>2, <1>4, <2>3 DEF z, line
<1>5. CASE ch = Break /\ ~ s.open
  <2>1. z = [s EXCEPT !.last = ch, !.lines = lines, !.line = <<>>, !.cell = <<>>]
    BY <1>2, <1>5, Zenon DEF Scanned, line, lines
  <2>2. lines \in Seq(Seq(Chars)) /\ <<>> \in Chars /\ <<>> \in Seq(Chars)
    BY <1>1 DEF line, lines
  <2> HIDE DEF z
  <2>3. /\ z \in ReaderStates /\ z.last = ch /\ z.lines = lines /\ z.line = <<>>
        /\ z.open = s.open /\ z.cell = <<>>
    BY <2>1, <2>2 DEF ReaderStates
  <2>4. QED
    BY <1>2, <1>5, <2>3 DEF z, line, lines
<1>6. CASE ch # Quote /\ (s.open \/ ch \notin {Comma, Break})
  <2>1. z = [s EXCEPT !.last = ch, !.cell = cell]
    BY <1>6, Zenon DEF Scanned, cell
  <2>2. cell \in Chars
    BY <1>1 DEF cell
  <2> HIDE DEF z
  <2>3. /\ z \in ReaderStates /\ z.last = ch /\ z.lines = s.lines /\ z.line = s.line
        /\ z.open = s.open /\ z.cell = cell
    BY <2>1, <2>2 DEF ReaderStates
  <2>4. QED
    BY <1>6, <2>3 DEF z, cell
<1> HIDE DEF z
<1>7. ch = Quote \/ (ch = Comma /\ ~ s.open) \/ (ch = Break /\ ~ s.open)
      \/ (ch # Quote /\ (s.open \/ ch \notin {Comma, Break}))
  BY <1>0
<1>8. QED
  BY <1>3, <1>4, <1>5, <1>6, <1>7 DEF z

\* Reading text takes the reader from s to z.
Reads(text, s, z) ==
  \E g \in [0 .. Len(text) -> ReaderStates] :
    g[0] = s /\ g[Len(text)] = z /\ \A n \in 1 .. Len(text) : g[n] = Scanned(g[n - 1], text[n])

LEMMA ReadsNothing ==
  ASSUME NEW s \in ReaderStates
  PROVE  Reads(<<>>, s, s)
<1> DEFINE g == [n \in 0 .. 0 |-> s]
<1>1. Len(<<>>) = 0
  OBVIOUS
<1>2. g \in [0 .. Len(<<>>) -> ReaderStates] /\ g[0] = s /\ g[Len(<<>>)] = s
  BY <1>1
<1> HIDE DEF g
<1>3. \A n \in 1 .. Len(<<>>) : g[n] = Scanned(g[n - 1], <<>>[n])
  BY <1>1
<1>4. QED
  BY <1>2, <1>3 DEF Reads

LEMMA ReadsOne ==
  ASSUME NEW s \in ReaderStates, NEW ch \in Letters
  PROVE  Reads(<<ch>>, s, Scanned(s, ch))
<1> DEFINE z == Scanned(s, ch)
           g == [n \in 0 .. 1 |-> IF n = 0 THEN s ELSE z]
           text == <<ch>>
<1>1. z \in ReaderStates
  BY ScannedFacts
<1>2. Len(text) = 1 /\ text[1] = ch
  OBVIOUS
<1> HIDE DEF z, text
<1>3. g \in [0 .. 1 -> ReaderStates] /\ g[0] = s /\ g[1] = z
  BY <1>1
<1>4. \A n \in 1 .. 1 : n = 1 /\ n - 1 = 0
  OBVIOUS
<1> HIDE DEF g
<1>5. \A n \in 1 .. 1 : g[n] = Scanned(g[n - 1], text[n])
  BY <1>2, <1>3, <1>4 DEF z
<1>6. Reads(text, s, z)
  BY <1>2, <1>3, <1>5 DEF Reads
<1>7. QED
  BY <1>6 DEF text, z

LEMMA ReadsThen ==
  ASSUME NEW a \in Chars, NEW b \in Chars, NEW s, NEW y, NEW z, Reads(a, s, y), Reads(b, y, z)
  PROVE  Reads(a \o b, s, z)
<1> DEFINE A == Len(a)
           B == Len(b)
           text == a \o b
<1>1. PICK g \in [0 .. A -> ReaderStates] :
        g[0] = s /\ g[A] = y /\ \A n \in 1 .. A : g[n] = Scanned(g[n - 1], a[n])
  BY DEF Reads
<1>2. PICK h \in [0 .. B -> ReaderStates] :
        h[0] = y /\ h[B] = z /\ \A n \in 1 .. B : h[n] = Scanned(h[n - 1], b[n])
  BY DEF Reads
<1>3. A \in Nat /\ B \in Nat
  BY DEF Chars
<1>4. /\ Len(text) = A + B
      /\ \A n \in 1 .. A + B : text[n] = IF n <= A THEN a[n] ELSE b[n - A]
  BY ConcatProperties DEF Chars
<1> HIDE DEF A, B, text
<1> DEFINE k == [n \in 0 .. A + B |-> IF n <= A THEN g[n] ELSE h[n - A]]
<1>5. /\ \A n \in 0 .. A : n \in 0 .. A + B /\ k[n] = g[n]
      /\ \A n \in 0 .. B : A + n \in 0 .. A + B /\ k[A + n] = h[n]
  <2>1. ASSUME NEW n \in 0 .. B PROVE A + n \in 0 .. A + B /\ k[A + n] = h[n]
    <3>1. A + n \in 0 .. A + B /\ (A + n) - A = n
      BY <1>3
    <3>2. CASE n = 0
      <4>1. A + n = A
        BY <1>3, <3>2
      <4>2. k[A] = g[A]
        BY <1>3
      <4>3. QED
        BY <1>1, <1>2, <3>1, <3>2, <4>1, <4>2
    <3>3. CASE n # 0
      <4>1. ~ (A + n <= A)
        BY <1>3, <3>3
      <4>2. QED
        BY <3>1, <4>1
    <3>4. QED
      BY <3>2, <3>3
  <2>2. QED
    BY <1>3, <2>1
<1>6. k \in [0 .. A + B -> ReaderStates]
  <2>1. ASSUME NEW n \in 0 .. A + B
        PROVE  (IF n <= A THEN g[n] ELSE h[n - A]) \in ReaderStates
    <3>1. CASE n <= A
      <4>1. n \in 0 .. A
        BY <1>3, <3>1
      <4>2. QED
        BY <3>1, <4>1
    <3>2. CASE ~ (n <= A)
      <4>1. n - A \in 0 .. B
        BY <1>3, <3>2
      <4>2. QED
        BY <3>2, <4>1
    <3>3. QED
      BY <3>1, <3>2
  <2>2. QED
    BY <2>1
<1> HIDE DEF k
<1>7. ASSUME NEW n \in 1 .. A + B PROVE k[n] = Scanned(k[n - 1], text[n])
  <2>1. CASE n <= A
    <3>1. n \in 1 .. A /\ n \in 0 .. A /\ n - 1 \in 0 .. A
      BY <1>3, <2>1
    <3>2. QED
      BY <1>1, <1>4, <1>5, <2>1, <3>1
  <2>2. CASE ~ (n <= A)
    <3>1. n - A \in 1 .. B
      BY <1>3, <2>2
    <3>2. PICK m \in 1 .. B : m = n - A
      BY <3>1
    <3>3. m \in 0 .. B /\ m - 1 \in 0 .. B /\ n = A + m /\ n - 1 = A + (m - 1)
      BY <1>3, <3>2
    <3>4. k[n] = h[m] /\ k[n - 1] = h[m - 1] /\ text[n] = b[m]
      BY <1>4, <1>5, <2>2, <3>2, <3>3
    <3>5. QED
      BY <1>2, <3>4
  <2>3. QED
    BY <2>1, <2>2
<1>8. k[0] = s /\ k[A + B] = z
  <2>1. 0 \in 0 .. A /\ B \in 0 .. B
    BY <1>3
  <2>2. QED
    BY <1>1, <1>2, <1>5, <2>1
<1>9. Reads(text, s, z)
  BY <1>4, <1>6, <1>7, <1>8 DEF Reads
<1>10. QED
  BY <1>9 DEF text

LEMMA ReadCsvReads ==
  ASSUME NEW text \in Chars, NEW z, Reads(text, Unread, z)
  PROVE  ReadCsv(text) = Append(z.lines, Append(z.line, z.cell))
<1> DEFINE N == Len(text)
           Body(f) == [n \in 0 .. N |-> IF n = 0 THEN Unread ELSE Scanned(f[n - 1], text[n])]
           scan == CHOOSE f : f = Body(f)
<1>1. PICK g \in [0 .. N -> ReaderStates] :
        g[0] = Unread /\ g[N] = z /\ \A n \in 1 .. N : g[n] = Scanned(g[n - 1], text[n])
  BY DEF Reads
<1>2. N \in Nat
  BY DEF Chars
<1>3. g = Body(g)
  <2>1. \A n \in 0 .. N : n # 0 => n \in 1 .. N
    OBVIOUS
  <2>2. \A n \in 0 .. N : g[n] = IF n = 0 THEN Unread ELSE Scanned(g[n - 1], text[n])
    BY <1>1, <2>1
  <2>3. QED
    BY <2>2
<1>4. scan = Body(scan)
  BY <1>3
<1>5. \A n \in 0 .. N : scan[n] = IF n = 0 THEN Unread ELSE Scanned(scan[n - 1], text[n])
  BY <1>4
<1>6. ReadCsv(text) = Append(scan[N].lines, Append(scan[N].line, scan[N].cell))
  BY DEF ReadCsv
<1>7. scan[N] = g[N]
  <2> HIDE DEF scan, N
  <2> DEFINE K == {n \in Nat : n <= N => scan[n] = g[n]}
  <2>1. 0 \in K
    BY <1>1, <1>2, <1>5
  <2>2. ASSUME NEW n \in Nat, n \in K PROVE n + 1 \in K
    <3>1. SUFFICES ASSUME n + 1 <= N PROVE scan[n + 1] = g[n + 1]
      OBVIOUS
    <3>2. scan[n] = g[n] /\ n + 1 \in 1 .. N /\ n + 1 \in 0 .. N /\ (n + 1) - 1 = n /\ n + 1 # 0
      BY <1>2, <2>2, <3>1
    <3>3. QED
      BY <1>1, <1>5, <3>2
  <2>3. Nat \subseteq K
    <3> HIDE DEF K
    <3>1. QED
      BY <2>1, <2>2, SetInduction
  <2>4. QED
    BY <1>2, <2>3
<1> HIDE DEF scan
<1>8. QED
  BY <1>1, <1>6, <1>7

\* The parts of a sequence, one longer than the other.
LEMMA PrefixesGrow ==
  ASSUME NEW T, NEW s \in Seq(T)
  PROVE  /\ SubSeq(s, 1, 0) = <<>> /\ SubSeq(s, 1, Len(s)) = s
         /\ \A n \in 1 .. Len(s) : /\ SubSeq(s, 1, n - 1) \in Seq(T) /\ s[n] \in T
                                   /\ SubSeq(s, 1, n) = Append(SubSeq(s, 1, n - 1), s[n])
<1>1. SubSeq(s, 1, Len(s)) = s
  BY SubSeqFull
<1>2. SubSeq(s, 1, 0) = <<>>
  BY SubSeqEmpty
<1>3. ASSUME NEW n \in 1 .. Len(s)
      PROVE  /\ SubSeq(s, 1, n - 1) \in Seq(T) /\ s[n] \in T
             /\ SubSeq(s, 1, n) = Append(SubSeq(s, 1, n - 1), s[n])
  <2>1. 1 \in 1 .. Len(s) /\ n \in 1 .. Len(s) /\ 1 \in Int /\ n - 1 \in Int
    OBVIOUS
  <2>2. SubSeq(s, 1, n) = SubSeq(s, 1, n - 1) \o <<s[n]>>
    BY <2>1, SubSeqRecursiveSecond
  <2>3. \A i \in 1 .. n - 1 : s[i] \in T
    OBVIOUS
  <2>4. SubSeq(s, 1, n - 1) \in Seq(T)
    BY <2>1, <2>3, SubSeqProperties
  <2>5. s[n] \in T
    OBVIOUS
  <2>6. ASSUME NEW q \in Seq(T), NEW e \in T PROVE q \o <<e>> = Append(q, e)
    OBVIOUS
  <2>7. QED
    BY <2>2, <2>4, <2>5, <2>6
<1>4. QED
  BY <1>1, <1>2, <1>3

\* FlattenSeq strings its parts together one after another.
LEMMA FlattenSteps ==
  ASSUME NEW T, NEW seqs \in Seq(Seq(T))
  PROVE  \E f \in [0 .. Len(seqs) -> Seq(T)] :
           /\ f[0] = <<>> /\ FlattenSeq(seqs) = f[Len(seqs)]
           /\ \A n \in 1 .. Len(seqs) : f[n] = f[n - 1] \o seqs[n]
<1> DEFINE N == Len(seqs)
           step == [n \in 1 .. N |-> [q \in Seq(T) |-> q \o seqs[n]]]
           Body(f) == [i \in 1 .. N |-> IF i = 1 THEN seqs[i] ELSE f[i - 1] \o seqs[i]]
           flatten == CHOOSE f : f = Body(f)
<1>1. N \in Nat /\ \A n \in 1 .. N : seqs[n] \in Seq(T)
  OBVIOUS
<1>2. step \in [1 .. N -> [Seq(T) -> Seq(T)]]
  BY <1>1
<1>3. \A n \in 1 .. N : \A q \in Seq(T) : step[n][q] = q \o seqs[n]
  OBVIOUS
<1>4. <<>> \in Seq(T)
  OBVIOUS
<1>5. PICK f \in [0 .. N -> Seq(T)] : f[0] = <<>> /\ \A n \in 1 .. N : f[n] = step[n][f[n - 1]]
  <2> HIDE DEF step, N
  <2>1. HasRun(Seq(T), <<>>, N, step)
    BY <1>1, <1>2, <1>4, RunExists
  <2>2. QED
    BY <2>1 DEF HasRun
<1>6. \A n \in 1 .. N : n - 1 \in 0 .. N /\ n \in 0 .. N
  BY <1>1
<1>7. \A n \in 1 .. N : f[n] = f[n - 1] \o seqs[n]
  <2> HIDE DEF step, N
  <2>1. QED
    BY <1>3, <1>5, <1>6
<1> DEFINE g == [i \in 1 .. N |-> f[i]]
<1>8. g = Body(g)
  <2>1. ASSUME NEW i \in 1 .. N PROVE f[i] = IF i = 1 THEN seqs[i] ELSE g[i - 1] \o seqs[i]
    <3>1. CASE i = 1
      <4>1. 1 \in 1 .. N /\ 1 - 1 = 0
        BY <3>1
      <4>2. f[1] = f[0] \o seqs[1]
        <5> HIDE DEF N
        <5>1. QED
          BY <1>7, <4>1
      <4>3. f[1] = <<>> \o seqs[1]
        BY <1>5, <4>2
      <4>4. QED
        BY <1>1, <3>1, <4>1, <4>3
    <3>2. CASE i # 1
      <4>1. i - 1 \in 1 .. N
        BY <1>1, <3>2
      <4>2. QED
        BY <1>7, <3>2, <4>1
    <3>3. QED
      BY <3>1, <3>2
  <2>2. QED
    BY <2>1
<1>9. flatten = Body(flatten)
  BY <1>8
<1>10. \A i \in 1 .. N : flatten[i] = IF i = 1 THEN seqs[i] ELSE flatten[i - 1] \o seqs[i]
  BY <1>9
<1> HIDE DEF flatten
<1>11. \A i \in 1 .. N : flatten[i] = f[i]
  <2> HIDE DEF N, step, g
  <2> DEFINE K == {n \in Nat : n \in 1 .. N => flatten[n] = f[n]}
  <2>1. 0 \in K
    OBVIOUS
  <2>2. ASSUME NEW n \in Nat, n \in K PROVE n + 1 \in K
    <3>1. SUFFICES ASSUME n + 1 \in 1 .. N PROVE flatten[n + 1] = f[n + 1]
      OBVIOUS
    <3>2. CASE n = 0
      <4>1. 1 \in 1 .. N /\ 1 - 1 = 0
        BY <3>1, <3>2
      <4>2. flatten[1] = seqs[1] /\ f[1] = f[0] \o seqs[1]
        BY <1>7, <1>10, <4>1
      <4>3. f[1] = seqs[1]
        BY <1>1, <1>5, <4>1, <4>2
      <4>4. QED
        BY <3>2, <4>2, <4>3
    <3>3. CASE n # 0
      <4>1. n \in 1 .. N /\ (n + 1) - 1 = n /\ n + 1 # 1
        BY <1>1, <3>1, <3>3
      <4>2. flatten[n + 1] = flatten[n] \o seqs[n + 1] /\ f[n + 1] = f[n] \o seqs[n + 1]
        BY <1>7, <1>10, <3>1, <4>1
      <4>3. QED
        BY <2>2, <4>1, <4>2
    <3>4. QED
      BY <3>2, <3>3
  <2>3. Nat \subseteq K
    <3> HIDE DEF K
    <3>1. QED
      BY <2>1, <2>2, SetInduction
  <2>4. QED
    BY <2>3
<1>12. FlattenSeq(seqs) = f[N]
  <2>1. CASE N = 0
    <3>1. FlattenSeq(seqs) = seqs
      BY <2>1 DEF FlattenSeq
    <3>2. seqs = <<>>
      BY <2>1
    <3>3. QED
      BY <1>5, <2>1, <3>1, <3>2
  <2>2. CASE N # 0
    <3>1. FlattenSeq(seqs) = flatten[N]
      BY <2>2 DEF FlattenSeq, flatten
    <3>2. N \in 1 .. N
      BY <1>1, <2>2
    <3>3. QED
      BY <1>11, <3>1, <3>2
  <2>3. QED
    BY <2>1, <2>2
<1>13. QED
  BY <1>5, <1>7, <1>12

\* Where the reader is after each character of a text.
LEMMA ReadsChars ==
  ASSUME NEW text \in Chars, NEW P \in [0 .. Len(text) -> SUBSET ReaderStates], NEW s \in P[0],
         \A n \in 1 .. Len(text) : \A y \in P[n - 1] : Scanned(y, text[n]) \in P[n]
  PROVE  \E z \in P[Len(text)] : Reads(text, s, z)
<1> DEFINE N == Len(text)
           step == [n \in 1 .. N |-> [y \in ReaderStates |-> Scanned(y, text[n])]]
<1>1. N \in Nat /\ \A n \in 1 .. N : text[n] \in Letters
  BY DEF Chars
<1>2. step \in [1 .. N -> [ReaderStates -> ReaderStates]]
  BY <1>1, ScannedFacts
<1>3. \A n \in 1 .. N : \A y \in ReaderStates : step[n][y] = Scanned(y, text[n])
  OBVIOUS
<1>4. s \in ReaderStates
  BY <1>1
<1>5. PICK g \in [0 .. N -> ReaderStates] : g[0] = s /\ \A n \in 1 .. N : g[n] = step[n][g[n - 1]]
  <2> HIDE DEF step, N
  <2>1. HasRun(ReaderStates, s, N, step)
    BY <1>1, <1>2, <1>4, RunExists
  <2>2. QED
    BY <2>1 DEF HasRun
<1>6. \A n \in 1 .. N : n - 1 \in 0 .. N /\ n \in 0 .. N
  BY <1>1
<1>7. \A n \in 1 .. N : g[n] = Scanned(g[n - 1], text[n])
  <2> HIDE DEF step, N
  <2>1. QED
    BY <1>3, <1>5, <1>6
<1>8. g[N] \in P[N]
  <2> HIDE DEF step
  <2> DEFINE K == {n \in Nat : n <= N => g[n] \in P[n]}
  <2>1. 0 \in K
    BY <1>5
  <2>2. ASSUME NEW n \in Nat, n \in K PROVE n + 1 \in K
    <3>1. SUFFICES ASSUME n + 1 <= N PROVE g[n + 1] \in P[n + 1]
      OBVIOUS
    <3>2. g[n] \in P[n] /\ n + 1 \in 1 .. N /\ (n + 1) - 1 = n
      BY <1>1, <2>2, <3>1
    <3>3. QED
      BY <1>7, <3>2
  <2>3. Nat \subseteq K
    <3> HIDE DEF K
    <3>1. QED
      BY <2>1, <2>2, SetInduction
  <2>4. QED
    BY <1>1, <2>3
<1>9. Reads(text, s, g[N])
  BY <1>5, <1>7 DEF Reads
<1>10. QED
  BY <1>8, <1>9

\* Where it is after each part of a text made of parts.
LEMMA ReadsParts ==
  ASSUME NEW seqs \in Seq(Chars), NEW P \in [0 .. Len(seqs) -> SUBSET ReaderStates], NEW s \in P[0],
         \A n \in 1 .. Len(seqs) : \A y \in P[n - 1] : \E z \in P[n] : Reads(seqs[n], y, z)
  PROVE  /\ FlattenSeq(seqs) \in Chars
         /\ \E z \in P[Len(seqs)] : Reads(FlattenSeq(seqs), s, z)
<1> DEFINE N == Len(seqs)
<1>1. N \in Nat /\ \A n \in 1 .. N : seqs[n] \in Chars
  OBVIOUS
<1>2. PICK f \in [0 .. N -> Chars] :
        /\ f[0] = <<>> /\ FlattenSeq(seqs) = f[N]
        /\ \A n \in 1 .. N : f[n] = f[n - 1] \o seqs[n]
  BY FlattenSteps DEF Chars
<1> HIDE DEF N
<1> DEFINE K == {n \in Nat : n <= N => \E z \in P[n] : Reads(f[n], s, z)}
<1>3. 0 \in K
  <2>1. 0 \in 0 .. N
    BY <1>1
  <2>2. s \in ReaderStates
    BY <2>1 DEF N
  <2>3. Reads(f[0], s, s)
    BY <1>2, <2>2, ReadsNothing
  <2>4. QED
    BY <2>3
<1>4. ASSUME NEW n \in Nat, n \in K PROVE n + 1 \in K
  <2>1. SUFFICES ASSUME n + 1 <= N PROVE \E z \in P[n + 1] : Reads(f[n + 1], s, z)
    OBVIOUS
  <2>2. n + 1 \in 1 .. N /\ n \in 0 .. N /\ (n + 1) - 1 = n
    BY <1>1, <2>1
  <2>3. PICK y \in P[n] : Reads(f[n], s, y)
    BY <1>1, <1>4, <2>1
  <2>4. PICK z \in P[n + 1] : Reads(seqs[n + 1], y, z)
    BY <2>2, <2>3 DEF N
  <2>5. f[n] \in Chars /\ seqs[n + 1] \in Chars
    BY <1>1, <1>2, <2>2
  <2>6. Reads(f[n] \o seqs[n + 1], s, z)
    BY <2>3, <2>4, <2>5, ReadsThen
  <2>7. f[n + 1] = f[n] \o seqs[n + 1]
    BY <1>2, <2>2
  <2>8. QED
    BY <2>6, <2>7
<1>5. N \in K
  <2> HIDE DEF K
  <2>1. Nat \subseteq K
    BY <1>3, <1>4, SetInduction
  <2>2. QED
    BY <1>1, <2>1
<1>6. QED
  BY <1>1, <1>2, <1>5 DEF N

\* What the reader makes of a quote, a comma, a break and any other character.
LEMMA QuoteOpens ==
  ASSUME NEW s \in ReaderStates, ~ s.open, s.last # Quote
  PROVE  LET z == Scanned(s, Quote)
         IN /\ z \in ReaderStates /\ z.lines = s.lines /\ z.line = s.line /\ z.cell = s.cell
            /\ z.open
<1>1. Quote \in Letters
  BY MarksAreLetters
<1>2. s.open \in BOOLEAN
  BY DEF ReaderStates
<1>3. QED
  BY <1>1, <1>2, ScannedFacts

LEMMA QuoteCloses ==
  ASSUME NEW s \in ReaderStates, s.open
  PROVE  LET z == Scanned(s, Quote)
         IN /\ z \in ReaderStates /\ z.lines = s.lines /\ z.line = s.line /\ z.cell = s.cell
            /\ ~ z.open /\ z.last = Quote
<1>1. Quote \in Letters
  BY MarksAreLetters
<1>2. s.open \in BOOLEAN
  BY DEF ReaderStates
<1>3. QED
  BY <1>1, <1>2, ScannedFacts

LEMMA QuoteAgain ==
  ASSUME NEW s \in ReaderStates, ~ s.open, s.last = Quote
  PROVE  LET z == Scanned(s, Quote)
         IN /\ z \in ReaderStates /\ z.lines = s.lines /\ z.line = s.line
            /\ z.cell = Append(s.cell, Quote) /\ z.open
<1>1. Quote \in Letters
  BY MarksAreLetters
<1> DEFINE z == Scanned(s, Quote)
<1>2. /\ z \in ReaderStates /\ z.lines = s.lines /\ z.line = s.line /\ (z.open <=> ~ s.open)
      /\ z.cell = IF ~ s.open /\ s.last = Quote THEN Append(s.cell, Quote) ELSE s.cell
  BY <1>1, ScannedFacts
<1> HIDE DEF z
<1>3. z.cell = Append(s.cell, Quote)
  BY <1>2
<1>4. QED
  BY <1>2, <1>3 DEF z

LEMMA PlainAdds ==
  ASSUME NEW s \in ReaderStates, NEW ch \in Letters, ch # Quote,
         s.open \/ (ch # Comma /\ ch # Break)
  PROVE  LET z == Scanned(s, ch)
         IN /\ z \in ReaderStates /\ z.lines = s.lines /\ z.line = s.line
            /\ z.cell = Append(s.cell, ch) /\ z.open = s.open
  BY ScannedFacts

LEMMA CommaEndsCell ==
  ASSUME NEW s \in ReaderStates, ~ s.open
  PROVE  LET z == Scanned(s, Comma)
         IN /\ z \in ReaderStates /\ z.lines = s.lines /\ z.line = Append(s.line, s.cell)
            /\ z.cell = <<>> /\ ~ z.open /\ z.last # Quote
<1>1. Comma \in Letters /\ Comma # Quote
  BY MarksAreLetters
<1>2. QED
  BY <1>1, ScannedFacts

LEMMA BreakEndsLine ==
  ASSUME NEW s \in ReaderStates, ~ s.open
  PROVE  LET z == Scanned(s, Break)
         IN /\ z \in ReaderStates /\ z.lines = Append(s.lines, Append(s.line, s.cell))
            /\ z.line = <<>> /\ z.cell = <<>> /\ ~ z.open /\ z.last # Quote
<1>1. Break \in Letters /\ Break # Quote
  BY MarksAreLetters
<1>2. QED
  BY <1>1, ScannedFacts

\* The reader, come from s, has the first n characters of a cell: outside of
\* quotes or inside them.
Outside(s, cell, n) ==
  {z \in ReaderStates : /\ z.lines = s.lines /\ z.line = s.line /\ ~ z.open
                        /\ z.cell = SubSeq(cell, 1, n)}
Inside(s, cell, n) ==
  {z \in ReaderStates : /\ z.lines = s.lines /\ z.line = s.line /\ z.open
                        /\ z.cell = SubSeq(cell, 1, n)}

LEMMA PlainReads ==
  ASSUME NEW cell \in Chars, NEW s \in ReaderStates, ~ s.open, s.cell = <<>>,
         \A n \in 1 .. Len(cell) : cell[n] \notin {Comma, Quote, Break}
  PROVE  \E z \in Outside(s, cell, Len(cell)) : Reads(cell, s, z)
<1> DEFINE N == Len(cell)
           P == [n \in 0 .. N |-> Outside(s, cell, n)]
<1>1. N \in Nat /\ \A n \in 1 .. N : cell[n] \in Letters
  BY DEF Chars
<1>2. /\ SubSeq(cell, 1, 0) = <<>>
      /\ \A n \in 1 .. N : SubSeq(cell, 1, n) = Append(SubSeq(cell, 1, n - 1), cell[n])
  BY PrefixesGrow DEF Chars
<1>3. P \in [0 .. N -> SUBSET ReaderStates]
  BY DEF Outside
<1>4. \A n \in 1 .. N : n - 1 \in 0 .. N /\ n \in 0 .. N /\ 0 \in 0 .. N
  BY <1>1
<1>5. s \in P[0]
  <2>1. s \in Outside(s, cell, 0)
    BY <1>2 DEF Outside
  <2>2. 0 \in 0 .. N
    BY <1>1
  <2>3. QED
    BY <2>1, <2>2
<1>6. ASSUME NEW n \in 1 .. N, NEW y \in P[n - 1]
      PROVE  Scanned(y, cell[n]) \in P[n]
  <2>1. /\ y \in ReaderStates /\ y.lines = s.lines /\ y.line = s.line /\ ~ y.open
        /\ y.cell = SubSeq(cell, 1, n - 1)
    BY <1>4 DEF Outside
  <2>2. cell[n] \in Letters /\ cell[n] # Quote /\ cell[n] # Comma /\ cell[n] # Break
    BY <1>1
  <2> DEFINE z == Scanned(y, cell[n])
  <2>3. /\ z \in ReaderStates /\ z.lines = y.lines /\ z.line = y.line
        /\ z.cell = Append(y.cell, cell[n]) /\ z.open = y.open
    BY <2>1, <2>2, PlainAdds
  <2> HIDE DEF z
  <2>4. z \in Outside(s, cell, n)
    BY <1>2, <2>1, <2>3 DEF Outside
  <2>5. QED
    BY <1>4, <2>4 DEF z
<1> HIDE DEF P
<1>7. \E z \in P[N] : Reads(cell, s, z)
  BY <1>3, <1>5, <1>6, ReadsChars
<1>8. N \in 0 .. N
  BY <1>1
<1>9. QED
  BY <1>7, <1>8 DEF P

\* The characters of a cell as they are written within quotes.
Doubled(cell) ==
  [n \in DOMAIN cell |-> IF cell[n] = Quote THEN <<Quote, Quote>> ELSE <<cell[n]>>]

LEMMA DoubledParts ==
  ASSUME NEW cell \in Chars
  PROVE  /\ Doubled(cell) \in Seq(Chars) /\ Len(Doubled(cell)) = Len(cell)
         /\ \A n \in 1 .. Len(cell) :
              /\ cell[n] = Quote => Doubled(cell)[n] = <<Quote>> \o <<Quote>>
              /\ cell[n] # Quote => Doubled(cell)[n] = <<cell[n]>>
<1> DEFINE N == Len(cell)
           parts == Doubled(cell)
<1>1. N \in Nat /\ DOMAIN cell = 1 .. N /\ \A n \in 1 .. N : cell[n] \in Letters
  BY DEF Chars
<1>2. \A c \in Letters : <<c>> \in Chars
  BY ShortSeqs DEF Chars
<1>3. <<Quote, Quote>> \in Chars /\ <<Quote, Quote>> = <<Quote>> \o <<Quote>>
  BY MarksAreLetters, ShortSeqs DEF Chars
<1> HIDE DEF N
<1>4. parts = [n \in 1 .. N |-> IF cell[n] = Quote THEN <<Quote, Quote>> ELSE <<cell[n]>>]
  BY <1>1 DEF Doubled
<1> HIDE DEF parts
<1>5. parts \in [1 .. N -> Chars]
  BY <1>1, <1>2, <1>3, <1>4
<1>6. parts \in Seq(Chars) /\ Len(parts) = N
  <2> HIDE DEF Chars
  <2>1. parts \in Seq(Chars)
    BY <1>1, <1>5, SeqDef
  <2>2. QED
    BY <1>1, <1>5, <2>1, LenProperties
<1>7. \A n \in 1 .. N : /\ cell[n] = Quote => parts[n] = <<Quote>> \o <<Quote>>
                        /\ cell[n] # Quote => parts[n] = <<cell[n]>>
  BY <1>3, <1>4
<1>8. QED
  BY <1>6, <1>7 DEF N, parts

LEMMA QuotedReads ==
  ASSUME NEW cell \in Chars, NEW s, NEW y \in Inside(s, cell, 0)
  PROVE  /\ FlattenSeq(Doubled(cell)) \in Chars
         /\ \E z \in Inside(s, cell, Len(cell)) : Reads(FlattenSeq(Doubled(cell)), y, z)
<1> DEFINE N == Len(cell)
           parts == Doubled(cell)
           P == [n \in 0 .. N |-> Inside(s, cell, n)]
<1>1. N \in Nat /\ \A n \in 1 .. N : cell[n] \in Letters
  BY DEF Chars
<1>2. \A n \in 1 .. N : SubSeq(cell, 1, n) = Append(SubSeq(cell, 1, n - 1), cell[n])
  BY PrefixesGrow DEF Chars
<1>3. P \in [0 .. N -> SUBSET ReaderStates]
  BY DEF Inside
<1>4. \A n \in 1 .. N : n - 1 \in 0 .. N /\ n \in 0 .. N
  BY <1>1
<1>5. 0 \in 0 .. N /\ N \in 0 .. N
  BY <1>1
<1>6. /\ parts \in Seq(Chars) /\ Len(parts) = N
      /\ \A n \in 1 .. N : /\ cell[n] = Quote => parts[n] = <<Quote>> \o <<Quote>>
                           /\ cell[n] # Quote => parts[n] = <<cell[n]>>
  BY DoubledParts
<1>7. Quote \in Letters /\ <<Quote>> \in Chars
  BY MarksAreLetters, ShortSeqs DEF Chars
<1> HIDE DEF parts, N
<1>8. ASSUME NEW n \in 1 .. N, NEW u \in P[n - 1]
      PROVE  \E z \in P[n] : Reads(parts[n], u, z)
  <2>1. /\ u \in ReaderStates /\ u.lines = s.lines /\ u.line = s.line /\ u.open
        /\ u.cell = SubSeq(cell, 1, n - 1)
    BY <1>4 DEF Inside
  <2>2. CASE cell[n] = Quote
    <3> DEFINE v == Scanned(u, Quote)
               z == Scanned(v, Quote)
    <3>1. /\ v \in ReaderStates /\ v.lines = u.lines /\ v.line = u.line /\ v.cell = u.cell
          /\ ~ v.open /\ v.last = Quote
      BY <2>1, QuoteCloses
    <3>2. Reads(<<Quote>>, u, v)
      BY <1>7, <2>1, ReadsOne
    <3> HIDE DEF v
    <3>3. /\ z \in ReaderStates /\ z.lines = v.lines /\ z.line = v.line
          /\ z.cell = Append(v.cell, Quote) /\ z.open
      BY <3>1, QuoteAgain
    <3>4. Reads(<<Quote>>, v, z)
      BY <1>7, <3>1, ReadsOne
    <3> HIDE DEF z
    <3>5. Reads(<<Quote>> \o <<Quote>>, u, z)
      BY <1>7, <3>2, <3>4, ReadsThen
    <3>6. z \in Inside(s, cell, n)
      BY <1>2, <2>1, <2>2, <3>1, <3>3 DEF Inside
    <3>7. QED
      BY <1>4, <1>6, <2>2, <3>5, <3>6
  <2>3. CASE cell[n] # Quote
    <3> DEFINE z == Scanned(u, cell[n])
    <3>1. /\ z \in ReaderStates /\ z.lines = u.lines /\ z.line = u.line
          /\ z.cell = Append(u.cell, cell[n]) /\ z.open = u.open
      BY <1>1, <2>1, <2>3, PlainAdds
    <3>2. Reads(<<cell[n]>>, u, z)
      BY <1>1, <2>1, ReadsOne
    <3> HIDE DEF z
    <3>3. z \in Inside(s, cell, n)
      BY <1>2, <2>1, <3>1 DEF Inside
    <3>4. QED
      BY <1>4, <1>6, <2>3, <3>2, <3>3
  <2>4. QED
    BY <2>2, <2>3
<1>9. y \in P[0]
  BY <1>5
<1>10. P \in [0 .. Len(parts) -> SUBSET ReaderStates]
  BY <1>3, <1>6
<1> HIDE DEF P
<1>11. \A n \in 1 .. Len(parts) : \A u \in P[n - 1] : \E z \in P[n] : Reads(parts[n], u, z)
  BY <1>6, <1>8
<1>12. FlattenSeq(parts) \in Chars /\ \E z \in P[Len(parts)] : Reads(FlattenSeq(parts), y, z)
  BY <1>6, <1>9, <1>10, <1>11, ReadsParts
<1>13. P[Len(parts)] = Inside(s, cell, N)
  BY <1>5, <1>6 DEF P
<1>14. QED
  BY <1>12, <1>13 DEF parts, N

\* A cell that is read is the cell that was written.
CellIsRead(cell, s) ==
  \E z \in ReaderStates : /\ Reads(CsvCell(cell), s, z) /\ ~ z.open
                          /\ z.lines = s.lines /\ z.line = s.line /\ z.cell = cell

LEMMA CellReads ==
  ASSUME NEW cell \in Chars, NEW s \in ReaderStates, ~ s.open, s.last # Quote, s.cell = <<>>
  PROVE  CsvCell(cell) \in Chars /\ CellIsRead(cell, s)
<1> DEFINE N == Len(cell)
<1>1. N \in Nat /\ DOMAIN cell = 1 .. N
  BY DEF Chars
<1>2. SubSeq(cell, 1, 0) = <<>> /\ SubSeq(cell, 1, N) = cell
  BY PrefixesGrow DEF Chars
<1>3. CASE {Comma, Quote, Break} \cap ToSet(cell) = {}
  <2>1. CsvCell(cell) = cell
    BY <1>3 DEF CsvCell
  <2>2. \A n \in 1 .. N : cell[n] \notin {Comma, Quote, Break}
    BY <1>1, <1>3 DEF ToSet
  <2>3. PICK z \in Outside(s, cell, N) : Reads(cell, s, z)
    BY <2>2, PlainReads
  <2>4. QED
    BY <1>2, <2>1, <2>3 DEF CellIsRead, Outside
<1>4. CASE {Comma, Quote, Break} \cap ToSet(cell) # {}
  <2> DEFINE inner == FlattenSeq(Doubled(cell))
             y == Scanned(s, Quote)
  <2>1. CsvCell(cell) = <<Quote>> \o inner \o <<Quote>>
    BY <1>4 DEF CsvCell, Doubled
  <2>2. Quote \in Letters /\ <<Quote>> \in Chars
    BY MarksAreLetters, ShortSeqs DEF Chars
  <2>3. y \in ReaderStates /\ y.lines = s.lines /\ y.line = s.line /\ y.cell = s.cell /\ y.open
    BY QuoteOpens
  <2>4. Reads(<<Quote>>, s, y)
    BY <2>2, ReadsOne
  <2> HIDE DEF y, inner
  <2>5. y \in Inside(s, cell, 0)
    BY <1>2, <2>3 DEF Inside
  <2>6. inner \in Chars /\ \E z \in Inside(s, cell, N) : Reads(inner, y, z)
    BY <2>5, QuotedReads DEF inner
  <2>7. PICK u \in Inside(s, cell, N) : Reads(inner, y, u)
    BY <2>6
  <2>8. u \in ReaderStates /\ u.lines = s.lines /\ u.line = s.line /\ u.cell = cell /\ u.open
    BY <1>2 DEF Inside
  <2> DEFINE z == Scanned(u, Quote)
  <2>9. z \in ReaderStates /\ z.lines = u.lines /\ z.line = u.line /\ z.cell = u.cell /\ ~ z.open
    BY <2>8, QuoteCloses
  <2>10. Reads(<<Quote>>, u, z)
    BY <2>2, <2>8, ReadsOne
  <2> HIDE DEF z
  <2>11. \A a, b \in Chars : a \o b \in Chars
    BY ConcatProperties DEF Chars
  <2>12. <<Quote>> \o inner \in Chars /\ <<Quote>> \o inner \o <<Quote>> \in Chars
    BY <2>2, <2>6, <2>11
  <2>13. Reads(<<Quote>> \o inner, s, u)
    BY <2>2, <2>4, <2>6, <2>7, ReadsThen
  <2>14. Reads(<<Quote>> \o inner \o <<Quote>>, s, z)
    BY <2>2, <2>10, <2>12, <2>13, ReadsThen
  <2>15. QED
    BY <2>1, <2>8, <2>9, <2>12, <2>14 DEF CellIsRead
<1>5. QED
  BY <1>3, <1>4

\* So is a line of cells, and a file of lines.
LineText(cells) == Joined([c \in DOMAIN cells |-> CsvCell(cells[c])], Comma)
LineIsRead(cells, s) ==
  \E z \in ReaderStates : /\ Reads(LineText(cells), s, z) /\ ~ z.open
                          /\ z.lines = s.lines /\ Append(z.line, z.cell) = cells

LEMMA LineReads ==
  ASSUME NEW cells \in Seq(Chars), cells # <<>>,
         NEW s \in ReaderStates, ~ s.open, s.last # Quote, s.line = <<>>, s.cell = <<>>
  PROVE  LineText(cells) \in Chars /\ LineIsRead(cells, s)
<1> DEFINE N == Len(cells)
           parts == [c \in DOMAIN cells |-> CsvCell(cells[c])]
           seqs == [n \in DOMAIN parts |-> IF n = 1 THEN parts[n] ELSE <<Comma>> \o parts[n]]
           Ok(z, n) == /\ z \in ReaderStates /\ z.lines = s.lines /\ ~ z.open
                       /\ n = 0 => z.line = <<>> /\ z.cell = <<>> /\ z.last # Quote
                       /\ n # 0 => Append(z.line, z.cell) = SubSeq(cells, 1, n)
           P == [n \in 0 .. N |-> {z \in ReaderStates : Ok(z, n)}]
<1>1. N \in Nat \ {0} /\ DOMAIN cells = 1 .. N /\ \A n \in 1 .. N : cells[n] \in Chars
  OBVIOUS
<1>2. /\ SubSeq(cells, 1, N) = cells /\ SubSeq(cells, 1, 0) = <<>>
      /\ \A n \in 1 .. N : SubSeq(cells, 1, n) = Append(SubSeq(cells, 1, n - 1), cells[n])
  BY PrefixesGrow
<1>3. Comma \in Letters /\ Comma # Quote
  BY MarksAreLetters
<1>5. \A n \in 1 .. N : CsvCell(cells[n]) \in Chars
  BY <1>1, CellReads
<1>6. <<Comma>> \in Chars
  BY <1>3, ShortSeqs DEF Chars
<1>7. \A a \in Chars : <<Comma>> \o a \in Chars
  BY <1>6, ConcatProperties DEF Chars
<1> HIDE DEF N
<1>8. /\ DOMAIN parts = 1 .. N /\ \A n \in 1 .. N : parts[n] = CsvCell(cells[n])
  BY <1>1
<1> HIDE DEF parts
<1>9. /\ seqs \in Seq(Chars) /\ Len(seqs) = N
      /\ \A n \in 1 .. N : /\ n = 1 => seqs[n] = CsvCell(cells[n])
                           /\ n # 1 => seqs[n] = <<Comma>> \o CsvCell(cells[n])
  <2>1. \A n \in 1 .. N : (IF n = 1 THEN parts[n] ELSE <<Comma>> \o parts[n]) \in Chars
    BY <1>5, <1>7, <1>8
  <2>2. seqs = [n \in 1 .. N |-> IF n = 1 THEN parts[n] ELSE <<Comma>> \o parts[n]]
    BY <1>8
  <2>3. seqs \in [1 .. N -> Chars]
    BY <2>1, <2>2
  <2>4. seqs \in Seq(Chars) /\ Len(seqs) = N
    BY <1>1, <2>3, SeqDef
  <2>5. \A n \in 1 .. N : seqs[n] = IF n = 1 THEN parts[n] ELSE <<Comma>> \o parts[n]
    BY <2>2
  <2> HIDE DEF seqs
  <2>6. QED
    BY <1>8, <2>4, <2>5
<1>10. LineText(cells) = FlattenSeq(seqs)
  BY DEF Joined, LineText, parts
<1> HIDE DEF seqs, Ok
<1>11. /\ P \in [0 .. N -> SUBSET ReaderStates]
       /\ \A n \in 0 .. N : \A z : z \in P[n] <=> z \in ReaderStates /\ Ok(z, n)
  OBVIOUS
<1> HIDE DEF P
<1>12. s \in P[0]
  BY <1>1, <1>11 DEF Ok
<1>13. ASSUME NEW n \in 1 .. N, NEW y \in P[n - 1]
       PROVE  \E z \in P[n] : Reads(seqs[n], y, z)
  <2>1. n - 1 \in 0 .. N /\ n \in 0 .. N /\ n # 0 /\ (n = 1 <=> n - 1 = 0)
    BY <1>1
  <2>2. y \in ReaderStates /\ Ok(y, n - 1)
    BY <1>11, <2>1
  <2>3. ASSUME NEW u \in ReaderStates, ~ u.open, u.last # Quote, u.cell = <<>>,
               u.lines = s.lines, u.line = SubSeq(cells, 1, n - 1)
        PROVE  \E z \in P[n] : Reads(CsvCell(cells[n]), u, z)
    <3>1. PICK z \in ReaderStates : /\ Reads(CsvCell(cells[n]), u, z) /\ ~ z.open
                                    /\ z.lines = u.lines /\ z.line = u.line /\ z.cell = cells[n]
      BY <1>1, <2>3, CellReads DEF CellIsRead
    <3>2. Append(z.line, z.cell) = SubSeq(cells, 1, n)
      BY <1>2, <2>3, <3>1
    <3>3. Ok(z, n)
      BY <2>1, <2>3, <3>1, <3>2 DEF Ok
    <3>4. QED
      BY <1>11, <2>1, <3>1, <3>3
  <2>4. CASE n = 1
    <3>1. /\ y.lines = s.lines /\ ~ y.open /\ y.line = <<>> /\ y.cell = <<>> /\ y.last # Quote
      BY <2>1, <2>2, <2>4 DEF Ok
    <3>2. y.line = SubSeq(cells, 1, n - 1)
      BY <1>2, <2>4, <3>1
    <3>3. QED
      BY <1>9, <2>2, <2>3, <2>4, <3>1, <3>2
  <2>5. CASE n # 1
    <3> DEFINE u == Scanned(y, Comma)
    <3>1. y.lines = s.lines /\ ~ y.open /\ Append(y.line, y.cell) = SubSeq(cells, 1, n - 1)
      BY <2>1, <2>2, <2>5 DEF Ok
    <3>2. /\ u \in ReaderStates /\ ~ u.open /\ u.last # Quote /\ u.cell = <<>>
          /\ u.lines = y.lines /\ u.line = Append(y.line, y.cell)
      BY <2>2, <3>1, CommaEndsCell
    <3>3. Reads(<<Comma>>, y, u)
      BY <1>3, <2>2, ReadsOne
    <3> HIDE DEF u
    <3>4. PICK z \in P[n] : Reads(CsvCell(cells[n]), u, z)
      BY <1>3, <2>3, <3>1, <3>2
    <3>5. Reads(<<Comma>> \o CsvCell(cells[n]), y, z)
      BY <1>5, <1>6, <3>3, <3>4, ReadsThen
    <3>6. QED
      BY <1>9, <2>5, <3>5
  <2>6. QED
    BY <2>4, <2>5
<1>14. FlattenSeq(seqs) \in Chars /\ \E z \in P[N] : Reads(FlattenSeq(seqs), s, z)
  BY <1>9, <1>11, <1>12, <1>13, ReadsParts
<1>15. \A z \in P[N] : /\ z \in ReaderStates /\ ~ z.open /\ z.lines = s.lines
                       /\ Append(z.line, z.cell) = cells
  <2>1. N \in 0 .. N /\ N # 0
    BY <1>1
  <2>2. QED
    BY <1>2, <1>11, <2>1 DEF Ok
<1>16. QED
  BY <1>10, <1>14, <1>15 DEF LineIsRead

FileText(lines) == Joined([n \in DOMAIN lines |-> LineText(lines[n])], Break)

\* The reader has the first n lines.
HasLines(z, lines, n) ==
  /\ ~ z.open
  /\ n = 0 => z.lines = <<>> /\ z.line = <<>> /\ z.cell = <<>> /\ z.last # Quote
  /\ n # 0 => Append(z.lines, Append(z.line, z.cell)) = SubSeq(lines, 1, n)

LEMMA FileReads ==
  ASSUME NEW lines \in Seq(Seq(Chars)), lines # <<>>, \A n \in 1 .. Len(lines) : lines[n] # <<>>
  PROVE  /\ FileText(lines) \in Chars
         /\ \E z \in ReaderStates : /\ Reads(FileText(lines), Unread, z)
                                    /\ Append(z.lines, Append(z.line, z.cell)) = lines
<1> DEFINE N == Len(lines)
           seqs == [n \in 1 .. N |-> IF n = 1 THEN LineText(lines[n])
                                     ELSE <<Break>> \o LineText(lines[n])]
           P == [n \in 0 .. N |-> {z \in ReaderStates : HasLines(z, lines, n)}]
<1>1. /\ N \in Nat \ {0} /\ DOMAIN lines = 1 .. N
      /\ \A n \in 1 .. N : lines[n] \in Seq(Chars) /\ lines[n] # <<>>
  OBVIOUS
<1>2. /\ SubSeq(lines, 1, N) = lines /\ SubSeq(lines, 1, 0) = <<>>
      /\ \A n \in 1 .. N : SubSeq(lines, 1, n) = Append(SubSeq(lines, 1, n - 1), lines[n])
  BY PrefixesGrow
<1>3. Break \in Letters /\ <<Break>> \in Chars
  BY MarksAreLetters, ShortSeqs DEF Chars
<1>4. /\ Unread \in ReaderStates /\ ~ Unread.open /\ Unread.last # Quote
      /\ Unread.lines = <<>> /\ Unread.line = <<>> /\ Unread.cell = <<>>
  <2>1. /\ <<>> \in Seq(Seq(Chars)) /\ <<>> \in Seq(Chars) /\ <<>> \in Chars
        /\ Break \in Letters /\ Break # Quote
    BY MarksAreLetters DEF Chars
  <2>2. QED
    BY <2>1 DEF Unread, ReaderStates
<1>5. \A n \in 1 .. N : LineText(lines[n]) \in Chars
  BY <1>1, <1>4, LineReads
<1>6. \A a \in Chars : <<Break>> \o a \in Chars
  BY <1>3, ConcatProperties DEF Chars
<1> HIDE DEF N
<1>7. /\ seqs \in Seq(Chars) /\ Len(seqs) = N
      /\ \A n \in 1 .. N : seqs[n] = IF n = 1 THEN LineText(lines[n])
                                     ELSE <<Break>> \o LineText(lines[n])
  <2>1. \A n \in 1 .. N : (IF n = 1 THEN LineText(lines[n])
                           ELSE <<Break>> \o LineText(lines[n])) \in Chars
    BY <1>5, <1>6
  <2>2. seqs \in [1 .. N -> Chars]
    BY <2>1
  <2>3. \A n \in 1 .. N : seqs[n] = IF n = 1 THEN LineText(lines[n])
                                    ELSE <<Break>> \o LineText(lines[n])
    OBVIOUS
  <2> HIDE DEF seqs
  <2>4. seqs \in Seq(Chars) /\ Len(seqs) = N
    BY <1>1, <2>2, SeqDef
  <2>5. QED
    BY <2>3, <2>4
<1>8. FileText(lines) = FlattenSeq(seqs)
  <2> DEFINE parts == [n \in DOMAIN lines |-> LineText(lines[n])]
  <2>1. DOMAIN parts = 1 .. N /\ \A n \in 1 .. N : parts[n] = LineText(lines[n])
    BY <1>1
  <2> HIDE DEF parts
  <2>2. seqs = [n \in DOMAIN parts |-> IF n = 1 THEN parts[n] ELSE <<Break>> \o parts[n]]
    BY <2>1
  <2> HIDE DEF seqs
  <2>3. QED
    BY <2>2 DEF FileText, Joined, parts
<1> HIDE DEF seqs
<1>9. /\ P \in [0 .. N -> SUBSET ReaderStates]
      /\ \A n \in 0 .. N : \A z : z \in P[n] <=> z \in ReaderStates /\ HasLines(z, lines, n)
  OBVIOUS
<1> HIDE DEF P
<1>10. Unread \in P[0]
  <2>1. HasLines(Unread, lines, 0)
    BY <1>4 DEF HasLines
  <2>2. 0 \in 0 .. N
    BY <1>1
  <2>3. QED
    BY <1>4, <1>9, <2>1, <2>2
<1>11. ASSUME NEW n \in 1 .. N, NEW y \in P[n - 1]
       PROVE  \E z \in P[n] : Reads(seqs[n], y, z)
  <2>1. n - 1 \in 0 .. N /\ n \in 0 .. N /\ n # 0 /\ (n = 1 <=> n - 1 = 0)
    BY <1>1
  <2>2. y \in ReaderStates /\ HasLines(y, lines, n - 1)
    BY <1>9, <2>1
  <2>3. ASSUME NEW u \in ReaderStates, ~ u.open, u.last # Quote, u.line = <<>>, u.cell = <<>>,
               u.lines = SubSeq(lines, 1, n - 1)
        PROVE  \E z \in P[n] : Reads(LineText(lines[n]), u, z)
    <3>1. PICK z \in ReaderStates : /\ Reads(LineText(lines[n]), u, z) /\ ~ z.open
                                    /\ z.lines = u.lines /\ Append(z.line, z.cell) = lines[n]
      BY <1>1, <2>3, LineReads DEF LineIsRead
    <3>2. Append(z.lines, Append(z.line, z.cell)) = SubSeq(lines, 1, n)
      BY <1>2, <2>3, <3>1
    <3>3. HasLines(z, lines, n)
      BY <2>1, <3>1, <3>2 DEF HasLines
    <3>4. QED
      BY <1>9, <2>1, <3>1, <3>3
  <2>4. CASE n = 1
    <3>1. /\ ~ y.open /\ y.lines = <<>> /\ y.line = <<>> /\ y.cell = <<>> /\ y.last # Quote
      BY <2>1, <2>2, <2>4 DEF HasLines
    <3>2. y.lines = SubSeq(lines, 1, n - 1)
      BY <1>2, <2>4, <3>1
    <3>3. QED
      BY <1>7, <2>2, <2>3, <2>4, <3>1, <3>2
  <2>5. CASE n # 1
    <3> DEFINE u == Scanned(y, Break)
    <3>1. ~ y.open /\ Append(y.lines, Append(y.line, y.cell)) = SubSeq(lines, 1, n - 1)
      BY <2>1, <2>2, <2>5 DEF HasLines
    <3>2. /\ u \in ReaderStates /\ ~ u.open /\ u.last # Quote /\ u.line = <<>> /\ u.cell = <<>>
          /\ u.lines = Append(y.lines, Append(y.line, y.cell))
      BY <2>2, <3>1, BreakEndsLine
    <3>3. Reads(<<Break>>, y, u)
      BY <1>3, <2>2, ReadsOne
    <3> HIDE DEF u
    <3>4. PICK z \in P[n] : Reads(LineText(lines[n]), u, z)
      BY <2>3, <3>1, <3>2
    <3>5. Reads(<<Break>> \o LineText(lines[n]), y, z)
      BY <1>3, <1>5, <3>3, <3>4, ReadsThen
    <3>6. QED
      BY <1>7, <2>5, <3>5
  <2>6. QED
    BY <2>4, <2>5
<1>12. FlattenSeq(seqs) \in Chars /\ \E z \in P[N] : Reads(FlattenSeq(seqs), Unread, z)
  BY <1>7, <1>9, <1>10, <1>11, ReadsParts
<1>13. \A z \in P[N] : z \in ReaderStates /\ Append(z.lines, Append(z.line, z.cell)) = lines
  <2>1. N \in 0 .. N /\ N # 0
    BY <1>1
  <2>2. QED
    BY <1>2, <1>9, <2>1 DEF HasLines
<1>14. QED
  BY <1>8, <1>12, <1>13

\* The CSV of rows reads back as their lines.
LEMMA LinesAreCells ==
  ASSUME declaration \in Declarations, NEW items \in Seq(Item)
  PROVE  LET lines == Lines(items)
         IN /\ lines \in Seq(Seq(Chars)) /\ lines # <<>>
            /\ \A n \in 1 .. Len(lines) : lines[n] # <<>>
<1> DEFINE columns == declaration.fields
           C == Len(columns)
           Cells == [1 .. C -> Chars]
           head == [c \in 1 .. C |-> <<columns[c]>>]
           body == [n \in DOMAIN items |->
                     [c \in 1 .. C |-> Spelling[items[n].row[columns[c]]]]]
<1>1. columns \in Seq(Columns) /\ columns # <<>>
  BY Declared
<1>2. C \in Nat \ {0} /\ DOMAIN columns = 1 .. C /\ \A c \in 1 .. C : columns[c] \in Columns
  BY <1>1
<1>3. Len(items) \in Nat /\ DOMAIN items = 1 .. Len(items)
  OBVIOUS
<1>4. \A n \in 1 .. Len(items) : items[n].row \in Rows
  <2>1. \A n \in 1 .. Len(items) : items[n] \in Item
    BY <1>3
  <2>2. QED
    BY <2>1 DEF Item
<1>5. \A f \in Columns : <<f>> \in Chars
  BY ShortSeqs DEF Chars, Letters
<1>6. \A w \in Vocabulary : Spelling[w] \in Chars
  <2>1. \A w \in Vocabulary : Spelling[w] \in Seq(STRING)
    BY Table
  <2>2. \A q \in Seq(STRING) : q \in Seq(Letters)
    BY DEF Letters
  <2>3. QED
    BY <2>1, <2>2 DEF Chars
<1> HIDE DEF columns, C
<1>7. head \in Cells
  BY <1>2, <1>5
<1>8. body \in [1 .. Len(items) -> Cells]
  <2>1. ASSUME NEW n \in 1 .. Len(items), NEW c \in 1 .. C
        PROVE  Spelling[items[n].row[columns[c]]] \in Chars
    BY <1>2, <1>4, <1>6 DEF Rows
  <2>2. QED
    BY <1>3, <2>1
<1>9. \A q \in Cells : q \in Seq(Chars) /\ q # <<>>
  <2>1. \A q \in Cells : q \in Seq(Chars) /\ DOMAIN q = 1 .. C
    BY <1>2, SeqDef
  <2>2. 1 \in 1 .. C /\ DOMAIN <<>> = {}
    BY <1>2
  <2>3. QED
    BY <2>1, <2>2
<1>10. body \in Seq(Cells)
  BY <1>3, <1>8, SeqDef
<1>11. Lines(items) = <<head>> \o body
  BY <1>2 DEF Lines, columns
<1> HIDE DEF head, body, Cells
<1>12. <<head>> \in Seq(Cells) /\ Len(<<head>>) = 1
  BY <1>7
<1>13. /\ <<head>> \o body \in Seq(Cells) /\ Len(<<head>> \o body) = 1 + Len(body)
  BY <1>10, <1>12, ConcatProperties
<1> DEFINE lines == <<head>> \o body
<1>14. lines \in Seq(Cells) /\ Len(lines) # 0
  BY <1>10, <1>13
<1> HIDE DEF lines
<1>15. \A n \in 1 .. Len(lines) : lines[n] \in Seq(Chars) /\ lines[n] # <<>>
  BY <1>9, <1>14
<1>16. lines \in Seq(Seq(Chars))
  BY <1>9, <1>14
<1>17. QED
  BY <1>11, <1>14, <1>15, <1>16 DEF lines

LEMMA CsvReadsBack ==
  ASSUME declaration \in Declarations, NEW items \in Seq(Item)
  PROVE  ReadCsv(RowsToCsv(items)) = Lines(items)
<1> DEFINE lines == Lines(items)
<1>1. /\ lines \in Seq(Seq(Chars)) /\ lines # <<>>
      /\ \A n \in 1 .. Len(lines) : lines[n] # <<>>
  BY LinesAreCells
<1>2. RowsToCsv(items) = FileText(lines)
  BY DEF RowsToCsv, FileText, LineText
<1> HIDE DEF lines
<1>3. FileText(lines) \in Chars
  BY <1>1, FileReads
<1>4. PICK z \in ReaderStates : /\ Reads(FileText(lines), Unread, z)
                                /\ Append(z.lines, Append(z.line, z.cell)) = lines
  BY <1>1, FileReads
<1>5. ReadCsv(FileText(lines)) = lines
  BY <1>3, <1>4, ReadCsvReads
<1>6. QED
  BY <1>2, <1>5 DEF lines

-----------------------------------------------------------------------------
(* What an export replied. *)

TextInv == walk.pc = "done" /\ walk.op = "export" => walk.text = RowsToCsv(walk.seen)

LEMMA TextOfNext ==
  ASSUME declaration' = declaration,
         walk'.pc = "done" /\ walk'.op = "export" => walk'.text = RowsToCsv(walk'.seen)
  PROVE  TextInv'
<1>1. RowsToCsv(walk.seen)' = RowsToCsv(walk'.seen)
  BY DEF RowsToCsv, Lines
<1>2. QED
  BY <1>1 DEF TextInv

LEMMA TextAfterCount ==
  ASSUME ReadInv, Count
  PROVE  TextInv'
<1> DEFINE n == Cardinality(Found(stored, walk.caller, walk.query))
           text == IF walk.op = "export" THEN RowsToCsv(walk.seen) ELSE walk.text
           pc == IF walk.op = "export" \/ walk.got < walk.query.pageSize THEN "done" ELSE "paging"
<1>1. walk.pc = "counting" /\ declaration' = declaration
  BY DEF Count
<1>2. IsWalk(walk)
  BY <1>1 DEF ReadInv, ReadTypes, NoWalk
<1>3. walk' = [walk EXCEPT !.total = n, !.text = text, !.pc = pc]
  BY DEF Count
<1> HIDE DEF n, text, pc
<1>4. walk'.op = walk.op /\ walk'.seen = walk.seen /\ walk'.text = text
  BY <1>2, <1>3 DEF IsWalk
<1>5. QED
  BY <1>1, <1>4, TextOfNext DEF text

LEMMA TextAfterWrite ==
  ASSUME ReadInv, TextInv, NEW i \in RowIds, Write(i)
  PROVE  TextInv'
<1>1. declaration' = declaration
  BY DEF Write
<1>2. CASE walk = NoWalk
  <2>1. walk' = NoWalk
    BY <1>2 DEF Write
  <2>2. QED
    BY <1>1, <2>1, TextOfNext DEF NoWalk
<1>3. CASE walk # NoWalk
  <2>1. \E grew, shrank : walk' = [walk EXCEPT !.grew = grew, !.shrank = shrank]
    BY <1>3, Zenon DEF Write
  <2>2. IsWalk(walk)
    BY <1>3 DEF ReadInv, ReadTypes
  <2>3. /\ walk'.pc = walk.pc /\ walk'.op = walk.op
        /\ walk'.seen = walk.seen /\ walk'.text = walk.text
    BY <2>1, <2>2 DEF IsWalk
  <2>4. QED
    BY <1>1, <2>3, TextOfNext DEF TextInv
<1>4. QED
  BY <1>2, <1>3

LEMMA TextInvNext == ReadInv /\ TextInv /\ [ReadsNext]_readsVars => TextInv'
<1> SUFFICES ASSUME ReadInv, TextInv, [ReadsNext]_readsVars PROVE TextInv'
  OBVIOUS
<1>1. ASSUME NEW caller \in Callers, NEW raw \in Queries, List(caller, raw) \/ ExportCsv(caller, raw)
      PROVE  TextInv'
  <2>1. declaration' = declaration
    BY <1>1 DEF List, ExportCsv
  <2>2. walk'.pc = "counting"
    BY <1>1, ListKeeps
  <2>3. QED
    BY <2>1, <2>2, TextOfNext
<1>2. CASE Count
  BY <1>2, TextAfterCount
<1>3. CASE NextPage
  <2>1. declaration' = declaration
    BY <1>3 DEF NextPage
  <2>2. walk'.pc = "counting"
    BY <1>3, NextPageKeeps
  <2>3. QED
    BY <2>1, <2>2, TextOfNext
<1>4. ASSUME NEW i \in RowIds, FindOne(i) PROVE TextInv'
  <2>1. declaration' = declaration /\ walk' = walk
    BY <1>4 DEF FindOne
  <2>2. QED
    BY <2>1, TextOfNext DEF TextInv
<1>5. ASSUME NEW i \in RowIds, Write(i) PROVE TextInv'
  BY <1>5, TextAfterWrite
<1>6. CASE UNCHANGED readsVars
  <2>1. declaration' = declaration /\ walk' = walk
    BY <1>6 DEF readsVars
  <2>2. QED
    BY <2>1, TextOfNext DEF TextInv
<1>7. QED
  BY <1>1, <1>2, <1>3, <1>4, <1>5, <1>6 DEF ReadsNext, WalkFinished

LEMMA ReadsKeepText == ReadsSpec => []TextInv
<1>1. ReadsInit => TextInv
  BY DEF ReadsInit, TextInv, NoWalk
<1>2. QED
  BY <1>1, ReadsKeepInv, TextInvNext, PTL DEF ReadsSpec

LEMMA InvReadsBack == ReadInv /\ TextInv => ExportReadsBack
<1> SUFFICES ASSUME ReadInv, TextInv, walk.pc = "done", walk.op = "export"
             PROVE  ReadCsv(walk.text) = Lines(walk.seen)
  BY DEF ExportReadsBack
<1>1. walk.seen \in Seq(Item) /\ declaration \in Declarations
  BY DEF ReadInv, ReadTypes, IsWalk, NoWalk
<1>2. walk.text = RowsToCsv(walk.seen)
  BY DEF TextInv
<1>3. QED
  BY <1>1, <1>2, CsvReadsBack

-----------------------------------------------------------------------------
(* The theorems. *)

\* list(), findOne() and exportCsv() keep to the types, list only what matches
\* the query within its caller's scope, and write CSV that gives back its rows:
\* for every table, declaration, caller and query.
THEOREM ReadsInvariant == ReadsSpec => []ReadsInv
<1>1. ReadInv /\ TextInv => ReadsInv
  BY TypesImply, InvLists, InvReadsBack DEF ReadsInv, ReadInv
<1>2. QED
  BY <1>1, ReadsKeepInv, ReadsKeepText, PTL

\* A walk through the pages of list() that ends has listed what matched when it
\* began, whatever was written meanwhile, as far as WalkTells says so.
THEOREM WalksTell == ReadsSpec => []WalkTells
  BY ReadsKeepInv, InvTells, PTL

\* No reply of list(), exportCsv() or findOne() shows a value that a rule the
\* caller is not excused from masks, and none hides another value.
THEOREM ReadsMask == ReadsSpec => []ReadsAreMasked
  BY ReadsKeepInv, InvMasks, PTL
=============================================================================
