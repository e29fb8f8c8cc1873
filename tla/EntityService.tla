--------------------------- MODULE EntityService ---------------------------
(***************************************************************************)
(* The generic CRUD service of entity-crud/service-factory.ts, behind the  *)
(* handlers of controller-factory.ts, on a TypeORM repository.  A mutation *)
(* reads the row, checks If-Match against what it read, changes its copy,  *)
(* and after an await writes the whole copy back.  The audit event follows *)
(* after another await, through audit/event-publisher.ts, and may be lost. *)
(*                                                                         *)
(* Repository.save() is external: an upsert by hashId of every column of   *)
(* the copy, which may reject.  Custom handlers, scope and masking are     *)
(* left out (EntityReads has the last two), and so are bodies that name    *)
(* the columns of the id or of the scope, which would make them others.    *)
(***************************************************************************)
EXTENDS Naturals, Sequences, FiniteSets

CONSTANTS
  Calls,       \* requests to the service, each made once
  Ids,         \* hash ids
  Fields,      \* data fields of the declaration
  ReadOnly,    \* those declared readonly
  Values,      \* values of a data field
  Versioned,   \* declaration.version
  SoftDelete,  \* the ids of the entity declared softDelete
  Serial,      \* the rows whose callers wait for each other's write, and that
               \* create() only makes when nobody has them
  Bodies       \* the bodies of the updates

ASSUME Declaration == ReadOnly \subseteq Fields /\ "status" \notin Fields /\ Versioned \in BOOLEAN
ASSUME FewCalls == IsFiniteSet(Calls)
ASSUME KindsOfRow == SoftDelete \subseteq Ids /\ Serial \subseteq Ids

Statuses == {"active", "deleted"}
RowColumns == Fields \cup {"status"}

\* A body names any of the columns, or none; what else it names, `version`
\* included, changes nothing.
Patches ==
  UNION {{p \in [asked -> Values \cup Statuses] :
            \A k \in asked : p[k] \in IF k = "status" THEN Statuses ELSE Values} :
         asked \in SUBSET RowColumns}

ASSUME BodiesArePatches == Bodies \subseteq Patches

VARIABLES
  rows,     \* the table
  call,     \* call[c]: the progress of request c
  commits,  \* history: the writes the database took, in order
  linked,   \* whether the audit publisher's producer is connected
  trail     \* the audit events published, in order

vars == <<rows, call, commits, linked, trail>>

None == [status |-> "none"]
Row == [data : [Fields -> Values], status : Statuses, version : Nat]

NoMatch == 0   \* no If-Match header, or one that is no number; versions start at 1
Idle == [pc |-> "idle"]
\* What a request in progress remembers: its copy of the row, what its audit
\* event will show as `before`, and its If-Match.  The columns it asked to
\* change are history.
Busy(pc, op, id, row, before, ifMatch, asks) ==
  [pc |-> pc, op |-> op, id |-> id, row |-> row, before |-> before, ifMatch |-> ifMatch,
   asks |-> asks]
Reply(code) == [pc |-> "replied", code |-> code]

\* The publisher's init() may fail to connect; there may be no publisher at all.
Init == /\ rows = [id \in Ids |-> None]
        /\ call = [c \in Calls |-> Idle]
        /\ commits = <<>>
        /\ linked \in BOOLEAN
        /\ trail = <<>>

Set(c, v) == call' = [call EXCEPT ![c] = v]

\* What the service throws, as a status; any other error is a 500.
ToHttp == [ValidationFailedError |-> 400, EntityNotFoundError |-> 404,
           ConcurrencyConflictError |-> 409, Error |-> 500]
Throw(c, error) == Set(c, Reply(ToHttp[error])) /\ UNCHANGED <<rows, commits, linked, trail>>

Writing(d) == call[d].pc \in {"saving", "deleting"}
MayStart(c, id) ==
  /\ call[c] = Idle
  /\ id \in Serial => \A d \in Calls : Writing(d) => call[d].id # id

-----------------------------------------------------------------------------
(* The first half of a mutation, up to the call that writes.               *)

\* validateDto() refuses a missing required field, an unknown enum value or
\* a malformed address before anything is read.
Invalid(c) == call[c] = Idle /\ Throw(c, "ValidationFailedError")

\* The id is the caller's, or has two random bytes: it may be in use.  The
\* status is what the body says, or the column's default.
Create(c, id, data, status) ==
  /\ MayStart(c, id)
  /\ id \in Serial => rows[id] = None
  /\ Set(c, Busy("saving", "created", id,
                 [data |-> data, status |-> status,
                  version |-> IF Versioned THEN 1 ELSE 0], None, NoMatch, RowColumns))
  /\ UNCHANGED <<rows, commits, linked, trail>>

NotFound(c, id) == MayStart(c, id) /\ rows[id] = None /\ Throw(c, "EntityNotFoundError")

Stale_AfterBump(row, ifMatch) ==
  Versioned /\ ifMatch # NoMatch /\ ifMatch # row.version + 1
Stale(row, ifMatch) == Versioned /\ ifMatch # NoMatch /\ ifMatch # row.version

Conflict(c, id, ifMatch) ==
  /\ MayStart(c, id)
  /\ rows[id] # None
  /\ Stale(rows[id], ifMatch)
  /\ Throw(c, "ConcurrencyConflictError")

Bumped_Never(row) == row.version
Bumped(row) == IF Versioned THEN row.version + 1 ELSE row.version

Patched_AnyField(row, patch) ==
  [data |-> [f \in Fields |-> IF f \in DOMAIN patch THEN patch[f] ELSE row.data[f]],
   status |-> IF "status" \in DOMAIN patch THEN patch["status"] ELSE row.status,
   version |-> Bumped(row)]

Patched_DefaultsAgain(row, patch) ==
  [data |-> [f \in Fields |-> IF f \in DOMAIN patch \ ReadOnly THEN patch[f]
                                                              ELSE row.data[f]],
   status |-> "active",
   version |-> Bumped(row)]

Patched(row, patch) ==
  [data |-> [f \in Fields |-> IF f \in DOMAIN patch \ ReadOnly THEN patch[f]
                                                              ELSE row.data[f]],
   status |-> IF "status" \in DOMAIN patch THEN patch["status"] ELSE row.status,
   version |-> Bumped(row)]

Update(c, id, patch, ifMatch) ==
  /\ MayStart(c, id)
  /\ rows[id] # None
  /\ ~ Stale(rows[id], ifMatch)
  /\ Set(c, Busy("saving", "updated", id, Patched(rows[id], patch), rows[id], ifMatch,
                 DOMAIN patch))
  /\ UNCHANGED <<rows, commits, linked, trail>>

Removed(row) == [row EXCEPT !.status = "deleted", !.version = Bumped(row)]

RemoveRow(c, id) ==
  /\ MayStart(c, id)
  /\ rows[id] # None
  /\ IF id \in SoftDelete
     THEN LET row == Removed(rows[id]) IN Set(c, Busy("saving", "deleted", id, row, row, NoMatch, {"status"}))
     ELSE Set(c, Busy("deleting", "deleted", id, None, rows[id], NoMatch, RowColumns))
  /\ UNCHANGED <<rows, commits, linked, trail>>

-----------------------------------------------------------------------------
(* The second half: the write, and the audit event after it.               *)

Commit(c) ==
  /\ rows' = [rows EXCEPT ![call[c].id] = call[c].row]
  /\ commits' = Append(commits, [by |-> c, op |-> call[c].op, id |-> call[c].id,
                                 was |-> rows[call[c].id], row |-> call[c].row,
                                 asks |-> call[c].asks])
  /\ Set(c, [call[c] EXCEPT !.pc = "auditing"])
  /\ UNCHANGED <<linked, trail>>

Save(c) == call[c].pc = "saving" /\ Commit(c)
Delete(c) == call[c].pc = "deleting" /\ Commit(c)

WriteFails_AuditsAnyway(c) ==
  /\ Writing(c)
  /\ Set(c, [call[c] EXCEPT !.pc = "auditing"])
  /\ UNCHANGED <<rows, commits, linked, trail>>
WriteFails(c) == Writing(c) /\ Throw(c, "Error")

Event(c) == [by |-> c, op |-> call[c].op, id |-> call[c].id, before |-> call[c].before,
             after |-> IF call[c].op = "deleted" THEN None ELSE call[c].row]

\* publish() drops the event when the producer never connected, and swallows
\* what send() throws once it is gone, or for any other reason.
Publish(c) == \/ linked /\ trail' = Append(trail, Event(c))
              \/ UNCHANGED trail

Succeeded == [created |-> 201, updated |-> 200, deleted |-> 204]

Audit_Retried(c) ==
  /\ call[c].pc = "auditing"
  /\ Publish(c)
  /\ Set(c, Reply(Succeeded[call[c].op])) \/ UNCHANGED call
  /\ UNCHANGED <<rows, commits, linked>>

Audit(c) ==
  /\ call[c].pc = "auditing"
  /\ Publish(c)
  /\ Set(c, Reply(Succeeded[call[c].op]))
  /\ UNCHANGED <<rows, commits, linked>>

\* The module is destroyed while requests are under way.
Close == linked /\ linked' = FALSE /\ UNCHANGED <<rows, call, commits, trail>>

\* The process dies with the request: it is never answered, nor audited.
Die(c) == /\ call[c].pc \in {"saving", "deleting", "auditing"}
          /\ Set(c, [pc |-> "dead"])
          /\ UNCHANGED <<rows, commits, linked, trail>>

IfMatches == 0 .. Cardinality(Calls)

Over == \A c \in Calls : call[c].pc \in {"replied", "dead"}
Finished == Over /\ UNCHANGED vars

Next ==
  \/ \E c \in Calls :
       \/ Invalid(c)
       \/ \E id \in Ids :
            \/ \E data \in [Fields -> Values], s \in Statuses : Create(c, id, data, s)
            \/ NotFound(c, id)
            \/ RemoveRow(c, id)
            \/ \E m \in IfMatches :
                 \/ Conflict(c, id, m)
                 \/ \E p \in Bodies : Update(c, id, p, m)
       \/ Save(c) \/ Delete(c) \/ WriteFails(c) \/ Audit(c) \/ Die(c)
  \/ Close
  \/ Finished

Spec == Init /\ [][Next]_vars

-----------------------------------------------------------------------------
(* Properties                                                              *)

Ops == {"created", "updated", "deleted"}

Replies == {400, 404, 409, 500} \cup {Succeeded[op] : op \in Ops}

\* Types.
TypeOK ==
  /\ rows \in [Ids -> Row \cup {None}]
  /\ call \in [Calls ->
       {Idle, [pc |-> "dead"]} \cup [pc : {"replied"}, code : Replies]
       \cup [pc : {"saving", "deleting", "auditing"}, op : Ops, id : Ids,
             row : Row \cup {None}, before : Row \cup {None}, ifMatch : IfMatches,
             asks : SUBSET RowColumns]]
  /\ commits \in Seq([by : Calls, op : Ops, id : Ids, was : Row \cup {None},
                      row : Row \cup {None}, asks : SUBSET RowColumns])
  /\ linked \in BOOLEAN
  /\ trail \in Seq([by : Calls, op : Ops, id : Ids, before : Row \cup {None},
                    after : Row \cup {None}])

\* Each audit event tells of one write the database took, with the row it
\* wrote, and where callers take turns also with the row it replaced; no write
\* is told of twice, and one that failed or was refused leaves no event.  (The
\* `before` of a soft deletion is the row it wrote: the object was changed.)
TellsOf(event, write) ==
  /\ event.by = write.by /\ event.op = write.op /\ event.id = write.id
  /\ event.op # "deleted" => event.after = write.row
  /\ event.id \in Serial =>
       event.before = IF event.op = "deleted" /\ event.id \in SoftDelete
                      THEN write.row ELSE write.was
TrailTellsWrites ==
  /\ \A i \in DOMAIN trail : \E k \in DOMAIN commits : TellsOf(trail[i], commits[k])
  /\ \A i, j \in DOMAIN trail : trail[i].by = trail[j].by => i = j

\* A reply tells the caller what became of its write: a 2xx means it was made,
\* once, and any other code that it was not.
RepliesTellTruth ==
  \A c \in Calls : call[c].pc = "replied" =>
    Cardinality({k \in DOMAIN commits : commits[k].by = c})
      = IF call[c].code < 300 THEN 1 ELSE 0

\* A readonly field keeps, through every update and removal of its row,
\* the value some create() gave it.
ReadOnlyFromCreate ==
  \A id \in Ids : rows[id] # None =>
    \A f \in ReadOnly : \E k \in DOMAIN commits :
      /\ commits[k].op = "created" /\ commits[k].id = id
      /\ commits[k].row.data[f] = rows[id].data[f]

\* The invariant of create(), update() and remove(): rows, calls and trail are
\* of their types, and no merge, upsert or collision of ids gives a readonly
\* field another value than a create() did.
EntityInv == TypeOK /\ ReadOnlyFromCreate

\* Where callers take turns the version counts the writes to a row: two
\* different contents of one row never carry the same version.
VersionsCount ==
  [][\A id \in Serial :
       (rows[id] # None /\ rows'[id] # None /\ rows'[id] # rows[id])
         => rows'[id].version = rows[id].version + 1]_vars

\* "rejects stale If-Match with 409": an update that named a version is
\* written over a row of that version.
Honours(c) == rows[call[c].id] # None /\ rows[call[c].id].version = call[c].ifMatch
WritesOver(c) == /\ Writing(c) /\ call[c].ifMatch # NoMatch
                 /\ commits' # commits /\ commits'[Len(commits')].by = c

\* It is so where callers take turns,
IfMatchHolds == [][\A c \in Calls : (WritesOver(c) /\ call[c].id \in Serial) => Honours(c)]_vars

\* and it is not otherwise.
IfMatchHonoured == [][\A c \in Calls : WritesOver(c) => Honours(c)]_vars

\* Where callers take turns, a write that is taken changes of a row what its
\* request asked to change and nothing else, never a readonly field: a deleted
\* row comes back only through a body that says so, and no request undoes what
\* another has written to columns it does not name.
ChangesAreAsked ==
  [][\A id \in Serial :
       (rows[id] # None /\ rows'[id] # None /\ rows'[id] # rows[id]) =>
         LET write == commits'[Len(commits')]
             asked == write.asks \ ReadOnly
         IN /\ \A f \in Fields : rows'[id].data[f] # rows[id].data[f] => f \in asked
            /\ rows'[id].status # rows[id].status => "status" \in asked]_vars
=============================================================================
