----------------------------- MODULE MongoHooks -----------------------------
(***************************************************************************)
(* The hooks database/mongo-adapter.ts puts on every schema: a pre-save    *)
(* hook that scans the document for personal data and replaces it by vault *)
(* tokens (interceptors/pii-detector.ts), and post hooks that publish an   *)
(* audit event (interceptors/audit-logger.ts).  A step is what runs        *)
(* between two awaits.  createMongoConnection() awaits the logger's        *)
(* connection and hooks save, update and delete; the module factory does   *)
(* not await it and hooks save alone.                                      *)
(*                                                                         *)
(* Mongoose, the vault and Kafka are external: save() writes the modified  *)
(* paths, a vault call may fail, a send may fail.  A row has one _id, and  *)
(* fields are flat.                                                        *)
(***************************************************************************)
EXTENDS Naturals, Sequences, FiniteSets

CONSTANTS
  Handles,     \* the callers, each with the document it holds
  Ids,         \* rows of the collection
  Fields,      \* fields of a document
  Pii,         \* those whose plain strings the patterns detect
  Skip,        \* skipFields of the detector
  Plain,       \* plain values
  Tokens,      \* the tokens two random bytes can give
  MaxCalls,    \* bound on the calls of the database that resolve
  MaxEdits     \* bound on the edits of documents

ASSUME Shape == Pii \subseteq Fields /\ Skip \subseteq Fields /\ Plain \cap Tokens = {}
ASSUME NoneIsNoValue == "none" \notin Plain \cup Tokens
ASSUME Bounds == MaxCalls \in Nat /\ MaxEdits \in Nat

VARIABLES
  factory,       \* which of the two functions set the hooks up
  link,          \* the audit logger's producer
  table,         \* the rows in the database
  meaning,       \* history: the plain values the fields of each row stand for
  doc,           \* doc[h]: the document caller h holds
  work,          \* work[h]: where its save, update or removal is
  edits,         \* the edits made so far
  vault,         \* the value each token of the vault stands for
  placeholders,  \* history: the tokens made up when the vault did not answer
  calls,         \* history: the calls that resolved, in order, by what they wrote
  events         \* the audit events published, in order

vars == <<factory, link, table, meaning, doc, work, edits, vault, placeholders, calls, events>>
db == <<table, meaning, calls>>
audit == <<link, events>>
tokens == <<vault, placeholders>>
held == <<doc, edits>>

None == "none"
NoRow == <<>>
Data == [Fields -> Plain \cup Tokens]
NoDoc == [id |-> None]
Idle == [pc |-> "idle"]

\* createMongoConnection() fails altogether when the logger does not connect.
Init == /\ \/ factory = "connection" /\ link = "connected"
           \/ factory = "module" /\ link = "connecting"
        /\ table = [id \in Ids |-> NoRow]
        /\ meaning = [id \in Ids |-> NoRow]
        /\ doc = [h \in Handles |-> NoDoc]
        /\ work = [h \in Handles |-> Idle]
        /\ edits = 0
        /\ vault = [t \in Tokens |-> None]
        /\ placeholders = {}
        /\ calls = <<>>
        /\ events = <<>>

\* The module factory's connect() resolves or rejects some time later.
Connect == /\ link = "connecting"
           /\ link' \in {"connected", "refused"}
           /\ UNCHANGED <<factory, db, held, work, tokens, events>>

At(h, pc) == work[h].pc = pc
Goes(h, w) == work' = [work EXCEPT ![h] = w]
Holds(h) == doc[h] # NoDoc
Keep(h, d) == doc' = [doc EXCEPT ![h] = d]

-----------------------------------------------------------------------------
(* The application: a document is made, or loaded, and edited at any time,  *)
(* while it is being saved too.                                             *)

Document(id, isNew, data, meant, modified) ==
  [id |-> id, isNew |-> isNew, data |-> data, meant |-> meant, modified |-> modified]

New(h, id, data) ==
  /\ ~ Holds(h) /\ At(h, "idle") /\ meaning[id] = NoRow
  /\ \A g \in Handles : doc[g].id # id
  /\ Keep(h, Document(id, TRUE, data, data, Fields))
  /\ UNCHANGED <<factory, db, work, edits, audit, tokens>>

Load(h, id) ==
  /\ ~ Holds(h) /\ At(h, "idle") /\ table[id] # NoRow
  /\ Keep(h, Document(id, FALSE, table[id], meaning[id], {}))
  /\ UNCHANGED <<factory, db, work, edits, audit, tokens>>

Edit(h, f, v) ==
  /\ Holds(h) /\ edits < MaxEdits
  /\ doc[h].data[f] # v
  /\ Keep(h, [doc[h] EXCEPT !.data[f] = v, !.meant[f] = v, !.modified = @ \cup {f}])
  /\ edits' = edits + 1
  /\ UNCHANGED <<factory, db, work, audit, tokens>>

-----------------------------------------------------------------------------
(* The pre-save hook.                                                       *)

MayCall == Len(calls) < MaxCalls

\* detectPII(): a string that looks like a token is passed over.
Detected_Tokens(data) == Pii \ Skip
Detected(data) == {f \in Pii \ Skip : data[f] \notin Tokens}

Scanning(clone, meant, todo) ==
  [pc |-> "scanning", clone |-> clone, meant |-> meant, todo |-> todo]
Writing(clone, meant, sent) ==
  [pc |-> "writing", clone |-> clone, meant |-> meant, sent |-> sent]

\* An unmodified document is not scanned, and goes on to an empty write.
Save(h) ==
  /\ Holds(h) /\ At(h, "idle") /\ MayCall
  /\ LET d == doc[h]
     IN Goes(h, IF d.isNew \/ d.modified # {}
                THEN Scanning(d.data, d.meant, Detected(d.data))
                ELSE Writing(d.data, d.meant, {}))
  /\ UNCHANGED <<factory, db, held, audit, tokens>>

Replace(h, f, t) == Goes(h, [work[h] EXCEPT !.clone[f] = t, !.todo = @ \ {f}])

\* The vault answers with a token that stands for the value.
Tokenize(h, f) ==
  /\ At(h, "scanning") /\ f \in work[h].todo
  /\ \E t \in Tokens :
       /\ vault[t] \in {None, work[h].clone[f]}
       /\ vault' = [vault EXCEPT ![t] = work[h].clone[f]]
       /\ Replace(h, f, t)
  /\ UNCHANGED <<factory, db, held, audit, placeholders>>

MakeUp_Keeps(h, f) ==
  /\ At(h, "scanning") /\ f \in work[h].todo
  /\ Replace(h, f, work[h].clone[f])
  /\ UNCHANGED <<factory, db, held, audit, tokens>>

\* It does not, or without a token: one is made up, from two random bytes.
MakeUp(h, f) ==
  /\ At(h, "scanning") /\ f \in work[h].todo
  /\ \E t \in Tokens : Replace(h, f, t) /\ placeholders' = placeholders \cup {t}
  /\ UNCHANGED <<factory, db, held, audit, vault>>

\* Every field of the scanned copy is set on the document where it differs,
\* over edits made meanwhile; what is modified by now is what is sent.
ScanEnds(h) ==
  /\ At(h, "scanning") /\ work[h].todo = {}
  /\ LET d == doc[h]
         scanned == work[h].clone
         differing == {f \in Fields : d.data[f] # scanned[f]}
     IN /\ Keep(h, Document(d.id, d.isNew, scanned, work[h].meant, {}))
        /\ Goes(h, Writing(scanned, work[h].meant, d.modified \cup differing))
  /\ UNCHANGED <<factory, db, edits, audit, tokens>>

-----------------------------------------------------------------------------
(* The write, and the post hooks.                                           *)

Over(row, sent, new) == [f \in Fields |-> IF f \in sent THEN new[f] ELSE row[f]]
Event(h, op, id, carries) == [by |-> h, op |-> op, id |-> id, carries |-> carries]
\* A save writes a new row, or what was modified of an old one: maybe nothing.
SaveOf(d, sent) == IF d.isNew THEN "insert" ELSE IF sent # {} THEN "save" ELSE "nothing"
Resolved(h, op, id) == calls' = Append(calls, [by |-> h, op |-> op, id |-> id])
Auditing(h, event) == Goes(h, [pc |-> "auditing", event |-> event])
\* The save's hook looks at the document, not at what was sent, and calls every
\* save a creation.
AuditSave(h) == Auditing(h, Event(h, "create", doc[h].id, {doc[h].data[f] : f \in Fields}))

\* The save resolves, an empty one too: mongoose only looks then whether the row
\* is there, and runs the post hook all the same.
Write(h) ==
  /\ At(h, "writing")
  /\ LET d == doc[h]
         w == work[h]
     IN /\ d.isNew \/ table[d.id] # NoRow
        /\ table' = [table EXCEPT ![d.id] = IF d.isNew THEN w.clone ELSE Over(@, w.sent, w.clone)]
        /\ meaning' = [meaning EXCEPT ![d.id] =
                         IF d.isNew THEN w.meant ELSE Over(@, w.sent, w.meant)]
        /\ Resolved(h, SaveOf(d, w.sent), d.id)
        /\ Keep(h, [d EXCEPT !.isNew = FALSE])
  /\ AuditSave(h)
  /\ UNCHANGED <<factory, edits, audit, tokens>>

Unsaved(h) == Keep(h, [doc[h] EXCEPT !.modified = @ \cup work[h].sent])

Reject_Audits(h) ==
  /\ At(h, "writing")
  /\ Unsaved(h)
  /\ AuditSave(h)
  /\ UNCHANGED <<factory, db, edits, audit, tokens>>

\* It rejects, as it must when the row of a loaded document is gone.
Reject(h) ==
  /\ At(h, "writing")
  /\ Unsaved(h)
  /\ Goes(h, Idle)
  /\ UNCHANGED <<factory, db, edits, audit, tokens>>

\* findOneAndUpdate(): no scan, and the returned document, of before or after
\* the update, is compared with itself overlaid by the update as given: by
\* fields, or under one $set.  Without a difference there is no event.
Changes(row, f, v, underSet) ==
  IF underSet THEN {v} ELSE IF row[f] = v THEN {} ELSE {row[f], v}

FindOneAndUpdate(h, id, f, v, returnsNew, underSet) ==
  /\ ~ Holds(h) /\ At(h, "idle") /\ MayCall
  /\ table[id] # NoRow
  /\ table' = [table EXCEPT ![id][f] = v]
  /\ meaning' = [meaning EXCEPT ![id][f] = v]
  /\ Resolved(h, "update", id)
  /\ LET changes == Changes(IF returnsNew THEN table'[id] ELSE table[id], f, v, underSet)
     IN IF factory = "connection" /\ changes # {}
        THEN Auditing(h, Event(h, "update", id, changes))
        ELSE UNCHANGED work
  /\ UNCHANGED <<factory, held, audit, tokens>>

FindOneAndDelete(h, id) ==
  /\ ~ Holds(h) /\ At(h, "idle") /\ MayCall
  /\ table[id] # NoRow
  /\ table' = [table EXCEPT ![id] = NoRow]
  /\ Resolved(h, "delete", id)
  /\ IF factory = "connection"
     THEN Auditing(h, Event(h, "delete", id, {table[id][f] : f \in Fields}))
     ELSE UNCHANGED work
  /\ UNCHANGED <<factory, meaning, held, audit, tokens>>

\* publishEvent() throws unless the producer is connected, send() may reject,
\* and the hook swallows either.
Publish(h) ==
  \/ link = "connected" /\ events' = Append(events, work[h].event)
  \/ UNCHANGED events

Audit(h) ==
  /\ At(h, "auditing")
  /\ Publish(h)
  /\ Goes(h, Idle)
  /\ UNCHANGED <<factory, link, db, held, tokens>>

Finished == ~ MayCall /\ (\A h \in Handles : At(h, "idle")) /\ UNCHANGED vars

Next ==
  \/ Connect
  \/ \E h \in Handles :
       \/ Save(h) \/ ScanEnds(h) \/ Write(h) \/ Reject(h) \/ Audit(h)
       \/ \E f \in Fields :
            \/ Tokenize(h, f) \/ MakeUp(h, f)
            \/ \E v \in Plain : Edit(h, f, v)
       \/ \E id \in Ids :
            \/ \E data \in [Fields -> Plain] : New(h, id, data)
            \/ Load(h, id)
            \/ FindOneAndDelete(h, id)
            \/ \E f \in Fields, v \in Plain, new, set \in BOOLEAN :
                 FindOneAndUpdate(h, id, f, v, new, set)
  \/ Finished

Spec == Init /\ [][Next]_vars

-----------------------------------------------------------------------------
(* Properties                                                              *)

Events == [by : Handles, op : {"create", "update", "delete"}, id : Ids,
           carries : SUBSET (Plain \cup Tokens)]

\* Types.
TypeOK ==
  /\ factory \in {"connection", "module"}
  /\ link \in {"connecting", "connected", "refused"}
  /\ \A id \in Ids : table[id] \in Data \cup {NoRow} /\ meaning[id] \in Data \cup {NoRow}
  /\ doc \in [Handles -> {NoDoc} \cup [id : Ids, isNew : BOOLEAN, data : Data, meant : Data,
                                      modified : SUBSET Fields]]
  /\ \A h \in Handles : work[h] \in
       {Idle}
       \cup [pc : {"scanning"}, clone : Data, meant : Data, todo : SUBSET Fields]
       \cup [pc : {"writing"}, clone : Data, meant : Data, sent : SUBSET Fields]
       \cup [pc : {"auditing"}, event : Events]
  /\ edits \in 0 .. MaxEdits
  /\ vault \in [Tokens -> Plain \cup Tokens \cup {None}]
  /\ placeholders \subseteq Tokens
  /\ events \in Seq(Events)

\* "auto-tokenize PII": a plain value reaches a detected field of the database
\* only through an update, whatever is edited while a save is under way, and
\* whether the vault answers or not.
SavedIsTokenised ==
  [][\A id \in Ids : \A f \in Pii \ Skip :
       (/\ table'[id] # NoRow /\ table'[id] # table[id]
        /\ table'[id][f] \in Plain
        /\ table[id] # NoRow => table[id][f] # table'[id][f])
       => calls'[Len(calls')].op = "update"]_vars

\* reveal() of a token on record gives back the value the application set, not
\* a token nor another field's value, unless the token was made up here.
Reveal(t) == vault[t]
RevealsOriginal ==
  \A id \in Ids : table[id] # NoRow =>
    \A f \in Fields : table[id][f] \in Tokens \ placeholders => Reveal(table[id][f]) = meaning[id][f]

\* An audit event tells of a call of its caller that resolved: of an update or a
\* removal, or of any save: against the "type of mutation" that audit-logger.ts:33
\* has it, the save's hook says "create" of a save that updated a row, and of one
\* that wrote nothing.  No caller has more events than calls, and the module
\* factory's hooks tell of saves alone.
Told == [create |-> {"insert", "save", "nothing"}, update |-> {"update"}, delete |-> {"delete"}]
EventsTellCalls ==
  /\ \A i \in DOMAIN events :
       /\ \E k \in DOMAIN calls : /\ calls[k].by = events[i].by /\ calls[k].id = events[i].id
                                 /\ calls[k].op \in Told[events[i].op]
       /\ factory = "module" => events[i].op = "create"
  /\ \A h \in Handles : Cardinality({i \in DOMAIN events : events[i].by = h})
                          <= Cardinality({k \in DOMAIN calls : calls[k].by = h})

\* The invariant of the hooks: documents, vault and trail are of their types, and
\* no hook, however its await interleaves, reports a call that was rejected or
\* one call twice.
HooksInv == TypeOK /\ EventsTellCalls
=============================================================================
