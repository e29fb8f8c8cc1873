------------------------- MODULE MongoHooks_proofs -------------------------
(* What holds of MongoHooks for any number of callers, rows and fields.     *)
EXTENDS MongoHooks, FiniteSetTheorems, SequenceTheorems, TLAPS

-----------------------------------------------------------------------------
(* The invariant of the data: wherever a value travels, with the vault va    *)
(* and the placeholders ph, it stands for what the application meant.        *)

Fits(data, meant, va, ph) ==
  /\ data \in Data /\ meant \in [Fields -> Plain]
  /\ \A f \in Fields : /\ data[f] \in Plain => data[f] = meant[f]
                       /\ data[f] \in Tokens \ ph => va[data[f]] = meant[f]

\* No detected field is in plain.
Clean(data) == \A f \in Pii \ Skip : data[f] \in Tokens

Docs == [id : Ids, isNew : BOOLEAN, data : Data, meant : Data, modified : SUBSET Fields]
Scans == [pc : {"scanning"}, clone : Data, meant : Data, todo : SUBSET Fields]
Writings == [pc : {"writing"}, clone : Data, meant : Data, sent : SUBSET Fields]
Audits == [pc : {"auditing"}, event : Events]

DocFits(d, va, ph) == d # NoDoc => d \in Docs /\ Fits(d.data, d.meant, va, ph)

\* What is still to be scanned is in plain, what has been is not; a write that
\* was not scanned sends nothing, and updates a row.
WorkFits(w, d, va, ph) ==
  /\ w \in {Idle} \cup Scans \cup Writings \cup Audits
  /\ w.pc = "scanning" =>
       /\ d # NoDoc /\ Fits(w.clone, w.meant, va, ph)
       /\ \A f \in w.todo : w.clone[f] \notin Tokens
       /\ \A f \in Pii \ Skip : f \notin w.todo => w.clone[f] \in Tokens
  /\ w.pc = "writing" =>
       /\ d # NoDoc /\ Fits(w.clone, w.meant, va, ph)
       /\ Clean(w.clone) \/ (w.sent = {} /\ ~ d.isNew)

RowsFit(t, m, va, ph) ==
  /\ t = [id \in Ids |-> t[id]] /\ m = [id \in Ids |-> m[id]]
  /\ \A id \in Ids : /\ t[id] # NoRow => Fits(t[id], m[id], va, ph)
                     /\ m[id] # NoRow => m[id] \in [Fields -> Plain]

DataInv ==
  /\ factory \in {"connection", "module"} /\ link \in {"connecting", "connected", "refused"}
  /\ vault \in [Tokens -> Plain \cup {None}] /\ placeholders \subseteq Tokens
  /\ edits \in 0 .. MaxEdits
  /\ doc = [h \in Handles |-> doc[h]] /\ work = [h \in Handles |-> work[h]]
  /\ \A h \in Handles : /\ DocFits(doc[h], vault, placeholders)
                        /\ WorkFits(work[h], doc[h], vault, placeholders)
  /\ RowsFit(table, meaning, vault, placeholders)

-----------------------------------------------------------------------------
(* The invariant of the trail: an event published, or about to be, tells of  *)
(* a call that resolved, and a caller has as many calls as events of both    *)
(* kinds.                                                                    *)

IsToldBy(x, e) == x.by = e.by /\ x.id = e.id /\ x.op \in Told[e.op]
Tells(e) == /\ \E k \in DOMAIN calls : IsToldBy(calls[k], e)
            /\ factory = "module" => e.op = "create"
Calls == [by : Handles, op : {"insert", "save", "nothing", "update", "delete"}, id : Ids]
Count(s, h) == Cardinality({i \in DOMAIN s : s[i].by = h})
Due(h) == IF At(h, "auditing") THEN 1 ELSE 0

TrailInv ==
  /\ calls \in Seq(Calls)
  /\ events \in Seq(Events)
  /\ \A i \in DOMAIN events : Tells(events[i])
  /\ \A h \in Handles : /\ At(h, "auditing") => Tells(work[h].event) /\ work[h].event.by = h
                        /\ Count(events, h) + Due(h) <= Count(calls, h)

-----------------------------------------------------------------------------
(* Lemmas about the data.                                                   *)

\* The vault learns, and forgets nothing.
Learns == /\ \A t \in Tokens : vault[t] # None => vault'[t] = vault[t]
          /\ placeholders \subseteq placeholders'

LEMMA StillFits ==
  ASSUME Learns, NEW data, NEW meant, Fits(data, meant, vault, placeholders)
  PROVE  Fits(data, meant, vault', placeholders')
<1>1. ASSUME NEW f \in Fields, data[f] \in Tokens \ placeholders'
      PROVE  vault'[data[f]] = meant[f]
  <2>1. vault[data[f]] = meant[f] /\ meant[f] \in Plain
    BY <1>1 DEF Fits, Learns
  <2>2. vault[data[f]] # None
    BY <2>1, NoneIsNoValue DEF None
  <2> QED BY <1>1, <2>1, <2>2 DEF Learns
<1> QED BY <1>1 DEF Fits

LEMMA AllStillFit ==
  ASSUME Learns
  PROVE  /\ \A d : DocFits(d, vault, placeholders) => DocFits(d, vault', placeholders')
         /\ \A w, d : WorkFits(w, d, vault, placeholders) => WorkFits(w, d, vault', placeholders')
         /\ \A t, m : RowsFit(t, m, vault, placeholders) => RowsFit(t, m, vault', placeholders')
<1>1. \A data, meant : Fits(data, meant, vault, placeholders) => Fits(data, meant, vault', placeholders')
  BY StillFits
<1>2. \A d : DocFits(d, vault, placeholders) => DocFits(d, vault', placeholders')
  BY <1>1 DEF DocFits
<1>3. \A w, d : WorkFits(w, d, vault, placeholders) => WorkFits(w, d, vault', placeholders')
  BY <1>1, Zenon DEF WorkFits
<1>4. \A t, m : RowsFit(t, m, vault, placeholders) => RowsFit(t, m, vault', placeholders')
  BY <1>1, Zenon DEF RowsFit
<1> QED BY <1>2, <1>3, <1>4

\* One caller's step: its document becomes d, and its work w.
LEMMA DataStep ==
  ASSUME DataInv, NEW h \in Handles, NEW d, NEW w,
         doc' = [doc EXCEPT ![h] = d], work' = [work EXCEPT ![h] = w],
         Learns, vault' \in [Tokens -> Plain \cup {None}], placeholders' \subseteq Tokens,
         DocFits(d, vault', placeholders'), WorkFits(w, d, vault', placeholders'),
         RowsFit(table', meaning', vault', placeholders'),
         UNCHANGED <<factory, link>>, edits' \in 0 .. MaxEdits
  PROVE  DataInv'
<1>1. /\ doc' = [g \in Handles |-> doc'[g]] /\ work' = [g \in Handles |-> work'[g]]
      /\ \A g \in Handles : /\ doc'[g] = IF g = h THEN d ELSE doc[g]
                            /\ work'[g] = IF g = h THEN w ELSE work[g]
  BY DEF DataInv
<1>2. \A g \in Handles : /\ DocFits(doc[g], vault', placeholders')
                         /\ WorkFits(work[g], doc[g], vault', placeholders')
  BY AllStillFit DEF DataInv
<1>3. \A g \in Handles : /\ DocFits(doc'[g], vault', placeholders')
                         /\ WorkFits(work'[g], doc'[g], vault', placeholders')
  BY <1>1, <1>2
<1> QED BY <1>1, <1>3 DEF DataInv

\* Most steps leave the vault alone.
LEMMA QuietStep ==
  ASSUME DataInv, NEW h \in Handles, NEW d, NEW w,
         doc' = [doc EXCEPT ![h] = d], work' = [work EXCEPT ![h] = w],
         UNCHANGED <<vault, placeholders, factory, link>>, edits' \in 0 .. MaxEdits,
         DocFits(d, vault, placeholders), WorkFits(w, d, vault, placeholders),
         RowsFit(table', meaning', vault, placeholders)
  PROVE  DataInv'
<1>1. Learns
  BY DEF Learns
<1>2. vault' \in [Tokens -> Plain \cup {None}] /\ placeholders' \subseteq Tokens
  BY DEF DataInv
<1> QED BY <1>1, <1>2, DataStep

LEMMA Same ==
  ASSUME DataInv, NEW h \in Handles
  PROVE  doc = [doc EXCEPT ![h] = doc[h]] /\ work = [work EXCEPT ![h] = work[h]]
BY DEF DataInv

-----------------------------------------------------------------------------
(* Each step keeps the data.                                                *)

LEMMA NewFits ==
  ASSUME DataInv, NEW h \in Handles, NEW id \in Ids, NEW data \in [Fields -> Plain], New(h, id, data)
  PROVE  DataInv'
<1> DEFINE d == Document(id, TRUE, data, data, Fields)
<1>1. /\ d \in Docs /\ d.data = data /\ d.meant = data
      /\ work[h].pc = "idle"
  BY DEF Docs, Data, Document, New, At
<1>2. Fits(data, data, vault, placeholders)
  BY Shape DEF Fits, Data
<1>3. /\ doc' = [doc EXCEPT ![h] = d]
      /\ UNCHANGED <<table, meaning, vault, placeholders, factory, link, edits, work>>
  BY DEF New, Keep, db, audit, tokens
<1> HIDE DEF d
<1>4. DocFits(d, vault, placeholders) /\ WorkFits(work[h], d, vault, placeholders)
  BY <1>1, <1>2 DEF DocFits, WorkFits, DataInv
<1> QED BY <1>3, <1>4, QuietStep, Same DEF DataInv

LEMMA LoadFits ==
  ASSUME DataInv, NEW h \in Handles, NEW id \in Ids, Load(h, id)
  PROVE  DataInv'
<1> DEFINE d == Document(id, FALSE, table[id], meaning[id], {})
<1>1. Fits(table[id], meaning[id], vault, placeholders)
  BY DEF Load, DataInv, RowsFit
<1>2. /\ d \in Docs /\ d.data = table[id] /\ d.meant = meaning[id] /\ work[h].pc = "idle"
  BY <1>1 DEF Docs, Data, Document, Load, At, Fits
<1>3. /\ doc' = [doc EXCEPT ![h] = d]
      /\ UNCHANGED <<table, meaning, vault, placeholders, factory, link, edits, work>>
  BY DEF Load, Keep, db, audit, tokens
<1> HIDE DEF d
<1>4. DocFits(d, vault, placeholders) /\ WorkFits(work[h], d, vault, placeholders)
  BY <1>1, <1>2 DEF DocFits, WorkFits, DataInv
<1> QED BY <1>3, <1>4, QuietStep, Same DEF DataInv

LEMMA EditFits ==
  ASSUME DataInv, NEW h \in Handles, NEW f \in Fields, NEW v \in Plain, Edit(h, f, v)
  PROVE  DataInv'
<1> DEFINE o == doc[h]
           d == [o EXCEPT !.data[f] = v, !.meant[f] = v, !.modified = @ \cup {f}]
<1>1. /\ o \in Docs /\ o # NoDoc /\ Fits(o.data, o.meant, vault, placeholders)
      /\ WorkFits(work[h], o, vault, placeholders)
  BY DEF Edit, Holds, DataInv, DocFits
<1>2. doc' = [doc EXCEPT ![h] = d] /\ UNCHANGED <<table, meaning, vault, placeholders, factory, link, work>>
  BY DEF Edit, Keep, db, audit, tokens
<1>3. edits' \in 0 .. MaxEdits
  BY Bounds DEF Edit, DataInv
<1>4. /\ d \in Docs /\ d.isNew = o.isNew /\ d.meant \in [Fields -> Plain] /\ d.data \in Data
      /\ \A g \in Fields : d.data[g] = IF g = f THEN v ELSE o.data[g]
      /\ \A g \in Fields : d.meant[g] = IF g = f THEN v ELSE o.meant[g]
  BY <1>1 DEF Docs, Data, Fits
<1>5. d # NoDoc
  BY <1>4 DEF Docs, NoDoc
<1> HIDE DEF d, o
<1>6. Fits(d.data, d.meant, vault, placeholders)
  BY <1>1, <1>4, Shape DEF Fits
<1>7. DocFits(d, vault, placeholders) /\ WorkFits(work[h], d, vault, placeholders)
  BY <1>1, <1>4, <1>5, <1>6 DEF DocFits, WorkFits
<1> QED BY <1>2, <1>3, <1>7, QuietStep, Same DEF DataInv

LEMMA SaveFits ==
  ASSUME DataInv, NEW h \in Handles, Save(h)
  PROVE  DataInv'
<1> DEFINE d == doc[h]
           w == IF d.isNew \/ d.modified # {}
                THEN Scanning(d.data, d.meant, Detected(d.data))
                ELSE Writing(d.data, d.meant, {})
<1>1. d \in Docs /\ d # NoDoc /\ Fits(d.data, d.meant, vault, placeholders)
  BY DEF Save, Holds, DataInv, DocFits
<1>2. /\ work' = [work EXCEPT ![h] = w]
      /\ UNCHANGED <<table, meaning, vault, placeholders, factory, link, doc, edits>>
  BY DEF Save, Goes, db, audit, tokens, held
<1>3. Detected(d.data) \subseteq Fields /\ d.meant \in Data /\ d.data \in Data
  BY <1>1, Shape DEF Detected, Docs
<1>4. WorkFits(Scanning(d.data, d.meant, Detected(d.data)), d, vault, placeholders)
  <2> DEFINE v == Scanning(d.data, d.meant, Detected(d.data))
  <2>1. /\ v \in Scans /\ v.pc = "scanning" /\ v.clone = d.data /\ v.meant = d.meant
        /\ v.todo = Detected(d.data)
    BY <1>3 DEF Scanning, Scans
  <2>2. \A f \in Pii \ Skip : f \notin Detected(d.data) => d.data[f] \in Tokens
    BY DEF Detected
  <2>3. \A f \in Detected(d.data) : d.data[f] \notin Tokens
    BY DEF Detected
  <2> HIDE DEF v, d
  <2>4. WorkFits(v, d, vault, placeholders)
    BY <1>1, <2>1, <2>2, <2>3 DEF WorkFits
  <2> QED BY <2>4 DEF v
<1>5. ASSUME ~ d.isNew
      PROVE  WorkFits(Writing(d.data, d.meant, {}), d, vault, placeholders)
  <2> DEFINE v == Writing(d.data, d.meant, {})
  <2>1. v \in Writings /\ v.pc = "writing" /\ v.clone = d.data /\ v.meant = d.meant /\ v.sent = {}
    BY <1>3 DEF Writing, Writings
  <2> HIDE DEF v, d
  <2>2. WorkFits(v, d, vault, placeholders)
    BY <1>1, <1>5, <2>1 DEF WorkFits
  <2> QED BY <2>2 DEF v
<1>6. WorkFits(w, d, vault, placeholders)
  BY <1>4, <1>5
<1>7. DocFits(d, vault, placeholders)
  BY DEF DataInv
<1> QED BY <1>2, <1>6, <1>7, QuietStep, Same DEF DataInv

\* One field of the copy is replaced by a token the vault knows, or a placeholder.
LEMMA ReplaceFits ==
  ASSUME DataInv, NEW h \in Handles, NEW f, f \in work[h].todo, At(h, "scanning"), NEW t \in Tokens,
         Replace(h, f, t), Learns, vault' \in [Tokens -> Plain \cup {None}], placeholders' \subseteq Tokens,
         t \in placeholders' \/ vault'[t] = work[h].clone[f],
         UNCHANGED <<table, meaning, factory, link, doc, edits>>
  PROVE  DataInv'
<1> DEFINE o == work[h]
           w == [o EXCEPT !.clone[f] = t, !.todo = @ \ {f}]
<1>1. /\ WorkFits(o, doc[h], vault', placeholders') /\ DocFits(doc[h], vault', placeholders')
      /\ o.pc = "scanning" /\ o \in {Idle} \cup Scans \cup Writings \cup Audits
  <2>1. WorkFits(o, doc[h], vault, placeholders) /\ DocFits(doc[h], vault, placeholders)
    BY DEF DataInv
  <2>2. o.pc = "scanning" /\ o \in {Idle} \cup Scans \cup Writings \cup Audits
    BY <2>1 DEF At, WorkFits
  <2> QED BY <2>1, <2>2, AllStillFit
<1>2. o \in Scans
  BY <1>1 DEF Idle, Writings, Audits
<1>3. f \in Fields /\ o.clone \in Data /\ o.clone[f] \in Plain /\ o.clone[f] = o.meant[f]
  BY <1>1, <1>2 DEF Scans, Data, WorkFits, Fits
<1>4. /\ w \in Scans /\ w.pc = "scanning" /\ w.meant = o.meant /\ w.todo = o.todo \ {f} /\ w.clone \in Data
      /\ \A g \in Fields : w.clone[g] = IF g = f THEN t ELSE o.clone[g]
  BY <1>2, <1>3 DEF Scans, Data
<1>5. work' = [work EXCEPT ![h] = w]
  BY DEF Replace, Goes
<1> HIDE DEF w, o
<1>6. Fits(w.clone, w.meant, vault', placeholders')
  <2>1. Fits(o.clone, o.meant, vault', placeholders') /\ (t \in placeholders' \/ vault'[t] = o.clone[f])
    BY <1>1 DEF WorkFits, o
  <2> QED BY <1>1, <1>3, <1>4, <2>1, Shape DEF WorkFits, Fits
<1>7. WorkFits(w, doc[h], vault', placeholders')
  <2>1. o.todo \subseteq Fields
    BY <1>2 DEF Scans
  <2> QED BY <1>1, <1>4, <1>6, <2>1, Shape DEF WorkFits
<1>8. RowsFit(table', meaning', vault', placeholders')
  BY AllStillFit DEF DataInv
<1>9. edits' \in 0 .. MaxEdits
  BY DEF DataInv
<1> QED BY <1>1, <1>5, <1>7, <1>8, <1>9, Same, DataStep

LEMMA TokenizeFits ==
  ASSUME DataInv, NEW h \in Handles, NEW f \in Fields, Tokenize(h, f)
  PROVE  DataInv'
<1>1. PICK t \in Tokens : /\ vault[t] \in {None, work[h].clone[f]}
                          /\ vault' = [vault EXCEPT ![t] = work[h].clone[f]]
                          /\ Replace(h, f, t)
  BY DEF Tokenize
<1>2. work[h].clone[f] \in Plain
  BY DEF Tokenize, At, DataInv, WorkFits, Fits, Data
<1>3. /\ Learns /\ vault' \in [Tokens -> Plain \cup {None}] /\ placeholders' = placeholders
      /\ vault'[t] = work[h].clone[f]
  BY <1>1, <1>2 DEF Learns, DataInv, Tokenize
<1>4. /\ f \in work[h].todo /\ At(h, "scanning")
      /\ UNCHANGED <<table, meaning, factory, link, doc, edits>>
  BY DEF Tokenize, db, held, audit
<1>5. placeholders' \subseteq Tokens
  BY <1>3 DEF DataInv
<1> QED BY <1>1, <1>3, <1>4, <1>5, ReplaceFits

LEMMA MakeUpFits ==
  ASSUME DataInv, NEW h \in Handles, NEW f \in Fields, MakeUp(h, f)
  PROVE  DataInv'
<1>1. PICK t \in Tokens : Replace(h, f, t) /\ placeholders' = placeholders \cup {t}
  BY DEF MakeUp
<1>2. Learns /\ vault' \in [Tokens -> Plain \cup {None}] /\ placeholders' \subseteq Tokens
  BY <1>1 DEF Learns, DataInv, MakeUp
<1>3. /\ f \in work[h].todo /\ At(h, "scanning")
      /\ UNCHANGED <<table, meaning, factory, link, doc, edits>>
  BY DEF MakeUp, db, held, audit
<1> QED BY <1>1, <1>2, <1>3, ReplaceFits

LEMMA ScanEndsFits ==
  ASSUME DataInv, NEW h \in Handles, ScanEnds(h)
  PROVE  DataInv'
<1> DEFINE o == work[h]
           p == doc[h]
           sent == p.modified \cup {f \in Fields : p.data[f] # o.clone[f]}
           d == Document(p.id, p.isNew, o.clone, o.meant, {})
           w == Writing(o.clone, o.meant, sent)
<1>1. /\ WorkFits(o, p, vault, placeholders) /\ DocFits(p, vault, placeholders)
      /\ o.pc = "scanning" /\ o \in {Idle} \cup Scans \cup Writings \cup Audits /\ o.todo = {}
  BY DEF DataInv, At, WorkFits, ScanEnds
<1>2. o \in Scans
  BY <1>1 DEF Idle, Writings, Audits
<1>3. p \in Docs /\ Fits(o.clone, o.meant, vault, placeholders) /\ Clean(o.clone)
  BY <1>1 DEF WorkFits, DocFits, Clean
<1>4. doc' = [doc EXCEPT ![h] = d] /\ work' = [work EXCEPT ![h] = w]
      /\ UNCHANGED <<table, meaning, vault, placeholders, factory, link, edits>>
  BY DEF ScanEnds, Keep, Goes, db, audit, tokens
<1>5. o.meant \in Data /\ o.clone \in Data
  BY <1>2 DEF Scans
<1>6. d \in Docs /\ d.data = o.clone /\ d.meant = o.meant
  BY <1>3, <1>5 DEF Docs, Document
<1>7. sent \subseteq Fields
  BY <1>3 DEF Docs
<1> HIDE DEF sent
<1>8. w \in Writings /\ w.pc = "writing" /\ w.clone = o.clone /\ w.meant = o.meant
  BY <1>5, <1>7 DEF Writings, Writing
<1>9. d # NoDoc
  BY <1>6 DEF Docs, NoDoc
<1> HIDE DEF d, w, o, p
<1>10. DocFits(d, vault, placeholders) /\ WorkFits(w, d, vault, placeholders)
  BY <1>3, <1>6, <1>8, <1>9 DEF DocFits, WorkFits
<1> QED BY <1>4, <1>10, QuietStep DEF DataInv

\* A row written in part keeps its old fields.
LEMMA OverFits ==
  ASSUME NEW row, NEW m, NEW va, NEW ph, Fits(row, m, va, ph),
         NEW clone, NEW n, Fits(clone, n, va, ph), NEW sent
  PROVE  Fits(Over(row, sent, clone), Over(m, sent, n), va, ph)
BY DEF Fits, Over, Data

LEMMA RowStep ==
  ASSUME DataInv, NEW id \in Ids, NEW r, NEW m, r # NoRow => Fits(r, m, vault, placeholders),
         m # NoRow => m \in [Fields -> Plain],
         table' = [table EXCEPT ![id] = r], meaning' = [meaning EXCEPT ![id] = m]
  PROVE  RowsFit(table', meaning', vault, placeholders)
<1>1. \A i \in Ids : /\ table'[i] = IF i = id THEN r ELSE table[i]
                     /\ meaning'[i] = IF i = id THEN m ELSE meaning[i]
  BY DEF DataInv, RowsFit
<1> QED BY <1>1 DEF DataInv, RowsFit

\* A hook that is about to publish.
LEMMA AuditFits ==
  ASSUME NEW h \in Handles, NEW op \in {"create", "update", "delete"}, NEW id \in Ids,
         NEW carries \in SUBSET (Plain \cup Tokens),
         NEW w, w = [pc |-> "auditing", event |-> Event(h, op, id, carries)]
  PROVE  /\ w \in Audits /\ w.pc = "auditing" /\ w.event = Event(h, op, id, carries)
         /\ \A d, va, ph : WorkFits(w, d, va, ph)
<1>1. Event(h, op, id, carries) \in Events
  BY DEF Event, Events
<1>2. w \in Audits /\ w.pc = "auditing" /\ w.event = Event(h, op, id, carries)
  BY <1>1 DEF Audits
<1> QED BY <1>2 DEF WorkFits

LEMMA WriteFits ==
  ASSUME DataInv, NEW h \in Handles, Write(h)
  PROVE  DataInv'
<1> DEFINE d == doc[h]
           w == work[h]
           e == [d EXCEPT !.isNew = FALSE]
           v == [pc |-> "auditing", event |-> Event(h, "create", d.id, {d.data[f] : f \in Fields})]
           r == IF d.isNew THEN w.clone ELSE Over(table[d.id], w.sent, w.clone)
           m == IF d.isNew THEN w.meant ELSE Over(meaning[d.id], w.sent, w.meant)
<1>1. /\ WorkFits(w, d, vault, placeholders) /\ DocFits(d, vault, placeholders) /\ w.pc = "writing"
      /\ d.isNew \/ table[d.id] # NoRow
  BY DEF DataInv, At, Write
<1>2. d \in Docs /\ Fits(d.data, d.meant, vault, placeholders) /\ Fits(w.clone, w.meant, vault, placeholders)
  BY <1>1 DEF WorkFits, DocFits
<1>3. d.id \in Ids /\ d.data \in Data
  BY <1>2 DEF Docs
<1>4. Fits(r, m, vault, placeholders)
  <2>1. ~ d.isNew => Fits(table[d.id], meaning[d.id], vault, placeholders)
    BY <1>1, <1>3 DEF DataInv, RowsFit
  <2> QED BY <1>2, <2>1, OverFits
<1>5. m \in [Fields -> Plain]
  BY <1>4 DEF Fits
<1>6. table' = [table EXCEPT ![d.id] = r] /\ meaning' = [meaning EXCEPT ![d.id] = m]
  BY DEF Write
<1>7. RowsFit(table', meaning', vault, placeholders)
  <2> HIDE DEF r, m, d
  <2> QED BY <1>3, <1>4, <1>5, <1>6, RowStep
<1>8. /\ doc' = [doc EXCEPT ![h] = e] /\ work' = [work EXCEPT ![h] = v]
      /\ UNCHANGED <<vault, placeholders, factory, link, edits>>
  BY DEF Write, AuditSave, Auditing, Goes, Keep, audit, tokens
<1>9. {d.data[f] : f \in Fields} \subseteq Plain \cup Tokens
  BY <1>3 DEF Data
<1>10. WorkFits(v, e, vault, placeholders)
  BY <1>3, <1>9, AuditFits
<1>11. DocFits(e, vault, placeholders)
  <2>1. e \in Docs /\ e.data = d.data /\ e.meant = d.meant
    BY <1>2 DEF Docs
  <2> HIDE DEF e, d
  <2> QED BY <1>2, <2>1 DEF DocFits
<1> HIDE DEF e, v
<1> QED BY <1>7, <1>8, <1>10, <1>11, QuietStep DEF DataInv

LEMMA RejectFits ==
  ASSUME DataInv, NEW h \in Handles, Reject(h)
  PROVE  DataInv'
<1> DEFINE d == doc[h]
           e == [d EXCEPT !.modified = @ \cup work[h].sent]
<1>1. /\ WorkFits(work[h], d, vault, placeholders) /\ DocFits(d, vault, placeholders)
      /\ work[h].pc = "writing" /\ work[h] \in {Idle} \cup Scans \cup Writings \cup Audits
  BY DEF DataInv, At, Reject, WorkFits
<1>2. d \in Docs /\ Fits(d.data, d.meant, vault, placeholders)
  BY <1>1 DEF WorkFits, DocFits
<1>3. work[h].sent \subseteq Fields
  BY <1>1 DEF Idle, Scans, Writings, Audits
<1>4. e \in Docs /\ e.data = d.data /\ e.meant = d.meant
  BY <1>2, <1>3 DEF Docs
<1>5. /\ doc' = [doc EXCEPT ![h] = e] /\ work' = [work EXCEPT ![h] = Idle]
      /\ UNCHANGED <<table, meaning, vault, placeholders, factory, link, edits>>
  BY DEF Reject, Unsaved, Goes, Keep, db, audit, tokens
<1> HIDE DEF e, d
<1>6. DocFits(e, vault, placeholders) /\ WorkFits(Idle, e, vault, placeholders)
  BY <1>2, <1>4 DEF DocFits, WorkFits, Idle
<1> QED BY <1>5, <1>6, QuietStep DEF DataInv

LEMMA UpdateFits ==
  ASSUME DataInv, NEW h \in Handles, NEW id \in Ids, NEW f \in Fields, NEW v \in Plain,
         NEW new \in BOOLEAN, NEW set \in BOOLEAN, FindOneAndUpdate(h, id, f, v, new, set)
  PROVE  DataInv'
<1> DEFINE r == [table[id] EXCEPT ![f] = v]
           m == [meaning[id] EXCEPT ![f] = v]
           changes == Changes(IF new THEN table'[id] ELSE table[id], f, v, set)
           a == [pc |-> "auditing", event |-> Event(h, "update", id, changes)]
           w == IF factory = "connection" /\ changes # {} THEN a ELSE work[h]
<1>1. Fits(table[id], meaning[id], vault, placeholders) /\ At(h, "idle")
  BY DEF FindOneAndUpdate, DataInv, RowsFit
<1>2. Fits(r, m, vault, placeholders) /\ m \in [Fields -> Plain]
  BY <1>1, Shape DEF Fits, Data
<1>3. table' = [table EXCEPT ![id] = r] /\ meaning' = [meaning EXCEPT ![id] = m]
  BY DEF FindOneAndUpdate
<1>4. RowsFit(table', meaning', vault, placeholders) /\ table'[id] = r
  <2> HIDE DEF r, m
  <2>1. RowsFit(table', meaning', vault, placeholders)
    BY <1>2, <1>3, RowStep
  <2> QED BY <1>3, <2>1 DEF DataInv, RowsFit
<1>5. changes \subseteq Plain \cup Tokens
  <2>1. r[f] \in Plain \cup Tokens /\ table[id][f] \in Plain \cup Tokens
    BY <1>1, <1>2 DEF Fits, Data
  <2> HIDE DEF r
  <2> QED BY <1>4, <2>1 DEF Changes
<1>6. work' = [work EXCEPT ![h] = w]
  BY Same DEF FindOneAndUpdate, Auditing, Goes
<1>7. UNCHANGED <<vault, placeholders, factory, link, doc, edits>>
  BY DEF FindOneAndUpdate, held, audit, tokens
<1>8. WorkFits(w, doc[h], vault, placeholders)
  <2>1. WorkFits(a, doc[h], vault, placeholders)
    BY <1>5, AuditFits
  <2> QED BY <2>1 DEF DataInv
<1> HIDE DEF w
<1> QED BY <1>4, <1>6, <1>7, <1>8, QuietStep, Same DEF DataInv

LEMMA DeleteFits ==
  ASSUME DataInv, NEW h \in Handles, NEW id \in Ids, FindOneAndDelete(h, id)
  PROVE  DataInv'
<1> DEFINE a == [pc |-> "auditing", event |-> Event(h, "delete", id, {table[id][f] : f \in Fields})]
           w == IF factory = "connection" THEN a ELSE work[h]
<1>1. Fits(table[id], meaning[id], vault, placeholders)
  BY DEF FindOneAndDelete, DataInv, RowsFit
<1>2. table' = [table EXCEPT ![id] = NoRow] /\ meaning' = [meaning EXCEPT ![id] = meaning[id]]
  BY DEF FindOneAndDelete, DataInv, RowsFit
<1>3. RowsFit(table', meaning', vault, placeholders)
  <2>1. meaning[id] \in [Fields -> Plain]
    BY <1>1 DEF Fits
  <2> QED BY <1>2, <2>1, RowStep
<1>4. {table[id][f] : f \in Fields} \subseteq Plain \cup Tokens
  BY <1>1 DEF Fits, Data
<1>5. work' = [work EXCEPT ![h] = w]
  BY Same DEF FindOneAndDelete, Auditing, Goes
<1>6. UNCHANGED <<vault, placeholders, factory, link, doc, edits>>
  BY DEF FindOneAndDelete, held, audit, tokens
<1>7. WorkFits(w, doc[h], vault, placeholders)
  <2>1. WorkFits(a, doc[h], vault, placeholders)
    BY <1>4, AuditFits
  <2> QED BY <2>1 DEF DataInv
<1> HIDE DEF w
<1> QED BY <1>3, <1>5, <1>6, <1>7, QuietStep, Same DEF DataInv

LEMMA PublishFits ==
  ASSUME DataInv, NEW h \in Handles, Audit(h)
  PROVE  DataInv'
<1>1. /\ work' = [work EXCEPT ![h] = Idle]
      /\ UNCHANGED <<table, meaning, vault, placeholders, factory, link, doc, edits>>
  BY DEF Audit, Goes, db, held, tokens
<1>2. DocFits(doc[h], vault, placeholders) /\ WorkFits(Idle, doc[h], vault, placeholders)
  BY DEF DataInv, WorkFits, Idle
<1> QED BY <1>1, <1>2, QuietStep, Same DEF DataInv

LEMMA DataInvariant == Spec => []DataInv
<1>1. Init => DataInv
  <2> SUFFICES ASSUME Init PROVE DataInv
    OBVIOUS
  <2>1. \A h \in Handles : doc[h] = NoDoc /\ work[h] = Idle
    BY DEF Init
  <2>2. \A h \in Handles : DocFits(doc[h], vault, placeholders)
    BY <2>1 DEF DocFits
  <2>3. \A h \in Handles : WorkFits(work[h], doc[h], vault, placeholders)
    BY <2>1 DEF WorkFits, Idle
  <2>4. RowsFit(table, meaning, vault, placeholders)
    BY DEF Init, RowsFit
  <2>5. edits \in 0 .. MaxEdits
    <3>1. edits = 0
      BY DEF Init
    <3> QED BY <3>1, Bounds
  <2>6. /\ factory \in {"connection", "module"} /\ link \in {"connecting", "connected", "refused"}
        /\ vault \in [Tokens -> Plain \cup {None}] /\ placeholders \subseteq Tokens
        /\ doc = [h \in Handles |-> doc[h]] /\ work = [h \in Handles |-> work[h]]
    BY DEF Init
  <2> QED BY <2>2, <2>3, <2>4, <2>5, <2>6 DEF DataInv
<1>2. DataInv /\ [Next]_vars => DataInv'
  <2> SUFFICES ASSUME DataInv, [Next]_vars PROVE DataInv'
    OBVIOUS
  <2>1. CASE UNCHANGED vars
    BY <2>1 DEF vars, DataInv
  <2>2. CASE Connect
    BY <2>2 DEF Connect, db, held, tokens, DataInv
  <2>3. ASSUME NEW h \in Handles, Save(h) \/ ScanEnds(h) \/ Write(h) \/ Reject(h) \/ Audit(h)
        PROVE  DataInv'
    BY <2>3, SaveFits, ScanEndsFits, WriteFits, RejectFits, PublishFits
  <2>4. ASSUME NEW h \in Handles, NEW f \in Fields,
               Tokenize(h, f) \/ MakeUp(h, f) \/ \E v \in Plain : Edit(h, f, v)
        PROVE  DataInv'
    BY <2>4, TokenizeFits, MakeUpFits, EditFits
  <2>5. ASSUME NEW h \in Handles, NEW id \in Ids,
               \/ \E data \in [Fields -> Plain] : New(h, id, data)
               \/ Load(h, id) \/ FindOneAndDelete(h, id)
        PROVE  DataInv'
    BY <2>5, NewFits, LoadFits, DeleteFits
  <2>6. ASSUME NEW h \in Handles, NEW id \in Ids, NEW f \in Fields, NEW v \in Plain,
               NEW new \in BOOLEAN, NEW set \in BOOLEAN, FindOneAndUpdate(h, id, f, v, new, set)
        PROVE  DataInv'
    BY <2>6, UpdateFits
  <2>7. CASE Finished
    BY <2>1, <2>7 DEF Finished
  <2> QED BY <2>1, <2>2, <2>3, <2>4, <2>5, <2>6, <2>7 DEF Next
<1> QED BY <1>1, <1>2, PTL DEF Spec

-----------------------------------------------------------------------------
(* The trail.                                                               *)

LEMMA CountType ==
  ASSUME NEW S, NEW s \in Seq(S), NEW h
  PROVE  Count(s, h) \in Nat
<1>1. Len(s) \in Nat /\ DOMAIN s = 1 .. Len(s)
  OBVIOUS
<1>2. IsFiniteSet(1 .. Len(s)) /\ {i \in DOMAIN s : s[i].by = h} \subseteq 1 .. Len(s)
  BY <1>1, FS_Interval
<1> QED BY <1>2, FS_Subset, FS_CardinalityType DEF Count

LEMMA CountAppend ==
  ASSUME NEW S, NEW s \in Seq(S), NEW x \in S, NEW h
  PROVE  /\ Count(s, h) \in Nat
         /\ Count(Append(s, x), h) = Count(s, h) + IF x.by = h THEN 1 ELSE 0
<1> DEFINE I == {i \in DOMAIN s : s[i].by = h}
           n == Len(s) + 1
           J == {i \in DOMAIN Append(s, x) : Append(s, x)[i].by = h}
<1>1. Len(s) \in Nat /\ DOMAIN s = 1 .. Len(s)
  OBVIOUS
<1>2. IsFiniteSet(I) /\ n \notin I
  <2>1. IsFiniteSet(1 .. Len(s))
    BY <1>1, FS_Interval
  <2>2. I \subseteq 1 .. Len(s)
    BY <1>1
  <2> QED BY <1>1, <2>1, <2>2, FS_Subset
<1>3. /\ DOMAIN Append(s, x) = 1 .. n /\ Append(s, x)[n] = x
      /\ \A i \in 1 .. Len(s) : Append(s, x)[i] = s[i]
  BY <1>1, AppendProperties
<1>4. J = IF x.by = h THEN I \cup {n} ELSE I
  BY <1>1, <1>3
<1>5. Cardinality(I) \in Nat /\ Cardinality(I \cup {n}) = Cardinality(I) + 1
  BY <1>2, FS_CardinalityType, FS_AddElement
<1> HIDE DEF I, J
<1>6. Cardinality(J) = Cardinality(I) + IF x.by = h THEN 1 ELSE 0
  BY <1>4, <1>5
<1> QED BY <1>5, <1>6 DEF I, J, Count

\* Neither does a call resolve nor is an event published.
LEMMA TrailStays ==
  ASSUME TrailInv, UNCHANGED <<calls, events, factory>>,
         \A h \in Handles : work'[h].pc = "auditing" => work'[h] = work[h]
  PROVE  TrailInv'
<1>1. \A e : Tells(e) => Tells(e)'
  BY DEF Tells
<1>2. \A h \in Handles : /\ Count(events, h)' = Count(events, h)
                         /\ Count(calls, h)' = Count(calls, h)
  BY DEF Count
<1>3. ASSUME NEW h \in Handles
      PROVE  /\ At(h, "auditing")' => At(h, "auditing") /\ work'[h] = work[h]
             /\ Due(h)' \in 0 .. Due(h)
  BY <1>3 DEF At, Due
<1>4. ASSUME NEW h \in Handles
      PROVE  /\ Count(events, h) \in Nat /\ Count(calls, h) \in Nat
  BY CountType DEF TrailInv
<1>5. \A h \in Handles : Due(h) \in Nat
  BY DEF Due
<1>6. \A h \in Handles : Count(events, h)' + Due(h)' <= Count(calls, h)'
  BY <1>2, <1>3, <1>4, <1>5 DEF TrailInv
<1> QED BY <1>1, <1>3, <1>6 DEF TrailInv

\* A call of h resolves, which is about to tell of it or not.
LEMMA TrailGrows ==
  ASSUME DataInv, TrailInv, NEW h \in Handles, NEW x \in Calls, x.by = h, ~ At(h, "auditing"),
         calls' = Append(calls, x), UNCHANGED <<events, factory>>,
         NEW w, work' = [work EXCEPT ![h] = w],
         w # work[h] => /\ w.event.by = h
                        /\ IsToldBy(x, w.event)
                        /\ factory = "module" => w.event.op = "create"
  PROVE  TrailInv'
<1>1. calls \in Seq(Calls) /\ events \in Seq(Events)
  BY DEF TrailInv
<1>2. /\ Len(calls) \in Nat /\ DOMAIN calls = 1 .. Len(calls)
      /\ DOMAIN calls' = 1 .. Len(calls) + 1 /\ calls'[Len(calls) + 1] = x
      /\ \A k \in DOMAIN calls : calls'[k] = calls[k] /\ k \in DOMAIN calls'
  BY <1>1, AppendProperties
<1>3. calls' \in Seq(Calls)
  BY <1>1, AppendProperties
<1>4. \A e : Tells(e) => Tells(e)'
  BY <1>2 DEF Tells
<1>5. \A g \in Handles : work'[g] = IF g = h THEN w ELSE work[g]
  BY DEF DataInv
<1>6. ASSUME NEW g \in Handles, At(g, "auditing")'
      PROVE  Tells(work[g].event)' /\ work'[g].event.by = g
  <2>1. CASE g = h
    <3>1. work'[g] = w /\ w # work[h]
      BY <1>5, <1>6, <2>1 DEF At
    <3>2. IsToldBy(calls'[Len(calls) + 1], w.event)
      BY <1>2, <3>1
    <3> QED BY <1>2, <2>1, <3>1, <3>2 DEF Tells
  <2>2. CASE g # h
    <3>1. work'[g] = work[g] /\ At(g, "auditing")
      BY <1>5, <1>6, <2>2 DEF At
    <3>2. Tells(work[g].event) /\ work[g].event.by = g
      BY <3>1 DEF TrailInv
    <3> QED BY <1>4, <3>1, <3>2
  <2> QED BY <2>1, <2>2
<1>7. ASSUME NEW g \in Handles
      PROVE  Count(events, g)' + Due(g)' <= Count(calls, g)'
  <2>1. /\ Count(calls, g) \in Nat /\ Count(calls', g) = Count(calls, g) + IF g = h THEN 1 ELSE 0
    BY <1>1, CountAppend
  <2>2. Count(events, g)' = Count(events, g) /\ Count(calls, g)' = Count(calls', g)
    BY DEF Count
  <2>3. Count(events, g) + Due(g) <= Count(calls, g)
    BY DEF TrailInv
  <2>4. Due(g) \in {0, 1} /\ Due(g)' \in {0, 1} /\ (g = h => Due(g) = 0) /\ (g # h => Due(g)' = Due(g))
    BY <1>5 DEF Due, At
  <2>5. Count(events, g) \in Nat
    BY <1>1, CountType
  <2> QED BY <2>1, <2>2, <2>3, <2>4, <2>5
<1>8. \A i \in DOMAIN events' : Tells(events[i])'
  BY <1>4 DEF TrailInv
<1> QED BY <1>1, <1>3, <1>6, <1>7, <1>8 DEF TrailInv

\* A hook's event is published or dropped.
LEMMA TrailPublishes ==
  ASSUME DataInv, TrailInv, NEW h \in Handles, Audit(h)
  PROVE  TrailInv'
<1> DEFINE e == work[h].event
<1>1. calls \in Seq(Calls) /\ events \in Seq(Events)
  BY DEF TrailInv
<1>2. /\ work[h].pc = "auditing" /\ work' = [work EXCEPT ![h] = Idle]
      /\ UNCHANGED <<calls, factory>>
      /\ events' = Append(events, e) \/ events' = events
  BY DEF Audit, At, Goes, Publish, db
<1>3. \A g \in Handles : work'[g] = IF g = h THEN Idle ELSE work[g]
  BY <1>2 DEF DataInv
<1>4. CASE events' = events
  <2>1. \A g \in Handles : work'[g].pc = "auditing" => work'[g] = work[g]
    BY <1>3 DEF Idle
  <2> QED BY <1>2, <1>4, <2>1, TrailStays
<1>5. CASE events' = Append(events, e)
  <2>1. e \in Events
    <3>1. work[h] \in {Idle} \cup Scans \cup Writings \cup Audits
      BY DEF DataInv, WorkFits
    <3> QED BY <1>2, <3>1 DEF Idle, Scans, Writings, Audits
  <2>2. Tells(e) /\ e.by = h
    BY <1>2 DEF TrailInv, At
  <2>3. \A x : Tells(x) => Tells(x)'
    BY <1>2 DEF Tells
  <2> HIDE DEF e
  <2>4. /\ events' \in Seq(Events) /\ DOMAIN events' = 1 .. Len(events) + 1 /\ events'[Len(events) + 1] = e
        /\ Len(events) \in Nat /\ DOMAIN events = 1 .. Len(events)
        /\ \A i \in 1 .. Len(events) : events'[i] = events[i]
    BY <1>1, <1>5, <2>1, AppendProperties
  <2>5. \A i \in DOMAIN events' : Tells(events[i])'
    <3> SUFFICES ASSUME NEW i \in DOMAIN events' PROVE Tells(events[i])'
      OBVIOUS
    <3>1. CASE i = Len(events) + 1
      BY <2>2, <2>3, <2>4, <3>1
    <3>2. CASE i \in 1 .. Len(events)
      <4>1. Tells(events[i]) /\ events'[i] = events[i]
        BY <2>4, <3>2 DEF TrailInv
      <4> QED BY <2>3, <4>1
    <3> QED BY <2>4, <3>1, <3>2
  <2>6. ASSUME NEW g \in Handles, At(g, "auditing")'
        PROVE  Tells(work[g].event)' /\ work'[g].event.by = g
    <3>1. g # h /\ work'[g] = work[g] /\ At(g, "auditing")
      BY <1>3, <2>6 DEF At, Idle
    <3>2. Tells(work[g].event) /\ work[g].event.by = g
      BY <3>1 DEF TrailInv
    <3> QED BY <2>3, <3>1, <3>2
  <2>7. ASSUME NEW g \in Handles
        PROVE  Count(events, g)' + Due(g)' <= Count(calls, g)'
    <3>1. /\ Count(events, g) \in Nat /\ Count(events', g) = Count(events, g) + IF g = h THEN 1 ELSE 0
      BY <1>1, <1>5, <2>1, <2>2, CountAppend
    <3>2. Count(events, g)' = Count(events', g) /\ Count(calls, g)' = Count(calls, g)
      BY <1>2 DEF Count
    <3>3. Count(events, g) + Due(g) <= Count(calls, g)
      BY DEF TrailInv
    <3>4. /\ Due(g) \in {0, 1} /\ Due(g)' \in {0, 1}
          /\ (g = h => Due(g) = 1 /\ Due(g)' = 0) /\ (g # h => Due(g)' = Due(g))
      BY <1>2, <1>3 DEF Due, At, Idle
    <3>5. Count(calls, g) \in Nat
      BY <1>1, CountType
    <3> QED BY <3>1, <3>2, <3>3, <3>4, <3>5
  <2>8. calls' \in Seq(Calls)
    BY <1>1, <1>2
  <2> QED BY <2>4, <2>5, <2>6, <2>7, <2>8 DEF TrailInv
<1> QED BY <1>2, <1>4, <1>5

\* The calls that resolve.
LEMMA TrailHooks ==
  ASSUME DataInv, TrailInv, NEW h \in Handles,
         \/ Write(h)
         \/ \E id \in Ids :
              \/ FindOneAndDelete(h, id)
              \/ \E f \in Fields, v \in Plain, new, set \in BOOLEAN : FindOneAndUpdate(h, id, f, v, new, set)
  PROVE  TrailInv'
<1>1. CASE Write(h)
  <2> DEFINE d == doc[h]
             x == [by |-> h, op |-> SaveOf(d, work[h].sent), id |-> d.id]
             w == [pc |-> "auditing", event |-> Event(h, "create", d.id, {d.data[f] : f \in Fields})]
  <2>1. d.id \in Ids /\ work[h].pc = "writing"
    BY <1>1 DEF DataInv, At, Write, WorkFits, DocFits, Docs
  <2>2. x \in Calls /\ x.by = h /\ ~ At(h, "auditing")
    BY <2>1 DEF Calls, At, SaveOf
  <2>3. /\ calls' = Append(calls, x) /\ UNCHANGED <<events, factory>>
        /\ work' = [work EXCEPT ![h] = w]
    BY <1>1 DEF Write, Resolved, AuditSave, Auditing, Goes, audit
  <2>4. w.event.by = h /\ IsToldBy(x, w.event) /\ w.event.op = "create"
    BY DEF Event, Told, IsToldBy, SaveOf
  <2> HIDE DEF x, w
  <2> QED BY <2>2, <2>3, <2>4, TrailGrows
<1>2. ASSUME NEW id \in Ids, FindOneAndDelete(h, id)
      PROVE  TrailInv'
  <2> DEFINE x == [by |-> h, op |-> "delete", id |-> id]
             a == [pc |-> "auditing", event |-> Event(h, "delete", id, {table[id][f] : f \in Fields})]
             w == IF factory = "connection" THEN a ELSE work[h]
  <2>1. x \in Calls /\ x.by = h /\ ~ At(h, "auditing")
    BY <1>2 DEF Calls, At, FindOneAndDelete
  <2>2. /\ calls' = Append(calls, x) /\ UNCHANGED <<events, factory>>
        /\ work' = [work EXCEPT ![h] = w]
    BY <1>2, Same DEF FindOneAndDelete, Resolved, Auditing, Goes, audit
  <2>3. a.event.by = h /\ IsToldBy(x, a.event)
    BY DEF Event, Told, IsToldBy
  <2> HIDE DEF x, a
  <2>4. w # work[h] => w = a /\ factory # "module"
    OBVIOUS
  <2> HIDE DEF w
  <2> QED BY <2>1, <2>2, <2>3, <2>4, TrailGrows
<1>3. ASSUME NEW id \in Ids, NEW f \in Fields, NEW v \in Plain, NEW new \in BOOLEAN, NEW set \in BOOLEAN,
             FindOneAndUpdate(h, id, f, v, new, set)
      PROVE  TrailInv'
  <2> DEFINE x == [by |-> h, op |-> "update", id |-> id]
             changes == Changes(IF new THEN table'[id] ELSE table[id], f, v, set)
             a == [pc |-> "auditing", event |-> Event(h, "update", id, changes)]
             w == IF factory = "connection" /\ changes # {} THEN a ELSE work[h]
  <2>1. x \in Calls /\ x.by = h /\ ~ At(h, "auditing")
    BY <1>3 DEF Calls, At, FindOneAndUpdate
  <2>2. /\ calls' = Append(calls, x) /\ UNCHANGED <<events, factory>>
        /\ work' = [work EXCEPT ![h] = w]
    BY <1>3, Same DEF FindOneAndUpdate, Resolved, Auditing, Goes, audit
  <2>3. a.event.by = h /\ IsToldBy(x, a.event)
    BY DEF Event, Told, IsToldBy
  <2> HIDE DEF x, a, changes
  <2>4. w # work[h] => w = a /\ factory # "module"
    OBVIOUS
  <2> HIDE DEF w
  <2> QED BY <2>1, <2>2, <2>3, <2>4, TrailGrows
<1> QED BY <1>1, <1>2, <1>3

LEMMA TrailInvariant == Spec => []TrailInv
<1>1. Init => TrailInv
  <2> SUFFICES ASSUME Init PROVE TrailInv
    OBVIOUS
  <2>1. calls = <<>> /\ events = <<>> /\ \A h \in Handles : work[h].pc = "idle"
    BY DEF Init, Idle
  <2>2. \A h : Count(<<>>, h) = 0
    BY FS_EmptySet DEF Count
  <2> QED BY <2>1, <2>2, EmptySeq DEF TrailInv, At, Due
<1>2. DataInv /\ TrailInv /\ [Next]_vars => TrailInv'
  <2> SUFFICES ASSUME DataInv, TrailInv, [Next]_vars PROVE TrailInv'
    OBVIOUS
  <2>1. CASE UNCHANGED vars
    BY <2>1, TrailStays DEF vars
  <2>2. CASE Connect
    BY <2>2, TrailStays DEF Connect, db
  <2>3. ASSUME NEW h \in Handles, NEW w, w.pc # "auditing" \/ w = work[h], work' = [work EXCEPT ![h] = w],
               UNCHANGED <<calls, events, factory>>
        PROVE  TrailInv'
    <3>1. \A g \in Handles : work'[g].pc = "auditing" => work'[g] = work[g]
      BY <2>3 DEF DataInv
    <3> QED BY <2>3, <3>1, TrailStays
  <2>4. ASSUME NEW h \in Handles, Save(h) PROVE TrailInv'
    <3> DEFINE d == doc[h]
               w == IF d.isNew \/ d.modified # {}
                    THEN Scanning(d.data, d.meant, Detected(d.data))
                    ELSE Writing(d.data, d.meant, {})
    <3>1. work' = [work EXCEPT ![h] = w]
      BY <2>4 DEF Save, Goes
    <3>2. w.pc # "auditing"
      BY DEF Scanning, Writing
    <3> HIDE DEF w
    <3> QED BY <2>3, <2>4, <3>1, <3>2 DEF Save, db, audit
  <2>5. ASSUME NEW h \in Handles, ScanEnds(h) PROVE TrailInv'
    <3>1. PICK w : w.pc # "auditing" /\ work' = [work EXCEPT ![h] = w]
      BY <2>5 DEF ScanEnds, Goes, Writing
    <3> QED BY <2>3, <2>5, <3>1 DEF ScanEnds, db, audit
  <2>6. ASSUME NEW h \in Handles, Reject(h) PROVE TrailInv'
    <3>1. Idle.pc # "auditing" /\ work' = [work EXCEPT ![h] = Idle]
      BY <2>6 DEF Reject, Goes, Idle
    <3> QED BY <2>3, <2>6, <3>1 DEF Reject, db, audit
  <2>7. ASSUME NEW h \in Handles, NEW f \in Fields, Tokenize(h, f) \/ MakeUp(h, f) PROVE TrailInv'
    <3>1. PICK t \in Tokens : Replace(h, f, t)
      BY <2>7 DEF Tokenize, MakeUp
    <3> DEFINE w == [work[h] EXCEPT !.clone[f] = t, !.todo = @ \ {f}]
    <3>2. work[h] \in {Idle} \cup Scans \cup Writings \cup Audits /\ work[h].pc = "scanning"
      BY <2>7 DEF Tokenize, MakeUp, At, DataInv, WorkFits
    <3>3. work[h] \in Scans
      BY <3>2 DEF Idle, Writings, Audits
    <3>4. w.pc = "scanning" /\ work' = [work EXCEPT ![h] = w]
      BY <3>1, <3>3 DEF Replace, Goes, Scans
    <3> HIDE DEF w
    <3> QED BY <2>3, <2>7, <3>4 DEF Tokenize, MakeUp, db, audit
  <2>8. ASSUME UNCHANGED <<work, calls, events, factory>> PROVE TrailInv'
    BY <2>8, TrailStays
  <2>9. ASSUME NEW h \in Handles, NEW f \in Fields, NEW v \in Plain, Edit(h, f, v) PROVE TrailInv'
    BY <2>8, <2>9 DEF Edit, db, audit
  <2>10. ASSUME NEW h \in Handles, NEW id \in Ids,
                Load(h, id) \/ \E data \in [Fields -> Plain] : New(h, id, data)
         PROVE  TrailInv'
    BY <2>8, <2>10 DEF Load, New, db, audit
  <2>11. CASE Finished
    BY <2>1, <2>11 DEF Finished
  <2>12. ASSUME NEW h \in Handles, Audit(h) PROVE TrailInv'
    BY <2>12, TrailPublishes
  <2> QED BY <2>1, <2>2, <2>4, <2>5, <2>6, <2>7, <2>9, <2>10, <2>11, <2>12, TrailHooks DEF Next
<1> QED BY <1>1, <1>2, DataInvariant, PTL DEF Spec

-----------------------------------------------------------------------------
(* The theorems.                                                            *)

\* Types hold, an event on record tells of a call of its caller that resolved, of a
\* save under the module factory's hooks, and no caller has more events than calls.
THEOREM EventsAreTrue == Spec => []HooksInv
<1>1. DataInv /\ TrailInv => TypeOK
  <2> SUFFICES ASSUME DataInv, TrailInv PROVE TypeOK
    OBVIOUS
  <2>1. doc \in [Handles -> {NoDoc} \cup Docs]
    BY DEF DataInv, DocFits
  <2>2. \A h \in Handles : work[h] \in {Idle} \cup Scans \cup Writings \cup Audits
    BY DEF DataInv, WorkFits
  <2>3. \A id \in Ids : table[id] \in Data \cup {NoRow} /\ meaning[id] \in Data \cup {NoRow}
    BY DEF DataInv, RowsFit, Fits, Data
  <2>4. vault \in [Tokens -> Plain \cup Tokens \cup {None}]
    BY DEF DataInv
  <2>5. events \in Seq(Events)
    BY DEF TrailInv
  <2>6. /\ factory \in {"connection", "module"} /\ link \in {"connecting", "connected", "refused"}
        /\ edits \in 0 .. MaxEdits /\ placeholders \subseteq Tokens
    BY DEF DataInv
  <2> QED BY <2>1, <2>2, <2>3, <2>4, <2>5, <2>6 DEF TypeOK, Docs, Scans, Writings, Audits
<1>2. TrailInv => EventsTellCalls
  <2> SUFFICES ASSUME TrailInv PROVE EventsTellCalls
    OBVIOUS
  <2>1. \A h \in Handles : Count(events, h) <= Count(calls, h)
    <3> SUFFICES ASSUME NEW h \in Handles PROVE Count(events, h) <= Count(calls, h)
      OBVIOUS
    <3>1. Count(events, h) \in Nat /\ Count(calls, h) \in Nat
      BY CountType DEF TrailInv
    <3>2. Due(h) \in {0, 1} /\ Count(events, h) + Due(h) <= Count(calls, h)
      BY DEF TrailInv, Due
    <3> QED BY <3>1, <3>2
  <2> QED BY <2>1 DEF TrailInv, Tells, IsToldBy, Count, EventsTellCalls
<1> QED BY <1>1, <1>2, DataInvariant, TrailInvariant, PTL DEF HooksInv

\* A token on record that the vault gave reveals what the application set in
\* that field of that row.
THEOREM TokensReveal == Spec => []RevealsOriginal
<1>1. DataInv => RevealsOriginal
  BY DEF DataInv, RowsFit, Fits, RevealsOriginal, Reveal
<1> QED BY <1>1, DataInvariant, PTL

\* A detected field gets a plain value in the database through updates alone.
THEOREM SavesAreClean == Spec => SavedIsTokenised
<1>1. ASSUME DataInv, TrailInv, [Next]_vars, NEW id \in Ids, NEW f \in Pii \ Skip,
             table'[id] # NoRow, table'[id] # table[id], table'[id][f] \in Plain,
             table[id] # NoRow => table[id][f] # table'[id][f]
      PROVE  calls'[Len(calls')].op = "update"
  <2>1. ~ UNCHANGED table
    BY <1>1
  <2>2. ASSUME NEW h \in Handles, Write(h) PROVE FALSE
    <3> DEFINE d == doc[h]
               w == work[h]
    <3>1. WorkFits(w, d, vault, placeholders) /\ w.pc = "writing" /\ d.id \in Ids
      BY <1>1, <2>2 DEF DataInv, At, Write, WorkFits, DocFits, Docs
    <3>2. /\ d.isNew \/ table[d.id] # NoRow
          /\ table' = [table EXCEPT ![d.id] = IF d.isNew THEN w.clone ELSE Over(table[d.id], w.sent, w.clone)]
      BY <2>2 DEF Write
    <3>3. id = d.id /\ table'[id] = IF d.isNew THEN w.clone ELSE Over(table[id], w.sent, w.clone)
      BY <1>1, <3>1, <3>2 DEF DataInv, RowsFit
    <3>4. CASE d.isNew \/ f \in w.sent
      <4>1. w.clone[f] \in Tokens /\ f \in Fields
        BY <3>1, <3>4, Shape DEF WorkFits, Clean
      <4>2. table'[id][f] = w.clone[f]
        BY <3>3, <3>4, <4>1 DEF Over
      <4> QED BY <1>1, <4>1, <4>2, Shape
    <3>5. CASE ~ d.isNew /\ f \notin w.sent
      <4>1. table'[id][f] = table[id][f] /\ table[id] # NoRow
        BY <3>2, <3>3, <3>5, Shape DEF Over
      <4> QED BY <1>1, <4>1
    <3> QED BY <3>4, <3>5
  <2>3. ASSUME NEW h \in Handles, NEW i \in Ids, FindOneAndDelete(h, i) PROVE FALSE
    <3>1. table'[id] = IF i = id THEN NoRow ELSE table[id]
      BY <1>1, <2>3 DEF FindOneAndDelete, DataInv, RowsFit
    <3> QED BY <1>1, <3>1
  <2>4. PICK h \in Handles, i \in Ids : \E g \in Fields, v \in Plain, new, set \in BOOLEAN :
          FindOneAndUpdate(h, i, g, v, new, set)
    BY <1>1, <2>1, <2>2, <2>3
       DEF Next, vars, Finished, Connect, Save, ScanEnds, Reject, Audit, Tokenize, MakeUp, Edit, New, Load, db
  <2>5. calls' = Append(calls, [by |-> h, op |-> "update", id |-> i])
    BY <2>4 DEF FindOneAndUpdate, Resolved
  <2>6. Len(calls') = Len(calls) + 1 /\ calls'[Len(calls) + 1] = [by |-> h, op |-> "update", id |-> i]
    <3>1. calls \in Seq(Calls) /\ [by |-> h, op |-> "update", id |-> i] \in Calls
      BY <1>1 DEF TrailInv, Calls
    <3> HIDE DEF Calls
    <3> QED BY <2>5, <3>1, AppendProperties
  <2> QED BY <2>6
<1>2. DataInv /\ TrailInv /\ [Next]_vars
      => [\A id \in Ids : \A f \in Pii \ Skip :
            (/\ table'[id] # NoRow /\ table'[id] # table[id]
             /\ table'[id][f] \in Plain
             /\ table[id] # NoRow => table[id][f] # table'[id][f])
            => calls'[Len(calls')].op = "update"]_vars
  BY <1>1
<1> QED BY <1>2, DataInvariant, TrailInvariant, PTL DEF Spec, SavedIsTokenised
=============================================================================
