---------------------- MODULE ColumnEncryption_proofs ----------------------
(* What holds of ColumnEncryption for any number of processes, fields, keys *)
(* and restarts.                                                            *)
EXTENDS ColumnEncryption, SequenceTheorems, TLAPS

-----------------------------------------------------------------------------
(* The invariant.  k stands for the keys that have been active so far.      *)

\* The cell c is an envelope of the text t, under such a key.
Sealed(c, t, k) == /\ c.kind = "envelope" /\ c.of = Text(t)
                   /\ [id |-> c.key, material |-> c.material] \in k

\* A column that was last assigned t stands for it, or, where that was lost, for
\* a text that was encrypted before.
Takeable == Texts \ (Lookalikes \cup {""})
Means(u, t, isLost) == u \in Texts /\ (u = t \/ (isLost /\ u \in Takeable))

\* What may be in the database, and what in an entity.
AtRest(c, t, isLate, isLost, k) ==
  \/ c = Text(t) /\ (t \in Lookalikes \cup {""} \/ isLate)
  \/ \E u \in Texts : Means(u, t, isLost) /\ Sealed(c, u, k)
Plain(c, t, isLost) == \E u \in Texts : Means(u, t, isLost) /\ c = Text(u)
Held(c, t, isLost, k) ==
  Plain(c, t, isLost) \/ \E u \in Texts : Means(u, t, isLost) /\ Sealed(c, u, k)

IsProcess(v) ==
  /\ DOMAIN v = {"pc", "built", "svc", "entity", "meant", "late", "lost", "todo", "taken"}
  /\ v.pc \in {"down", "idle", "decrypting", "loaded", "encrypting"}
  /\ v.entity = [f \in Fields |-> v.entity[f]] /\ v.meant \in [Fields -> Texts]
  /\ v.late \subseteq Fields /\ v.lost \subseteq Fields /\ v.todo \in Seq(Fields)

Registered(svc, k) ==
  IsService(svc) => [id |-> svc.active, material |-> svc.keys[svc.active]] \in k

Pending(todo, f) == \E i \in DOMAIN todo : todo[i] = f

\* Behind the hook that loads, fields are in plain; behind the one that saves,
\* they are as they may be written.
LoadedSoFar(v) == \A f \in Fields : Pending(v.todo, f) \/ Plain(v.entity[f], v.meant[f], f \in v.lost)
SavedSoFar(v, k) == \A f \in Fields : \/ Pending(v.todo, f)
                                     \/ AtRest(v.entity[f], v.meant[f], f \in v.late, f \in v.lost, k)
\* What is being encrypted is the text of the field whose turn it is, or that is lost.
TakenRight(v) == v.taken # <<>> =>
  /\ v.pc = "encrypting" /\ v.todo # <<>>
  /\ \E u \in Takeable : /\ v.taken[1] = Text(u)
                         /\ Means(u, v.meant[Head(v.todo)], Head(v.todo) \in v.lost)
Keeps(v, k) ==
  /\ IsProcess(v) /\ Registered(v.svc, k)
  /\ v.pc \in {"decrypting", "loaded", "encrypting"}
       => \A f \in Fields : Held(v.entity[f], v.meant[f], f \in v.lost, k)
  /\ v.pc = "decrypting" => LoadedSoFar(v)
  /\ v.pc = "encrypting" => IsService(v.svc) /\ SavedSoFar(v, k)
  /\ TakenRight(v)

Stored(r, m, l, x, k) ==
  /\ r = [f \in Fields |-> r[f]] /\ m \in [Fields -> Texts] /\ l \subseteq Fields /\ x \subseteq Fields
  /\ \A f \in Fields : AtRest(r[f], m[f], f \in l, f \in x, k)

Inv ==
  /\ proc = [p \in Procs |-> proc[p]] /\ \A p \in Procs : Keeps(proc[p], actives)
  /\ Stored(row, meant, late, lost, actives)
  /\ boots \in 0 .. MaxBoots /\ sets \in 0 .. MaxSets

-----------------------------------------------------------------------------
(* Lemmas.                                                                  *)

LEMMA Queue ==
  ASSUME NEW s \in Seq(Fields), s # <<>>
  PROVE  /\ Head(s) \in Fields /\ Tail(s) \in Seq(Fields)
         /\ \A f : Pending(s, f) => f = Head(s) \/ Pending(Tail(s), f)
<1>1. Head(s) \in Fields /\ Tail(s) \in Seq(Fields) /\ Len(s) \in Nat \ {0} /\ DOMAIN s = 1 .. Len(s)
  BY HeadTailProperties, EmptySeq
<1>2. ASSUME NEW f, NEW i \in DOMAIN s, s[i] = f, f # Head(s)
      PROVE  Pending(Tail(s), f)
  <2>1. i # 1 /\ i \in Nat /\ i - 1 \in 1 .. Len(s) - 1
    BY <1>1, <1>2
  <2>2. Len(Tail(s)) = Len(s) - 1 /\ Tail(s)[i - 1] = s[i]
    BY <1>1, <2>1, HeadTailProperties
  <2>3. i - 1 \in DOMAIN Tail(s)
    BY <1>1, <2>1, <2>2
  <2> QED BY <1>2, <2>2, <2>3 DEF Pending
<1> QED BY <1>1, <1>2 DEF Pending

LEMMA Grows ==
  ASSUME NEW k, NEW l, k \subseteq l
  PROVE  /\ \A v : Keeps(v, k) => Keeps(v, l)
         /\ \A r, m, a, x : Stored(r, m, a, x, k) => Stored(r, m, a, x, l)
<1>1. \A c, t : Sealed(c, t, k) => Sealed(c, t, l)
  BY DEF Sealed
<1>2. /\ \A c, t, x : Held(c, t, x, k) => Held(c, t, x, l)
      /\ \A c, t, b, x : AtRest(c, t, b, x, k) => AtRest(c, t, b, x, l)
  BY <1>1 DEF Held, AtRest
<1>3. \A svc : Registered(svc, k) => Registered(svc, l)
  BY DEF Registered
<1> QED BY <1>2, <1>3 DEF Keeps, Stored, SavedSoFar

LEMMA Texted ==
  /\ \A t, u : Text(t) = Text(u) => t = u
  /\ \A t : Text(t).kind = "text"
BY DEF Text

\* A process that has just read the row, or holds nothing.
LEMMA Fresh ==
  ASSUME NEW k, Stored(row, meant, late, lost, k),
         NEW pc, NEW built, NEW svc, NEW todo, Registered(svc, k),
         \/ pc \in {"down", "idle"} /\ todo = <<>>
         \/ pc = "decrypting" /\ todo = FieldOrder
  PROVE  Keeps(Process(pc, built, svc, todo), k)
<1> DEFINE v == Process(pc, built, svc, todo)
<1>1. /\ v.pc = pc /\ v.svc = svc /\ v.entity = row /\ v.meant = meant /\ v.late = late /\ v.lost = lost
      /\ v.todo = todo /\ v.taken = <<>>
  BY DEF Process
<1>2. todo \in Seq(Fields)
  BY AnOrder, EmptySeq
<1>3. IsProcess(v)
  BY <1>2 DEF Process, IsProcess, Stored
<1>4. \A f \in Fields : Held(v.entity[f], v.meant[f], f \in v.lost, k)
  BY <1>1 DEF Stored, AtRest, Held, Plain, Means
<1>5. v.pc = "decrypting" => \A f \in Fields : Pending(v.todo, f)
  BY <1>1 DEF Pending, Fields
<1> HIDE DEF v
<1>6. Keeps(v, k)
  BY <1>1, <1>3, <1>4, <1>5 DEF Keeps, LoadedSoFar, TakenRight
<1> QED BY <1>6 DEF v

LEMMA Step ==
  ASSUME Inv, NEW p \in Procs, NEW v, Goes(p, v), actives \subseteq actives',
         Keeps(v, actives'), Stored(row', meant', late', lost', actives),
         boots' \in 0 .. MaxBoots, sets' \in 0 .. MaxSets
  PROVE  Inv'
<1>1. \A q \in Procs : Keeps(proc[q], actives')
  BY Grows DEF Inv
<1>2. \A q \in Procs : proc'[q] = IF q = p THEN v ELSE proc[q]
  BY DEF Inv, Goes
<1>3. proc' = [q \in Procs |-> proc'[q]]
  BY DEF Inv, Goes
<1>4. Stored(row', meant', late', lost', actives')
  BY Grows
<1> QED BY <1>1, <1>2, <1>3, <1>4 DEF Inv

-----------------------------------------------------------------------------
(* Each step keeps what its process holds.                                  *)

LEMMA BootKeeps ==
  ASSUME Inv, NEW p \in Procs, Boot(p)  PROVE Inv'
<1>1. PICK env \in Environments :
        Goes(p, IF IsService(FromEnv(env)) THEN Process("idle", FromEnv(env), NoService, <<>>) ELSE Down)
  BY DEF Boot
<1>2. Registered(NoService, actives) /\ Stored(row, meant, late, lost, actives)
  BY DEF Inv, Registered, NoService, IsService
<1>3. /\ Keeps(Process("idle", FromEnv(env), NoService, <<>>), actives)
      /\ Keeps(Down, actives)
  BY <1>2, Fresh DEF Down
<1>4. actives' = actives /\ Stored(row', meant', late', lost', actives)
  BY <1>2 DEF Boot, db
<1>5. boots' \in 0 .. MaxBoots /\ sets' \in 0 .. MaxSets
  BY Bounds DEF Boot, Inv
<1> QED BY <1>1, <1>3, <1>4, <1>5, Step

LEMMA RegisterKeeps ==
  ASSUME Inv, NEW p \in Procs, Register(p)  PROVE Inv'
<1> DEFINE o == proc[p]
           v == [o EXCEPT !.svc = o.built]
<1>1. IsProcess(o) /\ o.pc = "idle" /\ o.taken = <<>>
  BY DEF Register, At, Inv, Keeps, TakenRight
<1>2. IsProcess(v) /\ v.pc = "idle" /\ v.svc = o.built /\ v.taken = o.taken
  BY <1>1 DEF IsProcess
<1>3. Registered(v.svc, actives')
  BY <1>2 DEF Register, Registered
<1>4. Goes(p, v) /\ actives \subseteq actives' /\ UNCHANGED <<row, meant, late, lost, boots, sets>>
  BY DEF Register, db
<1> HIDE DEF v
<1>5. Keeps(v, actives')
  BY <1>1, <1>2, <1>3 DEF Keeps, TakenRight
<1> QED BY <1>4, <1>5, Step DEF Inv

LEMMA LoadKeeps ==
  ASSUME Inv, NEW p \in Procs, Load(p) \/ LoadFails(p)  PROVE Inv'
<1>1. Registered(proc[p].svc, actives) /\ Stored(row, meant, late, lost, actives)
  BY DEF Inv, Keeps
<1>2. PICK v \in {Process("decrypting", proc[p].built, proc[p].svc, FieldOrder),
                  Process("idle", proc[p].built, proc[p].svc, <<>>)} : Goes(p, v)
  BY DEF Load, LoadFails
<1>3. UNCHANGED <<row, meant, late, lost, actives, boots, sets>>
  BY DEF Load, LoadFails, db
<1>4. Keeps(v, actives)
  BY <1>1, <1>2, Fresh
<1> QED BY <1>1, <1>2, <1>3, <1>4, Step DEF Inv

\* What the key opens is the text.
LEMMA Opens ==
  ASSUME NEW c, NEW t, NEW x, NEW k, Held(c, t, x, k), NEW svc, IsEnvelope(c) => Decryptable(svc, c)
  PROVE  Plain(IF IsEnvelope(c) THEN c.of ELSE c, t, x)
<1>1. CASE \E u \in Texts : Means(u, t, x) /\ Sealed(c, u, k)
  BY <1>1 DEF Sealed, IsEnvelope, Plain
<1>2. CASE \E u \in Texts : Means(u, t, x) /\ c = Text(u)
  <2>1. c.kind = "text"
    BY <1>2, Texted
  <2> QED BY <1>2, <2>1 DEF Decryptable, Plain
<1> QED BY <1>1, <1>2 DEF Held, Plain

LEMMA DecryptKeeps ==
  ASSUME Inv, NEW p \in Procs, DecryptField(p)  PROVE Inv'
<1> DEFINE o == proc[p]
           h == Head(o.todo)
           c == IF IsEnvelope(o.entity[h]) THEN o.entity[h].of ELSE o.entity[h]
           v == [o EXCEPT !.todo = Tail(@), !.entity[h] = c]
<1>1. Keeps(o, actives) /\ IsProcess(o) /\ o.pc = "decrypting" /\ o.todo # <<>>
  BY DEF Inv, Keeps, DecryptField, Busy, At
<1>2. /\ h \in Fields /\ Tail(o.todo) \in Seq(Fields)
      /\ \A f : Pending(o.todo, f) => f = h \/ Pending(Tail(o.todo), f)
  <2>1. o.todo \in Seq(Fields)
    BY <1>1 DEF IsProcess
  <2> QED BY <1>1, <2>1, Queue
<1>3. Plain(c, o.meant[h], h \in o.lost)
  <2>1. Held(o.entity[h], o.meant[h], h \in o.lost, actives)
    BY <1>1, <1>2 DEF Keeps
  <2>2. IsEnvelope(o.entity[h]) => Decryptable(o.svc, o.entity[h])
    BY DEF DecryptField, Cell, Next1
  <2> QED BY <2>1, <2>2, Opens
<1>4. Goes(p, v) /\ UNCHANGED <<row, meant, late, lost, actives, boots, sets>>
  BY DEF DecryptField, Next1, db
<1> HIDE DEF c
<1>5. /\ IsProcess(v) /\ v.pc = o.pc /\ v.svc = o.svc /\ v.meant = o.meant /\ v.taken = o.taken
      /\ v.todo = Tail(o.todo) /\ v.lost = o.lost
      /\ \A f \in Fields : v.entity[f] = IF f = h THEN c ELSE o.entity[f]
  <2> HIDE DEF h
  <2> QED BY <1>1, <1>2 DEF IsProcess
<1> HIDE DEF v, h, o
<1>6. Keeps(v, actives)
  BY <1>1, <1>2, <1>3, <1>5 DEF Keeps, Held, LoadedSoFar, TakenRight
<1> QED BY <1>4, <1>6, Step DEF Inv

LEMMA LoadedKeeps ==
  ASSUME Inv, NEW p \in Procs, Loaded(p)  PROVE Inv'
<1> DEFINE o == proc[p]
           v == [o EXCEPT !.pc = "loaded"]
<1>1. Keeps(o, actives) /\ IsProcess(o) /\ o.pc = "decrypting"
  BY DEF Inv, Keeps, Loaded, At
<1>2. Goes(p, v) /\ UNCHANGED <<row, meant, late, lost, actives, boots, sets>>
  BY DEF Loaded, db
<1>3. /\ IsProcess(v) /\ v.pc = "loaded" /\ v.svc = o.svc /\ v.meant = o.meant /\ v.taken = o.taken
      /\ v.entity = o.entity /\ v.lost = o.lost
  BY <1>1 DEF IsProcess
<1> HIDE DEF v, o
<1>4. Keeps(v, actives)
  BY <1>1, <1>3 DEF Keeps, TakenRight
<1> QED BY <1>2, <1>4, Step DEF Inv

LEMMA SetKeeps ==
  ASSUME Inv, NEW p \in Procs, NEW f \in Fields, NEW t \in Texts, Set(p, f, t)  PROVE Inv'
<1> DEFINE o == proc[p]
           l == IF Behind(p, f) THEN o.late \cup {f} ELSE o.late \ {f}
           x == IF Awaited(p, f) THEN o.lost \cup {f} ELSE o.lost \ {f}
           v == [o EXCEPT !.entity[f] = Text(t), !.meant[f] = t, !.late = l, !.lost = x]
<1>1. Keeps(o, actives) /\ IsProcess(o) /\ o.pc \in {"loaded", "encrypting"}
  BY DEF Inv, Keeps, Set
<1>2. Goes(p, v) /\ UNCHANGED <<row, meant, late, lost, actives, boots>> /\ sets' \in 0 .. MaxSets
  BY Bounds DEF Set, db, Inv
<1>3. /\ l \subseteq Fields /\ \A g \in Fields : g # f => (g \in l <=> g \in o.late)
      /\ o.pc = "encrypting" => f \in l \/ Pending(o.todo, f)
  BY <1>1 DEF IsProcess, Behind, At, Pending
<1>4. /\ x \subseteq Fields /\ \A g \in Fields : g # f => (g \in x <=> g \in o.lost)
      /\ (o.taken # <<>> /\ f = Head(o.todo)) => f \in x
  BY <1>1 DEF IsProcess, Awaited, Busy, At, Next1, Keeps, TakenRight
<1> HIDE DEF l, x
<1>5. /\ IsProcess(v) /\ v.pc = o.pc /\ v.svc = o.svc /\ v.taken = o.taken /\ v.todo = o.todo
      /\ v.late = l /\ v.lost = x
      /\ \A g \in Fields : v.entity[g] = IF g = f THEN Text(t) ELSE o.entity[g]
      /\ \A g \in Fields : v.meant[g] = IF g = f THEN t ELSE o.meant[g]
  BY <1>1, <1>3, <1>4 DEF IsProcess
<1> HIDE DEF v, o
<1>6. \A g \in Fields : Held(v.entity[g], v.meant[g], g \in v.lost, actives)
  <2> SUFFICES ASSUME NEW g \in Fields PROVE Held(v.entity[g], v.meant[g], g \in v.lost, actives)
    OBVIOUS
  <2>1. CASE g = f
    BY <1>5, <2>1 DEF Held, Plain, Means
  <2>2. CASE g # f
    <3>1. Held(o.entity[g], o.meant[g], g \in o.lost, actives)
      BY <1>1 DEF Keeps
    <3>2. v.entity[g] = o.entity[g] /\ v.meant[g] = o.meant[g] /\ (g \in v.lost <=> g \in o.lost)
      BY <1>4, <1>5, <2>2
    <3> QED BY <3>1, <3>2 DEF Held, Plain, Means
  <2> QED BY <2>1, <2>2
<1>7. o.pc = "encrypting" => SavedSoFar(v, actives)
  <2> SUFFICES ASSUME o.pc = "encrypting", NEW g \in Fields, ~ Pending(o.todo, g)
               PROVE  AtRest(v.entity[g], v.meant[g], g \in v.late, g \in v.lost, actives)
    BY <1>5 DEF SavedSoFar
  <2>1. CASE g = f
    BY <1>3, <1>5, <2>1 DEF AtRest
  <2>2. CASE g # f
    <3>1. AtRest(o.entity[g], o.meant[g], g \in o.late, g \in o.lost, actives)
      BY <1>1 DEF Keeps, SavedSoFar
    <3>2. /\ v.entity[g] = o.entity[g] /\ v.meant[g] = o.meant[g]
          /\ (g \in v.lost <=> g \in o.lost) /\ (g \in v.late <=> g \in o.late)
      BY <1>3, <1>4, <1>5, <2>2
    <3> QED BY <3>1, <3>2 DEF AtRest, Means
  <2> QED BY <2>1, <2>2
<1>8. TakenRight(v)
  <2> SUFFICES ASSUME o.taken # <<>>
               PROVE  /\ o.pc = "encrypting" /\ o.todo # <<>>
                      /\ \E u \in Takeable : /\ o.taken[1] = Text(u)
                                             /\ Means(u, v.meant[Head(o.todo)], Head(o.todo) \in v.lost)
    BY <1>5 DEF TakenRight
  <2>1. PICK u \in Takeable : /\ o.taken[1] = Text(u)
                              /\ Means(u, o.meant[Head(o.todo)], Head(o.todo) \in o.lost)
    BY <1>1 DEF Keeps, TakenRight
  <2>2. o.pc = "encrypting" /\ o.todo # <<>> /\ Head(o.todo) \in Fields
    BY <1>1, Queue DEF Keeps, TakenRight, IsProcess
  <2>3. Means(u, v.meant[Head(o.todo)], Head(o.todo) \in v.lost)
    BY <1>4, <1>5, <2>1, <2>2 DEF Means
  <2> QED BY <2>1, <2>2, <2>3
<1>9. Keeps(v, actives)
  BY <1>1, <1>5, <1>6, <1>7, <1>8 DEF Keeps
<1> QED BY <1>2, <1>9, Step DEF Inv

LEMMA SaveKeeps ==
  ASSUME Inv, NEW p \in Procs, Save(p)  PROVE Inv'
<1> DEFINE o == proc[p]
           v == [o EXCEPT !.pc = "encrypting", !.todo = FieldOrder]
<1>1. Keeps(o, actives) /\ IsProcess(o) /\ o.pc = "loaded" /\ IsService(o.svc)
  BY DEF Inv, Keeps, Save, At
<1>2. Goes(p, v) /\ UNCHANGED <<row, meant, late, lost, actives, boots, sets>>
  BY DEF Save, db
<1>3. /\ IsProcess(v) /\ v.pc = "encrypting" /\ v.svc = o.svc /\ v.meant = o.meant /\ v.taken = o.taken
      /\ v.entity = o.entity /\ v.lost = o.lost /\ v.todo = FieldOrder
  BY <1>1, AnOrder DEF IsProcess
<1> HIDE DEF v, o
<1>4. \A f \in Fields : Pending(v.todo, f)
  BY <1>3 DEF Pending, Fields
<1>5. Keeps(v, actives)
  BY <1>1, <1>3, <1>4 DEF Keeps, SavedSoFar, TakenRight
<1> QED BY <1>2, <1>5, Step DEF Inv

\* What the hook passes over may be written as it is; what it takes is a text.
LEMMA Passes ==
  ASSUME NEW c, NEW t, NEW k, NEW b, NEW x, Held(c, t, x, k)
  PROVE  IF ToEncrypt(c) THEN \E u \in Takeable : c = Text(u) /\ Means(u, t, x)
                         ELSE AtRest(c, t, b, x, k)
<1>1. CASE \E u \in Texts : Means(u, t, x) /\ Sealed(c, u, k)
  <2>1. c.kind = "envelope" /\ ~ ToEncrypt(c)
    BY <1>1 DEF Sealed, ToEncrypt, IsEnvelope
  <2> QED BY <1>1, <2>1 DEF AtRest
<1>2. CASE Plain(c, t, x)
  <2>1. PICK u \in Texts : Means(u, t, x) /\ c = Text(u)
    BY <1>2 DEF Plain
  <2>2. c.kind = "text" /\ (ToEncrypt(c) <=> u \in Takeable)
    BY <2>1, Texted DEF ToEncrypt, IsEnvelope, Takeable
  <2> QED BY <2>1, <2>2 DEF AtRest, Means, Takeable
<1> QED BY <1>1, <1>2 DEF Held

LEMMA PassKeeps ==
  ASSUME Inv, NEW p \in Procs, PassField(p)  PROVE Inv'
<1> DEFINE o == proc[p]
           h == Head(o.todo)
           v == [o EXCEPT !.todo = Tail(@)]
<1>1. Keeps(o, actives) /\ IsProcess(o) /\ o.pc = "encrypting" /\ o.todo # <<>> /\ o.todo \in Seq(Fields)
  BY DEF Inv, Keeps, IsProcess, PassField, Busy, At
<1>2. /\ h \in Fields /\ Tail(o.todo) \in Seq(Fields)
      /\ \A f : Pending(o.todo, f) => f = h \/ Pending(Tail(o.todo), f)
  BY <1>1, Queue
<1>3. AtRest(o.entity[h], o.meant[h], h \in o.late, h \in o.lost, actives) /\ o.taken = <<>>
  <2>1. Held(o.entity[h], o.meant[h], h \in o.lost, actives) /\ ~ ToEncrypt(o.entity[h])
    BY <1>1, <1>2 DEF Keeps, PassField, Cell, Next1
  <2>2. o.taken = <<>>
    BY DEF PassField
  <2> QED BY <2>1, <2>2, Passes
<1>4. Goes(p, v) /\ UNCHANGED <<row, meant, late, lost, actives, boots, sets>>
  BY DEF PassField, db
<1>5. /\ IsProcess(v) /\ v.pc = o.pc /\ v.svc = o.svc /\ v.meant = o.meant /\ v.taken = o.taken
      /\ v.entity = o.entity /\ v.late = o.late /\ v.lost = o.lost /\ v.todo = Tail(o.todo)
  BY <1>1, <1>2 DEF IsProcess
<1> HIDE DEF v, h, o
<1>6. Keeps(v, actives)
  BY <1>1, <1>2, <1>3, <1>5 DEF Keeps, SavedSoFar, TakenRight
<1> QED BY <1>4, <1>6, Step DEF Inv

LEMMA TakeKeeps ==
  ASSUME Inv, NEW p \in Procs, TakeField(p)  PROVE Inv'
<1> DEFINE o == proc[p]
           h == Head(o.todo)
           v == [o EXCEPT !.taken = <<o.entity[h]>>]
<1>1. Keeps(o, actives) /\ IsProcess(o) /\ o.pc = "encrypting" /\ o.todo # <<>> /\ o.todo \in Seq(Fields)
  BY DEF Inv, Keeps, IsProcess, TakeField, Busy, At
<1>2. h \in Fields
  BY <1>1, Queue
<1>3. \E u \in Takeable : o.entity[h] = Text(u) /\ Means(u, o.meant[h], h \in o.lost)
  <2>1. Held(o.entity[h], o.meant[h], h \in o.lost, actives) /\ ToEncrypt(o.entity[h])
    BY <1>1, <1>2 DEF Keeps, TakeField, Cell, Next1
  <2> QED BY <2>1, Passes
<1>4. Goes(p, v) /\ UNCHANGED <<row, meant, late, lost, actives, boots, sets>>
  BY DEF TakeField, Cell, Next1, db
<1>5. /\ IsProcess(v) /\ v.pc = o.pc /\ v.svc = o.svc /\ v.meant = o.meant
      /\ v.entity = o.entity /\ v.late = o.late /\ v.lost = o.lost /\ v.todo = o.todo
      /\ v.taken[1] = o.entity[h] /\ h = Head(v.todo)
  BY <1>1 DEF IsProcess
<1> HIDE DEF v, h, o
<1>6. SavedSoFar(v, actives)
  BY <1>1, <1>5 DEF Keeps, SavedSoFar
<1>7. TakenRight(v)
  BY <1>1, <1>3, <1>5 DEF TakenRight
<1>8. Keeps(v, actives)
  BY <1>1, <1>5, <1>6, <1>7 DEF Keeps
<1> QED BY <1>4, <1>8, Step DEF Inv

LEMMA PutKeeps ==
  ASSUME Inv, NEW p \in Procs, PutField(p)  PROVE Inv'
<1> DEFINE o == proc[p]
           h == Head(o.todo)
           c == Encrypt(o.svc, o.taken[1])
           l == o.late \ {h}
           v == [o EXCEPT !.entity[h] = c, !.late = l, !.todo = Tail(@), !.taken = <<>>]
<1>1. /\ Keeps(o, actives) /\ IsProcess(o) /\ o.pc = "encrypting" /\ o.todo # <<>> /\ o.todo \in Seq(Fields)
      /\ o.taken # <<>>
  BY DEF Inv, Keeps, IsProcess, PutField, Busy, At
<1>2. /\ h \in Fields /\ Tail(o.todo) \in Seq(Fields)
      /\ \A f : Pending(o.todo, f) => f = h \/ Pending(Tail(o.todo), f)
  BY <1>1, Queue
<1>3. \E u \in Texts : Means(u, o.meant[h], h \in o.lost) /\ Sealed(c, u, actives)
  <2>1. PICK u \in Takeable : o.taken[1] = Text(u) /\ Means(u, o.meant[h], h \in o.lost)
    BY <1>1 DEF Keeps, TakenRight
  <2>2. Sealed(c, u, actives)
    BY <1>1, <2>1 DEF Keeps, Registered, Encrypt, Sealed
  <2> QED BY <2>1, <2>2 DEF Takeable
<1>4. Goes(p, v) /\ UNCHANGED <<row, meant, late, lost, actives, boots, sets>>
  BY DEF PutField, Next1, db
<1> HIDE DEF c
<1>5. l \subseteq Fields /\ \A g \in Fields : g # h => (g \in l <=> g \in o.late)
  BY <1>1 DEF IsProcess
<1> HIDE DEF l, h
<1>6. /\ IsProcess(v) /\ v.pc = o.pc /\ v.svc = o.svc /\ v.late = l /\ v.todo = Tail(o.todo) /\ v.taken = <<>>
      /\ v.meant = o.meant /\ v.lost = o.lost
      /\ \A g \in Fields : v.entity[g] = IF g = h THEN c ELSE o.entity[g]
  BY <1>1, <1>2, <1>5 DEF IsProcess
<1> HIDE DEF v, o
<1>7. \A g \in Fields : Held(v.entity[g], v.meant[g], g \in v.lost, actives)
  BY <1>1, <1>3, <1>6 DEF Keeps, Held
<1>8. SavedSoFar(v, actives)
  <2> SUFFICES ASSUME NEW g \in Fields, ~ Pending(Tail(o.todo), g)
               PROVE  AtRest(v.entity[g], v.meant[g], g \in v.late, g \in v.lost, actives)
    BY <1>6 DEF SavedSoFar
  <2>1. CASE g = h
    BY <1>3, <1>6, <2>1 DEF AtRest
  <2>2. CASE g # h
    <3>1. AtRest(o.entity[g], o.meant[g], g \in o.late, g \in o.lost, actives)
      BY <1>1, <1>2, <2>2 DEF Keeps, SavedSoFar
    <3> QED BY <1>5, <1>6, <2>2, <3>1 DEF AtRest
  <2> QED BY <2>1, <2>2
<1>9. Keeps(v, actives)
  BY <1>1, <1>6, <1>7, <1>8 DEF Keeps, TakenRight
<1> QED BY <1>4, <1>9, Step DEF Inv

LEMMA WriteKeeps ==
  ASSUME Inv, NEW p \in Procs, Write(p)  PROVE Inv'
<1> DEFINE o == proc[p]
           v == [o EXCEPT !.pc = "loaded"]
<1>1. Keeps(o, actives) /\ IsProcess(o) /\ o.pc = "encrypting" /\ o.todo = <<>>
  BY DEF Inv, Keeps, Write, At
<1>2. Goes(p, v) /\ UNCHANGED <<actives, boots, sets>>
  BY DEF Write
<1>3. /\ IsProcess(v) /\ v.pc = "loaded" /\ v.svc = o.svc /\ v.meant = o.meant /\ v.taken = o.taken
      /\ v.entity = o.entity /\ v.lost = o.lost
  BY <1>1 DEF IsProcess
<1>4. Stored(o.entity, o.meant, o.late, o.lost, actives)
  BY <1>1 DEF Keeps, IsProcess, Pending, Stored, SavedSoFar
<1>5. Stored(row', meant', late', lost', actives)
  BY <1>4 DEF Write, db, Inv
<1> HIDE DEF v, o
<1>6. Keeps(v, actives)
  BY <1>1, <1>3 DEF Keeps, TakenRight
<1> QED BY <1>2, <1>5, <1>6, Step DEF Inv

-----------------------------------------------------------------------------
(* The theorems.                                                            *)

LEMMA Invariant == Spec => []Inv
<1>1. Init => Inv
  <2> SUFFICES ASSUME Init PROVE Inv
    OBVIOUS
  <2>1. Stored(row, meant, late, lost, actives)
    BY Shape DEF Init, Stored, AtRest, Text
  <2>2. Registered(NoService, actives)
    BY DEF Registered, NoService, IsService
  <2>3. Keeps(Down, actives)
    BY <2>1, <2>2, Fresh DEF Down
  <2>4. proc = [p \in Procs |-> proc[p]] /\ \A p \in Procs : proc[p] = Down
    BY DEF Init
  <2>5. boots \in 0 .. MaxBoots /\ sets \in 0 .. MaxSets
    <3>1. boots = 0 /\ sets = 0
      BY DEF Init
    <3> QED BY <3>1, Bounds
  <2> QED BY <2>1, <2>3, <2>4, <2>5 DEF Inv
<1>2. Inv /\ [Next]_vars => Inv'
  <2> SUFFICES ASSUME Inv, [Next]_vars PROVE Inv'
    OBVIOUS
  <2>1. CASE UNCHANGED vars
    BY <2>1 DEF vars, Inv
  <2>2. ASSUME NEW p \in Procs,
               \/ Boot(p) \/ Register(p) \/ Load(p) \/ DecryptField(p) \/ LoadFails(p) \/ Loaded(p)
               \/ Save(p) \/ PassField(p) \/ TakeField(p) \/ PutField(p) \/ Write(p)
        PROVE  Inv'
    BY <2>2, BootKeeps, RegisterKeeps, LoadKeeps, DecryptKeeps, LoadedKeeps, SaveKeeps, PassKeeps,
       TakeKeeps, PutKeeps, WriteKeeps
  <2>3. ASSUME NEW p \in Procs, NEW f \in Fields, NEW t \in Texts, Set(p, f, t) PROVE Inv'
    BY <2>3, SetKeeps
  <2>4. CASE Finished
    BY <2>1, <2>4 DEF Finished, vars
  <2> QED BY <2>1, <2>2, <2>3, <2>4 DEF Next
<1> QED BY <1>1, <1>2, PTL DEF Spec

\* Types hold, and every column at rest is the text it was last assigned, encrypted
\* once under a key that was active, but for the texts that may be in plain and the
\* assignments that were lost, for any number of processes, fields, environments
\* and assignments.
THEOREM StoredEncrypted == Spec => []EncryptionInv
<1>1. Inv => TypeOK
  <2> SUFFICES ASSUME Inv PROVE TypeOK
    OBVIOUS
  <2>1. \A p \in Procs : IsProcess(proc[p])
    BY DEF Inv, Keeps
  <2>2. \A p \in Procs : \A i \in DOMAIN proc[p].todo : proc[p].todo[i] \in Fields
    <3>1. \A p \in Procs : proc[p].todo \in Seq(Fields)
      BY <2>1 DEF IsProcess
    <3>2. \A s \in Seq(Fields) : \A i \in DOMAIN s : s[i] \in Fields
      OBVIOUS
    <3> QED BY <3>1, <3>2
  <2> QED BY <2>1, <2>2 DEF Inv, IsProcess, Stored, TypeOK
<1>2. Inv => AtRestIsEncrypted
  BY Texted DEF Inv, Stored, AtRest, Sealed, Means, AtRestIsEncrypted
<1> QED BY <1>1, <1>2, Invariant, PTL DEF EncryptionInv

\* The steps that end a load.
LEMMA LoadEnds ==
  ASSUME Inv, [Next]_vars, NEW p \in Procs, At(p, "decrypting")
  PROVE  /\ proc'[p].pc = "loaded" => Loaded(p)
         /\ proc'[p].pc = "idle" /\ boots' = boots => LoadFails(p)
<1>1. proc = [q \in Procs |-> proc[q]] /\ proc[p].pc = "decrypting" /\ boots \in Nat
      /\ IsProcess(proc[p])
  BY Bounds DEF At, Inv, Keeps
<1>2. CASE proc'[p] = proc[p]
  BY <1>1, <1>2
<1>3. ASSUME NEW q \in Procs, NEW v, Goes(q, v), proc'[p] # proc[p]
      PROVE  q = p /\ proc'[p] = v
  BY <1>1, <1>3 DEF Goes
<1>4. ASSUME Boot(p), proc'[p] # proc[p]  PROVE boots' # boots /\ proc'[p].pc # "loaded"
  BY <1>1, <1>3, <1>4 DEF Boot, Down, Process
<1>5. ASSUME DecryptField(p), proc'[p] # proc[p]  PROVE proc'[p].pc = "decrypting"
  <2> DEFINE h == Head(proc[p].todo)
             c == IF IsEnvelope(proc[p].entity[h]) THEN proc[p].entity[h].of ELSE proc[p].entity[h]
             v == [proc[p] EXCEPT !.todo = Tail(@), !.entity[h] = c]
  <2>1. Goes(p, v)
    BY <1>5 DEF DecryptField, Next1
  <2> HIDE DEF c, h
  <2>2. v.pc = "decrypting"
    BY <1>1 DEF IsProcess
  <2> QED BY <1>3, <1>5, <2>1, <2>2
<1>6. ASSUME Load(p)  PROVE FALSE
  BY <1>1, <1>6 DEF Load
<1>7. ASSUME LoadFails(p), proc'[p] # proc[p]  PROVE proc'[p].pc # "loaded"
  BY <1>1, <1>3, <1>7 DEF LoadFails, Process
<1>8. ASSUME Loaded(p), proc'[p] # proc[p]  PROVE proc'[p].pc # "idle"
  BY <1>1, <1>3, <1>8 DEF Loaded, IsProcess
<1>9. ~ (Register(p) \/ Save(p) \/ PassField(p) \/ TakeField(p) \/ PutField(p) \/ Write(p)
         \/ \E f \in Fields, t \in Texts : Set(p, f, t))
  BY <1>1 DEF Register, Save, PassField, TakeField, PutField, Write, Set, Busy, At
<1>10. ASSUME NEW q \in Procs, proc'[p] # proc[p],
              \/ Boot(q) \/ Register(q) \/ Load(q) \/ DecryptField(q) \/ LoadFails(q) \/ Loaded(q)
              \/ Save(q) \/ PassField(q) \/ TakeField(q) \/ PutField(q) \/ Write(q)
              \/ \E f \in Fields, t \in Texts : Set(q, f, t)
       PROVE  q = p
  <2>1. \E v : Goes(q, v)
    BY <1>10 DEF Boot, Register, Load, DecryptField, LoadFails, Loaded, Save, PassField, TakeField,
       PutField, Write, Set
  <2> QED BY <1>3, <1>10, <2>1
<1> QED BY <1>2, <1>4, <1>5, <1>6, <1>7, <1>8, <1>9, <1>10 DEF Next, Finished, vars

\* A load that succeeds has given every field the text it was last assigned, or,
\* where that was lost, one it was assigned before.
THEOREM LoadsAreTrue == Spec => ReadsBack
<1>1. ASSUME Inv, [Next]_vars, NEW p \in Procs, At(p, "decrypting"), proc'[p].pc = "loaded",
             NEW f \in Fields
      PROVE  \/ proc'[p].entity[f] = Text(proc'[p].meant[f])
             \/ f \in proc'[p].lost /\ proc'[p].entity[f] \in {Text(t) : t \in Texts \ Lookalikes}
  <2>1. Loaded(p) /\ Keeps(proc[p], actives) /\ IsProcess(proc[p])
    BY <1>1, LoadEnds DEF Inv, Keeps
  <2>2. Plain(proc[p].entity[f], proc[p].meant[f], f \in proc[p].lost)
    BY <1>1, <2>1 DEF Keeps, LoadedSoFar, Pending, Loaded, At
  <2>3. /\ proc'[p].entity = proc[p].entity /\ proc'[p].meant = proc[p].meant
        /\ proc'[p].lost = proc[p].lost
    BY <1>1, <2>1 DEF Loaded, Goes, Inv, IsProcess
  <2> QED BY <2>2, <2>3 DEF Plain, Means, Takeable
<1>2. Inv /\ [Next]_vars
      => [\A p \in Procs : (At(p, "decrypting") /\ proc'[p].pc = "loaded") =>
            \A f \in Fields :
              \/ proc'[p].entity[f] = Text(proc'[p].meant[f])
              \/ f \in proc'[p].lost /\ proc'[p].entity[f] \in {Text(t) : t \in Texts \ Lookalikes}]_vars
  BY <1>1
<1> QED BY <1>2, Invariant, PTL DEF Spec, ReadsBack

\* A load that throws while every key that was ever active is at hand has met a
\* text that reads like an envelope.
THEOREM OldKeysRead == Spec => KeptKeysRead
<1>1. ASSUME Inv, [Next]_vars, NEW p \in Procs, At(p, "decrypting"), proc'[p].pc = "idle",
             boots' = boots, IsService(proc[p].svc), HasEveryKey(proc[p].svc)
      PROVE  \E f \in Fields : proc[p].meant[f] \in Lookalikes
  <2> DEFINE o == proc[p]
             h == Head(o.todo)
             c == o.entity[h]
  <2>1. /\ LoadFails(p) /\ Keeps(o, actives) /\ o.pc = "decrypting"
        /\ o.todo # <<>> /\ o.todo \in Seq(Fields)
    BY <1>1, LoadEnds DEF Inv, Keeps, IsProcess, LoadFails, Busy, At
  <2>2. h \in Fields
    BY <2>1, Queue
  <2>3. Held(c, o.meant[h], h \in o.lost, actives)
    BY <2>1, <2>2 DEF Keeps
  <2>4. IsEnvelope(c) /\ ~ Decryptable(o.svc, c)
    BY <1>1, <2>1 DEF LoadFails, Cell, Next1
  <2> HIDE DEF h, c
  <2>5. \A u \in Texts : ~ Sealed(c, u, actives)
    BY <1>1, <2>4 DEF Sealed, HasEveryKey, Decryptable
  <2>6. o.meant[h] \in Lookalikes
    <3>1. PICK u \in Texts : Means(u, o.meant[h], h \in o.lost) /\ c = Text(u)
      BY <2>3, <2>5 DEF Held, Plain
    <3>2. u \in Lookalikes
      BY <2>4, <3>1, Texted DEF IsEnvelope
    <3> QED BY <3>1, <3>2 DEF Means, Takeable
  <2> QED BY <2>2, <2>6
<1>2. Inv /\ [Next]_vars
      => [\A p \in Procs :
            (/\ At(p, "decrypting") /\ proc'[p].pc = "idle" /\ boots' = boots
             /\ IsService(proc[p].svc) /\ HasEveryKey(proc[p].svc))
            => \E f \in Fields : proc[p].meant[f] \in Lookalikes]_vars
  BY <1>1
<1> QED BY <1>2, Invariant, PTL DEF Spec, KeptKeysRead
=============================================================================
