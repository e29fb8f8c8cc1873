-------------------------- MODULE ColumnEncryption --------------------------
(***************************************************************************)
(* Columns encrypted by the application: encryption/encryption.service.ts, *)
(* the module that builds the service from the environment, and encryptAll *)
(* and decryptAll of encrypted.decorator.ts, called from an entity's       *)
(* BeforeUpdate and AfterLoad hooks.  Processes that share one row restart *)
(* with other keys; a step is what runs between two awaits.                *)
(*                                                                         *)
(* AES-GCM is external: an envelope opens with the material it was made    *)
(* with and throws otherwise.  TypeORM is external: save() writes every    *)
(* column of the entity.                                                   *)
(***************************************************************************)
EXTENDS Naturals, Sequences, FiniteSets

CONSTANTS
  Procs,        \* the processes of the service
  FieldOrder,   \* the fields as the hooks list them
  Texts,        \* the values the application gives them
  Lookalikes,   \* those that read like an envelope, "v1:a:b:c:d"
  Environments, \* what the environment may hold: keys in order, and the active id
  MaxBoots,     \* bound on starts and restarts
  MaxSets       \* bound on the assignments of the application

Fields == {FieldOrder[i] : i \in DOMAIN FieldOrder}

ASSUME Shape == Lookalikes \subseteq Texts /\ "" \in Texts
ASSUME AnOrder == FieldOrder \in Seq(Fields)
ASSUME Bounds == MaxBoots \in Nat /\ MaxSets \in Nat

VARIABLES
  proc,     \* proc[p]: the service and the entity process p holds
  row,      \* the columns in the database
  meant,    \* history: the texts they were last assigned
  late,     \* history: the columns assigned after a save had been at them
  lost,     \* history: the columns assigned while they were being encrypted
  actives,  \* history: the keys that were active in some process, ids and materials
  boots, sets

vars == <<proc, row, meant, late, lost, actives, boots, sets>>
db == <<row, meant, late, lost>>

None == "none"
Text(t) == [kind |-> "text", text |-> t]

-----------------------------------------------------------------------------
(* The service.                                                             *)

\* The key an id stands for; of two with one id the later counts.
Ids(keys) == {keys[i].id : i \in DOMAIN keys}
Keys(keys) == [id \in Ids(keys) |->
  keys[CHOOSE i \in DOMAIN keys :
         keys[i].id = id /\ \A j \in DOMAIN keys : keys[j].id = id => j <= i].material]

NoService == [active |-> None, keys |-> <<>>]
IsService(svc) == svc.active # None

\* The constructor throws without keys, or without the active one among them.
Service(active, keys) ==
  IF keys = <<>> \/ active \notin Ids(keys) THEN NoService ELSE [active |-> active, keys |-> Keys(keys)]

\* fromEnv(): PII_ENCRYPTION_KEYS, the first active by default.
FromEnv(env) ==
  IF env.keys = <<>> THEN NoService
  ELSE Service(IF env.active = None THEN env.keys[1].id ELSE env.active, env.keys)

Encrypt(svc, cell) ==
  [kind |-> "envelope", key |-> svc.active, material |-> svc.keys[svc.active], of |-> cell]

IsEnvelope(cell) == cell.kind = "envelope" \/ cell \in {Text(t) : t \in Lookalikes}

Decryptable_Active(svc, cell) ==
  /\ cell.kind = "envelope" /\ IsService(svc)
  /\ svc.keys[svc.active] = cell.material

Decryptable(svc, cell) ==
  /\ cell.kind = "envelope"
  /\ cell.key \in DOMAIN svc.keys
  /\ svc.keys[cell.key] = cell.material

-----------------------------------------------------------------------------


\* What a process holds: the service forRoot() built and the one the decorator
\* uses, an entity, the fields its hook has still to go through, and the value
\* being encrypted.
Process(pc, built, svc, todo) ==
  [pc |-> pc, built |-> built, svc |-> svc, entity |-> row, meant |-> meant, late |-> late, lost |-> lost,
   todo |-> todo, taken |-> <<>>]
Down == Process("down", NoService, NoService, <<>>)

Init == /\ row = [f \in Fields |-> Text("")]
        /\ meant = [f \in Fields |-> ""]
        /\ late = {} /\ lost = {}
        /\ proc = [p \in Procs |-> Down]
        /\ actives = {}
        /\ boots = 0 /\ sets = 0

At(p, pc) == proc[p].pc = pc
Goes(p, v) == proc' = [proc EXCEPT ![p] = v]

\* forRoot(): a process whose environment gives no service does not start.
Boot(p) ==
  /\ boots < MaxBoots /\ boots' = boots + 1
  /\ \E env \in Environments :
       Goes(p, IF IsService(FromEnv(env)) THEN Process("idle", FromEnv(env), NoService, <<>>) ELSE Down)
  /\ UNCHANGED <<db, actives, sets>>

\* setEncryptionService() is left to the application.
Register(p) ==
  /\ At(p, "idle") /\ ~ IsService(proc[p].svc)
  /\ Goes(p, [proc[p] EXCEPT !.svc = proc[p].built])
  /\ actives' = actives \cup {[id |-> proc[p].built.active,
                               material |-> proc[p].built.keys[proc[p].built.active]]}
  /\ UNCHANGED <<db, boots, sets>>

-----------------------------------------------------------------------------
(* Loading: the row, then decryptAll() field by field.                      *)

Load(p) ==
  /\ proc[p].pc \in {"idle", "loaded"}
  /\ Goes(p, Process("decrypting", proc[p].built, proc[p].svc, FieldOrder))
  /\ UNCHANGED <<db, actives, boots, sets>>

Next1(p) == Head(proc[p].todo)
Cell(p) == proc[p].entity[Next1(p)]
Busy(p, pc) == At(p, pc) /\ proc[p].todo # <<>>

DecryptField_Swallows(p) ==
  /\ Busy(p, "decrypting") /\ IsService(proc[p].svc)
  /\ Goes(p, [proc[p] EXCEPT
       !.todo = Tail(@),
       !.entity[Next1(p)] = IF Decryptable(proc[p].svc, @) THEN @.of ELSE @])
  /\ UNCHANGED <<db, actives, boots, sets>>

DecryptField(p) ==
  /\ Busy(p, "decrypting") /\ IsService(proc[p].svc)
  /\ IsEnvelope(Cell(p)) => Decryptable(proc[p].svc, Cell(p))
  /\ Goes(p, [proc[p] EXCEPT
       !.todo = Tail(@),
       !.entity[Next1(p)] = IF IsEnvelope(@) THEN @.of ELSE @])
  /\ UNCHANGED <<db, actives, boots, sets>>

\* No service is registered, or the envelope does not open: the load throws.
LoadFails(p) ==
  /\ Busy(p, "decrypting")
  /\ \/ ~ IsService(proc[p].svc)
     \/ IsEnvelope(Cell(p)) /\ ~ Decryptable(proc[p].svc, Cell(p))
  /\ Goes(p, Process("idle", proc[p].built, proc[p].svc, <<>>))
  /\ UNCHANGED <<db, actives, boots, sets>>

Loaded(p) ==
  /\ At(p, "decrypting") /\ proc[p].todo = <<>>
  /\ Goes(p, [proc[p] EXCEPT !.pc = "loaded"])
  /\ UNCHANGED <<db, actives, boots, sets>>

-----------------------------------------------------------------------------
(* Saving: encryptAll() in place, then the write.                           *)

Behind(p, f) == At(p, "encrypting") /\ \A i \in DOMAIN proc[p].todo : proc[p].todo[i] # f

Awaited(p, f) == Busy(p, "encrypting") /\ proc[p].taken # <<>> /\ f = Next1(p)

\* The setter of the decorated property, which a save under way does not stop.
Set(p, f, t) ==
  /\ proc[p].pc \in {"loaded", "encrypting"} /\ sets < MaxSets
  /\ Goes(p, [proc[p] EXCEPT !.entity[f] = Text(t), !.meant[f] = t,
                             !.late = IF Behind(p, f) THEN @ \cup {f} ELSE @ \ {f},
                             !.lost = IF Awaited(p, f) THEN @ \cup {f} ELSE @ \ {f}])
  /\ sets' = sets + 1
  /\ UNCHANGED <<db, actives, boots>>

\* Without a registered service encryptAll() throws, and nothing is saved.
Save(p) ==
  /\ At(p, "loaded") /\ IsService(proc[p].svc)
  /\ Goes(p, [proc[p] EXCEPT !.pc = "encrypting", !.todo = FieldOrder])
  /\ UNCHANGED <<db, actives, boots, sets>>

ToEncrypt_Always(cell) == cell # Text("")
ToEncrypt(cell) == cell # Text("") /\ ~ IsEnvelope(cell)

PassField(p) ==
  /\ Busy(p, "encrypting") /\ proc[p].taken = <<>>
  /\ ~ ToEncrypt(Cell(p))
  /\ Goes(p, [proc[p] EXCEPT !.todo = Tail(@)])
  /\ UNCHANGED <<db, actives, boots, sets>>

TakeField(p) ==
  /\ Busy(p, "encrypting") /\ proc[p].taken = <<>>
  /\ ToEncrypt(Cell(p))
  /\ Goes(p, [proc[p] EXCEPT !.taken = <<Cell(p)>>])
  /\ UNCHANGED <<db, actives, boots, sets>>

\* After the await, over what was assigned meanwhile.
PutField(p) ==
  /\ Busy(p, "encrypting") /\ proc[p].taken # <<>>
  /\ Goes(p, [proc[p] EXCEPT
       !.entity[Next1(p)] = Encrypt(proc[p].svc, proc[p].taken[1]),
       !.late = @ \ {Next1(p)},
       !.todo = Tail(@), !.taken = <<>>])
  /\ UNCHANGED <<db, actives, boots, sets>>

\* The row is written, or the write rejects; the entity keeps the envelopes.
Write(p) ==
  /\ At(p, "encrypting") /\ proc[p].todo = <<>>
  /\ \/ /\ row' = proc[p].entity /\ meant' = proc[p].meant
        /\ late' = proc[p].late /\ lost' = proc[p].lost
     \/ UNCHANGED db
  /\ Goes(p, [proc[p] EXCEPT !.pc = "loaded"])
  /\ UNCHANGED <<actives, boots, sets>>

Finished == boots = MaxBoots /\ (\A p \in Procs : At(p, "down")) /\ UNCHANGED vars

Next ==
  \/ \E p \in Procs :
       \/ Boot(p) \/ Register(p)
       \/ Load(p) \/ DecryptField(p) \/ LoadFails(p) \/ Loaded(p)
       \/ Save(p) \/ PassField(p) \/ TakeField(p) \/ PutField(p) \/ Write(p)
       \/ \E f \in Fields, t \in Texts : Set(p, f, t)
  \/ Finished

Spec == Init /\ [][Next]_vars

-----------------------------------------------------------------------------
(* Properties                                                              *)

\* Types.
TypeOK ==
  /\ \A p \in Procs :
       /\ proc[p].pc \in {"down", "idle", "decrypting", "loaded", "encrypting"}
       /\ proc[p].meant \in [Fields -> Texts]
       /\ proc[p].late \cup proc[p].lost \subseteq Fields
       /\ \A i \in DOMAIN proc[p].todo : proc[p].todo[i] \in Fields
  /\ meant \in [Fields -> Texts] /\ late \cup lost \subseteq Fields
  /\ boots \in 0 .. MaxBoots /\ sets \in 0 .. MaxSets

\* What the decorator "stores on disk as the v1 envelope" (encrypted.decorator.ts:4)
\* is the text last assigned, encrypted once under a key that was active, whoever
\* saved it and however often.  "Is encrypted before persistence" (:23) does not
\* hold of a text that reads like an envelope, nor of one assigned behind the hook:
\* these are at rest in plain.  One assigned while its column was being encrypted
\* is lost to an earlier one.  Nothing else is in plain, and nothing else lost.
AtRestIsEncrypted ==
  \A f \in Fields :
    \/ row[f] = Text(meant[f]) /\ (meant[f] \in Lookalikes \cup {""} \/ f \in late)
    \/ /\ row[f].kind = "envelope" /\ row[f].of.kind = "text"
       /\ row[f].of = Text(meant[f]) \/ f \in lost
       /\ [id |-> row[f].key, material |-> row[f].material] \in actives

\* Whatever two processes save, load and assign, and whichever keys they were
\* started with: the states are of their types, and columns are encrypted.
EncryptionInv == TypeOK /\ AtRestIsEncrypted

\* "On read, customer.pan returns the plaintext": a load that succeeds gives
\* every field the text it was last assigned, unless that assignment was lost,
\* and then one assigned before.
ReadsBack ==
  [][\A p \in Procs : (At(p, "decrypting") /\ proc'[p].pc = "loaded") =>
       \A f \in Fields :
         \/ proc'[p].entity[f] = Text(proc'[p].meant[f])
         \/ f \in proc'[p].lost /\ proc'[p].entity[f] \in {Text(t) : t \in Texts \ Lookalikes}]_vars

\* "Old keys remain available for decryption": a load throws only where some
\* key that was active is missing, or a text reads like an envelope.
HasEveryKey(svc) == \A k \in actives : k.id \in DOMAIN svc.keys /\ svc.keys[k.id] = k.material
KeptKeysRead ==
  [][\A p \in Procs :
       (/\ At(p, "decrypting") /\ proc'[p].pc = "idle" /\ boots' = boots
        /\ IsService(proc[p].svc) /\ HasEveryKey(proc[p].svc))
       => \E f \in Fields : proc[p].meant[f] \in Lookalikes]_vars
=============================================================================
