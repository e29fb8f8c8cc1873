------------------------- MODULE ModuleAnnouncement -------------------------
(***************************************************************************)
(* Rounds of announce() in module-announcement/service.ts, the boot timer's*)
(* and those an endpoint triggers.  A round connects a producer, publishes *)
(* the signed manifest, disconnects, and sets a timer to notify the module *)
(* registry; all rounds of a service share this.producer, which each reads *)
(* again before it publishes and before it disconnects.                    *)
(*                                                                         *)
(* The broker is external: connect, send and disconnect may reject.  A     *)
(* JSON object is its members in order, a member <<key, value>>.           *)
(***************************************************************************)
EXTENDS Naturals, Sequences, FiniteSets, SequencesExt, TLC

CONSTANTS
  Rounds,        \* the calls of announce()
  Declarations,  \* what a manifest's `dependencies` may be
  MaxVersion     \* bound on the versions of the manifest

ASSUME BoundedVersions == MaxVersion \in Nat \ {0}

VARIABLES
  manifest,  \* the manifest, edited at any time
  current,   \* this.producer: the round whose producer it is
  link,      \* link[r]: the connection of the producer round r made
  round,     \* round[r]: where round r is
  topic,     \* the messages on the announcements topic
  notices    \* the rounds whose notice went to the module registry

roundVars == <<manifest, current, link, round, topic, notices>>

-----------------------------------------------------------------------------
(* The message.                                                             *)

Item(o, key) == SelectSeq(o, LAMBDA m : m[1] = key)
Strings(ms) == FlattenSeq([i \in DOMAIN ms |-> ms[i][2]])

\* normaliseDependenciesV2(): a list counts as platform, and so does every key
\* of an object but 'business'; anything else declares nothing.
NormaliseDependenciesV2(raw) ==
  CASE raw.kind = "list" -> <<<<"platform", raw.items>>, <<"business", <<>>>>>>
    [] raw.kind = "object" ->
         <<<<"platform", Strings(SelectSeq(raw.items, LAMBDA m : m[1] # "business"))>>,
           <<"business", Strings(Item(raw.items, "business"))>>>>
    [] OTHER -> <<<<"platform", <<>>>>, <<"business", <<>>>>>>

\* canonicalize(): the members of an object, and of the objects in it, by key.
Place == [business |-> 1, dependencies |-> 2, manifestUrl |-> 3, moduleId |-> 4,
          platform |-> 5, version |-> 6]
Before(m, members) == {n \in members : Place[n[1]] < Place[m[1]]}
Sorted(o) ==
  LET members == ToSet(o)
  IN [i \in DOMAIN o |-> CHOOSE m \in members : Cardinality(Before(m, members)) = i - 1]
Member(m) == IF m[1] = "dependencies" THEN <<m[1], Sorted(m[2])>> ELSE m
Canonicalize_Shallow(o) == Sorted(o)
Canonicalize(o) == [i \in DOMAIN o |-> Member(Sorted(o)[i])]

SignedPart(m) == <<<<"dependencies", NormaliseDependenciesV2(m.dependencies)>>,
                   <<"manifestUrl", <<>>>>, <<"moduleId", <<>>>>, <<"version", m.version>>>>

\* The HMAC of a text is the text, for whoever has the secret.
BuildAnnouncementMessage(m) ==
  [payload |-> SignedPart(m), signedToken |-> Canonicalize(SignedPart(m))]

\* verifyHmac(), on the registry's side.
VerifyHmac(payload, signedToken) == Canonicalize(payload) = signedToken

-----------------------------------------------------------------------------
(* The rounds.                                                              *)

Idle == [pc |-> "idle"]
None == "none"

RoundsInit ==
  /\ \E d \in Declarations : manifest = [version |-> 1, dependencies |-> d]
  /\ current = None
  /\ link = [r \in Rounds |-> "new"]
  /\ round = [r \in Rounds |-> Idle]
  /\ topic = <<>>
  /\ notices = {}

EditManifest == /\ manifest.version < MaxVersion
                /\ \E d \in Declarations :
                     manifest' = [version |-> manifest.version + 1, dependencies |-> d]
                /\ UNCHANGED <<current, link, round, topic, notices>>

At(r, pc) == round[r].pc = pc
Under(r) == round[r].pc \in {"connecting", "sending", "disconnecting"}
Goes(r, pc) == round' = [round EXCEPT ![r].pc = pc]
\* The catch: the round goes on to its notice, and nothing is disconnected.  A
\* call the broker `refused` is told from one on a producer not connected.
Fails(r, refused) ==
  round' = [round EXCEPT ![r].pc = "notifying", ![r].clean = @ /\ ~ refused]

\* announce() up to the call of connect().  (`alone` and `clean` are history:
\* no other round overlaps this one, and the broker refused it nothing.)
Start(r) ==
  /\ At(r, "idle")
  /\ current' = r
  /\ round' = [s \in Rounds |->
       IF s = r THEN [pc |-> "connecting", since |-> manifest.version, via |-> None,
                      message |-> None, clean |-> TRUE,
                      alone |-> \A q \in Rounds : ~ Under(q)]
       ELSE IF Under(s) THEN [round[s] EXCEPT !.alone = FALSE] ELSE round[s]]
  /\ UNCHANGED <<manifest, link, topic, notices>>

\* publish() sends through whatever producer is the current one.
Connected(r) ==
  /\ At(r, "connecting")
  /\ link' = [link EXCEPT ![r] = "on"]
  /\ round' = [round EXCEPT ![r].pc = "sending", ![r].via = current,
                            ![r].message = BuildAnnouncementMessage(manifest)]
  /\ UNCHANGED <<manifest, current, topic, notices>>

ConnectFails(r) ==
  /\ At(r, "connecting")
  /\ Fails(r, TRUE)
  /\ UNCHANGED <<manifest, current, link, topic, notices>>

\* The message is on the topic; the current producer is told to disconnect.
Sent_LeavesOpen(r) ==
  /\ At(r, "sending") /\ link[round[r].via] = "on"
  /\ topic' = Append(topic, [by |-> r, message |-> round[r].message])
  /\ Goes(r, "notifying")
  /\ UNCHANGED <<manifest, current, link, notices>>

Sent(r) ==
  /\ At(r, "sending") /\ link[round[r].via] = "on"
  /\ topic' = Append(topic, [by |-> r, message |-> round[r].message])
  /\ round' = [round EXCEPT ![r].pc = "disconnecting", ![r].via = current]
  /\ UNCHANGED <<manifest, current, link, notices>>

\* The broker refuses it, or the producer is not connected, or no more.
SendFails(r) ==
  /\ At(r, "sending")
  /\ Fails(r, link[round[r].via] = "on")
  /\ UNCHANGED <<manifest, current, link, topic, notices>>

Disconnected(r) ==
  /\ At(r, "disconnecting")
  /\ link' = [link EXCEPT ![round[r].via] = IF @ = "on" THEN "off" ELSE @]
  /\ Goes(r, "notifying")
  /\ UNCHANGED <<manifest, current, topic, notices>>

DisconnectFails(r) ==
  /\ At(r, "disconnecting")
  /\ Fails(r, TRUE)
  /\ UNCHANGED <<manifest, current, link, topic, notices>>

Notify_OnlyNews(r) ==
  /\ At(r, "notifying") /\ round[r].clean
  /\ notices' = notices \cup {r}
  /\ Goes(r, "done")
  /\ UNCHANGED <<manifest, current, link, topic>>

\* The timer fires: one POST, whose outcome is only logged.
Notify(r) ==
  /\ At(r, "notifying")
  /\ notices' = notices \cup {r}
  /\ Goes(r, "done")
  /\ UNCHANGED <<manifest, current, link, topic>>

Steps(r) == \/ Connected(r) \/ ConnectFails(r) \/ Sent(r) \/ SendFails(r)
            \/ Disconnected(r) \/ DisconnectFails(r) \/ Notify(r)

Finished == (\A r \in Rounds : At(r, "done")) /\ UNCHANGED roundVars

RoundsNext == EditManifest \/ (\E r \in Rounds : Start(r) \/ Steps(r)) \/ Finished

RoundsSpec == RoundsInit /\ [][RoundsNext]_roundVars

\* The broker's client settles every call, and timers fire.
FairRoundsSpec == RoundsSpec /\ \A r \in Rounds : WF_roundVars(Steps(r))

-----------------------------------------------------------------------------
(* Properties                                                              *)

\* Types.
RoundsTypeOK ==
  /\ manifest.version \in 1 .. MaxVersion /\ manifest.dependencies \in Declarations
  /\ current \in Rounds \cup {None}
  /\ link \in [Rounds -> {"new", "on", "off"}]
  /\ \A r \in Rounds :
       \/ round[r] = Idle
       \/ /\ round[r].pc \in {"connecting", "sending", "disconnecting", "notifying", "done"}
          /\ round[r].since \in 1 .. manifest.version
          /\ round[r].via \in Rounds \cup {None}
  /\ notices \subseteq Rounds

\* "Execute one announcement round: connect to Kafka, publish, disconnect":
\* a round that no other overlaps, and to which the broker refuses nothing,
\* leaves a manifest no older than it found on the topic, and no connection.
LoneRoundsDeliver ==
  \A r \in Rounds :
    (round[r].pc \in {"notifying", "done"} /\ round[r].alone /\ round[r].clean) =>
      /\ link[r] = "off"
      /\ \E i \in DOMAIN topic :
           /\ topic[i].by = r
           /\ \E m \in ToSet(topic[i].message.payload) : m[1] = "version" /\ m[2] >= round[r].since

\* The invariant of announce(): manifest, producers and rounds are of their
\* types, and a round nothing disturbs leaves its manifest on the topic and no
\* connection.
AnnouncementInv == RoundsTypeOK /\ LoneRoundsDeliver

\* The registry "validates HMAC signatures against the v2 object shape": in
\* whatever order its decoder gives the members, also those of the dependencies.
Orders(o) == SetToSeqs(ToSet(o))
Redecoded(payload) ==
  UNION {Orders([payload EXCEPT ![1] = <<"dependencies", d>>]) : d \in Orders(payload[1][2])}
SignatureVerifies ==
  \A i \in DOMAIN topic :
    \A o \in Redecoded(topic[i].message.payload) : VerifyHmac(o, topic[i].message.signedToken)

\* Every round that starts gets its notice to the registry, failed or not.
EveryRoundNotifies == \A r \in Rounds : At(r, "connecting") ~> r \in notices
=============================================================================
