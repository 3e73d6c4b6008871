------------------------- MODULE RolloutExecutorProofs -------------------------
(***************************************************************************)
(* Proofs about WeightBridge and RolloutExecutor.  The first part is about *)
(* the bridges alone, for every set of bridges, update ids, versions and   *)
(* contents and for every transport.  Every step of RolloutExecutor is a   *)
(* WeightBridge step or leaves the bridges alone, so those theorems hold   *)
(* of executors too; on top of them it is proved that the reported update  *)
(* is the one served.                                                      *)
(***************************************************************************)
EXTENDS RolloutExecutor, TLAPS

-----------------------------------------------------------------------------
(***************************************************************************)
(* The bridges.                                                            *)
(***************************************************************************)
\* The inductive invariant.  ActiveIsAcknowledged alone is not inductive: that
\* the acknowledged update has a version at all needs RecordsAreLabelled, and
\* that a new manifest's version is new needs the bound by latest.
BridgeInv ==
    /\ TypeOK
    /\ RecordsAreLabelled
    /\ ActiveIsAcknowledged
    /\ ImportsMatchState
    /\ VersionsIdentifyUpdates

\* An operation changes no record but the one it is called on, which becomes
\* the record it says.
LEMMA SetRecordEffect ==
    ASSUME TypeOK, NEW b \in Bridges, NEW u \in Updates, NEW r \in Record,
           SetRecord(b, u, r)
    PROVE  /\ rec' \in [Bridges -> [Updates -> Record]]
           /\ rec'[b][u] = r
           /\ \A c \in Bridges, w \in Updates :
                c # b \/ w # u => rec'[c][w] = rec[c][w]
BY DEF TypeOK, SetRecord

\* The records that the operations write are records.
LEMMA RecordTypes ==
    /\ Absent \in Record
    /\ Fresh \in Record
    /\ \A r \in Record :
         /\ [r EXCEPT !.state = "acknowledged"] \in Record
         /\ [r EXCEPT !.state = "rejected"] \in Record
         /\ [r EXCEPT !.state = "acknowledged"].state = "acknowledged"
         /\ [r EXCEPT !.state = "rejected"].state = "rejected"
         /\ [r EXCEPT !.state = "acknowledged"].everImported = r.everImported
         /\ [r EXCEPT !.state = "rejected"].everImported = r.everImported
BY DEF Absent, Fresh, Record, RecordState

\* The trainer's optimizer step touches storage only.
LEMMA TrainStepKeepsInv == BridgeInv /\ TrainStep => BridgeInv'
BY DEF BridgeInv, TrainStep, TypeOK, RecordsAreLabelled, ActiveIsAcknowledged,
       ImportsMatchState, VersionsIdentifyUpdates, HasRecord

\* A write through an alias touches storage only.
LEMMA WriteKeepsInv ==
    ASSUME BridgeInv, NEW b \in Bridges, NEW u \in Updates, WriteThroughAlias(b, u)
    PROVE  BridgeInv'
BY DEF BridgeInv, WriteThroughAlias, TypeOK, RecordsAreLabelled, ActiveIsAcknowledged,
       ImportsMatchState, VersionsIdentifyUpdates, HasRecord

\* publish keeps the invariant: the id is fresh, so no bridge has a record of
\* it, and the version is above every earlier one.
LEMMA PublishKeepsInv ==
    ASSUME BridgeInv, NEW u \in Updates, NEW v \in Versions, Publish(u, v)
    PROVE  BridgeInv'
<1>1. /\ rec' \in [Bridges -> [Updates -> Record]]
      /\ rec'[Publisher][u] = Fresh
      /\ \A c \in Bridges, w \in Updates :
           c # Publisher \/ w # u => rec'[c][w] = rec[c][w]
  BY SetRecordEffect, RecordTypes, PublisherAssumption DEF BridgeInv, Publish
<1>2. /\ label' \in [Updates -> Manifest \cup {NoManifest}]
      /\ label'[u] = [version |-> v, sum |-> live]
      /\ label'[u] # NoManifest
      /\ \A w \in Updates : w # u => label'[w] = label[w]
  <2>1. [version |-> v, sum |-> live] \in Manifest
    BY DEF BridgeInv, TypeOK, Manifest
  <2> QED
    BY <2>1, NoManifestAssumption DEF BridgeInv, Publish, TypeOK, Manifest
<1>3. TypeOK'
  BY <1>1, <1>2 DEF BridgeInv, Publish, TypeOK
<1>4. RecordsAreLabelled'
  BY <1>1, <1>2 DEF BridgeInv, RecordsAreLabelled, HasRecord
<1>5. ActiveIsAcknowledged'
  <2> SUFFICES ASSUME NEW b \in Bridges, activeId[b] # NoUpdate
               PROVE  /\ rec'[b][activeId[b]].state = "acknowledged"
                      /\ activeVersion[b] = label'[activeId[b]].version
    BY DEF Publish, ActiveIsAcknowledged
  <2>1. /\ activeId[b] \in Updates
        /\ rec[b][activeId[b]].state = "acknowledged"
        /\ activeVersion[b] = label[activeId[b]].version
    BY DEF BridgeInv, TypeOK, ActiveIsAcknowledged
  <2>2. activeId[b] # u
    BY <2>1 DEF BridgeInv, RecordsAreLabelled, HasRecord, Publish
  <2> QED
    BY <1>1, <1>2, <2>1, <2>2
<1>6. ImportsMatchState'
  BY <1>1 DEF BridgeInv, ImportsMatchState, Fresh
<1>7. VersionsIdentifyUpdates'
  <2>1. latest \in Int /\ v \in Int /\ latest < v /\ latest' = v
    BY VersionsAssumption DEF BridgeInv, TypeOK, Publish
  <2>2. ASSUME NEW w \in Updates, label[w] # NoManifest
        PROVE  label[w].version \in Int /\ label[w].version < v
    <3>1. label[w].version \in Int
      BY <2>2, VersionsAssumption DEF BridgeInv, TypeOK, Manifest
    <3>2. label[w].version <= latest
      BY <2>2 DEF BridgeInv, VersionsIdentifyUpdates
    <3> QED
      BY <2>1, <3>1, <3>2
  <2>3. ASSUME NEW w \in Updates, label'[w] # NoManifest
        PROVE  label'[w].version <= latest'
    BY <1>2, <2>1, <2>2, <2>3
  <2>4. ASSUME NEW w \in Updates, NEW x \in Updates,
               label'[w] # NoManifest, label'[x] # NoManifest,
               label'[w].version = label'[x].version
        PROVE  w = x
    <3>1. CASE w # u /\ x # u
      BY <1>2, <2>4, <3>1 DEF BridgeInv, VersionsIdentifyUpdates
    <3>2. CASE w = u \/ x = u
      BY <1>2, <2>1, <2>2, <2>4, <3>2
    <3> QED
      BY <3>1, <3>2
  <2> QED
    BY <2>3, <2>4 DEF VersionsIdentifyUpdates
<1> QED
  BY <1>3, <1>4, <1>5, <1>6, <1>7 DEF BridgeInv

\* What the four record operations have in common: they leave manifests and
\* storage alone, and write a record of a labelled update whose state agrees
\* with its import flag.
LEMMA RecordOperationKeepsInv ==
    ASSUME BridgeInv, NEW b \in Bridges, NEW u \in Updates, NEW r \in Record,
           SetRecord(b, u, r),
           UNCHANGED <<live, label, stored, latest>>,
           r.state # "absent" => label[u] # NoManifest,
           r.state \in {"imported", "acknowledged"} => r.everImported,
           r.state \in {"absent", "published"} => ~ r.everImported,
           activeId' \in [Bridges -> Updates \cup {NoUpdate}],
           activeVersion' \in [Bridges -> Versions \cup {NoVersion}],
           ActiveIsAcknowledged'
    PROVE  BridgeInv'
<1>1. /\ rec' \in [Bridges -> [Updates -> Record]]
      /\ rec'[b][u] = r
      /\ \A c \in Bridges, w \in Updates :
           c # b \/ w # u => rec'[c][w] = rec[c][w]
  BY SetRecordEffect DEF BridgeInv
<1>2. TypeOK'
  BY <1>1 DEF BridgeInv, TypeOK
<1>3. RecordsAreLabelled'
  BY <1>1 DEF BridgeInv, RecordsAreLabelled, HasRecord
<1>4. ImportsMatchState'
  BY <1>1 DEF BridgeInv, ImportsMatchState
<1>5. VersionsIdentifyUpdates'
  BY DEF BridgeInv, VersionsIdentifyUpdates
<1> QED
  BY <1>2, <1>3, <1>4, <1>5 DEF BridgeInv

\* import_update keeps the invariant: an acknowledged update stays
\* acknowledged when it is imported again.
LEMMA ImportKeepsInv ==
    ASSUME BridgeInv, NEW b \in Bridges, NEW u \in Updates, ImportUpdate(b, u)
    PROVE  BridgeInv'
<1> DEFINE s == rec[b][u].state
           r == [state |-> IF s \in {"absent", "published"} THEN "imported" ELSE s,
                 everImported |-> TRUE]
<1>1. /\ r \in Record
      /\ r.state \notin {"absent", "published"}
      /\ s = "acknowledged" => r.state = "acknowledged"
  BY DEF BridgeInv, TypeOK, Record, RecordState
<1>2. /\ SetRecord(b, u, r)
      /\ label[u] # NoManifest
      /\ UNCHANGED <<live, label, stored, latest, activeVersion, activeId>>
  BY DEF ImportUpdate, Importable
<1>3. ActiveIsAcknowledged'
  <2>1. /\ rec'[b][u] = r
        /\ \A c \in Bridges, w \in Updates :
             c # b \/ w # u => rec'[c][w] = rec[c][w]
    BY <1>1, <1>2, SetRecordEffect DEF BridgeInv
  <2> QED
    BY <1>1, <1>2, <2>1 DEF BridgeInv, TypeOK, ActiveIsAcknowledged
<1> HIDE DEF r
<1>4. r.everImported
  BY DEF r
<1> QED
  BY <1>1, <1>2, <1>3, <1>4, RecordOperationKeepsInv DEF BridgeInv, TypeOK

\* An attach that is not followed by a successful import leaves a record in
\* state "published", which is nobody's active update.
LEMMA AttachThenRaiseKeepsInv ==
    ASSUME BridgeInv, NEW b \in Bridges, NEW u \in Updates, AttachThenRaise(b, u)
    PROVE  BridgeInv'
<1>1. /\ SetRecord(b, u, Fresh)
      /\ rec[b][u].state = "absent"
      /\ label[u] # NoManifest
      /\ UNCHANGED <<live, label, stored, latest, activeVersion, activeId>>
  BY DEF AttachThenRaise, Importable, HasRecord
<1>2. ActiveIsAcknowledged'
  <2>1. \A c \in Bridges, w \in Updates :
          c # b \/ w # u => rec'[c][w] = rec[c][w]
    BY <1>1, RecordTypes, SetRecordEffect DEF BridgeInv
  <2> QED
    BY <1>1, <2>1 DEF BridgeInv, TypeOK, ActiveIsAcknowledged
<1>3. Fresh.state = "published" /\ ~ Fresh.everImported
  BY DEF Fresh
<1> QED
  BY <1>1, <1>2, <1>3, RecordTypes, RecordOperationKeepsInv DEF BridgeInv, TypeOK

\* acknowledge keeps the invariant: it makes active the update it has just
\* marked, with that update's version.
LEMMA AcknowledgeKeepsInv ==
    ASSUME BridgeInv, NEW b \in Bridges, NEW u \in Updates, Acknowledge(b, u)
    PROVE  BridgeInv'
<1> DEFINE r == [rec[b][u] EXCEPT !.state = "acknowledged"]
<1>1. rec[b][u] \in Record
  BY DEF BridgeInv, TypeOK
<1>2. /\ r \in Record
      /\ r.state = "acknowledged"
      /\ r.everImported = rec[b][u].everImported
  BY <1>1, RecordTypes
<1>3. /\ SetRecord(b, u, r)
      /\ rec[b][u].everImported
      /\ rec[b][u].state # "absent"
      /\ UNCHANGED <<live, label, stored, latest>>
      /\ activeVersion' = [activeVersion EXCEPT ![b] = label[u].version]
      /\ activeId' = [activeId EXCEPT ![b] = u]
  BY DEF Acknowledge, Acknowledgeable, HasRecord
<1> HIDE DEF r
<1>4. label[u] # NoManifest
  BY <1>3 DEF BridgeInv, RecordsAreLabelled, HasRecord
<1>5. label[u].version \in Versions
  BY <1>4 DEF BridgeInv, TypeOK, Manifest
<1>6. ActiveIsAcknowledged'
  <2>1. /\ rec'[b][u] = r
        /\ \A c \in Bridges, w \in Updates :
             c # b \/ w # u => rec'[c][w] = rec[c][w]
    BY <1>2, <1>3, SetRecordEffect DEF BridgeInv
  <2> QED
    BY <1>2, <1>3, <2>1 DEF BridgeInv, TypeOK, ActiveIsAcknowledged
<1>7. /\ activeId' \in [Bridges -> Updates \cup {NoUpdate}]
      /\ activeVersion' \in [Bridges -> Versions \cup {NoVersion}]
  BY <1>3, <1>5 DEF BridgeInv, TypeOK
<1> QED
  BY <1>2, <1>3, <1>4, <1>6, <1>7, RecordOperationKeepsInv

\* reject keeps the invariant because it refuses the acknowledged update, and
\* the active one is acknowledged.
LEMMA RejectKeepsInv ==
    ASSUME BridgeInv, NEW b \in Bridges, NEW u \in Updates, Reject(b, u)
    PROVE  BridgeInv'
<1> DEFINE r == [rec[b][u] EXCEPT !.state = "rejected"]
<1>1. rec[b][u] \in Record
  BY DEF BridgeInv, TypeOK
<1>2. r \in Record /\ r.state = "rejected"
  BY <1>1, RecordTypes
<1>3. /\ SetRecord(b, u, r)
      /\ rec[b][u].state # "acknowledged"
      /\ rec[b][u].state # "absent"
      /\ UNCHANGED <<live, label, stored, latest, activeVersion, activeId>>
  BY DEF Reject, Rejectable, HasRecord
<1> HIDE DEF r
<1>4. label[u] # NoManifest
  BY <1>3 DEF BridgeInv, RecordsAreLabelled, HasRecord
<1>5. ActiveIsAcknowledged'
  <2>1. \A c \in Bridges, w \in Updates :
          c # b \/ w # u => rec'[c][w] = rec[c][w]
    BY <1>2, <1>3, SetRecordEffect DEF BridgeInv
  <2> QED
    BY <1>3, <2>1 DEF BridgeInv, TypeOK, ActiveIsAcknowledged
<1> QED
  BY <1>2, <1>3, <1>4, <1>5, RecordOperationKeepsInv DEF BridgeInv, TypeOK

\* release keeps the invariant: it clears active_update_id with the record.
LEMMA ReleaseKeepsInv ==
    ASSUME BridgeInv, NEW b \in Bridges, NEW u \in Updates, Release(b, u)
    PROVE  BridgeInv'
<1>1. /\ SetRecord(b, u, Absent)
      /\ UNCHANGED <<live, label, stored, latest, activeVersion>>
      /\ activeId' = [activeId EXCEPT ![b] = IF @ = u THEN NoUpdate ELSE @]
  BY DEF Release
<1>2. ActiveIsAcknowledged'
  <2>1. \A c \in Bridges, w \in Updates :
          c # b \/ w # u => rec'[c][w] = rec[c][w]
    BY <1>1, RecordTypes, SetRecordEffect DEF BridgeInv
  <2> QED
    BY <1>1, <2>1, NoUpdateAssumption DEF BridgeInv, TypeOK, ActiveIsAcknowledged
<1>3. Absent.state = "absent" /\ ~ Absent.everImported
  BY DEF Absent
<1>4. activeId' \in [Bridges -> Updates \cup {NoUpdate}]
  BY <1>1 DEF BridgeInv, TypeOK
<1> QED
  BY <1>1, <1>2, <1>3, <1>4, RecordTypes, RecordOperationKeepsInv DEF BridgeInv, TypeOK

\* No step of any bridge breaks the invariant.
LEMMA NextKeepsInv == BridgeInv /\ [Next]_bridgeVars => BridgeInv'
<1> SUFFICES ASSUME BridgeInv, [Next]_bridgeVars
             PROVE  BridgeInv'
  OBVIOUS
<1>1. CASE TrainStep
  BY <1>1, TrainStepKeepsInv
<1>2. ASSUME NEW u \in Updates, NEW v \in Versions, Publish(u, v)
      PROVE  BridgeInv'
  BY <1>2, PublishKeepsInv
<1>3. ASSUME NEW b \in Bridges, NEW u \in Updates,
             \/ ImportUpdate(b, u)
             \/ AttachThenRaise(b, u)
             \/ Acknowledge(b, u)
             \/ Reject(b, u)
             \/ Release(b, u)
             \/ WriteThroughAlias(b, u)
      PROVE  BridgeInv'
  BY <1>3, ImportKeepsInv, AttachThenRaiseKeepsInv, AcknowledgeKeepsInv,
     RejectKeepsInv, ReleaseKeepsInv, WriteKeepsInv
<1>4. CASE UNCHANGED bridgeVars
  BY <1>4 DEF bridgeVars, BridgeInv, TypeOK, RecordsAreLabelled,
     ActiveIsAcknowledged, ImportsMatchState, VersionsIdentifyUpdates, HasRecord
<1> QED
  BY <1>1, <1>2, <1>3, <1>4 DEF Next

\* A published manifest never changes.
LEMMA ManifestsAreFinal ==
    ASSUME BridgeInv, [Next]_bridgeVars, NEW u \in Updates, label[u] # NoManifest
    PROVE  label'[u] = label[u]
BY DEF BridgeInv, TypeOK, Next, bridgeVars, TrainStep, Publish, ImportUpdate,
       AttachThenRaise, Acknowledge, Reject, Release, WriteThroughAlias

\* Before anything is published the invariant holds.
LEMMA InitSatisfiesInv == Init => BridgeInv
BY PublisherAssumption, RecordTypes
DEF Init, BridgeInv, TypeOK, RecordsAreLabelled, ActiveIsAcknowledged,
    ImportsMatchState, VersionsIdentifyUpdates, HasRecord, Absent, NoVersion

-----------------------------------------------------------------------------
\* Every behaviour of every set of bridges over every transport satisfies the
\* inductive invariant.
THEOREM InductiveInvariant == Spec => []BridgeInv
BY InitSatisfiesInv, NextKeepsInv, PTL DEF Spec

\* The types of manifests, storage and records hold in every reachable state.
THEOREM TypeCorrect == Spec => []TypeOK
<1>1. BridgeInv => TypeOK
  BY DEF BridgeInv
<1> QED
  BY <1>1, InductiveInvariant, PTL

\* active_update_id never points at an update that its bridge has not
\* acknowledged, or reports with another version than its own.
THEOREM ActiveAlwaysAcknowledged == Spec => []ActiveIsAcknowledged
<1>1. BridgeInv => ActiveIsAcknowledged
  BY DEF BridgeInv
<1> QED
  BY <1>1, InductiveInvariant, PTL

\* A weight_version names at most one update in the whole life of a publisher,
\* and its latest version bounds them all.
THEOREM VersionsAlwaysIdentify == Spec => []VersionsIdentifyUpdates
<1>1. BridgeInv => VersionsIdentifyUpdates
  BY DEF BridgeInv
<1> QED
  BY <1>1, InductiveInvariant, PTL

\* Import counts and record states agree in every reachable state: nothing is
\* acknowledged that was not imported through the same bridge.
THEOREM ImportsAlwaysMatch == Spec => []ImportsMatchState
<1>1. BridgeInv => ImportsMatchState
  BY DEF BridgeInv
<1> QED
  BY <1>1, InductiveInvariant, PTL

\* No call brings a rejected update back: a bridge's rejected record stays
\* rejected until it is released.
THEOREM RejectionAlwaysFinal == Spec => RejectionIsFinal
<1>1. ASSUME BridgeInv, [Next]_bridgeVars,
             NEW c \in Bridges, NEW w \in Updates, rec[c][w].state = "rejected"
      PROVE  rec'[c][w].state \in {"rejected", "absent"}
  <2>1. CASE TrainStep \/ UNCHANGED bridgeVars
    BY <1>1, <2>1 DEF TrainStep, bridgeVars
  <2>2. ASSUME NEW u \in Updates, NEW v \in Versions, Publish(u, v)
        PROVE  rec'[c][w].state \in {"rejected", "absent"}
    <3>1. w # u
      BY <1>1, <2>2 DEF BridgeInv, RecordsAreLabelled, HasRecord, Publish
    <3> QED
      BY <1>1, <2>2, <3>1, SetRecordEffect, RecordTypes, PublisherAssumption
      DEF BridgeInv, Publish
  <2>3. ASSUME NEW b \in Bridges, NEW u \in Updates,
               \/ ImportUpdate(b, u)
               \/ AttachThenRaise(b, u)
               \/ Acknowledge(b, u)
        PROVE  rec'[c][w].state \in {"rejected", "absent"}
    <3>1. <<b, u>> # <<c, w>>
      BY <1>1, <2>3
      DEF ImportUpdate, AttachThenRaise, Acknowledge, Importable, Acknowledgeable
    <3>2. \E r : SetRecord(b, u, r)
      BY <2>3 DEF ImportUpdate, AttachThenRaise, Acknowledge
    <3>3. rec'[c][w] = rec[c][w]
      BY <1>1, <3>1, <3>2 DEF BridgeInv, TypeOK, SetRecord
    <3> QED
      BY <1>1, <3>3
  <2>4. ASSUME NEW b \in Bridges, NEW u \in Updates, Reject(b, u)
        PROVE  rec'[c][w].state \in {"rejected", "absent"}
    <3>1. rec[b][u] \in Record
      BY <1>1 DEF BridgeInv, TypeOK
    <3> DEFINE r == [rec[b][u] EXCEPT !.state = "rejected"]
    <3>2. r \in Record /\ r.state = "rejected" /\ SetRecord(b, u, r)
      BY <2>4, <3>1, RecordTypes DEF Reject
    <3> HIDE DEF r
    <3>3. rec'[b][u] = r /\ (c # b \/ w # u => rec'[c][w] = rec[c][w])
      BY <1>1, <3>2, SetRecordEffect DEF BridgeInv
    <3> QED
      BY <1>1, <3>2, <3>3
  <2>5. ASSUME NEW b \in Bridges, NEW u \in Updates, Release(b, u)
        PROVE  rec'[c][w].state \in {"rejected", "absent"}
    BY <1>1, <2>5, SetRecordEffect, RecordTypes DEF BridgeInv, Release, Absent
  <2>6. ASSUME NEW b \in Bridges, NEW u \in Updates, WriteThroughAlias(b, u)
        PROVE  rec'[c][w].state \in {"rejected", "absent"}
    BY <1>1, <2>6 DEF WriteThroughAlias
  <2> QED
    BY <1>1, <2>1, <2>2, <2>3, <2>4, <2>5, <2>6 DEF Next
<1>2. BridgeInv /\ [Next]_bridgeVars =>
        [RejectionIsFinalStep]_bridgeVars
  BY <1>1 DEF RejectionIsFinalStep
<1> QED
  BY <1>2, InductiveInvariant, PTL DEF Spec, RejectionIsFinal

\* The checksum is re-read at the very step that activates an update.
THEOREM ActivationAlwaysSealed == Spec => ActivationIsSealed
<1>1. ASSUME BridgeInv, [Next]_bridgeVars, NEW c \in Bridges,
             activeId'[c] # activeId[c], activeId'[c] # NoUpdate
      PROVE  SealIntact(activeId'[c])
  <2>1. CASE UNCHANGED activeId
    BY <1>1, <2>1
  <2>2. ASSUME NEW b \in Bridges, NEW u \in Updates, Acknowledge(b, u)
        PROVE  SealIntact(activeId'[c])
    BY <1>1, <2>2 DEF BridgeInv, TypeOK, Acknowledge, Acknowledgeable, SealIntact
  <2>3. ASSUME NEW b \in Bridges, NEW u \in Updates, Release(b, u)
        PROVE  SealIntact(activeId'[c])
    BY <1>1, <2>3 DEF BridgeInv, TypeOK, Release
  <2> QED
    BY <1>1, <2>1, <2>2, <2>3
    DEF Next, bridgeVars, TrainStep, Publish, ImportUpdate, AttachThenRaise, Reject,
        WriteThroughAlias
<1>2. BridgeInv /\ [Next]_bridgeVars =>
        [ActivationIsSealedStep]_bridgeVars
  BY <1>1 DEF ActivationIsSealedStep
<1> QED
  BY <1>2, InductiveInvariant, PTL DEF Spec, ActivationIsSealed

-----------------------------------------------------------------------------
(***************************************************************************)
(* The executors.                                                          *)
(***************************************************************************)
\* The local variables of a running update_weights: until it ends it has a
\* published target, from the import to the switch the mapping imported for
\* it, and while it releases, a previous update.
CallTyped(e) ==
    /\ pc[e] # "idle" => target[e] \in Updates /\ label[target[e]] # NoManifest
    /\ pc[e] \in {"install", "ack", "activate"} =>
         imported[e] \in View /\ imported[e].update = target[e]
    /\ pc[e] = "release" => previous[e] \in Updates

ExecTyped == RolloutTypeOK /\ \A e \in Executors : CallTyped(e)

\* A step of the trainer or of an executor is a step of the bridges, or none.
LEMMA StepIsBridgeStep ==
    ASSUME ExecTyped, [RolloutNext]_vars
    PROVE  [Next]_bridgeVars
<1>1. CASE UNCHANGED vars
  BY <1>1 DEF vars, bridgeVars
<1>2. CASE Trainer
  BY <1>2, PublisherAssumption DEF Trainer, Next
<1>3. ASSUME NEW e \in Executors, UpdateProgress(e)
      PROVE  [Next]_bridgeVars
  <2>1. BridgeOf[e] \in Bridges
    BY BridgeOfAssumption
  <2>2. CASE \/ InstallStep(e) \/ InstallRaises(e) \/ Activate(e)
             \/ ReleasePreviousRaises(e)
    BY <2>2 DEF InstallStep, InstallRaises, Activate, ReleasePreviousRaises
  <2>3. CASE AcknowledgeStep(e) \/ RejectStep(e)
    <3>1. target[e] \in Updates
      BY <2>3 DEF AcknowledgeStep, RejectStep, ExecTyped, CallTyped
    <3> QED
      BY <2>1, <2>3, <3>1 DEF AcknowledgeStep, RejectStep, Next
  <2>4. CASE ReleasePrevious(e)
    <3>1. previous[e] \in Updates
      BY <2>4 DEF ReleasePrevious, ExecTyped, CallTyped
    <3> QED
      BY <2>1, <2>4, <3>1 DEF ReleasePrevious, ReleaseWeightUpdate, Next
  <2> QED
    BY <1>3, <2>2, <2>3, <2>4 DEF UpdateProgress
<1>4. ASSUME NEW e \in Executors, NEW u \in Updates,
             ImportStep(e, u) \/ ImportRaises(e, u) \/ CallRelease(e, u)
      PROVE  [Next]_bridgeVars
  <2>1. BridgeOf[e] \in Bridges
    BY BridgeOfAssumption
  <2> QED
    BY <1>4, <2>1 DEF ImportStep, ImportRaises, CallRelease, ReleaseWeightUpdate, Next
<1> QED
  BY <1>1, <1>2, <1>3, <1>4 DEF RolloutNext

\* What an executor does to its own variables keeps them typed; the others'
\* variables it leaves alone.
LEMMA ProgressKeepsTypes ==
    ASSUME BridgeInv, ExecTyped, NEW e \in Executors, UpdateProgress(e), TypeOK',
           \A u \in Updates : label[u] # NoManifest => label'[u] = label[u]
    PROVE  ExecTyped'
<1>1. CASE InstallStep(e)
  <2>1. Loadable(e) \subseteq Contents \cup {Dangling}
    BY <1>1 DEF InstallStep, ExecTyped, CallTyped, RolloutTypeOK, TypeOK, View, Read, Loadable
  <2> QED
    BY <1>1, <2>1 DEF InstallStep, Goto, ExecTyped, CallTyped, RolloutTypeOK
<1>2. CASE InstallRaises(e)
  BY <1>2 DEF InstallRaises, AfterFailedInstall, Goto, ExecTyped, CallTyped, RolloutTypeOK
<1>3. CASE AcknowledgeStep(e)
  BY <1>3 DEF AcknowledgeStep, Goto, ExecTyped, CallTyped, RolloutTypeOK
<1>4. CASE RejectStep(e)
  BY <1>4 DEF RejectStep, EndCall, Goto, ExecTyped, CallTyped, RolloutTypeOK
<1>5. CASE Activate(e)
  <2>1. label[target[e]].version \in Versions
    BY <1>5 DEF Activate, ExecTyped, CallTyped, RolloutTypeOK, TypeOK, Manifest
  <2> QED
    BY <1>5, <2>1 DEF Activate, EndCall, Goto, ExecTyped, CallTyped, RolloutTypeOK
<1>6. CASE ReleasePrevious(e)
  BY <1>6 DEF ReleasePrevious, ReleaseWeightUpdate, EndCall, Goto, ExecTyped,
              CallTyped, RolloutTypeOK
<1>7. CASE ReleasePreviousRaises(e)
  BY <1>7 DEF ReleasePreviousRaises, EndCall, Goto, ExecTyped, CallTyped, RolloutTypeOK
<1> QED
  BY <1>1, <1>2, <1>3, <1>4, <1>5, <1>6, <1>7 DEF UpdateProgress

LEMMA CallsKeepTypes ==
    ASSUME BridgeInv, ExecTyped, NEW e \in Executors, NEW u \in Updates, TypeOK',
           ImportStep(e, u) \/ ImportRaises(e, u) \/ CallRelease(e, u),
           \A w \in Updates : label[w] # NoManifest => label'[w] = label[w]
    PROVE  ExecTyped'
<1>1. CASE ImportStep(e, u)
  <2>1. [update |-> u, content |-> stored[u]] \in View
    BY DEF ExecTyped, RolloutTypeOK, TypeOK, View
  <2> QED
    BY <1>1, <2>1 DEF ImportStep, BeginUpdate, Goto, ExecTyped, CallTyped, RolloutTypeOK
<1>2. CASE ImportRaises(e, u)
  BY <1>2 DEF ImportRaises, BeginUpdate, Goto, ExecTyped, CallTyped, RolloutTypeOK
<1>3. CASE CallRelease(e, u)
  BY <1>3 DEF CallRelease, ReleaseWeightUpdate, ExecTyped, CallTyped, RolloutTypeOK
<1> QED
  BY <1>1, <1>2, <1>3

\* The invariant that needs no assumption on transport or deployment.
TypedInv == BridgeInv /\ ExecTyped

LEMMA InitTyped == RolloutInit => TypedInv
<1> SUFFICES ASSUME RolloutInit PROVE TypedInv
  OBVIOUS
<1>1. BridgeInv
  BY InitSatisfiesInv DEF RolloutInit
<1> QED
  BY <1>1 DEF RolloutInit, TypedInv, BridgeInv, ExecTyped, CallTyped, RolloutTypeOK, NoVersion

LEMMA StepTyped == TypedInv /\ [RolloutNext]_vars => TypedInv'
<1> SUFFICES ASSUME TypedInv, [RolloutNext]_vars PROVE TypedInv'
  OBVIOUS
<1> USE DEF TypedInv
<1>1. [Next]_bridgeVars
  BY StepIsBridgeStep
<1>2. BridgeInv' /\ TypeOK'
  BY <1>1, NextKeepsInv DEF BridgeInv
<1>3. \A w \in Updates : label[w] # NoManifest => label'[w] = label[w]
  BY <1>1, ManifestsAreFinal
<1>4. CASE Trainer \/ UNCHANGED vars
  BY <1>2, <1>3, <1>4 DEF Trainer, vars, execVars, ExecTyped, CallTyped, RolloutTypeOK
<1>5. ASSUME NEW e \in Executors, UpdateProgress(e)
      PROVE  ExecTyped'
  BY <1>2, <1>3, <1>5, ProgressKeepsTypes
<1>6. ASSUME NEW e \in Executors, NEW u \in Updates,
             ImportStep(e, u) \/ ImportRaises(e, u) \/ CallRelease(e, u)
      PROVE  ExecTyped'
  BY <1>2, <1>3, <1>6, CallsKeepTypes
<1> QED
  BY <1>2, <1>4, <1>5, <1>6 DEF RolloutNext

\* Types of the executors' and the bridges' state, for any deployment.
THEOREM RolloutTypeCorrect == RolloutSpec => []RolloutTypeOK
<1>1. TypedInv => RolloutTypeOK
  BY DEF TypedInv, ExecTyped
<1> QED
  BY <1>1, InitTyped, StepTyped, PTL DEF RolloutSpec

\* Executors and trainer use the bridges only as WeightBridge allows, so what
\* is proved of Spec holds with executors on top.
THEOREM RolloutImplementsBridge == RolloutSpec => Spec
<1>1. RolloutInit => Init
  BY DEF RolloutInit
<1>2. TypedInv /\ [RolloutNext]_vars => [Next]_bridgeVars
  BY StepIsBridgeStep DEF TypedInv
<1> QED
  BY <1>1, <1>2, InitTyped, StepTyped, PTL DEF RolloutSpec, Spec

-----------------------------------------------------------------------------
(***************************************************************************)
(* What executors serve.  A transport has to copy on publication; if its   *)
(* imports are aliases, every executor needs a bridge of its own.          *)
(***************************************************************************)
SnapshotDeployment ==
    /\ SnapshotsOnPublish
    /\ AliasesOnImport =>
         \A e \in Executors :
            /\ BridgeOf[e] # Publisher
            /\ \A f \in Executors : BridgeOf[f] = BridgeOf[e] => f = e

\* The storage of a published update is as it was published.
StorageSealed == \A u \in Updates : label[u] # NoManifest => SealIntact(u)

\* A mapping on its way to shared_weights holds the target's content and, once
\* acknowledged, the bridge has its record; what is about to be released is no
\* longer the active update.
CallSealed(e) ==
    /\ pc[e] \in {"install", "ack", "activate"} => imported[e].content = label[target[e]].sum
    /\ pc[e] = "activate" /\ AliasesOnImport => HasRecord(BridgeOf[e], target[e])
    /\ pc[e] = "release" => previous[e] # updateId[e]

\* What is in shared_weights belongs to the reported update and is mapped.
Serving(e) ==
    shared[e] # NoView =>
        /\ updateId[e] \in Updates
        /\ label[updateId[e]] # NoManifest
        /\ shared[e].update = updateId[e]
        /\ shared[e].content = label[updateId[e]].sum
        /\ version[e] = label[updateId[e]].version
        /\ AliasesOnImport => HasRecord(BridgeOf[e], updateId[e])

ServedInv ==
    /\ TypedInv
    /\ StorageSealed
    /\ \A e \in Executors : CallSealed(e) /\ Serving(e)

LEMMA ServedInvSuffices ==
    ASSUME SnapshotDeployment, ServedInv
    PROVE  ReportedWeightsServed
BY DEF SnapshotDeployment, ServedInv, StorageSealed, Serving, ReportedWeightsServed,
       Read, Mapped, SealIntact

\* Nothing writes published storage: publish fills a fresh id's, and training
\* does not touch a snapshot.
LEMMA StorageStaysSealed ==
    ASSUME SnapshotDeployment, TypedInv, StorageSealed, [RolloutNext]_vars
    PROVE  StorageSealed'
<1>1. CASE UNCHANGED <<label, stored>>
  BY <1>1 DEF StorageSealed, SealIntact
<1>2. CASE TrainStep
  BY <1>2 DEF TrainStep, SnapshotDeployment, StorageSealed, SealIntact, TypedInv,
              BridgeInv, TypeOK
<1>3. ASSUME NEW u \in Updates, NEW v \in Versions, Publish(u, v)
      PROVE  StorageSealed'
  BY <1>3 DEF Publish, StorageSealed, SealIntact, TypedInv, BridgeInv, TypeOK
<1>4. ASSUME NEW e \in Executors,
             \/ UpdateProgress(e)
             \/ \E u \in Updates : ImportStep(e, u) \/ ImportRaises(e, u) \/ CallRelease(e, u)
      PROVE  UNCHANGED <<label, stored>>
  BY <1>4 DEF UpdateProgress, InstallStep, InstallRaises, AcknowledgeStep, RejectStep,
              Activate, ReleasePrevious, ReleasePreviousRaises, ReleaseWeightUpdate, ImportStep, ImportRaises,
              CallRelease, bridgeVars, Acknowledge, Reject, Release, ImportUpdate,
              AttachThenRaise
<1> QED
  BY <1>1, <1>2, <1>3, <1>4 DEF RolloutNext, Trainer, Release, vars, bridgeVars

\* An operation changes one record of one bridge.
LEMMA OneRecordChanges ==
    ASSUME TypedInv, NEW b \in Bridges, NEW u \in Updates, NEW r, SetRecord(b, u, r)
    PROVE  /\ rec'[b][u] = r
           /\ \A c \in Bridges : c # b => rec'[c] = rec[c]
           /\ \A w \in Updates : w # u => rec'[b][w] = rec[b][w]
BY DEF SetRecord, TypedInv, BridgeInv, TypeOK

\* f's bridge is no other executor's, and not the trainer's either.
SoleUser(f) == \A e \in Executors : BridgeOf[e] = BridgeOf[f] => e = f
OwnsBridge(f) == BridgeOf[f] # Publisher /\ SoleUser(f)

\* No executor touches the records of another one's bridge, and the trainer only
\* those of its own.
LEMMA OthersKeepRecords ==
    ASSUME TypedInv, NEW f \in Executors, SoleUser(f),
           \/ Trainer /\ BridgeOf[f] # Publisher
           \/ \E e \in Executors \ {f} :
                \/ UpdateProgress(e)
                \/ \E u \in Updates : ImportStep(e, u) \/ ImportRaises(e, u) \/ CallRelease(e, u)
    PROVE  rec'[BridgeOf[f]] = rec[BridgeOf[f]]
<1>1. /\ BridgeOf[f] \in Bridges
      /\ \A e \in Executors \ {f} : BridgeOf[e] \in Bridges \ {BridgeOf[f]}
  BY BridgeOfAssumption DEF SoleUser
<1>2. CASE UNCHANGED rec
  BY <1>2
<1>3. CASE Trainer /\ BridgeOf[f] # Publisher
  BY <1>1, <1>2, <1>3, PublisherAssumption, OneRecordChanges
  DEF Trainer, TrainStep, Publish, Release
<1>4. ASSUME NEW e \in Executors \ {f}, UpdateProgress(e)
      PROVE  rec'[BridgeOf[f]] = rec[BridgeOf[f]]
  <2>1. target[e] \in Updates /\ (pc[e] = "release" => previous[e] \in Updates)
    BY <1>4 DEF UpdateProgress, InstallStep, InstallRaises, AcknowledgeStep, RejectStep,
               Activate, ReleasePrevious, ReleasePreviousRaises, TypedInv, ExecTyped, CallTyped
  <2>2. \/ UNCHANGED rec
        \/ \E w \in Updates : \E r : SetRecord(BridgeOf[e], w, r)
    BY <1>4, <2>1
    DEF UpdateProgress, InstallStep, InstallRaises, AcknowledgeStep, RejectStep, Activate,
        ReleasePrevious, ReleasePreviousRaises, ReleaseWeightUpdate, Acknowledge, Reject, Release, bridgeVars
  <2> QED
    BY <1>1, <2>2, OneRecordChanges
<1>5. ASSUME NEW e \in Executors \ {f}, NEW u \in Updates,
             ImportStep(e, u) \/ ImportRaises(e, u) \/ CallRelease(e, u)
      PROVE  rec'[BridgeOf[f]] = rec[BridgeOf[f]]
  <2>1. UNCHANGED rec \/ \E r : SetRecord(BridgeOf[e], u, r)
    BY <1>5 DEF ImportStep, ImportRaises, CallRelease, ReleaseWeightUpdate,
               ImportUpdate, AttachThenRaise, Release, bridgeVars
  <2> QED
    BY <1>1, <2>1, OneRecordChanges
<1> QED
  BY <1>3, <1>4, <1>5

\* An executor's own steps take a record from its bridge only by releasing it.
LEMMA OwnRecordsSurvive ==
    ASSUME TypedInv, NEW e \in Executors, NEW u \in Updates, HasRecord(BridgeOf[e], u),
           \/ AcknowledgeStep(e) \/ RejectStep(e)
           \/ ReleasePrevious(e) /\ previous[e] # u
           \/ \E w \in Updates : ImportStep(e, w) \/ ImportRaises(e, w)
           \/ \E w \in Updates \ {u} : CallRelease(e, w)
    PROVE  rec'[BridgeOf[e]][u].state # "absent"
<1>1. BridgeOf[e] \in Bridges /\ rec[BridgeOf[e]] \in [Updates -> Record]
  BY BridgeOfAssumption DEF TypedInv, BridgeInv, TypeOK
<1>2. ASSUME NEW w \in Updates, NEW r, SetRecord(BridgeOf[e], w, r),
             w = u => r.state # "absent"
      PROVE  rec'[BridgeOf[e]][u].state # "absent"
  BY <1>1, <1>2, OneRecordChanges DEF HasRecord
<1>3. CASE UNCHANGED rec
  BY <1>3 DEF HasRecord
<1>4. CASE AcknowledgeStep(e) \/ RejectStep(e)
  <2>1. target[e] \in Updates
    BY <1>4 DEF AcknowledgeStep, RejectStep, TypedInv, ExecTyped, CallTyped
  <2>2. /\ [rec[BridgeOf[e]][target[e]] EXCEPT !.state = "acknowledged"].state = "acknowledged"
        /\ [rec[BridgeOf[e]][target[e]] EXCEPT !.state = "rejected"].state = "rejected"
    BY <1>1, <2>1, RecordTypes
  <2> QED
    BY <1>2, <1>3, <1>4, <2>1, <2>2
    DEF AcknowledgeStep, RejectStep, Acknowledge, Reject, bridgeVars
<1>5. CASE ReleasePrevious(e) /\ previous[e] # u
  BY <1>2, <1>5 DEF ReleasePrevious, ReleaseWeightUpdate, Release, TypedInv, ExecTyped, CallTyped
<1>6. ASSUME NEW w \in Updates, ImportStep(e, w)
      PROVE  rec'[BridgeOf[e]][u].state # "absent"
  <2> DEFINE s == rec[BridgeOf[e]][w].state
             r == [state |-> IF s \in {"absent", "published"} THEN "imported" ELSE s,
                   everImported |-> TRUE]
  <2>1. r.state # "absent" /\ SetRecord(BridgeOf[e], w, r)
    BY <1>6 DEF ImportStep, ImportUpdate
  <2> HIDE DEF r
  <2> QED
    BY <1>2, <2>1
<1>7. ASSUME NEW w \in Updates, ImportRaises(e, w)
      PROVE  rec'[BridgeOf[e]][u].state # "absent"
  BY <1>2, <1>3, <1>7 DEF ImportRaises, AttachThenRaise, Fresh, bridgeVars
<1>8. ASSUME NEW w \in Updates \ {u}, CallRelease(e, w)
      PROVE  rec'[BridgeOf[e]][u].state # "absent"
  BY <1>2, <1>8 DEF CallRelease, ReleaseWeightUpdate, Release
<1> QED
  BY <1>4, <1>5, <1>6, <1>7, <1>8

\* A step of one executor leaves the variables of the others alone.
LEMMA OthersStandBy ==
    ASSUME RolloutTypeOK, NEW e \in Executors, NEW f \in Executors, e # f,
           \/ UpdateProgress(e)
           \/ \E u \in Updates : ImportStep(e, u) \/ ImportRaises(e, u) \/ CallRelease(e, u)
    PROVE  /\ pc'[f] = pc[f] /\ target'[f] = target[f] /\ previous'[f] = previous[f]
           /\ imported'[f] = imported[f] /\ shared'[f] = shared[f]
           /\ version'[f] = version[f] /\ updateId'[f] = updateId[f]
           /\ engine'[f] = engine[f] /\ adapterId'[f] = adapterId[f]
           /\ outcome'[f] = outcome[f] /\ stranded'[f] = stranded[f]
<1>1. CASE InstallStep(e) \/ InstallRaises(e)
  BY <1>1 DEF InstallStep, InstallRaises, AfterFailedInstall, Goto, RolloutTypeOK
<1>2. CASE AcknowledgeStep(e) \/ RejectStep(e)
  BY <1>2 DEF AcknowledgeStep, RejectStep, EndCall, Goto, RolloutTypeOK
<1>3. CASE Activate(e) \/ ReleasePrevious(e) \/ ReleasePreviousRaises(e)
  BY <1>3 DEF Activate, ReleasePrevious, ReleasePreviousRaises, ReleaseWeightUpdate, EndCall,
              Goto, RolloutTypeOK
<1>4. ASSUME NEW u \in Updates, ImportStep(e, u) \/ ImportRaises(e, u) \/ CallRelease(e, u)
      PROVE  UNCHANGED <<pc[f], target[f], previous[f], imported[f], shared[f], version[f],
                         updateId[f], engine[f], adapterId[f], outcome[f], stranded[f]>>
  BY <1>4 DEF ImportStep, ImportRaises, CallRelease, BeginUpdate, ReleaseWeightUpdate, Goto,
              RolloutTypeOK
<1> QED
  BY <1>1, <1>2, <1>3, <1>4 DEF UpdateProgress

\* An executor that does not move is served as before.
LEMMA BystanderServed ==
    ASSUME SnapshotDeployment, ServedInv, NEW f \in Executors,
           \A w \in Updates : label[w] # NoManifest => label'[w] = label[w],
           pc'[f] = pc[f], target'[f] = target[f], previous'[f] = previous[f],
           imported'[f] = imported[f], shared'[f] = shared[f],
           version'[f] = version[f], updateId'[f] = updateId[f],
           AliasesOnImport => rec'[BridgeOf[f]] = rec[BridgeOf[f]]
    PROVE  (CallSealed(f) /\ Serving(f))'
<1>1. CallSealed(f) /\ Serving(f) /\ CallTyped(f)
  BY DEF ServedInv, TypedInv, ExecTyped
<1> QED
  BY <1>1 DEF CallSealed, Serving, CallTyped, HasRecord

\* A step of update_weights keeps its executor served: the switch brings the
\* target's record with it, and the release that follows takes another one.
LEMMA ProgressServed ==
    ASSUME SnapshotDeployment, ServedInv, NEW e \in Executors, UpdateProgress(e),
           \A w \in Updates : label[w] # NoManifest => label'[w] = label[w]
    PROVE  (CallSealed(e) /\ Serving(e))'
<1>1. CallSealed(e) /\ Serving(e) /\ CallTyped(e) /\ TypedInv /\ RolloutTypeOK
  BY DEF ServedInv, TypedInv, ExecTyped
<1>2. CASE InstallStep(e) \/ InstallRaises(e)
  BY <1>1, <1>2 DEF InstallStep, InstallRaises, Goto, CallSealed, Serving, CallTyped,
                    RolloutTypeOK, HasRecord, bridgeVars
<1>3. CASE AcknowledgeStep(e)
  <2>1. pc'[e] = "activate" => rec'[BridgeOf[e]][target[e]].state # "absent"
    <3>1. ASSUME pc'[e] = "activate" PROVE Acknowledge(BridgeOf[e], target[e])
      BY <1>1, <1>3, <3>1 DEF AcknowledgeStep, Goto, RolloutTypeOK
    <3>2. ASSUME Acknowledge(BridgeOf[e], target[e])
          PROVE  rec'[BridgeOf[e]][target[e]].state # "absent"
      BY <1>1, <1>3, <3>2, OwnRecordsSurvive
      DEF Acknowledge, Acknowledgeable, AcknowledgeStep, CallTyped
    <3>3. target' = target
      BY <1>3 DEF AcknowledgeStep
    <3> QED
      BY <3>1, <3>2, <3>3 DEF HasRecord
  <2>2. shared[e] # NoView /\ AliasesOnImport => rec'[BridgeOf[e]][updateId[e]].state # "absent"
    BY <1>1, <1>3, OwnRecordsSurvive DEF Serving
  <2>3. UNCHANGED label
    BY <1>3 DEF AcknowledgeStep, Acknowledge, bridgeVars
  <2> QED
    BY <1>1, <1>3, <2>1, <2>2, <2>3
    DEF AcknowledgeStep, Goto, CallSealed, Serving, CallTyped, RolloutTypeOK, HasRecord
<1>4. CASE RejectStep(e)
  <2>1. shared[e] # NoView /\ AliasesOnImport => rec'[BridgeOf[e]][updateId[e]].state # "absent"
    BY <1>1, <1>4, OwnRecordsSurvive DEF Serving
  <2>2. UNCHANGED label
    BY <1>4 DEF RejectStep, Reject, bridgeVars
  <2> QED
    BY <1>1, <1>4, <2>1, <2>2
    DEF RejectStep, EndCall, Goto, CallSealed, Serving, RolloutTypeOK, HasRecord
<1>5. CASE Activate(e)
  BY <1>1, <1>5 DEF Activate, EndCall, Goto, CallSealed, Serving, CallTyped,
                    RolloutTypeOK, HasRecord, bridgeVars
<1>6. CASE ReleasePrevious(e)
  <2>1. previous[e] # updateId[e]
    BY <1>1, <1>6 DEF ReleasePrevious, CallSealed
  <2>2. shared[e] # NoView /\ AliasesOnImport => rec'[BridgeOf[e]][updateId[e]].state # "absent"
    BY <1>1, <1>6, <2>1, OwnRecordsSurvive DEF Serving
  <2> QED
    BY <1>1, <1>6, <2>1, <2>2
    DEF ReleasePrevious, ReleaseWeightUpdate, Release, EndCall, Goto, CallSealed, Serving,
        RolloutTypeOK, HasRecord
<1>7. CASE ReleasePreviousRaises(e)
  BY <1>1, <1>7 DEF ReleasePreviousRaises, EndCall, Goto, CallSealed, Serving, RolloutTypeOK,
                    HasRecord, bridgeVars
<1> QED
  BY <1>2, <1>3, <1>4, <1>5, <1>6, <1>7 DEF UpdateProgress

LEMMA CallsServed ==
    ASSUME SnapshotDeployment, ServedInv, NEW e \in Executors, NEW u \in Updates,
           ImportStep(e, u) \/ ImportRaises(e, u) \/ CallRelease(e, u)
    PROVE  (CallSealed(e) /\ Serving(e))'
<1>1. CallSealed(e) /\ Serving(e) /\ TypedInv /\ RolloutTypeOK
  BY DEF ServedInv, TypedInv, ExecTyped
<1>2. CASE ImportStep(e, u) \/ ImportRaises(e, u)
  <2>1. shared[e] # NoView /\ AliasesOnImport => rec'[BridgeOf[e]][updateId[e]].state # "absent"
    BY <1>1, <1>2, OwnRecordsSurvive DEF Serving
  <2>2. UNCHANGED <<label, stored>>
    BY <1>2 DEF ImportStep, ImportRaises, ImportUpdate, AttachThenRaise, bridgeVars
  <2>3. ImportStep(e, u) => stored[u] = label[u].sum
    BY DEF ImportStep, ImportUpdate, Importable, SealIntact
  <2>4. Serving(e)'
    BY <1>1, <1>2, <2>1, <2>2 DEF ImportStep, ImportRaises, Serving, HasRecord
  <2>5. CallSealed(e)'
    BY <1>1, <1>2, <2>2, <2>3
    DEF ImportStep, ImportRaises, BeginUpdate, Goto, CallSealed, RolloutTypeOK
  <2> QED
    BY <2>4, <2>5
<1>3. CASE CallRelease(e, u)
  <2>1. shared[e] # NoView /\ AliasesOnImport /\ updateId[e] # u =>
          rec'[BridgeOf[e]][updateId[e]].state # "absent"
    BY <1>1, <1>3, OwnRecordsSurvive DEF Serving
  <2> QED
    BY <1>1, <1>3, <2>1
    DEF CallRelease, ReleaseWeightUpdate, Release, CallSealed, Serving, RolloutTypeOK, HasRecord
<1> QED
  BY <1>2, <1>3

LEMMA StepServed ==
    ASSUME SnapshotDeployment, ServedInv, [RolloutNext]_vars
    PROVE  ServedInv'
<1>1. TypedInv' /\ StorageSealed'
  BY StepTyped, StorageStaysSealed DEF ServedInv
<1>2. \A w \in Updates : label[w] # NoManifest => label'[w] = label[w]
  BY StepIsBridgeStep, ManifestsAreFinal DEF ServedInv, TypedInv
<1>3. TypedInv /\ RolloutTypeOK
  BY DEF ServedInv, TypedInv, ExecTyped
<1> SUFFICES ASSUME NEW f \in Executors
             PROVE  (CallSealed(f) /\ Serving(f))'
  BY <1>1 DEF ServedInv
<1> USE DEF OwnsBridge, SoleUser, SnapshotDeployment
<1>4. CASE UNCHANGED vars
  BY <1>2, <1>4, BystanderServed DEF vars, bridgeVars, execVars
<1>5. CASE Trainer
  BY <1>2, <1>3, <1>5, BystanderServed, OthersKeepRecords DEF Trainer, execVars
<1>6. ASSUME NEW e \in Executors, UpdateProgress(e)
      PROVE  (CallSealed(f) /\ Serving(f))'
  <2>1. CASE e = f
    BY <1>2, <1>6, <2>1, ProgressServed
  <2>2. CASE e # f
    <3>1. AliasesOnImport => rec'[BridgeOf[f]] = rec[BridgeOf[f]]
      BY <1>3, <1>6, <2>2, OthersKeepRecords
    <3> QED
      BY <1>2, <1>3, <1>6, <2>2, <3>1, OthersStandBy, BystanderServed
  <2> QED
    BY <2>1, <2>2
<1>7. ASSUME NEW e \in Executors, NEW u \in Updates,
             ImportStep(e, u) \/ ImportRaises(e, u) \/ CallRelease(e, u)
      PROVE  (CallSealed(f) /\ Serving(f))'
  <2>1. CASE e = f
    BY <1>7, <2>1, CallsServed
  <2>2. CASE e # f
    <3>1. AliasesOnImport => rec'[BridgeOf[f]] = rec[BridgeOf[f]]
      BY <1>3, <1>7, <2>2, OthersKeepRecords
    <3> QED
      BY <1>2, <1>3, <1>7, <2>2, <3>1, OthersStandBy, BystanderServed
  <2> QED
    BY <2>1, <2>2
<1> QED
  BY <1>4, <1>5, <1>6, <1>7 DEF RolloutNext

\* Over a transport that copies, what an executor serves is at all times the
\* unchanged content of the update it reports, under the version it reports,
\* whatever trainer and other executors do between two lines of update_weights.
THEOREM ReportedAlwaysServed ==
    ASSUME SnapshotDeployment
    PROVE  RolloutSpec => []ReportedWeightsServed
<1>1. RolloutInit => ServedInv
  BY InitTyped
  DEF RolloutInit, Init, ServedInv, StorageSealed, CallSealed, Serving
<1>2. ServedInv /\ [RolloutNext]_vars => ServedInv'
  BY StepServed
<1>3. ServedInv => ReportedWeightsServed
  BY ServedInvSuffices
<1> QED
  BY <1>1, <1>2, <1>3, PTL DEF RolloutSpec

-----------------------------------------------------------------------------
(***************************************************************************)
(* The refinement of WeightHandoff.                                        *)
(***************************************************************************)
\* Under the invariant an executor serves nothing or the catalog's entry of the
\* update it reports.
LEMMA ServedEntry ==
    SnapshotDeployment /\ ServedInv =>
        \A e \in Executors :
            Served[e] = IF shared[e] = NoView THEN NoView ELSE Entry(updateId[e])
BY ServedInvSuffices
DEF Served, Entry, ReportedWeightsServed

LEMMA ServedEntryNext ==
    ASSUME SnapshotDeployment, ServedInv'
    PROVE  \A e \in Executors :
             Served'[e] = IF shared'[e] = NoView THEN NoView ELSE Entry(updateId[e])'
BY DEF SnapshotDeployment, ServedInv, StorageSealed, Serving, Served, Entry, Read, Mapped,
       SealIntact, HasRecord

\* Between publications the catalog stays.
LEMMA SameLabelsSameCatalog == UNCHANGED label => UNCHANGED Catalog
BY DEF Catalog, Entry

\* A step that changes no executor's active update changes nothing served.
LEMMA NothingSwitched ==
    ASSUME SnapshotDeployment, ServedInv, [RolloutNext]_vars, UNCHANGED <<shared, updateId>>
    PROVE  UNCHANGED Served
<1>1. ServedInv' /\ \A w \in Updates : label[w] # NoManifest => label'[w] = label[w]
  BY StepServed, StepIsBridgeStep, ManifestsAreFinal DEF ServedInv, TypedInv
<1>2. ASSUME NEW e \in Executors
      PROVE  Served'[e] = Served[e]
  <2>1. CASE shared[e] = NoView
    BY <1>1, <2>1, ServedEntry, ServedEntryNext
  <2>2. CASE shared[e] # NoView
    <3>1. updateId[e] \in Updates /\ label[updateId[e]] # NoManifest
      BY <2>2 DEF ServedInv, Serving
    <3>2. Entry(updateId[e])' = Entry(updateId[e])
      BY <1>1, <3>1 DEF Entry
    <3> QED
      BY <1>1, <2>2, <3>2, ServedEntry, ServedEntryNext
  <2> QED
    BY <2>1, <2>2
<1> QED
  BY <1>2 DEF Served

\* One executor's switch or release leaves what the others serve.
LEMMA OneSwitched ==
    ASSUME SnapshotDeployment, ServedInv, [RolloutNext]_vars, UNCHANGED label,
           NEW e \in Executors,
           \A f \in Executors \ {e} : shared'[f] = shared[f] /\ updateId'[f] = updateId[f]
    PROVE  \/ Handoff!Drop(e)
           \/ /\ shared'[e] # NoView
              /\ Served' = [Served EXCEPT ![e] = Entry(updateId[e])']
<1>1. ServedInv'
  BY StepServed
<1>2. \A f \in Executors \ {e} : Served'[f] = Served[f]
  <2> SUFFICES ASSUME NEW f \in Executors \ {e}
               PROVE  Served'[f] = Served[f]
    OBVIOUS
  <2>1. shared'[f] = shared[f] /\ Entry(updateId[f])' = Entry(updateId[f])
    BY DEF Entry
  <2> QED
    BY <1>1, <2>1, ServedEntry, ServedEntryNext
<1>3. Served' = [Served EXCEPT ![e] = Served'[e]]
  BY <1>2 DEF Served
<1>4. CASE shared'[e] = NoView
  BY <1>1, <1>3, <1>4, ServedEntryNext, SameLabelsSameCatalog DEF Handoff!Drop
<1>5. CASE shared'[e] # NoView
  BY <1>1, <1>3, <1>5, ServedEntryNext
<1> QED
  BY <1>4, <1>5

\* publish adds a version above all others.
LEMMA PublishExtendsCatalog ==
    ASSUME SnapshotDeployment, ServedInv, [RolloutNext]_vars, UNCHANGED <<shared, updateId>>,
           NEW u \in Updates, NEW v \in Versions, Publish(u, v)
    PROVE  \E entry \in Handoff!Entry : Handoff!Publish(entry)
<1> DEFINE entry == [version |-> v, content |-> live]
<1>1. /\ TypeOK /\ VersionsIdentifyUpdates
      /\ label \in [Updates -> Manifest \cup {NoManifest}] /\ live \in Contents
      /\ label[u] = NoManifest
      /\ label' = [label EXCEPT ![u] = [version |-> v, sum |-> live]]
  BY DEF ServedInv, TypedInv, BridgeInv, TypeOK, Publish
<1>2. entry \in Handoff!Entry
  BY <1>1 DEF Handoff!Entry
<1>3. \A m \in Catalog : m.version < v
  <2> SUFFICES ASSUME NEW w \in Updates, label[w] # NoManifest
               PROVE  label[w].version < v
    BY DEF Catalog, Entry
  <2>1. label[w].version \in Int /\ v \in Int
    BY <1>1, VersionsAssumption DEF Manifest
  <2>2. label[w].version <= latest
    BY <1>1 DEF VersionsIdentifyUpdates
  <2>3. latest \in Int /\ v > latest
    BY <1>1, VersionsAssumption DEF TypeOK, Publish
  <2> QED
    BY <2>1, <2>2, <2>3
<1>4. Catalog' = Catalog \cup {entry}
  <2>1. [version |-> v, sum |-> live] # NoManifest
    BY <1>1, NoManifestAssumption
  <2>2. Entry(u)' = entry
    BY <1>1 DEF Entry
  <2>3. \A w \in Updates \ {u} : label'[w] = label[w] /\ Entry(w)' = Entry(w)
    BY <1>1 DEF Entry
  <2>4. label'[u] # NoManifest
    BY <1>1, <2>1
  <2> HIDE DEF entry
  <2>5. Catalog' = {Entry(w)' : w \in {x \in Updates : label'[x] # NoManifest}}
    BY DEF Catalog
  <2> QED
    BY <1>1, <2>2, <2>3, <2>4, <2>5 DEF Catalog
<1>5. UNCHANGED Served
  BY NothingSwitched
<1> QED
  BY <1>2, <1>3, <1>4, <1>5 DEF Handoff!Publish

\* Every step of executors and bridges is a hand-off step or invisible.
LEMMA StepIsHandoffStep ==
    ASSUME SnapshotDeployment, ServedInv, [RolloutNext]_vars
    PROVE  [Handoff!Next]_<<Catalog, Served>>
<1>1. RolloutTypeOK /\ \A e \in Executors : CallTyped(e)
  BY DEF ServedInv, TypedInv, ExecTyped
<1>2. CASE UNCHANGED <<label, shared, updateId>>
  BY <1>2, NothingSwitched, SameLabelsSameCatalog
<1>3. CASE Trainer
  <2>1. CASE \E u \in Updates, v \in Versions : Publish(u, v)
    BY <1>3, <2>1, PublishExtendsCatalog DEF Trainer, execVars, Handoff!Next
  <2> QED
    BY <1>2, <1>3, <2>1 DEF Trainer, execVars, TrainStep, Release
<1>4. ASSUME NEW e \in Executors, Activate(e)
      PROVE  [Handoff!Next]_<<Catalog, Served>>
  <2>1. /\ UNCHANGED label
        /\ updateId'[e] = target[e]
        /\ \A f \in Executors \ {e} : shared'[f] = shared[f] /\ updateId'[f] = updateId[f]
    BY <1>1, <1>4 DEF Activate, bridgeVars, RolloutTypeOK
  <2>2. target[e] \in Updates /\ label[target[e]] # NoManifest
    BY <1>1, <1>4 DEF Activate, CallTyped
  <2>3. Entry(updateId[e])' \in Catalog
    BY <2>1, <2>2 DEF Catalog, Entry
  <2>4. Handoff!Drop(e) \/ Served' = [Served EXCEPT ![e] = Entry(updateId[e])']
    BY <2>1, OneSwitched
  <2>5. UNCHANGED Catalog
    BY <2>1, SameLabelsSameCatalog
  <2> QED
    BY <2>3, <2>4, <2>5 DEF Handoff!Next, Handoff!Switch
<1>5. ASSUME NEW e \in Executors, NEW u \in Updates, ReleaseWeightUpdate(e, u)
      PROVE  [Handoff!Next]_<<Catalog, Served>>
  <2>1. /\ UNCHANGED label
        /\ \A f \in Executors \ {e} : shared'[f] = shared[f] /\ updateId'[f] = updateId[f]
    BY <1>1, <1>5 DEF ReleaseWeightUpdate, Release, RolloutTypeOK
  <2>2. CASE updateId[e] = u
    <3>1. shared'[e] = NoView
      BY <1>1, <1>5, <2>2 DEF ReleaseWeightUpdate, RolloutTypeOK
    <3> QED
      BY <2>1, <3>1, OneSwitched DEF Handoff!Next
  <2>3. CASE updateId[e] # u
    BY <1>1, <1>2, <1>5, <2>1, <2>3 DEF ReleaseWeightUpdate, RolloutTypeOK
  <2> QED
    BY <2>2, <2>3
<1>6. ASSUME NEW e \in Executors, UpdateProgress(e)
      PROVE  [Handoff!Next]_<<Catalog, Served>>
  BY <1>1, <1>2, <1>4, <1>5, <1>6
  DEF UpdateProgress, InstallStep, InstallRaises, AcknowledgeStep, RejectStep,
      ReleasePrevious, ReleasePreviousRaises, Acknowledge, Reject, bridgeVars, CallTyped
<1>7. ASSUME NEW e \in Executors, NEW u \in Updates,
             ImportStep(e, u) \/ ImportRaises(e, u) \/ CallRelease(e, u)
      PROVE  [Handoff!Next]_<<Catalog, Served>>
  BY <1>2, <1>5, <1>7
  DEF ImportStep, ImportRaises, CallRelease, BeginUpdate, ImportUpdate, AttachThenRaise,
      bridgeVars
<1> QED
  BY <1>2, <1>3, <1>6, <1>7 DEF RolloutNext, vars, bridgeVars, execVars

\* The executors implement the hand-off for any number of executors, updates and
\* versions, over every transport that copies on publication.
THEOREM HandoffImplemented ==
    ASSUME SnapshotDeployment
    PROVE  RolloutSpec => ImplementsHandoff
<1>1. RolloutInit => Handoff!Init
  BY DEF RolloutInit, Init, Handoff!Init, Catalog, Served
<1>2. RolloutInit => ServedInv
  BY InitTyped
  DEF RolloutInit, Init, ServedInv, StorageSealed, CallSealed, Serving
<1>3. ServedInv /\ [RolloutNext]_vars => ServedInv' /\ [Handoff!Next]_<<Catalog, Served>>
  BY StepServed, StepIsHandoffStep
<1> QED
  BY <1>1, <1>2, <1>3, PTL DEF RolloutSpec, ImplementsHandoff, Handoff!Spec

-----------------------------------------------------------------------------
(***************************************************************************)
(* Executor and bridge keep the active update twice.                       *)
(***************************************************************************)
\* Only trainer and executor may share a bridge.
PrivateBridges ==
    \A e, f \in Executors : BridgeOf[e] = BridgeOf[f] /\ BridgeOf[e] # Publisher => e = f

\* Between acknowledge and the switch the bridge is ahead of the executor.
Agreeing(e) ==
    BridgeOf[e] # Publisher =>
        /\ activeId[BridgeOf[e]] = IF pc[e] = "activate" THEN target[e] ELSE updateId[e]
        /\ activeId[BridgeOf[e]] # NoUpdate =>
             activeVersion[BridgeOf[e]] =
               IF pc[e] = "activate" THEN label[target[e]].version ELSE version[e]

AgreeInv == TypedInv /\ \A e \in Executors : Agreeing(e)

\* A step by someone else leaves an executor's bridge's active update alone.
LEMMA BystanderAgrees ==
    ASSUME AgreeInv, NEW f \in Executors,
           \A w \in Updates : label[w] # NoManifest => label'[w] = label[w],
           pc'[f] = pc[f], target'[f] = target[f],
           version'[f] = version[f], updateId'[f] = updateId[f],
           BridgeOf[f] # Publisher =>
             /\ activeId'[BridgeOf[f]] = activeId[BridgeOf[f]]
             /\ activeVersion'[BridgeOf[f]] = activeVersion[BridgeOf[f]]
    PROVE  Agreeing(f)'
<1>1. Agreeing(f) /\ CallTyped(f)
  BY DEF AgreeInv, TypedInv, ExecTyped
<1> QED
  BY <1>1 DEF Agreeing, CallTyped

LEMMA ProgressAgrees ==
    ASSUME AgreeInv, NEW e \in Executors, UpdateProgress(e)
    PROVE  Agreeing(e)'
<1>1. /\ Agreeing(e) /\ CallTyped(e) /\ RolloutTypeOK
      /\ BridgeOf[e] \in Bridges
      /\ activeId \in [Bridges -> Updates \cup {NoUpdate}]
      /\ activeVersion \in [Bridges -> Versions \cup {NoVersion}]
  BY BridgeOfAssumption DEF AgreeInv, TypedInv, ExecTyped, BridgeInv, TypeOK
<1>2. CASE InstallStep(e) \/ InstallRaises(e)
  BY <1>1, <1>2 DEF InstallStep, InstallRaises, Goto, Agreeing, RolloutTypeOK, bridgeVars
<1>3. CASE AcknowledgeStep(e)
  BY <1>1, <1>3 DEF AcknowledgeStep, Acknowledge, Goto, Agreeing, CallTyped, RolloutTypeOK,
                    bridgeVars
<1>4. CASE RejectStep(e)
  BY <1>1, <1>4 DEF RejectStep, Reject, EndCall, Goto, Agreeing, RolloutTypeOK, bridgeVars
<1>5. CASE Activate(e)
  BY <1>1, <1>5 DEF Activate, EndCall, Goto, Agreeing, RolloutTypeOK, bridgeVars
<1>6. CASE ReleasePrevious(e)
  BY <1>1, <1>6 DEF ReleasePrevious, ReleaseWeightUpdate, Release, EndCall, Goto, Agreeing,
                    RolloutTypeOK
<1>7. CASE ReleasePreviousRaises(e)
  BY <1>1, <1>7 DEF ReleasePreviousRaises, EndCall, Goto, Agreeing, RolloutTypeOK, bridgeVars
<1> QED
  BY <1>2, <1>3, <1>4, <1>5, <1>6, <1>7 DEF UpdateProgress

LEMMA CallsAgree ==
    ASSUME AgreeInv, NEW e \in Executors, NEW u \in Updates,
           ImportStep(e, u) \/ ImportRaises(e, u) \/ CallRelease(e, u)
    PROVE  Agreeing(e)'
<1>1. /\ Agreeing(e) /\ RolloutTypeOK
      /\ BridgeOf[e] \in Bridges
      /\ activeId \in [Bridges -> Updates \cup {NoUpdate}]
  BY BridgeOfAssumption DEF AgreeInv, TypedInv, ExecTyped, BridgeInv, TypeOK
<1>2. CASE ImportStep(e, u) \/ ImportRaises(e, u)
  BY <1>1, <1>2 DEF ImportStep, ImportRaises, ImportUpdate, AttachThenRaise, BeginUpdate, Goto,
                    Agreeing, RolloutTypeOK, bridgeVars
<1>3. CASE CallRelease(e, u)
  BY <1>1, <1>3 DEF CallRelease, ReleaseWeightUpdate, Release, Agreeing, RolloutTypeOK
<1> QED
  BY <1>2, <1>3

LEMMA StepAgrees ==
    ASSUME PrivateBridges, AgreeInv, [RolloutNext]_vars
    PROVE  AgreeInv'
<1>1. TypedInv'
  BY StepTyped DEF AgreeInv
<1>2. \A w \in Updates : label[w] # NoManifest => label'[w] = label[w]
  BY StepIsBridgeStep, ManifestsAreFinal DEF AgreeInv, TypedInv
<1>3. /\ RolloutTypeOK /\ BridgeOf \in [Executors -> Bridges]
      /\ activeId \in [Bridges -> Updates \cup {NoUpdate}]
      /\ activeVersion \in [Bridges -> Versions \cup {NoVersion}]
  BY BridgeOfAssumption DEF AgreeInv, TypedInv, ExecTyped, BridgeInv, TypeOK
<1> SUFFICES ASSUME NEW f \in Executors
             PROVE  Agreeing(f)'
  BY <1>1 DEF AgreeInv
<1>4. CASE UNCHANGED vars
  BY <1>2, <1>4, BystanderAgrees DEF vars, bridgeVars, execVars
<1>5. CASE Trainer
  <2>1. BridgeOf[f] # Publisher =>
          /\ activeId'[BridgeOf[f]] = activeId[BridgeOf[f]]
          /\ activeVersion'[BridgeOf[f]] = activeVersion[BridgeOf[f]]
    BY <1>3, <1>5 DEF Trainer, TrainStep, Publish, Release
  <2> QED
    BY <1>2, <1>5, <2>1, BystanderAgrees DEF Trainer, execVars
<1>6. ASSUME NEW e \in Executors, UpdateProgress(e)
      PROVE  Agreeing(f)'
  <2>1. CASE e = f
    BY <1>6, <2>1, ProgressAgrees
  <2>2. CASE e # f
    <3>1. BridgeOf[f] # Publisher =>
            /\ activeId'[BridgeOf[f]] = activeId[BridgeOf[f]]
            /\ activeVersion'[BridgeOf[f]] = activeVersion[BridgeOf[f]]
      BY <1>3, <1>6, <2>2
      DEF PrivateBridges, UpdateProgress, InstallStep, InstallRaises, AcknowledgeStep,
          RejectStep, Activate, ReleasePrevious, ReleasePreviousRaises, ReleaseWeightUpdate, Acknowledge, Reject,
          Release, bridgeVars
    <3> QED
      BY <1>2, <1>3, <1>6, <2>2, <3>1, OthersStandBy, BystanderAgrees
  <2> QED
    BY <2>1, <2>2
<1>7. ASSUME NEW e \in Executors, NEW u \in Updates,
             ImportStep(e, u) \/ ImportRaises(e, u) \/ CallRelease(e, u)
      PROVE  Agreeing(f)'
  <2>1. CASE e = f
    BY <1>7, <2>1, CallsAgree
  <2>2. CASE e # f
    <3>1. BridgeOf[f] # Publisher =>
            /\ activeId'[BridgeOf[f]] = activeId[BridgeOf[f]]
            /\ activeVersion'[BridgeOf[f]] = activeVersion[BridgeOf[f]]
      BY <1>3, <1>7, <2>2
      DEF PrivateBridges, ImportStep, ImportRaises, CallRelease, ReleaseWeightUpdate,
          ImportUpdate, AttachThenRaise, Release, bridgeVars
    <3> QED
      BY <1>2, <1>3, <1>7, <2>2, <3>1, OthersStandBy, BystanderAgrees
  <2> QED
    BY <2>1, <2>2
<1> QED
  BY <1>4, <1>5, <1>6, <1>7 DEF RolloutNext

\* Executors and bridges each keep the active update and its version; between
\* calls the two never differ, whichever calls failed and wherever.
THEOREM BridgeAlwaysAgrees ==
    ASSUME PrivateBridges
    PROVE  RolloutSpec => []BridgeAgrees
<1>1. RolloutInit => AgreeInv
  <2> SUFFICES ASSUME RolloutInit PROVE AgreeInv
    OBVIOUS
  <2>1. TypedInv
    BY InitTyped
  <2> QED
    BY <2>1, BridgeOfAssumption DEF RolloutInit, Init, AgreeInv, Agreeing
<1>2. AgreeInv /\ [RolloutNext]_vars => AgreeInv'
  BY StepAgrees
<1>3. AgreeInv => BridgeAgrees
  BY NoUpdateAssumption DEF AgreeInv, Agreeing, BridgeAgrees
<1> QED
  BY <1>1, <1>2, <1>3, PTL DEF RolloutSpec

-----------------------------------------------------------------------------
(***************************************************************************)
(* What executors hold.                                                    *)
(***************************************************************************)
\* No two executors on one bridge.
OneExecutorPerBridge == \A e, f \in Executors : BridgeOf[e] = BridgeOf[f] => e = f

\* A call in progress: its target is the one other update that may have a record,
\* and is acknowledged only when the switch comes next; after the switch it is the
\* previous update that is left.  What is stranded was superseded, acknowledged, and
\* may be the target again.
Holding(e) ==
    /\ pc[e] \in {"install", "ack", "reject", "activate"} => previous[e] = updateId[e]
    /\ \A u \in Updates : HasRecord(BridgeOf[e], u) =>
         \/ u = updateId[e]
         \/ BridgeOf[e] = Publisher /\ rec[BridgeOf[e]][u].state = "published"
         \/ rec[BridgeOf[e]][u].state = "rejected"
         \/ u \in stranded[e]
         \/ pc[e] = "release" /\ u = previous[e]
         \/ /\ pc[e] \in {"install", "ack", "reject", "activate"}
            /\ u = target[e]
            /\ rec[BridgeOf[e]][u].state = "acknowledged" => pc[e] = "activate"

HoldInv == TypedInv /\ \A e \in Executors : Holding(e)

LEMMA ProgressHolds ==
    ASSUME HoldInv, NEW e \in Executors, UpdateProgress(e)
    PROVE  Holding(e)'
<1> DEFINE b == BridgeOf[e]
<1>1. /\ Holding(e) /\ CallTyped(e) /\ TypedInv /\ RolloutTypeOK
      /\ b \in Bridges
  BY BridgeOfAssumption DEF HoldInv, TypedInv, ExecTyped
<1>2. CASE InstallStep(e) \/ InstallRaises(e)
  BY <1>1, <1>2 DEF InstallStep, InstallRaises, Goto, Holding, HasRecord, RolloutTypeOK, bridgeVars
<1>3. CASE AcknowledgeStep(e)
  <2>1. target[e] \in Updates /\ UNCHANGED <<target, previous, updateId>>
    BY <1>1, <1>3 DEF AcknowledgeStep, CallTyped
  <2>2. CASE Acknowledge(b, target[e]) /\ Goto(e, "activate")
    <3>1. \A w \in Updates : w # target[e] => rec'[b][w] = rec[b][w]
      BY <1>1, <2>1, <2>2, OneRecordChanges DEF Acknowledge
    <3> QED
      BY <1>1, <1>3, <2>1, <2>2, <3>1
      DEF AcknowledgeStep, Goto, Holding, HasRecord, RolloutTypeOK
  <2>3. CASE UNCHANGED bridgeVars /\ Goto(e, "reject")
    BY <1>1, <1>3, <2>1, <2>3
    DEF AcknowledgeStep, Goto, Holding, HasRecord, RolloutTypeOK, bridgeVars
  <2> QED
    BY <1>3, <2>2, <2>3 DEF AcknowledgeStep
<1>4. CASE RejectStep(e)
  <2>1. target[e] \in Updates /\ UNCHANGED updateId /\ pc'[e] = "idle"
    BY <1>1, <1>4 DEF RejectStep, CallTyped, EndCall, Goto, RolloutTypeOK
  <2>2. CASE Reject(b, target[e])
    <3>1. rec'[b][target[e]] = [rec[b][target[e]] EXCEPT !.state = "rejected"]
      BY <1>1, <2>1, <2>2, OneRecordChanges DEF Reject
    <3>2. rec'[b][target[e]].state = "rejected"
      BY <1>1, <2>1, <3>1 DEF RolloutTypeOK, TypeOK, Record
    <3>3. \A w \in Updates : w # target[e] => rec'[b][w] = rec[b][w]
      BY <1>1, <2>1, <2>2, OneRecordChanges DEF Reject
    <3> QED
      BY <1>1, <1>4, <2>1, <3>2, <3>3 DEF RejectStep, Holding, HasRecord
  <2>3. CASE ~ Rejectable(b, target[e]) /\ UNCHANGED bridgeVars
    BY <1>1, <1>4, <2>1, <2>3 DEF RejectStep, Rejectable, Holding, HasRecord, bridgeVars
  <2> QED
    BY <1>4, <2>2, <2>3 DEF RejectStep
<1>5. CASE Activate(e)
  BY <1>1, <1>5, NoUpdateAssumption
  DEF Activate, EndCall, Goto, Holding, HasRecord, RolloutTypeOK, bridgeVars
<1>6. CASE ReleasePrevious(e)
  <2>1. /\ previous[e] \in Updates /\ pc'[e] = "idle"
        /\ updateId'[e] = IF updateId[e] = previous[e] THEN NoUpdate ELSE updateId[e]
    BY <1>1, <1>6
    DEF ReleasePrevious, ReleaseWeightUpdate, CallTyped, EndCall, Goto, RolloutTypeOK
  <2>2. /\ rec'[b][previous[e]] = Absent
        /\ \A w \in Updates : w # previous[e] => rec'[b][w] = rec[b][w]
    BY <1>1, <1>6, <2>1, OneRecordChanges DEF ReleasePrevious, ReleaseWeightUpdate, Release
  <2>3. stranded'[e] = stranded[e] \ {previous[e]}
    BY <1>1, <1>6 DEF ReleasePrevious, ReleaseWeightUpdate, RolloutTypeOK
  <2> QED
    BY <1>1, <1>6, <2>1, <2>2, <2>3 DEF ReleasePrevious, Holding, HasRecord, Absent
<1>7. CASE ReleasePreviousRaises(e)
  <2>1. stranded'[e] = stranded[e] \cup {previous[e]} /\ pc'[e] = "idle"
    BY <1>1, <1>7 DEF ReleasePreviousRaises, EndCall, Goto, RolloutTypeOK
  <2> QED
    BY <1>1, <1>7, <2>1 DEF ReleasePreviousRaises, Holding, HasRecord, bridgeVars
<1> QED
  BY <1>2, <1>3, <1>4, <1>5, <1>6, <1>7 DEF UpdateProgress

LEMMA CallsHold ==
    ASSUME HoldInv, NEW e \in Executors, NEW u \in Updates,
           ImportStep(e, u) \/ ImportRaises(e, u) \/ CallRelease(e, u)
    PROVE  Holding(e)'
<1> DEFINE b == BridgeOf[e]
<1>1. /\ Holding(e) /\ TypedInv /\ RolloutTypeOK /\ pc[e] = "idle"
      /\ b \in Bridges
  BY BridgeOfAssumption
  DEF HoldInv, TypedInv, ExecTyped, ImportStep, ImportRaises, CallRelease, BeginUpdate
<1>2. ASSUME ImportStep(e, u) \/ ImportRaises(e, u)
      PROVE  /\ target'[e] = u /\ previous'[e] = updateId[e] /\ updateId' = updateId
             /\ stranded' = stranded
             /\ pc'[e] \in {"install", "ack", "reject"}
  BY <1>1, <1>2 DEF ImportStep, ImportRaises, BeginUpdate, Goto, RolloutTypeOK
<1>3. CASE UNCHANGED rec /\ ImportRaises(e, u)
  BY <1>1, <1>2, <1>3 DEF Holding, HasRecord
<1>4. ASSUME ImportUpdate(b, u) \/ AttachThenRaise(b, u),
             ImportStep(e, u) \/ ImportRaises(e, u)
      PROVE  Holding(e)'
  <2>1. /\ \A w \in Updates : w # u => rec'[b][w] = rec[b][w]
        /\ rec[b][u].state # "rejected"
        /\ rec[b][u].state = "acknowledged" =>
             u = updateId[e] \/ u \in stranded[e]
        /\ rec'[b][u].state = "acknowledged" => rec[b][u].state = "acknowledged"
    <3>1. \A w \in Updates : w # u => rec'[b][w] = rec[b][w]
      BY <1>1, <1>4, OneRecordChanges DEF ImportUpdate, AttachThenRaise
    <3>2. rec[b][u].state # "rejected"
      BY <1>4 DEF ImportUpdate, AttachThenRaise, Importable
    <3>3. rec[b][u].state = "acknowledged" =>
            u = updateId[e] \/ u \in stranded[e]
      BY <1>1 DEF Holding, HasRecord
    <3>4. CASE ImportUpdate(b, u)
      <4>1. rec'[b][u] = [state |-> IF rec[b][u].state \in {"absent", "published"}
                                    THEN "imported" ELSE rec[b][u].state,
                          everImported |-> TRUE]
        BY <1>1, <3>4, OneRecordChanges DEF ImportUpdate
      <4> QED
        BY <3>1, <3>2, <3>3, <4>1
    <3>5. CASE AttachThenRaise(b, u)
      <4>1. rec'[b][u] = Fresh
        BY <1>1, <3>5, OneRecordChanges DEF AttachThenRaise
      <4> QED
        BY <3>1, <3>2, <3>3, <4>1 DEF Fresh
    <3> QED
      BY <1>4, <3>4, <3>5
  <2> QED
    BY <1>1, <1>2, <1>4, <2>1 DEF Holding, HasRecord
<1>5. CASE CallRelease(e, u)
  <2>1. /\ rec'[b][u] = Absent /\ pc' = pc
        /\ \A w \in Updates : w # u => rec'[b][w] = rec[b][w]
        /\ updateId'[e] = IF updateId[e] = u THEN NoUpdate ELSE updateId[e]
        /\ stranded'[e] = stranded[e] \ {u}
    BY <1>1, <1>5, OneRecordChanges
    DEF CallRelease, ReleaseWeightUpdate, Release, RolloutTypeOK
  <2> QED
    BY <1>1, <2>1 DEF Holding, HasRecord, Absent
<1> QED
  BY <1>3, <1>4, <1>5 DEF ImportStep, ImportRaises, bridgeVars

\* The trainer adds a published record to its own bridge or takes one away.
LEMMA TrainerHolds ==
    ASSUME HoldInv, NEW f \in Executors, BridgeOf[f] = Publisher, Trainer
    PROVE  Holding(f)'
<1>1. /\ Holding(f) /\ TypedInv /\ Publisher \in Bridges
      /\ UNCHANGED <<pc, target, previous, updateId, stranded>>
  BY PublisherAssumption DEF HoldInv, Trainer, execVars
<1>2. CASE UNCHANGED rec
  BY <1>1, <1>2 DEF Holding, HasRecord
<1>3. ASSUME NEW u \in Updates, SetRecord(Publisher, u, Fresh) \/ SetRecord(Publisher, u, Absent)
      PROVE  Holding(f)'
  <2>1. /\ rec'[Publisher][u] = Fresh \/ rec'[Publisher][u] = Absent
        /\ \A w \in Updates : w # u => rec'[Publisher][w] = rec[Publisher][w]
    BY <1>1, <1>3, OneRecordChanges
  <2>2. HasRecord(Publisher, u)' => rec'[Publisher][u].state = "published"
    BY <2>1 DEF HasRecord, Fresh, Absent
  <2> QED
    BY <1>1, <2>1, <2>2 DEF Holding, HasRecord
<1> QED
  BY <1>2, <1>3 DEF Trainer, TrainStep, Publish, Release

LEMMA StepHolds ==
    ASSUME OneExecutorPerBridge, HoldInv, [RolloutNext]_vars
    PROVE  HoldInv'
<1>1. TypedInv' /\ TypedInv /\ RolloutTypeOK
  BY StepTyped DEF HoldInv, TypedInv, ExecTyped
<1> SUFFICES ASSUME NEW f \in Executors
             PROVE  Holding(f)'
  BY <1>1 DEF HoldInv
<1>2. Holding(f) /\ SoleUser(f)
  BY DEF HoldInv, OneExecutorPerBridge, SoleUser
<1>3. ASSUME rec'[BridgeOf[f]] = rec[BridgeOf[f]], pc'[f] = pc[f], target'[f] = target[f],
             previous'[f] = previous[f], updateId'[f] = updateId[f],
             stranded'[f] = stranded[f]
      PROVE  Holding(f)'
  BY <1>2, <1>3 DEF Holding, HasRecord
<1>4. CASE UNCHANGED vars
  BY <1>3, <1>4 DEF vars, bridgeVars, execVars
<1>5. CASE Trainer
  <2>1. CASE BridgeOf[f] = Publisher
    BY <1>5, <2>1, TrainerHolds
  <2>2. CASE BridgeOf[f] # Publisher
    BY <1>1, <1>2, <1>3, <1>5, <2>2, OthersKeepRecords DEF Trainer, execVars
  <2> QED
    BY <2>1, <2>2
<1>6. ASSUME NEW e \in Executors, UpdateProgress(e)
      PROVE  Holding(f)'
  <2>1. CASE e = f
    BY <1>6, <2>1, ProgressHolds
  <2>2. CASE e # f
    BY <1>1, <1>2, <1>3, <1>6, <2>2, OthersKeepRecords, OthersStandBy
  <2> QED
    BY <2>1, <2>2
<1>7. ASSUME NEW e \in Executors, NEW u \in Updates,
             ImportStep(e, u) \/ ImportRaises(e, u) \/ CallRelease(e, u)
      PROVE  Holding(f)'
  <2>1. CASE e = f
    BY <1>7, <2>1, CallsHold
  <2>2. CASE e # f
    BY <1>1, <1>2, <1>3, <1>7, <2>2, OthersKeepRecords, OthersStandBy
  <2> QED
    BY <2>1, <2>2
<1> QED
  BY <1>4, <1>5, <1>6, <1>7 DEF RolloutNext

\* An executor's bridge holds nothing between calls but the active update, those it
\* rejected and those whose release raised when they were superseded, whatever else
\* raised, and what the trainer has published on the same bridge.
THEOREM OnlyActiveOrRejectedEverHeld ==
    ASSUME OneExecutorPerBridge
    PROVE  RolloutSpec => []OnlyActiveOrRejectedHeld
<1>1. RolloutInit => HoldInv
  <2> SUFFICES ASSUME RolloutInit PROVE HoldInv
    OBVIOUS
  <2>1. TypedInv
    BY InitTyped
  <2> QED
    BY <2>1, BridgeOfAssumption DEF RolloutInit, Init, HoldInv, Holding, HasRecord, Absent
<1>2. HoldInv /\ [RolloutNext]_vars => HoldInv'
  BY StepHolds
<1>3. HoldInv => OnlyActiveOrRejectedHeld
  BY DEF HoldInv, Holding, OnlyActiveOrRejectedHeld
<1> QED
  BY <1>1, <1>2, <1>3, PTL DEF RolloutSpec

-----------------------------------------------------------------------------
(***************************************************************************)
(* What the engine is on.                                                  *)
(***************************************************************************)
\* The adapter, and an engine that is given the tensors, follow the call: they are on
\* its target from the install on, and stay there when the call has returned.  What the install reads is
\* still mapped then.
EngineLoaded(e) ==
    /\ updateId[e] # NoUpdate => label[updateId[e]] # NoManifest
    /\ pc[e] = "install" /\ AliasesOnImport => HasRecord(BridgeOf[e], target[e])
    /\ HasAdapter /\ pc[e] \in {"ack", "activate"} =>
         /\ Adapter # "checkpoint" => engine[e] = label[target[e]].sum
         /\ adapterId[e] = target[e]
    /\ /\ HasAdapter /\ updateId[e] # NoUpdate
       /\ \/ pc[e] = "release"
          \/ pc[e] = "idle" /\ outcome[e] = "ok"
       => /\ Adapter # "checkpoint" => engine[e] = label[updateId[e]].sum
          /\ adapterId[e] = updateId[e]

EngineInv == ServedInv /\ \A e \in Executors : EngineLoaded(e)

\* An executor that does not move keeps its engine.
LEMMA BystanderLoaded ==
    ASSUME EngineInv, NEW f \in Executors,
           \A w \in Updates : label[w] # NoManifest => label'[w] = label[w],
           pc'[f] = pc[f], target'[f] = target[f], updateId'[f] = updateId[f],
           engine'[f] = engine[f], adapterId'[f] = adapterId[f], outcome'[f] = outcome[f],
           AliasesOnImport => rec'[BridgeOf[f]] = rec[BridgeOf[f]]
    PROVE  EngineLoaded(f)'
<1>1. EngineLoaded(f) /\ CallTyped(f) /\ updateId[f] \in Updates \cup {NoUpdate}
  BY DEF EngineInv, ServedInv, TypedInv, ExecTyped, RolloutTypeOK
<1> QED
  BY <1>1 DEF EngineLoaded, CallTyped, HasRecord

\* The engine gets the content of the manifest, since the storage it is read from
\* is mapped and sealed.
LEMMA InstallLoads ==
    ASSUME SnapshotDeployment, EngineInv, NEW e \in Executors, InstallStep(e)
    PROVE  Read(e, imported[e]) = label[target[e]].sum
<1>1. CallTyped(e) /\ CallSealed(e) /\ EngineLoaded(e) /\ StorageSealed /\ pc[e] = "install"
  BY DEF EngineInv, ServedInv, TypedInv, ExecTyped, InstallStep
<1>2. CASE AliasesOnImport
  BY <1>1, <1>2 DEF CallTyped, EngineLoaded, StorageSealed, SealIntact, Read, Mapped
<1>3. CASE ~ AliasesOnImport
  BY <1>1, <1>3 DEF CallSealed, Read
<1> QED
  BY <1>2, <1>3

LEMMA ProgressLoaded ==
    ASSUME SnapshotDeployment, EngineInv, NEW e \in Executors, UpdateProgress(e)
    PROVE  EngineLoaded(e)'
<1>1. EngineLoaded(e) /\ CallTyped(e) /\ CallSealed(e) /\ RolloutTypeOK
  BY DEF EngineInv, ServedInv, TypedInv, ExecTyped
<1>2. UNCHANGED label
  BY DEF UpdateProgress, InstallStep, InstallRaises, AcknowledgeStep, RejectStep, Activate,
         ReleasePrevious, ReleasePreviousRaises, ReleaseWeightUpdate, Acknowledge, Reject,
         Release, bridgeVars
<1>3. CASE InstallStep(e)
  <2>1. Adapter # "checkpoint" => engine'[e] = label[target[e]].sum
    BY <1>1, <1>3, InstallLoads DEF InstallStep, Loadable, RolloutTypeOK
  <2> QED
    BY <1>1, <1>2, <1>3, <2>1 DEF InstallStep, Goto, EngineLoaded, RolloutTypeOK
<1>4. CASE InstallRaises(e)
  BY <1>1, <1>2, <1>4 DEF InstallRaises, Goto, EngineLoaded, RolloutTypeOK
<1>5. CASE AcknowledgeStep(e)
  BY <1>1, <1>2, <1>5 DEF AcknowledgeStep, Goto, EngineLoaded, RolloutTypeOK
<1>6. CASE RejectStep(e)
  BY <1>1, <1>2, <1>6 DEF RejectStep, EndCall, Goto, EngineLoaded, RolloutTypeOK
<1>7. CASE Activate(e)
  BY <1>1, <1>2, <1>7 DEF Activate, EndCall, Goto, EngineLoaded, CallTyped, RolloutTypeOK
<1>8. CASE ReleasePrevious(e)
  <2>1. pc[e] = "release" /\ pc'[e] = "idle" /\ UNCHANGED engine /\ previous[e] # updateId[e]
    BY <1>1, <1>8 DEF ReleasePrevious, EndCall, Goto, CallSealed, RolloutTypeOK
  <2>2. updateId'[e] = updateId[e] /\ (adapterId[e] = updateId[e] => adapterId'[e] = updateId[e])
    BY <1>1, <1>8, <2>1 DEF ReleasePrevious, ReleaseWeightUpdate, RolloutTypeOK
  <2> QED
    BY <1>1, <1>2, <2>1, <2>2 DEF EngineLoaded
<1>9. CASE ReleasePreviousRaises(e)
  BY <1>1, <1>2, <1>9 DEF ReleasePreviousRaises, EndCall, Goto, EngineLoaded, RolloutTypeOK
<1> QED
  BY <1>3, <1>4, <1>5, <1>6, <1>7, <1>8, <1>9 DEF UpdateProgress

LEMMA CallsLoaded ==
    ASSUME EngineInv, NEW e \in Executors, NEW u \in Updates,
           ImportStep(e, u) \/ ImportRaises(e, u) \/ CallRelease(e, u)
    PROVE  EngineLoaded(e)'
<1>1. EngineLoaded(e) /\ TypedInv /\ RolloutTypeOK /\ BridgeOf[e] \in Bridges
  BY BridgeOfAssumption DEF EngineInv, ServedInv, TypedInv, ExecTyped
<1>2. UNCHANGED label
  BY DEF ImportStep, ImportRaises, CallRelease, ReleaseWeightUpdate, ImportUpdate,
         AttachThenRaise, Release, bridgeVars
<1>3. CASE ImportStep(e, u)
  <2> DEFINE s == rec[BridgeOf[e]][u].state
             r == [state |-> IF s \in {"absent", "published"} THEN "imported" ELSE s,
                   everImported |-> TRUE]
  <2>1. r.state # "absent" /\ SetRecord(BridgeOf[e], u, r)
    BY <1>3 DEF ImportStep, ImportUpdate
  <2> HIDE DEF r
  <2>2. rec'[BridgeOf[e]][u].state # "absent"
    BY <1>1, <2>1, OneRecordChanges
  <2> QED
    BY <1>1, <1>2, <1>3, <2>2
    DEF ImportStep, BeginUpdate, Goto, EngineLoaded, HasRecord, RolloutTypeOK
<1>4. CASE ImportRaises(e, u)
  BY <1>1, <1>2, <1>4 DEF ImportRaises, BeginUpdate, Goto, EngineLoaded, RolloutTypeOK
<1>5. CASE CallRelease(e, u)
  BY <1>1, <1>2, <1>5 DEF CallRelease, ReleaseWeightUpdate, EngineLoaded, RolloutTypeOK
<1> QED
  BY <1>3, <1>4, <1>5

LEMMA StepLoaded ==
    ASSUME SnapshotDeployment, EngineInv, [RolloutNext]_vars
    PROVE  EngineInv'
<1>1. ServedInv'
  BY StepServed DEF EngineInv
<1>2. TypedInv /\ RolloutTypeOK
  BY DEF EngineInv, ServedInv, TypedInv, ExecTyped
<1>3. \A w \in Updates : label[w] # NoManifest => label'[w] = label[w]
  BY <1>2, StepIsBridgeStep, ManifestsAreFinal DEF TypedInv
<1> SUFFICES ASSUME NEW f \in Executors
             PROVE  EngineLoaded(f)'
  BY <1>1 DEF EngineInv
<1>4. AliasesOnImport => OwnsBridge(f)
  BY DEF SnapshotDeployment, OwnsBridge, SoleUser
<1>5. CASE UNCHANGED vars
  BY <1>3, <1>5, BystanderLoaded DEF vars, bridgeVars, execVars
<1>6. CASE Trainer
  BY <1>2, <1>3, <1>4, <1>6, BystanderLoaded, OthersKeepRecords DEF OwnsBridge, Trainer, execVars
<1>7. ASSUME NEW e \in Executors, UpdateProgress(e)
      PROVE  EngineLoaded(f)'
  <2>1. CASE e = f
    BY <1>7, <2>1, ProgressLoaded
  <2>2. CASE e # f
    <3>1. AliasesOnImport => rec'[BridgeOf[f]] = rec[BridgeOf[f]]
      BY <1>2, <1>4, <1>7, <2>2, OthersKeepRecords DEF OwnsBridge
    <3> QED
      BY <1>2, <1>3, <1>7, <2>2, <3>1, OthersStandBy, BystanderLoaded
  <2> QED
    BY <2>1, <2>2
<1>8. ASSUME NEW e \in Executors, NEW u \in Updates,
             ImportStep(e, u) \/ ImportRaises(e, u) \/ CallRelease(e, u)
      PROVE  EngineLoaded(f)'
  <2>1. CASE e = f
    BY <1>8, <2>1, CallsLoaded
  <2>2. CASE e # f
    <3>1. AliasesOnImport => rec'[BridgeOf[f]] = rec[BridgeOf[f]]
      BY <1>2, <1>4, <1>8, <2>2, OthersKeepRecords DEF OwnsBridge
    <3> QED
      BY <1>2, <1>3, <1>8, <2>2, <3>1, OthersStandBy, BystanderLoaded
  <2> QED
    BY <2>1, <2>2
<1> QED
  BY <1>5, <1>6, <1>7, <1>8 DEF RolloutNext

\* After every update_weights that returned, the adapter is on the update the executor
\* reports and so is an engine that is given the imported tensors, also if an earlier call left the engine torn and whatever trainer
\* and other executors do meanwhile.
THEOREM EngineAlwaysFollowsSuccess ==
    ASSUME SnapshotDeployment
    PROVE  RolloutSpec => []EngineFollowsSuccess
<1>1. RolloutInit => EngineInv
  BY InitTyped
  DEF RolloutInit, Init, EngineInv, EngineLoaded, ServedInv, StorageSealed, CallSealed, Serving
<1>2. EngineInv /\ [RolloutNext]_vars => EngineInv'
  BY StepLoaded
<1>3. EngineInv => EngineFollowsSuccess
  BY DEF EngineInv, EngineLoaded, EngineFollowsSuccess
<1> QED
  BY <1>1, <1>2, <1>3, PTL DEF RolloutSpec
===============================================================================
