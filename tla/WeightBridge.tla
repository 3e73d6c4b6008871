----------------------------- MODULE WeightBridge -----------------------------
(***************************************************************************)
(* The weight-update lifecycle of rl_engine/executors/bridge.py: the       *)
(* records a bridge object keeps for every update id, and the operations   *)
(* publish, import_update, acknowledge, reject and release on them.        *)
(*                                                                         *)
(* One trainer publishes through the bridge Publisher; the other members   *)
(* of Bridges live in rollout processes.  The three Boolean constants      *)
(* describe a transport:                                                   *)
(*                                                                         *)
(*                  SnapshotsOnPublish  AliasesOnImport  AttachesForeign   *)
(*    local-clone          TRUE              FALSE            FALSE        *)
(*    shared-memory        TRUE              TRUE             TRUE         *)
(*    cuda-vmm             TRUE              TRUE             TRUE         *)
(*    cuda-ipc             FALSE             TRUE             TRUE         *)
(*                                                                         *)
(* Tensor data is abstracted to one content per update, and a manifest to  *)
(* its version and checksum (SHA-256 is taken to be injective, so the      *)
(* checksum is the content that was hashed).  Calls that raise without     *)
(* changing any state are not actions: their conditions are the negated    *)
(* guards.                                                                 *)
(***************************************************************************)
EXTENDS Integers, FiniteSets

CONSTANTS
    Bridges,             \* bridge objects, one per process
    Publisher,           \* the trainer's bridge
    Updates,             \* update ids (uuid4 values)
    Versions,            \* weight_version arguments the trainer may pass
    Contents,            \* what the model's tensors may hold
    SnapshotsOnPublish,  \* publish copies the tensors into new storage
    AliasesOnImport,     \* import_update returns the stored tensors, uncopied
    AttachesForeign,     \* import_update opens updates it has no record of
    NoUpdate,            \* None, as an update id
    NoManifest           \* an update id that has not been published

ASSUME PublisherAssumption == Publisher \in Bridges
ASSUME VersionsAssumption == Versions \subseteq Int
ASSUME NoUpdateAssumption == NoUpdate \notin Updates
ASSUME NoManifestAssumption == NoManifest \notin [version : Versions, sum : Contents]
ASSUME TransportAssumption ==
    /\ SnapshotsOnPublish \in BOOLEAN
    /\ AliasesOnImport \in BOOLEAN
    /\ AttachesForeign \in BOOLEAN

VARIABLES
    live,           \* contents of the trainer's parameters
    label,          \* update id -> its manifest
    stored,         \* update id -> contents of the storage that backs it
    latest,         \* _latest_published_weight_version of Publisher
    rec,            \* bridge -> update id -> record in _updates
    activeVersion,  \* bridge -> active_weight_version
    activeId        \* bridge -> active_update_id

bridgeVars == <<live, label, stored, latest, rec, activeVersion, activeId>>

-----------------------------------------------------------------------------
(***************************************************************************)
(* Records.  The state "released" is never stored: release pops the record *)
(* and update_status answers "released" for an unknown id, so "absent"     *)
(* stands for both.  import_count is only ever compared with zero.         *)
(***************************************************************************)
Manifest == [version : Versions, sum : Contents]
RecordState == {"absent", "published", "imported", "acknowledged", "rejected"}
Record == [state : RecordState, everImported : BOOLEAN]

Absent == [state |-> "absent", everImported |-> FALSE]
Fresh == [state |-> "published", everImported |-> FALSE]

NoVersion == -1

HasRecord(b, u) == rec[b][u].state # "absent"

\* A process without a record can open the storage while the publisher offers
\* it (segment names linked, fd broker running); the parameters' own storage
\* outlives the publisher's record of it.
Attachable(u) ==
    /\ AttachesForeign
    /\ HasRecord(Publisher, u) \/ ~ SnapshotsOnPublish

\* _validate_manifest, for the manifest the publisher handed out: the stored
\* tensors still have the checksum on the label.
SealIntact(u) == stored[u] = label[u].sum

Importable(b, u) ==
    /\ label[u] # NoManifest
    /\ HasRecord(b, u) \/ Attachable(u)
    /\ rec[b][u].state # "rejected"
    /\ SealIntact(u)

\* Mutant: the rejected state is not checked.
AcknowledgeableRejected(b, u) ==
    /\ HasRecord(b, u)
    /\ rec[b][u].everImported
    /\ SealIntact(u)

\* Mutant: acknowledge does not validate the stored tensors again.
AcknowledgeableUnsealed(b, u) ==
    /\ HasRecord(b, u)
    /\ rec[b][u].state # "rejected"
    /\ rec[b][u].everImported

Acknowledgeable(b, u) ==
    /\ HasRecord(b, u)
    /\ rec[b][u].state # "rejected"
    /\ rec[b][u].everImported
    /\ SealIntact(u)

\* Mutant: an acknowledged update can be rejected.
RejectableAlways(b, u) == HasRecord(b, u)

Rejectable(b, u) ==
    /\ HasRecord(b, u)
    /\ rec[b][u].state # "acknowledged"

SetRecord(b, u, r) == rec' = [rec EXCEPT ![b][u] = r]

-----------------------------------------------------------------------------
Init ==
    /\ live \in Contents
    /\ label = [u \in Updates |-> NoManifest]
    /\ stored = [u \in Updates |-> live]
    /\ latest = -1
    /\ rec = [b \in Bridges |-> [u \in Updates |-> Absent]]
    /\ activeVersion = [b \in Bridges |-> NoVersion]
    /\ activeId = [b \in Bridges |-> NoUpdate]

\* The optimizer writes the parameters in place.  Storage published without a
\* copy is the parameters' own storage and changes with them.
TrainStep ==
    /\ live' \in Contents \ {live}
    /\ stored' = [u \in Updates |->
                    IF SnapshotsOnPublish \/ label[u] = NoManifest
                    THEN stored[u] ELSE live']
    /\ UNCHANGED <<label, latest, rec, activeVersion, activeId>>

\* Mutant: a version may be published twice.
PublishSameVersion(u, v) ==
    /\ label[u] = NoManifest
    /\ v >= latest
    /\ label' = [label EXCEPT ![u] = [version |-> v, sum |-> live]]
    /\ stored' = [stored EXCEPT ![u] = live]
    /\ latest' = v
    /\ SetRecord(Publisher, u, Fresh)
    /\ UNCHANGED <<live, activeVersion, activeId>>

\* publish: refuses a version that is not above the last one, then stores the
\* tensors and their descriptors under a fresh id.
Publish(u, v) ==
    /\ label[u] = NoManifest
    /\ v > latest
    /\ label' = [label EXCEPT ![u] = [version |-> v, sum |-> live]]
    /\ stored' = [stored EXCEPT ![u] = live]
    /\ latest' = v
    /\ SetRecord(Publisher, u, Fresh)
    /\ UNCHANGED <<live, activeVersion, activeId>>

\* import_update: attach if there is no record, validate, count the import;
\* only a record in state "published" moves to "imported".
ImportUpdate(b, u) ==
    /\ Importable(b, u)
    /\ SetRecord(b, u,
         [state |-> IF rec[b][u].state \in {"absent", "published"}
                    THEN "imported" ELSE rec[b][u].state,
          everImported |-> TRUE])
    /\ UNCHANGED <<live, label, stored, latest, activeVersion, activeId>>

\* import_update of a foreign update whose attach succeeds and whose next step
\* (waiting for the publish event, or the manifest's layout check) raises: the
\* attached record stays behind.
AttachThenRaise(b, u) ==
    /\ ~ HasRecord(b, u)
    /\ Importable(b, u)
    /\ SetRecord(b, u, Fresh)
    /\ UNCHANGED <<live, label, stored, latest, activeVersion, activeId>>

\* acknowledge: revalidates the stored tensors, then makes the update active.
Acknowledge(b, u) ==
    /\ Acknowledgeable(b, u)
    /\ SetRecord(b, u, [rec[b][u] EXCEPT !.state = "acknowledged"])
    /\ activeVersion' = [activeVersion EXCEPT ![b] = label[u].version]
    /\ activeId' = [activeId EXCEPT ![b] = u]
    /\ UNCHANGED <<live, label, stored, latest>>

\* reject: anything but an acknowledged update.
Reject(b, u) ==
    /\ Rejectable(b, u)
    /\ SetRecord(b, u, [rec[b][u] EXCEPT !.state = "rejected"])
    /\ UNCHANGED <<live, label, stored, latest, activeVersion, activeId>>

\* Mutant: release does not clear active_update_id.
ReleaseKeepsActive(b, u) ==
    /\ SetRecord(b, u, Absent)
    /\ UNCHANGED <<live, label, stored, latest, activeVersion, activeId>>

\* release: idempotent; drops the record in any state and keeps
\* active_weight_version.
Release(b, u) ==
    /\ SetRecord(b, u, Absent)
    /\ activeId' = [activeId EXCEPT ![b] = IF @ = u THEN NoUpdate ELSE @]
    /\ UNCHANGED <<live, label, stored, latest, activeVersion>>

\* A process that holds aliases of the storage writes through them.
WriteThroughAlias(b, u) ==
    /\ AliasesOnImport
    /\ SnapshotsOnPublish
    /\ rec[b][u].everImported
    /\ \E c \in Contents : stored' = [stored EXCEPT ![u] = c]
    /\ UNCHANGED <<live, label, latest, rec, activeVersion, activeId>>

Next ==
    \/ TrainStep
    \/ \E u \in Updates, v \in Versions : Publish(u, v)
    \/ \E b \in Bridges, u \in Updates :
         \/ ImportUpdate(b, u)
         \/ AttachThenRaise(b, u)
         \/ Acknowledge(b, u)
         \/ Reject(b, u)
         \/ Release(b, u)
         \/ WriteThroughAlias(b, u)

Spec == Init /\ [][Next]_bridgeVars

-----------------------------------------------------------------------------
(***************************************************************************)
(* Properties.                                                             *)
(***************************************************************************)
TypeOK ==
    /\ live \in Contents
    /\ label \in [Updates -> Manifest \cup {NoManifest}]
    /\ stored \in [Updates -> Contents]
    /\ latest \in Versions \cup {-1}
    /\ rec \in [Bridges -> [Updates -> Record]]
    /\ activeVersion \in [Bridges -> Versions \cup {NoVersion}]
    /\ activeId \in [Bridges -> Updates \cup {NoUpdate}]

\* The update a bridge reports as active is one it holds a record of, that was
\* acknowledged there, and whose version is the one reported: no order of
\* import, re-import, reject and release of this or another update leaves
\* active_update_id pointing at anything else.
ActiveIsAcknowledged ==
    \A b \in Bridges : activeId[b] # NoUpdate =>
        /\ rec[b][activeId[b]].state = "acknowledged"
        /\ activeVersion[b] = label[activeId[b]].version

\* import_count and the record's state agree: an update was imported before it
\* was acknowledged, and "published" means nobody imported it through this
\* bridge.
ImportsMatchState ==
    \A b \in Bridges, u \in Updates :
        /\ rec[b][u].state \in {"imported", "acknowledged"} => rec[b][u].everImported
        /\ rec[b][u].state \in {"absent", "published"} => ~ rec[b][u].everImported

\* Every record belongs to a published manifest.
RecordsAreLabelled ==
    \A b \in Bridges, u \in Updates : HasRecord(b, u) => label[u] # NoManifest

\* weight_version identifies an update for good, released ones included: no
\* version is above the publisher's latest and no two manifests share one.
VersionsIdentifyUpdates ==
    \A u \in Updates : label[u] # NoManifest =>
        /\ label[u].version <= latest
        /\ \A w \in Updates :
             label[w] # NoManifest /\ label[w].version = label[u].version => w = u

\* Once rejected by a bridge, an update takes part in nothing there until it is
\* released: no retry of import or acknowledge brings it back.
RejectionIsFinalStep ==
    \A b \in Bridges, u \in Updates :
        rec[b][u].state = "rejected" => rec'[b][u].state \in {"rejected", "absent"}

RejectionIsFinal == [][RejectionIsFinalStep]_bridgeVars

\* An update becomes a bridge's active one only while the storage behind it
\* still carries the checksum on its manifest, whoever wrote to that storage
\* between import and acknowledgement.
ActivationIsSealedStep ==
    \A b \in Bridges :
        activeId'[b] # activeId[b] /\ activeId'[b] # NoUpdate => SealIntact(activeId'[b])

ActivationIsSealed == [][ActivationIsSealedStep]_bridgeVars
=============================================================================
