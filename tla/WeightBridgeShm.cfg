\* shared-memory and cuda-vmm: the trainer's bridge and a rollout worker's, and
\* holders of aliases that write through them.
SPECIFICATION Spec
CONSTANTS
    Bridges = {pub, roll}
    Publisher = pub
    Updates = {u1, u2}
    Versions = {0, 1, 2}
    Contents = {w0, w1}
    SnapshotsOnPublish = TRUE
    AliasesOnImport = TRUE
    AttachesForeign = TRUE
    NoUpdate = NoUpdate
    NoManifest = NoManifest
SYMMETRY UpdateSymmetry
INVARIANTS ActiveIsAcknowledged VersionsIdentifyUpdates
PROPERTIES RejectionIsFinal ActivationIsSealed
