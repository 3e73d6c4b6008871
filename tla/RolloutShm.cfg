\* shared-memory and cuda-vmm: one trainer and two rollout processes, each with
\* its own bridge and no engine adapter.
SPECIFICATION RolloutSpec
CONSTANTS
    pub = pub
    r1 = r1
    r2 = r2
    e1 = e1
    e2 = e2
    Bridges = {pub, r1, r2}
    Publisher = pub
    Updates = {u1, u2}
    Versions = {0, 1}
    Contents = {w0, w1}
    SnapshotsOnPublish = TRUE
    AliasesOnImport = TRUE
    AttachesForeign = TRUE
    NoUpdate = NoUpdate
    NoManifest = NoManifest
    Executors = {e1, e2}
    BridgeOf <- OwnBridges
    Adapter = "none"
    TearsOnFailure = FALSE
    Dangling = Dangling
    NoView = NoView
    Unloaded = Unloaded
    Torn = Torn
SYMMETRY Symmetry
INVARIANTS ReportedWeightsServed BridgeAgrees OnlyActiveOrRejectedHeld
PROPERTY ImplementsHandoff
