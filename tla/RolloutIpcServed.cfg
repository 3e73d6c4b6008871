\* cuda-ipc: the storage behind an active update is the trainer's parameters.
SPECIFICATION RolloutSpec
CONSTANTS
    pub = pub
    r1 = r1
    r2 = r2
    e1 = e1
    e2 = e2
    Bridges = {pub, r1}
    Publisher = pub
    Updates = {u1, u2}
    Versions = {0, 1}
    Contents = {w0, w1}
    SnapshotsOnPublish = FALSE
    AliasesOnImport = TRUE
    AttachesForeign = TRUE
    NoUpdate = NoUpdate
    NoManifest = NoManifest
    Executors = {e1}
    BridgeOf <- OneOwnBridge
    Adapter = "none"
    TearsOnFailure = FALSE
    Dangling = Dangling
    NoView = NoView
    Unloaded = Unloaded
    Torn = Torn
INVARIANT ReportedWeightsServed
