\* local-clone: trainer and executor on one bridge object; the
\* trainer may release an update the executor is importing or serving.
SPECIFICATION FairRolloutSpec
CONSTANTS
    pub = pub
    r1 = r1
    r2 = r2
    e1 = e1
    e2 = e2
    Bridges = {pub}
    Publisher = pub
    Updates = {u1, u2}
    Versions = {0, 1, 2}
    Contents = {w0, w1}
    SnapshotsOnPublish = TRUE
    AliasesOnImport = FALSE
    AttachesForeign = FALSE
    NoUpdate = NoUpdate
    NoManifest = NoManifest
    Executors = {e1}
    BridgeOf <- SharedBridge
    Adapter = "hooks"
    TearsOnFailure = TRUE
    Dangling = Dangling
    NoView = NoView
    Unloaded = Unloaded
    Torn = Torn
INVARIANTS EngineFollowsSuccess OnlyActiveOrRejectedHeld
PROPERTY UpdatesEnd
