SPECIFICATION Spec
CONSTANTS
    Trainer = trainer
    Rollout = rollout
    Processes = {trainer, rollout}
    Devices <- mcDevices
    NoBackend = NoBackend
    MaxRestarts <- mcMaxRestarts
    Retries = TRUE
    Lookups <- mcLookups
    MaxTrains = 2
    NoCall = NoCall
    NoManifest = NoManifest
    NoVersion = NoVersion
INVARIANTS
    VersionsNameWeights
    AnnouncedIsPublishable
    NoActorLost
PROPERTY OperatorKept
CHECK_DEADLOCK FALSE
