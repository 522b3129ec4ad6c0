SPECIFICATION FairSpec
CONSTANTS
    Units <- MCUnits
    dependencies <- MCDependencies
    max_workers = 2
    verification = TRUE
    MaxAttempts = 1
INVARIANTS
    DependenciesFirst
    WorkerLimit
    RecordedMeansDelivered
    NoStrayUnitsOnward
    OnlyCompleteWavesAreVerified
    BlockedUnitsAreFailed
PROPERTIES
    WaveSettles
    ImplementsPlan
CHECK_DEADLOCK FALSE
