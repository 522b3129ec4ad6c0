SPECIFICATION Spec
CONSTANTS
    Units <- MCUnits
    dependencies <- MCDependencies
    max_workers = 2
    verification = TRUE
    MaxAttempts = 1
INVARIANT ResumesOnlyUnfinished
CHECK_DEADLOCK FALSE
