SPECIFICATION FairSpec
CONSTANTS
    Worktrees = {w1, w2}
    MaxAttempts = 2
    MaxChanges = 1
    MaxFaults = 2
INVARIANTS
    CrashInsideAttemptIsSafe
PROPERTIES
    LandingsAreReal
    MainlineOnlyAdvances
    OnlyRecordedTipsLand
    OnlyRecoveryTakesBack
    SeamsAndRecoveriesEnd
