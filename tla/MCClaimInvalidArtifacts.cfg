SPECIFICATION FairSpec
CONSTANTS
    N = 2
    TechnicalCap = 1
    ChainRetries = 2
    AgentFailureRetries = 2
    BrokenLimit = 2
    NoReason = NoReason
    BrokenReasons = {empty_output, no_credentials}
    BaseBackoff = 1
    MaxBackoff = 3
    RetryDelay = 1
    SleepErrorDelay = 1
    Durations = {0, 1}
    Outcomes = {"invalid_artifact"}
    MaxKills = 0
PROPERTY
    InvalidArtifactsGiveUp
