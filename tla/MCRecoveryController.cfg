SPECIFICATION FairSpec
CONSTANTS
    N = 2
    TechnicalCap = 1
    ChainRetries = 2
    AgentFailureRetries = 1
    BrokenLimit = 2
    NoReason = NoReason
    BrokenReasons = {empty_output, no_credentials}
    BaseBackoff = 1
    MaxBackoff = 2
    RetryDelay = 1
    SleepErrorDelay = 1
    Durations = {0, 1}
    Outcomes = {"success", "invalid_artifact", "technical", "agent", "unavailable", "broken", "user_config", "agent_failure", "skip_agent", "expired"}
    MaxKills = 1
INVARIANTS
    TypeOK
    SameAgentRetriesBounded
PROPERTIES
    FirstChoiceReturns
    GivesUpOnlyExhausted
    PersistentFailureGivesUp
