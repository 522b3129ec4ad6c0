SPECIFICATION FairSpec
CONSTANTS
    MaxRestarts = 1
    MaxResets = 1
    ProbeFailures = 2
    MaxRetries = 2
    MaxFaults = 1
INVARIANTS
    TypeOK
    OneServerOnThePort
    SessionFileOutlivesServer
    NothingLeftBehind
PROPERTIES
    AgentIsServedOrReturned
    MainComesThrough
CHECK_DEADLOCK FALSE
