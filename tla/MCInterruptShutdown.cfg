SPECIFICATION FairSpec
CONSTANTS
    agent = agent
    tool = tool
    server = server
    ralph = ralph
    Ralph = ralph
    Procs <- MCProcs
    Parent <- MCParent
    Agents = {agent}
    Pty = {}
    Stuck = {server}
    Denied = {server}
    Foreign = {server}
    Unknown = {server}
    Background = {}
    Threads = {"main", "interrupt"}
    MaxPresses = 2
INVARIANTS
    RecordsAreActive
    RecordsTellTheTruth
    NoSiblingIsStranded
    OnePressPauses
PROPERTIES
    TerminalIsFinal
    InterruptedRunEnds
CHECK_DEADLOCK FALSE
