SPECIFICATION Spec
CONSTANTS
    Servers = {s}
    Others = {o1, o2}
    MaxServers = 2
    HelloInterval = 1
    QueryInterval = 1
    ServerTimeout = 3
INVARIANTS TypeOK RespondedWasAsked
PROPERTIES DroppedWasSilent ImplementsMembership DeadServersLeave
CHECK_DEADLOCK FALSE
