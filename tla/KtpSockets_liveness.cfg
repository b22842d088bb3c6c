SPECIFICATION FairSpec
CONSTANTS
    MaxSockets = 2
    Pids = {p1, p2}
    Foreign = {}
    Addrs = {a}
PROPERTY DeadSocketsFreed
CHECK_DEADLOCK FALSE
