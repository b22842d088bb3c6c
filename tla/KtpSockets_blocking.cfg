SPECIFICATION Spec
CONSTANTS
    MaxSockets = 2
    Pids = {p1, p2}
    Foreign = {}
    Addrs = {a, b}
SYMMETRY Symmetry
INVARIANT CallsDoNotBlock
CHECK_DEADLOCK FALSE
