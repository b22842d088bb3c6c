SPECIFICATION Spec
CONSTANTS
    MaxSockets = 2
    Pids = {p1, p2}
    Foreign = {}
    Addrs = {a, b}
SYMMETRY Symmetry
INVARIANTS TypeOK UniqueBinding OwnedByOne DescriptorsAccounted BoundToSource
CHECK_DEADLOCK FALSE
