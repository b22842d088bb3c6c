SPECIFICATION Spec
CONSTANTS
    t1 = t1
    t2 = t2
    Clients = {c1, c2}
    Scripted = {c1}
    Slots = 3
    TaskList <- MCTaskList
    NoTask = NoTask
    Garbled = Garbled
    MaxCommands = 2
    Signals = TRUE
INVARIANTS TypeOK MutualExclusion TaskConservation ResultsMatch
PROPERTIES ImplementsPool
CHECK_DEADLOCK FALSE
