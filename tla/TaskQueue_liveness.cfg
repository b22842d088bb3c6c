SPECIFICATION FairSpec
CONSTANTS
    t1 = t1
    t2 = t2
    Clients = {c1, c2}
    Scripted = {c1}
    Slots = 3
    TaskList <- MCTaskList
    NoTask = NoTask
    Garbled = Garbled
    MaxCommands = 2
    Signals = FALSE

PROPERTIES TaskComesBack ClientAnswered
CHECK_DEADLOCK FALSE
