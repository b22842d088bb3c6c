SPECIFICATION FairSpec
CONSTANTS
    MaxClients = 3
    MaxNumber = 1
    MaxPending = 1
    Aborters = {1}
INVARIANTS TypeOK RoundIsFair
PROPERTIES RoundsGoOn
CHECK_DEADLOCK FALSE
