SPECIFICATION Spec
CONSTANTS
    MaxSeq = 4
    MaxMessages = 2
    Lifetime = 2
    NMsgs = 5
    Duplicates = TRUE
INVARIANTS
    IInv InOrderDelivery FlowControl AckedIsReceived UnackedIsKept PacketsIntact TimersCoverWindow FullIsRemembered SizesCount
PROPERTIES WindowsOnlyAdvance ImplementsChannel
CHECK_DEADLOCK FALSE
