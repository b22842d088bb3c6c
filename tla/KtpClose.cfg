SPECIFICATION FairSpecClose
CONSTANTS
    MaxSeq = 4
    MaxMessages = 2
    Lifetime = 2
    NMsgs = 4
    Duplicates = FALSE
PROPERTIES AllDelivered DrainsOrDeserted
CHECK_DEADLOCK FALSE
