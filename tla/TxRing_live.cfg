CONSTANTS
    s1 = s1  s2 = s2  s3 = s3  s4 = s4
    Skbs = {s1, s2}
    NoSkb = NoSkb
    NumTxDesc = 4  MaxSkbFrags = 1  U32 = 8
    Padding = FALSE  MapMayFail = FALSE  SplitWake = FALSE
    MaxLinkUps = 0  ResetKinds = {"reopen"}  MaxResets = 1
SPECIFICATION LiveSpec
PROPERTIES StoppedQueueWakes ImplementsTxQueue
CHECK_DEADLOCK FALSE
