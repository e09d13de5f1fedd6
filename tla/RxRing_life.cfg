SPECIFICATION Spec
CONSTANTS
    NumRxDesc = 3
    U32 = 6
    Budget = 2
    Good = {g1, g2, g3}
    Damaged = {}
    Broken = {b1}
    NoFrame = NoFrame
    Lossy = FALSE
    BusyPoll = TRUE
    Kinds = {"reset", "sleep", "close"}
    MaxOps = 2
INVARIANTS RingClosed Agreed NoPageLeft OneFrame
