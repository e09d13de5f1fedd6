SPECIFICATION FairSpec
CONSTANTS
    NumRxDesc = 2
    U32 = 4
    Budget = 2
    Good = {g1, g2}
    Damaged = {d1}
    Broken = {b1}
    NoFrame = NoFrame
    Lossy = TRUE
    BusyPoll = FALSE
    Kinds = {"reset", "features"}
    MaxOps = 2

PROPERTIES DeliversInOrder TeardownEnds
