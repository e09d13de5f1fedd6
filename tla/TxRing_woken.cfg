CONSTANTS
    s1 = s1  s2 = s2  s3 = s3  s4 = s4
    Skbs = {s1, s2, s3}
    NoSkb = NoSkb
    NumTxDesc = 4  MaxSkbFrags = 1  U32 = 8
    Padding = FALSE  MapMayFail = TRUE  SplitWake = TRUE
    MaxLinkUps = 1  ResetKinds = {"task", "reopen"}  MaxResets = 1
SPECIFICATION Spec
SYMMETRY SkbSymmetry
CONSTRAINTS Sound OneEvent
INVARIANT AwakeHasRoom
PROPERTY OwnedIsLeftAlone
CHECK_DEADLOCK FALSE
