CONSTANTS
    s1 = s1  s2 = s2  s3 = s3  s4 = s4
    Skbs = {s1, s2, s3}
    NoSkb = NoSkb
    NumTxDesc = 4  MaxSkbFrags = 1  U32 = 8
    Padding = TRUE  MapMayFail = FALSE  SplitWake = FALSE
    MaxLinkUps = 0  ResetKinds = {}  MaxResets = 0
SPECIFICATION Spec
SYMMETRY SkbSymmetry
INVARIANT ChipSeesWholePackets
CHECK_DEADLOCK FALSE
