CONSTANTS
    s1 = s1  s2 = s2  s3 = s3  s4 = s4
    Skbs = {s1, s2, s3}
    NoSkb = NoSkb
    NumTxDesc = 5  MaxSkbFrags = 1  U32 = 10
    Padding = FALSE  MapMayFail = TRUE  SplitWake = FALSE
    MaxLinkUps = 0  ResetKinds = {"reopen"}  MaxResets = 1
SPECIFICATION Spec
SYMMETRY SkbSymmetry
INVARIANTS TypeOK ChipSeesWholePackets SkbHeldOnce BqlBalanced
CHECK_DEADLOCK FALSE
