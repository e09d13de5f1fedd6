CONSTANTS
    Files <- MCFiles
    SizeT = 70000
    PhyVals = {0, 1}
    MaxApply = 1
    MaxCount = 4
SPECIFICATION LiveSpec
INVARIANTS ReadsInsideFile HeldWhileLoaded
PROPERTIES JumpsLandInside ForwardProgramsEnd
CHECK_DEADLOCK FALSE
