CONSTANTS
    Setups <- DefSetups
    SlowHandler = FALSE
    MaxEvents <- DefEvents
    MaxFull = 1
    MaxShared = 1
    MaxResets = 1
SPECIFICATION LiveSpec
INVARIANTS NoSilentWork NoSilentLink TeardownUndisturbed
PROPERTIES WorkIsPolled ResetEnds
CHECK_DEADLOCK FALSE
