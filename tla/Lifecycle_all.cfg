CONSTANTS
    Is8125 = TRUE
    MayFail = TRUE
    MaxOps = 3
    MaxTasks = 2
    MaxLinks = 2
    MaxSleeps = 2
SPECIFICATION Spec
INVARIANTS NapiEnabledOnce RingWhileUsed UpOrDown NoOtherDeadlock ResetsExclusive
CHECK_DEADLOCK FALSE
