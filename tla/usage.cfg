SPECIFICATION FairSpec
CONSTANTS
    Proc <- Processes
    Thread <- Goroutines
    ProcOf <- TwoAndOne
    Absent <- NoFile
    Legacy <- OldFile
    Unlocked <- None
    MaxCalls = 2
    MaxStarts = 2
    MaxFailures = 1
INVARIANTS
    TypeOK
    NeverCountedTwice
    DeferredNotLost
PROPERTY CallsReturn
CHECK_DEADLOCK FALSE
