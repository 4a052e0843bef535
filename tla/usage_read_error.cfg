SPECIFICATION Spec
CONSTANTS
    Proc <- Processes
    Thread <- Goroutines
    ProcOf <- TwoAndOne
    Absent <- NoFile
    Legacy <- NoOldFile
    Unlocked <- None
    MaxCalls = 2
    MaxStarts = 2
    MaxFailures = 1
INVARIANT
    CountsDeferred
CHECK_DEADLOCK FALSE
