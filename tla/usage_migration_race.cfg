SPECIFICATION Spec
CONSTANTS
    Proc <- Processes
    Thread <- Goroutines
    ProcOf <- TwoAndOne
    Absent <- NoFile
    Legacy <- OldFile
    Unlocked <- None
    MaxCalls = 2
    MaxStarts = 2
    MaxFailures = 0
PROPERTY
    MigrationIsSafe
CHECK_DEADLOCK FALSE
