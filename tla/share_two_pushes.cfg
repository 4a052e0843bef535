SPECIFICATION Spec
CONSTANTS
    p = p
    q = q
    u = u
    east = east
    west = west
    Host <- Machines
    Proc <- Processes
    HostOf <- TwoOnG
    Rank <- RankOf
    Replica <- OneCopy
    Snapshot = {"a", "b"}
    Build = {1}
    Taken <- OneTakes
    NoRevision <- NoRev
    Absent = 0
    Unlocked <- None
    Policies <- None
    TornWrites = FALSE
    MaxCalls = 2
    MaxStops = 0
    MaxCuts = 0
INVARIANT BreakMeansTampering
CHECK_DEADLOCK FALSE
