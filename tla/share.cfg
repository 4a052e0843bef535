SPECIFICATION Spec
CONSTANTS
    p = p
    q = q
    u = u
    east = east
    west = west
    Host <- Machines
    Proc <- Processes
    HostOf <- TwoOnG
    Rank <- RankOf
    Replica <- Copies
    Snapshot = {"a", "b"}
    Build = {1, 2}
    Taken <- Common
    NoRevision <- NoRev
    Absent = 0
    Unlocked <- NoLocksOnH
    Policies <- KeepRecent
    TornWrites = TRUE
    MaxCalls = 3
    MaxStops = 1
    MaxCuts = 1
INVARIANTS
    TypeOK
    OnlyARaceForks
    NothingGoesSilently
    ConvergedIsClean
    RefusedOnlyForALoss
PROPERTY TruncationIsCaught
SYMMETRY Alike
CHECK_DEADLOCK FALSE
