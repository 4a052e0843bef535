SPECIFICATION Spec
CONSTANTS
    p1 = p1
    p2 = p2
    Proc <- One
    Observation <- Commits
    NoObs <- MCNoObs
    NoId = "noid"
    NoGit = "none"
    SegmentLen = 2
    WorkingKeep <- Unlimited
    RevisionKeep <- Unlimited
    BlobKeep <- Unlimited
    Unlocked <- None
    Collectors <- None
    Importers <- None
    Menders <- None
    Passes <- None
    TornWrites = TRUE
    MaxCalls = 3
    MaxStops = 1
INVARIANT
    StaysReadable
