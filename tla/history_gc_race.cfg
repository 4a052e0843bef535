SPECIFICATION Spec
CONSTANTS
    p1 = p1
    p2 = p2
    Proc <- Two
    Observation <- Session
    NoObs <- MCNoObs
    NoId = "noid"
    NoGit = "none"
    SegmentLen = 2
    WorkingKeep <- Unlimited
    RevisionKeep <- Unlimited
    BlobKeep <- Unlimited
    Unlocked <- None
    Collectors <- One
    Importers <- None
    Menders <- None
    Passes <- WorkingPass
    TornWrites = FALSE
    MaxCalls = 3
    MaxStops = 0
PROPERTY
    LeavesByPolicyOnly
