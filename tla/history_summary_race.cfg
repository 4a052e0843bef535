SPECIFICATION Spec
CONSTANTS
    p1 = p1
    p2 = p2
    Proc <- Two
    Observation <- Commits
    NoObs <- MCNoObs
    NoId = "noid"
    NoGit = "none"
    SegmentLen = 2
    WorkingKeep <- Unlimited
    RevisionKeep <- Unlimited
    BlobKeep <- Unlimited
    Unlocked <- None
    Collectors <- None
    Importers <- None
    Menders <- None
    Passes <- None
    TornWrites = FALSE
    MaxCalls = 3
    MaxStops = 0
PROPERTY
    SummaryAgainstPrevious
