SPECIFICATION Spec
CONSTANTS
    p1 = p1
    p2 = p2
    Proc <- One
    Observation <- Mixed
    NoObs <- MCNoObs
    NoId = "noid"
    NoGit = "none"
    SegmentLen = 2
    WorkingKeep = 2
    RevisionKeep = 3
    BlobKeep = 2
    Unlocked <- One
    Collectors <- One
    Importers <- One
    Menders <- One
    Passes <- EveryPass
    TornWrites = TRUE
    MaxCalls = 4
    MaxStops = 1
INVARIANTS
    OneAddress
PROPERTIES
    RefinesHistory
    CollectsAsAsked
    SummaryAgainstPrevious
