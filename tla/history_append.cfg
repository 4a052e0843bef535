SPECIFICATION Spec
CONSTANTS
    p1 = p1
    p2 = p2
    Proc <- Two
    Observation <- Session
    NoObs <- MCNoObs
    NoId = "noid"
    NoGit = "none"
    SegmentLen = 2
    WorkingKeep = 2
    RevisionKeep = 3
    BlobKeep = 2
    Unlocked <- None
    Collectors <- None
    Importers <- None
    Menders <- Two
    Passes <- None
    TornWrites = TRUE
    MaxCalls = 4
    MaxStops = 1
SYMMETRY Symmetry
INVARIANTS
    TypeOK
    SeqOrder
    OneAddress
    NeverDamaged
    DeltaFromEarlier
    WithinCaps
PROPERTIES
    RefinesHistory
    ContentsBeforeHeader
    NewestStays
    PruningKeepsWindow
