SPECIFICATION Spec
CONSTANTS
    Session <- Sessions
    NoSession <- Nobody
    Hook <- Children
    Tool <- Agent
    Owner <- Owners
    MaxCalls = 1
    MaxEdits = 1
    MaxStops = 1
INVARIANTS
    TypeOK
    PinLeavesABaseline
PROPERTIES
    DeliberatePinSurvives
    OtherSessionsPinSurvives
CHECK_DEADLOCK FALSE
