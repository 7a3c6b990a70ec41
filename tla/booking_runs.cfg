SPECIFICATION Spec
CONSTANTS
    UNRECOGNIZED = "Unrecognized"
    Label <- BookingLabel
    State <- BookingState
    Release = {"now"}
    Automaton <- Automata
    Tool = {"search_flights", "book_flight", "cancel"}
    Keys <- MCKeys
    TurnLimits = {3, 4}
    MaxCalls = 2
    MaxReplies = 2
    MaxBatches = 3
    MaxRaises = 1
INVARIANTS
    TypeOK
    OutcomeExplained
    SweepTellsTheRun
    BookedAsApproved
PROPERTIES
    BatchEnds
CHECK_DEADLOCK FALSE
