SPECIFICATION FairSpec
CONSTANTS
    UNRECOGNIZED = "Unrecognized"
    Label <- BookingLabel
    State <- BookingState
    Release = {"now"}
    Automaton <- Automata
    Tool = {"search_flights", "book_flight", "cancel"}
    MaxCalls = 2
    MaxReplies = 2
INVARIANTS
    TypeOK
    EnforcedOneByOne
    StateIsEarned
    HaltHasReason
PROPERTIES
    ToolsEnd
CHECK_DEADLOCK FALSE
