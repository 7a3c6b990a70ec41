SPECIFICATION Spec
CONSTANTS
    UNRECOGNIZED = "Unrecognized"
    Label <- BookingLabel
    State <- BookingState
    Release = {"now"}
    Automaton <- Automata
    Tool = {"search_flights", "book_flight", "cancel"}
    MaxCalls = 2
    MaxReplies = 2
INVARIANTS
    ToolsRunOnlyIfAccepted
CHECK_DEADLOCK FALSE
