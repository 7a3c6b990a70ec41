SPECIFICATION LoopSpec
CONSTANTS
    Label = {"Request", "One", "Two", "Answer", "search", "book", "delete", "Found", "Booked", "Unrecognized"}
    UNRECOGNIZED = "Unrecognized"
    State = {0, 1, 2, 3, 4, 5, 6, 7, 8, 9, 10, 11, 12}
    Release = {"now"}
    Malformed = Malformed
    MaxTrace = 7
    MaxCrash = 0
    Automaton <- MCAutomaton
    SendLabel = {"Request", "Unrecognized"}
    Tool = {"search", "book", "delete"}
    given = {"search", "book"}
    Response <- MCResponse
    recv_label <- MC_recv_label
    result_label <- MC_result_label
    Reported = {"Found"}
    None = None
INVARIANTS LoopTypeOK NothingSwallowed
PROPERTIES HaltStopsWork ResultsWereAccepted
CHECK_DEADLOCK FALSE
