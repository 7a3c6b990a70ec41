SPECIFICATION LoopSpec
CONSTANTS
    Label = {"Request", "ToolCall", "ToolResult", "FinalAnswer", "search", "book", "Unrecognized"}
    UNRECOGNIZED = "Unrecognized"
    State = {0, 1, 2, 3, 4}
    Release = {"now"}
    Malformed = Malformed
    MaxTrace = 6
    MaxCrash = 0
    Automaton <- MCAutomaton
    SendLabel = {"Request"}
    Tool = {"search", "book"}
    given = {"search", "book"}
    Response <- MCResponse
    recv_label <- MC_recv_label
    result_label <- MC_result_label
    Reported = {"ToolResult"}
    None = None
PROPERTY ResponseCanBeProcessed
CHECK_DEADLOCK FALSE
