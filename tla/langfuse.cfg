SPECIFICATION LangfuseSpec
CONSTANTS
    Label = {"Ask", "Answer", "Quit", "Unrecognized"}
    UNRECOGNIZED = "Unrecognized"
    State = {0, 1, 2, 3}
    Release = {"now"}
    Malformed = Malformed
    MaxTrace = 3
    MaxCrash = 0
    Automaton <- MCAutomaton
    Missing = Missing
INVARIANTS ObservationsFitTrace AuditIsComplete
PROPERTY BehavesAsMonitor
CHECK_DEADLOCK FALSE
