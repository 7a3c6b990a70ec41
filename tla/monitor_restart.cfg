SPECIFICATION Spec
CONSTANTS
    Label = {"Ask", "Answer", "Unrecognized"}
    UNRECOGNIZED = "Unrecognized"
    State = {0, 1, 2, 3, 4, 5}
    Release = {"v1", "v2"}
    Position = {"idle", "waiting", "dead"}
    Start = "idle"
    Malformed = Malformed
    MaxTrace = 3
    MaxCrash = 1
    Automaton <- MCAutomaton
    Follow <- MCFollow
    Pos <- MCPos
INVARIANTS
    TypeOK
    HaltExplained
    RestoredAsSaved
PROPERTIES
    HaltIsFinal
    ImplementsSession
