SPECIFICATION Spec
CONSTANTS
    Label = {"Ask", "Answer", "Unrecognized"}
    UNRECOGNIZED = "Unrecognized"
    State = {0, 1}
    Release = {"v1", "v3"}
    Malformed = Malformed
    MaxTrace = 3
    MaxCrash = 1
    Automaton <- MCAutomaton
PROPERTY MisfitHalts
