SPECIFICATION Spec
CONSTANTS
    FsmState <- MCFsmState
    initial = "idle"
    Transitions <- MCTransitions
    ResponseType = {}
    Raising = {FALSE}
    Events <- MCEvents
    MaxTrace = 4
    MaxFrames = 2
INVARIANTS TypeOK StateFitsTrace TraceIsAnswers
PROPERTIES RunsAsRun
CHECK_DEADLOCK FALSE
