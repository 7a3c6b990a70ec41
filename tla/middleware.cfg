SPECIFICATION Spec
CONSTANTS
    FsmState <- MCFsmState
    initial = "open"
    Transitions <- MCTransitions
    ResponseType = {"Full", "Short", "Note"}
    NoType = "none"
    Raising = {TRUE, FALSE}
    tool_refs = {"web", "files"}
    OtherTool = {"lookup"}
    Absent = "absent"
    MaxCalls = 2
    MaxTrace = 5
    MaxInvoke = 4
INVARIANTS TypeOK WorkIsRecorded ModelNeverRunsAtGate
PROPERTIES ImplementsRun
CHECK_DEADLOCK FALSE
