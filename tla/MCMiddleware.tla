---------------------------- MODULE MCMiddleware ----------------------------
(***************************************************************************)
(* A research agent: searches of the web and then of the files, a report   *)
(* whose short form two edges claim, and gates at which the user accepts   *)
(* or returns the report, or confirms the brief.  Guards look at the       *)
(* search, its results and the report.  A guard's refusal is logged or     *)
(* raises.  The model may call two tools in one message.                   *)
(***************************************************************************)
EXTENDS CheckpointedMiddleware

MCFsmState == {"open", "web", "files", "read", "reported", "brief", "closed"}

Edge(source, phase, label, target) ==
    [source |-> source, phase |-> phase, label |-> label, target |-> target,
     tool |-> FALSE, guarded |-> FALSE, action |-> FALSE,
     interrupt |-> FALSE, match |-> {}]

ToolEdge(source, phase, label, target) ==
    [Edge(source, phase, label, target) EXCEPT !.tool = TRUE]

Response(label, target, types) ==
    [Edge("read", "send", label, target) EXCEPT !.match = types]

Gate(source, label, target) ==
    [Edge(source, "recv", label, target) EXCEPT !.interrupt = TRUE]

MCTransitions ==
    {[ToolEdge("open", "send", "web", "web") EXCEPT !.guarded = TRUE],
     ToolEdge("web", "recv", "web", "open"),
     ToolEdge("open", "send", "files", "files"),
     [ToolEdge("files", "recv", "files", "read") EXCEPT !.guarded = TRUE],
     [Response("Report", "reported", {"Full", "Short"}) EXCEPT !.guarded = TRUE],
     Response("Brief", "brief", {"Short", "Note"}),
     Gate("reported", "Accept", "closed"),
     Gate("reported", "Return", "open"),
     Gate("brief", "Confirm", "closed")}

\* The tables the theorems about labels and gates are about.
ASSUME InstanceAssumption == HooksApart("send") /\ HooksApart("recv") /\ GatesOpen

=============================================================================
