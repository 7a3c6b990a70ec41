------------------------- MODULE MCProtocolMonitor -------------------------
(***************************************************************************)
(* The flight booking of the tests, with an action that audits the         *)
(* approval, a guard on it and one on a further search.                    *)
(***************************************************************************)
EXTENDS ProtocolMonitor

MCFsmState == {"idle", "searching", "results", "approved"}

Edge(source, phase, label, target) ==
    [source |-> source, phase |-> phase, label |-> label, target |-> target,
     tool |-> FALSE, guarded |-> FALSE, action |-> FALSE,
     interrupt |-> FALSE, match |-> {}]

MCTransitions ==
    {[Edge("idle", "send", "search", "searching") EXCEPT !.tool = TRUE],
     [Edge("searching", "recv", "search", "results") EXCEPT !.tool = TRUE],
     [Edge("results", "recv", "UserApproval", "approved")
        EXCEPT !.guarded = TRUE, !.action = TRUE],
     [Edge("results", "send", "search", "searching")
        EXCEPT !.tool = TRUE, !.guarded = TRUE]}

MCEvents == {event(t) : t \in MCTransitions}

=============================================================================
