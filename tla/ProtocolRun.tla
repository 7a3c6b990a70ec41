---------------------------- MODULE ProtocolRun ----------------------------
(***************************************************************************)
(* What a holder of a ProtocolFSM promises whoever reads its state and its *)
(* trace, with no agent, no callback and no checkpointer: the trace grows  *)
(* by events that take the table from the old state to the new one, and    *)
(* none is taken back, unless all are.                                     *)
(*                                                                         *)
(* Promised by llmcontract/langchain/monitor.py of both its holders: a     *)
(* ProtocolMonitor "holds the current state and the trace of every event   *)
(* that has fired so far", and the checkpoint keeps what "ProtocolMonitor  *)
(* would record".  CheckpointedMiddleware implements Spec; ProtocolMonitor *)
(* takes these steps as long as the user's code leaves it alone.           *)
(***************************************************************************)
EXTENDS ProtocolFSM

VARIABLES
    state,      \* where the protocol stands
    trace       \* the events that led there

vars == <<state, trace>>

Init == state = initial /\ trace = <<>>

\* One event or several at once, as a tool's send and recv are.
Advance ==
    /\ IsPrefix(trace, trace')
    /\ state' \in Reach(state, SubSeq(trace', Len(trace) + 1, Len(trace')))

Restart == state' = initial /\ trace' = <<>>

Spec == Init /\ [][Advance]_vars

=============================================================================
