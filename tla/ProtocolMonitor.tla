-------------------------- MODULE ProtocolMonitor --------------------------
(***************************************************************************)
(* ProtocolMonitor (llmcontract/langchain/monitor.py): a ProtocolFSM run   *)
(* in the process, its events fired by an orchestrator.                    *)
(*                                                                         *)
(* While fire_step runs, the user's code may be called: the guard and the  *)
(* action of an edge, on_violation after a refusal.  It returns or raises, *)
(* and may use the monitor, which still is as it was before the event.     *)
(* frames are the fire_step calls that wait for such a call, the innermost *)
(* one last, each with the state and trace it will return.                 *)
(***************************************************************************)
EXTENDS ProtocolFSM

CONSTANTS
    Events,         \* the events the orchestrator fires
    MaxTrace,       \* bound: events recorded since the last reset
    MaxFrames       \* bound: nested calls

\* Whether on_violation raises is decided at each call of it, see callback_raises.
ASSUME MonitorAssumption ==
    /\ Raising = {FALSE}
    /\ \A ev \in Events: ev[1] \in Phase
    /\ MaxTrace \in Nat /\ MaxFrames \in Nat

VARIABLES
    _state, _trace, \* ProtocolMonitor._state and _trace
    frames,
    answered,       \* history: the events whose transition() has returned
    nested          \* history: the user's code has used the monitor

vars == <<_state, _trace, frames, answered, nested>>

Init ==
    /\ _state = initial /\ _trace = <<>>
    /\ frames = <<>>
    /\ answered = <<>>
    /\ nested = FALSE

Commit(state, trace) ==
    /\ _state' = state
    /\ _trace' = trace
    /\ answered' = Append(answered, trace[Len(trace)])

\* The edge of an event has a guard or an action, which runs before the state is
\* written.
Acts(ev) ==
    \E t \in Transitions: t.source = _state /\ event(t) = ev /\ (t.guarded \/ t.action)

\* Mutant: a refused event is not in the trace fire_step returns.
transition_omits_refused(ev) ==
    /\ Len(_trace) < MaxTrace /\ Len(answered) < MaxTrace
    /\ nested' = (nested \/ frames # <<>>)
    /\ \E s \in step(_state, ev):
          \/ /\ s.ok /\ ~Acts(ev)
             /\ Commit(s.state, Append(_trace, ev))
             /\ UNCHANGED frames
          \/ /\ ~s.ok \/ Acts(ev)
             /\ Len(frames) < MaxFrames
             /\ frames' = Append(frames, [state |-> s.state, trace |-> _trace])
             /\ UNCHANGED <<_state, _trace, answered>>

\* transition and transition_event: _step up to the user's code, or all of it.
transition(ev) ==
    /\ Len(_trace) < MaxTrace /\ Len(answered) < MaxTrace
    /\ nested' = (nested \/ frames # <<>>)
    /\ \E s \in step(_state, ev):
          \/ /\ s.ok /\ ~Acts(ev)
             /\ Commit(s.state, Append(_trace, ev))
             /\ UNCHANGED frames
          \/ /\ ~s.ok \/ Acts(ev)
             /\ Len(frames) < MaxFrames
             /\ frames' = Append(frames, [state |-> s.state, trace |-> Append(_trace, ev)])
             /\ UNCHANGED <<_state, _trace, answered>>

Top == frames[Len(frames)]
Pop == frames' = SubSeq(frames, 1, Len(frames) - 1)

\* Mutant: only the trace is written after a violation.
callback_returns_trace ==
    /\ frames # <<>>
    /\ Pop
    /\ _trace' = Top.trace
    /\ answered' = Append(answered, Top.trace[Len(Top.trace)])
    /\ UNCHANGED <<_state, nested>>

\* The user's code returns, fire_step returns and _step writes what it got.
callback_returns ==
    /\ frames # <<>>
    /\ Pop
    /\ Commit(Top.state, Top.trace)
    /\ UNCHANGED nested

\* Mutant: the attempt is recorded although transition() does not return.
callback_raises_recorded ==
    /\ frames # <<>>
    /\ Pop
    /\ _trace' = Top.trace
    /\ UNCHANGED <<_state, answered, nested>>

\* It raises, and transition() does; a caller that is itself such code may catch it.
callback_raises ==
    /\ frames # <<>>
    /\ Pop
    /\ UNCHANGED <<_state, _trace, answered, nested>>

\* Mutant: the trace goes, the state stays.
reset_trace ==
    /\ _trace' = <<>> /\ answered' = <<>>
    /\ nested' = (frames # <<>>)
    /\ UNCHANGED <<_state, frames>>

reset ==
    /\ _state' = initial
    /\ _trace' = <<>> /\ answered' = <<>>
    /\ nested' = (frames # <<>>)
    /\ UNCHANGED frames

Next ==
    \/ \E ev \in Events: transition(ev)
    \/ callback_returns \/ callback_raises
    \/ reset

Spec == Init /\ [][Next]_vars

-----------------------------------------------------------------------------
(* Properties                                                               *)

\* What the monitor holds, and what a pending call will write, are states and events.
TypeOK ==
    /\ _state \in FsmState /\ _trace \in Seq(Events) /\ answered \in Seq(Events)
    /\ Len(frames) <= MaxFrames
    /\ \A i \in DOMAIN frames:
          frames[i].state \in FsmState /\ frames[i].trace \in Seq(Events) \ {<<>>}
    /\ nested \in BOOLEAN

\* The state is one the recorded events lead to from the initial one, however the
\* user's code returns, raises, resets the monitor or fires events itself.
StateFitsTrace == _state \in Reach(initial, _trace)

\* As long as that code leaves the monitor alone, the trace is what transition()
\* answered, refusals included, and holds nothing of the calls that raised.
TraceIsAnswers == ~nested => _trace = answered

\* As long as it does, the monitor is a run of the table with restarts: no call of
\* transition() writes a state that the trace it writes does not lead to from the one
\* before, whichever of the calls before it raised.
Run == INSTANCE ProtocolRun WITH state <- _state, trace <- _trace

RunsAsRun == [][~nested' => [Run!Advance \/ Run!Restart]_(Run!vars)]_vars

=============================================================================
