---------------------------- MODULE ProtocolFSM ----------------------------
(***************************************************************************)
(* ProtocolFSM and fire_step (llmcontract/langchain/fsm.py, monitor.py): a *)
(* protocol as an explicit table of transitions, and one step of it.       *)
(*                                                                         *)
(* A guard is the user's function of the context of the step.  A guarded   *)
(* transition may therefore fire or not; an unguarded one always fires.    *)
(* What is declared to match is the set of the types that are instances of *)
(* match_structured_response, empty where nothing is declared.             *)
(***************************************************************************)
EXTENDS Naturals, Sequences, FiniteSets, SequencesExt

CONSTANTS
    FsmState,       \* the states of the table
    initial,        \* ProtocolFSM.initial
    Transitions,    \* the Transition records added to it
    ResponseType,   \* the types of structured responses
    Raising         \* whether on_violation may raise (TRUE) and may return (FALSE)

Phase == {"send", "recv"}

\* f"{phase}:{label}"; a tool and an event_label of one name give one event.
event(t) == <<t.phase, t.label>>

\* What Transition.__post_init__ lets pass: who fires an edge is one thing at most, a
\* tool call, a resume or a typed response.
Accepted(t) ==
    /\ t.phase \in Phase
    /\ t.interrupt => ~t.tool
    /\ t.match # {} => ~t.tool /\ ~t.interrupt

\* What add_transition lets pass: one edge for each source and event.
Deterministic(table) ==
    \A t, u \in table: t.source = u.source /\ event(t) = event(u) => t = u

ASSUME TableAssumption ==
    /\ initial \in FsmState
    /\ Raising \subseteq BOOLEAN /\ Raising # {}
    /\ \A t \in Transitions:
          /\ t.source \in FsmState /\ t.target \in FsmState
          /\ {t.tool, t.interrupt, t.guarded, t.action} \subseteq BOOLEAN
          /\ t.match \subseteq ResponseType
          /\ Accepted(t)
    /\ Deterministic(Transitions)

interrupt_transitions_from(state) == {t \in Transitions: t.source = state /\ t.interrupt}

structured_response_transitions_from(state) ==
    {t \in Transitions: t.source = state /\ t.match # {}}

\* What step can return for an event: (next_state, ok).
step(state, ev) ==
    LET found == {t \in Transitions: t.source = state /\ event(t) = ev}
    IN  {[state |-> t.target, ok |-> TRUE] : t \in found}
          \cup (IF \E t \in found: ~t.guarded THEN {}
                ELSE {[state |-> state, ok |-> FALSE]})

\* What fire_step can do: return a state and a trace, or raise out of on_violation,
\* which the user's handler decides at each call.
fire_step(state, trace, ev) ==
    {[state  |-> s.state,
      trace  |-> Append(trace, ev),
      raises |-> ~s.ok /\ raising] : s \in step(state, ev), raising \in Raising}

\* Where an event can take one of these states without an exception.
Landing(states, ev) ==
    {s.state : s \in {f \in UNION {fire_step(q, <<>>, ev) : q \in states}: ~f.raises}}

\* The states a sequence of events can lead to without an exception.
Reach(state, evs) ==
    LET reach[k \in 0..Len(evs)] ==
            IF k = 0 THEN {state} ELSE Landing(reach[k - 1], evs[k])
    IN  reach[Len(evs)]

=============================================================================
