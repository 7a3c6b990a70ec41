---------------------------- MODULE MonitorStep ----------------------------
(***************************************************************************)
(* The step of a Monitor (llmcontract/monitor/monitor.py) as a function:   *)
(* what _step answers to an event, and the monitor it leaves behind.       *)
(*                                                                         *)
(* The automaton is a constant here: any automaton, and one per release of *)
(* the program.  Module Compiler models how the compiler builds it.        *)
(***************************************************************************)
EXTENDS Naturals, Sequences

CONSTANTS
    Label,          \* the labels events carry
    UNRECOGNIZED,   \* the sentinel label of monitor.py
    State,          \* automaton state ids
    Release,        \* the versions of the program a process can run
    Automaton       \* Automaton[r]: what release r compiles the protocol to

Direction == {"send", "receive"}

\* (direction, label): the transition key, and the entry "!label" or "?label"
\* of the trace, which determine each other.
Event == Direction \X Label

\* A state that has no entry in the transition table is looked up as {}.
ASSUME AutomatonAssumption ==
    \A r \in Release:
        /\ Automaton[r].initial_state \in State
        /\ \A s \in State:
              /\ DOMAIN Automaton[r].transitions[s] \subseteq Event
              /\ \A e \in DOMAIN Automaton[r].transitions[s]:
                    Automaton[r].transitions[s][e] \in State

Transitions(r, s) == Automaton[r].transitions[s]

\* Mutant: the transition table is looked up before the halted flag.
VerdictLooksUpFirst(r, s, h, e) ==
    IF e \in DOMAIN Transitions(r, s) THEN "Ok"
    ELSE IF h THEN "Blocked"
    ELSE IF e[2] = UNRECOGNIZED THEN "Unrecognized"
    ELSE "Violation"

\* Mutant: the sentinel gets no special treatment.
VerdictWithoutSentinel(r, s, h, e) ==
    IF h THEN "Blocked"
    ELSE IF e \in DOMAIN Transitions(r, s) THEN "Ok"
    ELSE "Violation"

\* What _step returns for e when the monitor is in state s with the flag h.
Verdict(r, s, h, e) ==
    IF h THEN "Blocked"
    ELSE IF e \in DOMAIN Transitions(r, s) THEN "Ok"
    ELSE IF e[2] = UNRECOGNIZED THEN "Unrecognized"
    ELSE "Violation"

\* The monitor that _step leaves behind, with the verdict it returned.
After(r, s, h, e) ==
    [state  |-> IF Verdict(r, s, h, e) = "Ok" THEN Transitions(r, s)[e] ELSE s,
     halted |-> h \/ Verdict(r, s, h, e) = "Violation",
     result |-> Verdict(r, s, h, e)]

Fresh(r) == [state |-> Automaton[r].initial_state, halted |-> FALSE, result |-> "none"]

=============================================================================
