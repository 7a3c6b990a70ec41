-------------------------- MODULE LangfuseMonitor --------------------------
(***************************************************************************)
(* LangfuseMonitor (llmcontract/integration/langfuse.py): a Monitor whose  *)
(* every event is recorded in Langfuse.                                    *)
(*                                                                         *)
(* The Langfuse client is external: opening an observation, updating it    *)
(* and scoring it may each raise, and what was written before stays.  The  *)
(* wrapped monitor is a new one and gets its events from the wrapper alone.*)
(***************************************************************************)
EXTENDS Monitor, FiniteSets

CONSTANTS
    Missing     \* a field Langfuse was not given

ASSUME MissingAssumption == Missing \notin {0, 1}

VARIABLES
    pc,             \* "idle", or what _record does next: "open", "update", "score"
    _step_count,    \* LangfuseMonitor._step_count
    observations,   \* the guardrail observations in Langfuse
    failures        \* history: how many records were broken off

monitor == <<mode, release, object, result, disk, crashes>>
langfuseVars == <<monitor, pc, _step_count, observations, failures>>

LangfuseInit ==
    /\ Init
    /\ pc = "idle" /\ _step_count = 0
    /\ observations = <<>>
    /\ failures = 0

\* Mutant: a blocked event is not recorded.
Delegate_skips_blocked(direction, label) ==
    /\ pc = "idle"
    /\ Observe(direction, label)
    /\ pc' = IF halted THEN "idle" ELSE "open"
    /\ UNCHANGED <<_step_count, observations, failures>>

\* send and receive: the monitor steps, then _record begins.
Delegate(direction, label) ==
    /\ pc = "idle"
    /\ Observe(direction, label)
    /\ pc' = "open"
    /\ UNCHANGED <<_step_count, observations, failures>>

passed == result = "Ok"

\* What _record writes as the result: its branches for Violation and Blocked, and
\* "ok" for all others.
output ==
    CASE result = "Violation" -> [passed |-> FALSE, result |-> "violation"]
      [] result = "Blocked"   -> [passed |-> FALSE, result |-> "blocked"]
      [] OTHER                -> [passed |-> TRUE,  result |-> "ok"]

\* What _record passes on opening; the monitor has stepped, so that the field
\* state_before holds the state after the step.
Observation(step) ==
    [step         |-> step,
     action       |-> trace[Len(trace)],
     state_before |-> current_state,
     halted       |-> halted,
     output       |-> Missing,
     score        |-> Missing]

open ==
    /\ pc = "open"
    /\ _step_count' = _step_count + 1
    /\ observations' = Append(observations, Observation(_step_count + 1))
    /\ pc' = "update"
    /\ UNCHANGED <<monitor, failures>>

Last == Len(observations)

update ==
    /\ pc = "update"
    /\ observations' = [observations EXCEPT ![Last].output = output]
    /\ pc' = "score"
    /\ UNCHANGED <<monitor, _step_count, failures>>

\* Mutant: only a violation scores 0.
score_blocked_passes ==
    /\ pc = "score"
    /\ observations' = [observations EXCEPT ![Last].score = IF result # "Violation" THEN 1 ELSE 0]
    /\ pc' = "idle"
    /\ UNCHANGED <<monitor, _step_count, failures>>

\* The record ends here; leaving the with block may still raise, which changes neither
\* what was written nor the monitor.
score ==
    /\ pc = "score"
    /\ observations' = [observations EXCEPT ![Last].score = IF passed THEN 1 ELSE 0]
    /\ pc' = "idle"
    /\ UNCHANGED <<monitor, _step_count, failures>>

\* Mutant: the event that could not be recorded is taken back from the monitor.
langfuse_raises_undone ==
    /\ pc # "idle"
    /\ trace' = SubSeq(trace, 1, Len(trace) - 1) /\ past' = SubSeq(past, 1, Len(past) - 1)
    /\ current_state' = past'[Len(past')].state /\ halted' = past'[Len(past')].halted
    /\ _step_count' = IF pc = "open" THEN _step_count + 1 ELSE _step_count
    /\ pc' = "idle"
    /\ failures' = failures + 1
    /\ UNCHANGED <<mode, release, result, disk, crashes, observations>>

\* The Langfuse client raises, and so does send or receive; the monitor has the event.
langfuse_raises ==
    /\ pc # "idle"
    /\ _step_count' = IF pc = "open" THEN _step_count + 1 ELSE _step_count
    /\ pc' = "idle"
    /\ failures' = failures + 1
    /\ UNCHANGED <<monitor, observations>>

LangfuseNext ==
    \/ \E direction \in Direction, label \in Label: Delegate(direction, label)
    \/ open \/ update \/ score \/ langfuse_raises

LangfuseSpec == LangfuseInit /\ [][LangfuseNext]_langfuseVars

-----------------------------------------------------------------------------
(* Properties                                                               *)

\* An observation keeps its place, whatever Langfuse failed to take before: the one
\* of step k holds the k-th event of the trace and the halted flag that event led to,
\* and as far as output and score are there they pass an accepted event and fail a
\* Violation and a Blocked.  Of Unrecognized, for which _record writes an output that
\* passed and a score of 0, nothing is said, nor of the field state_before.
ObservationsFitTrace ==
    \A o \in {observations[i] : i \in DOMAIN observations}:
        LET after == past[o.step + 1]
        IN  /\ o.action = trace[o.step] /\ o.halted = after.halted
            /\ after.result # "Unrecognized" =>
                  /\ o.output # Missing => o.output.passed = (after.result = "Ok")
                  /\ o.score # Missing => (o.score = 1) = (after.result = "Ok")

\* No event is missing from the audit, and none is in it twice, except that each
\* exception of Langfuse may leave one event without its observation or score.
AuditIsComplete ==
    LET scored == {i \in DOMAIN observations: observations[i].score # Missing}
        pending == IF pc = "idle" THEN 0 ELSE 1
    IN  /\ \A i, j \in DOMAIN observations: i < j => observations[i].step < observations[j].step
        /\ Cardinality(scored) + failures + pending = Len(trace)
        /\ _step_count = IF pc = "open" THEN Len(trace) - 1 ELSE Len(trace)

\* The wrapper is a monitor: whatever Langfuse does, its monitor does what a monitor
\* without a wrapper might.
BehavesAsMonitor == Spec

=============================================================================
