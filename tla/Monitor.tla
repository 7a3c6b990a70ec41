------------------------------ MODULE Monitor ------------------------------
(***************************************************************************)
(* A Monitor (llmcontract/monitor/monitor.py) in a process that can crash. *)
(*                                                                         *)
(* The monitor checks a stream of send and receive events against the      *)
(* automaton its protocol was compiled to.  Its caller saves it with       *)
(* to_dict, which keeps the trace alone, and a later process, perhaps of   *)
(* another release with other automaton numbering or another protocol,     *)
(* rebuilds it with from_dict, which replays the saved trace event by      *)
(* event through the same _step.                                           *)
(***************************************************************************)
EXTENDS MonitorStep

CONSTANTS
    Malformed,      \* a saved entry that does not parse as an event
    MaxTrace,       \* bound: events in a trace
    MaxCrash        \* bound: crashes

ASSUME BoundsAssumption == MaxTrace \in Nat /\ MaxCrash \in Nat

ASSUME MalformedAssumption == Malformed \notin Event

VARIABLES
    mode,           \* the process: "live", "down", or "restoring" in from_dict
    release,        \* the release it runs
    current_state,  \* Monitor._current_state
    halted,         \* Monitor._halted
    trace,          \* Monitor._trace
    result,         \* what the last send or receive returned
    snapshot,       \* the trace the last to_dict wrote to the disk
    crashes,        \* crashes so far
    past,           \* history: past[i + 1] is the monitor after i events
    saved           \* history: the past and the release of what is on the disk

object == <<current_state, halted, trace, past>>
disk == <<snapshot, saved>>
vars == <<mode, release, object, result, disk, crashes>>

-----------------------------------------------------------------------------
(* _step                                                                    *)

\* Mutant: the event is kept only when it is accepted.
_step_records_accepted(e) ==
    LET next == After(release, current_state, halted, e) IN
    /\ trace' = IF next.result = "Ok" THEN Append(trace, e) ELSE trace
    /\ current_state' = next.state
    /\ halted' = next.halted
    /\ past' = Append(past, next)

\* Mutant: the entry is the label without its direction.
_step_records_label(e) ==
    LET next == After(release, current_state, halted, e) IN
    /\ trace' = Append(trace, e[2])
    /\ current_state' = next.state
    /\ halted' = next.halted
    /\ past' = Append(past, next)

_step(e) ==
    LET next == After(release, current_state, halted, e) IN
    /\ trace' = Append(trace, e)
    /\ current_state' = next.state
    /\ halted' = next.halted
    /\ past' = Append(past, next)

\* Monitor(protocol) as release r runs it; also what reset() leaves.
BecomeFresh(r) ==
    /\ current_state' = Fresh(r).state
    /\ halted' = FALSE
    /\ trace' = <<>>
    /\ past' = <<Fresh(r)>>

-----------------------------------------------------------------------------
(* The process and its monitor                                              *)

Init ==
    /\ mode = "live"
    /\ release \in Release
    /\ current_state = Fresh(release).state
    /\ halted = FALSE
    /\ trace = <<>>
    /\ result = "none"
    /\ past = <<Fresh(release)>>
    /\ snapshot = <<>>
    /\ saved = [past |-> past, release |-> release]
    /\ crashes = 0

Observe(direction, label) ==
    /\ mode = "live"
    /\ Len(trace) < MaxTrace
    /\ _step(<<direction, label>>)
    /\ result' = Verdict(release, current_state, halted, <<direction, label>>)
    /\ UNCHANGED <<mode, release, disk, crashes>>

send(label) == Observe("send", label)

receive(label) == Observe("receive", label)

\* Mutant: reset forgets the halted flag.
reset_keeps_halted ==
    /\ mode = "live"
    /\ current_state' = Fresh(release).state
    /\ trace' = <<>>
    /\ past' = <<Fresh(release)>>
    /\ UNCHANGED <<mode, release, halted, result, disk, crashes>>

reset ==
    /\ mode = "live"
    /\ BecomeFresh(release)
    /\ UNCHANGED <<mode, release, result, disk, crashes>>

\* The caller writes to_dict() to the disk.
to_dict ==
    /\ mode = "live"
    /\ snapshot' = trace
    /\ saved' = [past |-> past, release |-> release]
    /\ UNCHANGED <<mode, release, object, result, crashes>>

Crash ==
    /\ mode # "down"
    /\ crashes < MaxCrash
    /\ crashes' = crashes + 1
    /\ mode' = "down"
    /\ result' = "none"
    /\ BecomeFresh(release)
    /\ UNCHANGED <<release, disk>>

\* Something outside the program writes an entry of the file that is no event.
Damage(i) ==
    /\ mode = "down"
    /\ snapshot' = [snapshot EXCEPT ![i] = Malformed]
    /\ UNCHANGED <<mode, release, object, result, saved, crashes>>

\* The caller gives the snapshot up and builds Monitor(protocol).
StartNew(r) ==
    /\ mode = "down"
    /\ mode' = "live"
    /\ release' = r
    /\ BecomeFresh(r)
    /\ UNCHANGED <<result, disk, crashes>>

\* from_dict builds a fresh monitor; of a dict without the key "trace" it is all there
\* is, which is StartNew,
StartRestore(r) ==
    /\ mode = "down"
    /\ mode' = "restoring"
    /\ release' = r
    /\ BecomeFresh(r)
    /\ UNCHANGED <<result, disk, crashes>>

\* steps it through the next saved entry, whose result it drops,
Replay ==
    /\ mode = "restoring"
    /\ Len(trace) < Len(snapshot)
    /\ snapshot[Len(trace) + 1] \in Event
    /\ _step(snapshot[Len(trace) + 1])
    /\ UNCHANGED <<mode, release, result, disk, crashes>>

\* raises when _parse_event cannot read the entry, so that there is no monitor,
ReplayRaises ==
    /\ mode = "restoring"
    /\ Len(trace) < Len(snapshot)
    /\ snapshot[Len(trace) + 1] \notin Event
    /\ mode' = "down"
    /\ BecomeFresh(release)
    /\ UNCHANGED <<release, result, disk, crashes>>

\* and returns the monitor after the last entry.
Restored ==
    /\ mode = "restoring"
    /\ Len(trace) = Len(snapshot)
    /\ mode' = "live"
    /\ UNCHANGED <<release, object, result, disk, crashes>>

Next ==
    \/ \E label \in Label: send(label) \/ receive(label)
    \/ reset \/ to_dict \/ Crash
    \/ \E i \in DOMAIN snapshot: Damage(i)
    \/ \E r \in Release: StartNew(r) \/ StartRestore(r)
    \/ Replay \/ ReplayRaises \/ Restored

Spec == Init /\ [][Next]_vars

-----------------------------------------------------------------------------
(* Properties                                                               *)

Verdicts == {"none", "Ok", "Violation", "Blocked", "Unrecognized"}

Config == [state : State, halted : BOOLEAN, result : Verdicts]

\* Every variable has its type: the trace of Monitor holds events, what is on
\* the disk may also hold a damaged entry.
TypeOK ==
    /\ mode \in {"live", "down", "restoring"}
    /\ release \in Release
    /\ current_state \in State
    /\ halted \in BOOLEAN
    /\ trace \in Seq(Event)
    /\ result \in Verdicts
    /\ snapshot \in Seq(Event \cup {Malformed})
    /\ crashes \in Nat
    /\ past \in Seq(Config)
    /\ saved \in [past : Seq(Config), release : Release]

\* The monitor now, and the one that was saved.
Now == past[Len(past)]

Saved == saved.past[Len(saved.past)]

Damaged == \E i \in DOMAIN snapshot: snapshot[i] = Malformed

\* A halted monitor explains itself: its trace holds one offending event k, not
\* allowed where the monitor stood and not the sentinel; the monitor still stands
\* there, every event before k was accepted or unrecognised and every later one
\* was blocked (the audit log promised beside Monitor._trace).
HaltExplained ==
    halted =>
        \E k \in DOMAIN trace:
            /\ trace[k] \notin DOMAIN Transitions(release, current_state)
            /\ trace[k][2] # UNRECOGNIZED
            /\ \A i \in DOMAIN trace:
                  /\ i < k => past[i + 1].result \in {"Ok", "Unrecognized"}
                  /\ i >= k => /\ past[i + 1].state = current_state
                              /\ past[i + 1].result = IF i = k THEN "Violation" ELSE "Blocked"

\* Nothing but reset, or a new process, takes a monitor out of the halt, and a
\* halted monitor does not move (the first branch of _step).
HaltIsFinal ==
    [][mode = "live" /\ mode' = "live" /\ halted
          => \/ trace' = <<>>
             \/ halted' /\ current_state' = current_state]_vars

\* What to_dict's docstring says of a protocol that changed between releases:
\* "if the protocol's semantics still accept the trace, restoration succeeds; if
\* they don't, restoration produces a halted monitor whose trace records the
\* exact event that no longer fits".
MisfitHalts ==
    [][mode = "restoring" /\ mode' = "live"
          => \/ halted
             \/ \A i \in DOMAIN trace:
                   saved.past[i + 1].result = "Ok" => past[i + 1].result = "Ok"]_vars

=============================================================================
