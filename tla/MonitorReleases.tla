-------------------------- MODULE MonitorReleases --------------------------
(***************************************************************************)
(* The Monitor of releases that agree on the protocol implements Session.  *)
(*                                                                         *)
(* Releases agree when each of their automata is a numbering of the same   *)
(* protocol positions: Pos[r] takes a state id of release r to its         *)
(* position, and a state allows the events its position allows.  Two       *)
(* states may share a position, as when a protocol is written with a loop  *)
(* unrolled.  This is the case to_dict's docstring names: "the round-trip  *)
(* [is] robust against internal automaton-numbering changes between        *)
(* releases".                                                              *)
(***************************************************************************)
EXTENDS Monitor

CONSTANTS
    Position, Start, Follow,    \* the protocol, as in Session
    Pos                         \* Pos[r][s]: the position of state s in release r

ASSUME ReleasesAgree ==
    \A r \in Release:
        /\ Pos[r][Automaton[r].initial_state] = Start
        /\ \A s \in State:
              /\ DOMAIN Transitions(r, s) = DOMAIN Follow[Pos[r][s]]
              /\ \A e \in DOMAIN Transitions(r, s):
                    Pos[r][Transitions(r, s)[e]] = Follow[Pos[r][s]][e]

\* The sentinel events.
Unclear == Direction \X {UNRECOGNIZED}

\* A monitor under construction in from_dict is nobody's session yet.
Abstract == INSTANCE Session WITH
    up       <- mode = "live",
    position <- IF mode = "live" THEN Pos[release][current_state] ELSE Start,
    broken   <- mode = "live" /\ halted,
    verdict  <- result,
    saved    <- [position |-> Pos[saved.release][Saved.state],
                 broken   |-> Saved.halted],
    lost     <- Damaged

\* The monitor with its replay does what a session does: every step is a step
\* of Session or changes nothing a caller sees.
ImplementsSession == Abstract!Spec

\* A restored session is the saved one, whatever releases saved and restored it:
\* same position, same halted flag (to_dict: "if the protocol's semantics still
\* accept the trace, restoration succeeds").  It holds of every monitor that has
\* seen the saved events, restored or not.
RestoredAsSaved ==
    mode = "live" /\ trace = snapshot
        => /\ Pos[release][current_state] = Pos[saved.release][Saved.state]
           /\ halted = Saved.halted

-----------------------------------------------------------------------------
(* The inductive invariant behind these properties, in parts                *)

\* The histories are what _step does to the events they stand beside; a damaged
\* entry says nothing of its step any more.
History(r, events, configs) ==
    /\ Len(configs) = Len(events) + 1
    /\ configs[1] = Fresh(r)
    /\ \A i \in 1..Len(events):
          events[i] # Malformed
              => configs[i + 1] = After(r, configs[i].state, configs[i].halted, events[i])

Recorded ==
    /\ History(release, trace, past)
    /\ History(saved.release, snapshot, saved.past)
    /\ current_state = Now.state
    /\ halted = Now.halted

\* As far as the trace and the snapshot hold the same events, the monitor and the
\* saved one went through the same positions.
SameSoFar(n) == \A j \in 1..(n - 1): trace[j] = snapshot[j]

Agreement ==
    \A i \in 1..Len(past):
        i <= Len(saved.past) /\ SameSoFar(i)
            => /\ Pos[release][past[i].state] = Pos[saved.release][saved.past[i].state]
               /\ past[i].halted = saved.past[i].halted

\* from_dict has replayed a prefix of the snapshot.
Replayed ==
    mode = "restoring" => Len(trace) <= Len(snapshot) /\ SameSoFar(Len(trace) + 1)

\* A process without a session has answered nothing.
Quiet == mode # "live" => result = "none"

IInv == TypeOK /\ Recorded /\ Agreement /\ Replayed /\ Quiet

\* HaltExplained, with the case of a monitor that is not halted.
HaltInv ==
    /\ HaltExplained
    /\ ~halted => \A i \in DOMAIN trace: past[i + 1].result \in {"Ok", "Unrecognized"}

=============================================================================
