------------------------------ MODULE Session ------------------------------
(***************************************************************************)
(* What a protocol monitor promises its caller, with no automaton, no      *)
(* trace and no file: a session stands at a position of the protocol; an   *)
(* event the position allows moves it, any other event breaks it for good, *)
(* unless the event only says that it could not be classified.  A session  *)
(* can be saved; after a crash the caller goes on from what was saved or   *)
(* starts a new one.                                                       *)
(*                                                                         *)
(* Promised by llmcontract/monitor/monitor.py (the docstrings of Monitor,  *)
(* Unrecognized, to_dict and from_dict).  MonitorReleases shows that the   *)
(* Monitor implements it.                                                  *)
(***************************************************************************)

CONSTANTS
    Event,       \* the events a session can be offered
    Unclear,     \* the events that carry the UNRECOGNIZED label
    Position,    \* the positions of the protocol
    Start,       \* the position of a new session
    Follow       \* Follow[p]: the events p allows, each with the next position

VARIABLES
    up,          \* is there a session in memory
    position,
    broken,      \* has the session refused an event
    verdict,     \* what the last event was answered
    saved,       \* the last saved session
    lost         \* it cannot be read any more

session == <<position, broken>>
storage == <<saved, lost>>
vars == <<up, session, verdict, storage>>

New == [position |-> Start, broken |-> FALSE]

Init ==
    /\ up = TRUE
    /\ position = Start
    /\ broken = FALSE
    /\ verdict = "none"
    /\ saved = New
    /\ lost = FALSE

Accept(e) ==
    /\ up /\ ~broken
    /\ e \in DOMAIN Follow[position]
    /\ position' = Follow[position][e]
    /\ verdict' = "Ok"
    /\ UNCHANGED <<up, broken, storage>>

Refuse(e) ==
    /\ up /\ ~broken
    /\ e \notin DOMAIN Follow[position]
    /\ e \notin Unclear
    /\ broken' = TRUE
    /\ verdict' = "Violation"
    /\ UNCHANGED <<up, position, storage>>

AskAgain(e) ==
    /\ up /\ ~broken
    /\ e \in Unclear
    /\ e \notin DOMAIN Follow[position]
    /\ verdict' = "Unrecognized"
    /\ UNCHANGED <<up, session, storage>>

Ignore(e) ==
    /\ up /\ broken
    /\ verdict' = "Blocked"
    /\ UNCHANGED <<up, session, storage>>

StartOver ==
    /\ up
    /\ position' = Start
    /\ broken' = FALSE
    /\ UNCHANGED <<up, verdict, storage>>

Save ==
    /\ up
    /\ saved' = [position |-> position, broken |-> broken]
    /\ lost' = FALSE
    /\ UNCHANGED <<up, session, verdict>>

Crash ==
    /\ up
    /\ up' = FALSE
    /\ position' = Start
    /\ broken' = FALSE
    /\ verdict' = "none"
    /\ UNCHANGED storage

\* What was saved becomes unreadable while no session is in memory.
Lose ==
    /\ ~up
    /\ lost' = TRUE
    /\ UNCHANGED <<up, session, verdict, saved>>

GoOn ==
    /\ ~up
    /\ ~lost
    /\ up' = TRUE
    /\ position' = saved.position
    /\ broken' = saved.broken
    /\ UNCHANGED <<verdict, storage>>

StartNew ==
    /\ ~up
    /\ up' = TRUE
    /\ UNCHANGED <<session, verdict, storage>>

Next ==
    \/ \E e \in Event: Accept(e) \/ Refuse(e) \/ AskAgain(e) \/ Ignore(e)
    \/ StartOver \/ Save \/ Crash \/ Lose \/ GoOn \/ StartNew

Spec == Init /\ [][Next]_vars

=============================================================================
