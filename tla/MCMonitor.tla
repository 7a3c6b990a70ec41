----------------------------- MODULE MCMonitor -----------------------------
(* Two releases whose automata differ.  "v1" compiles                       *)
(*     rec Loop.!Ask.?{Answer.Loop, Unrecognized.Loop}                      *)
(* and "v2" the same protocol with its loop entered in the middle           *)
(*     !Ask.rec Loop.?{Answer.!Ask.Loop, Unrecognized.!Ask.Loop}            *)
(* so that one position has two state ids in v2.  The sentinel is allowed   *)
(* after !Ask and not before it.                                            *)
EXTENDS MonitorReleases

Ask == <<"send", "Ask">>
Answer == <<"receive", "Answer">>
Doubt == <<"receive", UNRECOGNIZED>>

None == [e \in {} |-> 0]
AskTo(s) == [e \in {Ask} |-> s]
ReplyTo(s, t) == [e \in {Answer, Doubt} |-> IF e = Answer THEN s ELSE t]

MCAutomaton ==
    [v1 |-> [initial_state |-> 0,
             transitions |-> [s \in State |-> CASE s = 0 -> AskTo(1)
                                                [] s = 1 -> ReplyTo(0, 0)
                                                [] OTHER -> None]],
     v2 |-> [initial_state |-> 0,
             transitions |-> [s \in State |-> CASE s \in {0, 2, 4} -> AskTo(1)
                                                [] s = 1 -> ReplyTo(2, 4)
                                                [] OTHER -> None]]]

MCFollow ==
    [idle   |-> [e \in {Ask} |-> "waiting"],
     waiting |-> [e \in {Answer, Doubt} |-> "idle"],
     dead   |-> [e \in {} |-> "dead"]]

MCPos ==
    [v1 |-> [s \in State |-> CASE s = 0 -> "idle" [] s = 1 -> "waiting" [] OTHER -> "dead"],
     v2 |-> [s \in State |-> CASE s \in {0, 2, 4} -> "idle" [] s = 1 -> "waiting" [] OTHER -> "dead"]]

=============================================================================
