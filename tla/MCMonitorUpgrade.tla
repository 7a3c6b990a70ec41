-------------------------- MODULE MCMonitorUpgrade --------------------------
(* A release that drops a branch: "v1" compiles                             *)
(*     rec Loop.!Ask.?{Answer.Loop, Unrecognized.Loop}                      *)
(* and "v3"  rec Loop.!Ask.?{Answer.Loop}.                                  *)
EXTENDS Monitor

Ask == <<"send", "Ask">>
Answer == <<"receive", "Answer">>
Doubt == <<"receive", UNRECOGNIZED>>

Automata(replies) ==
    [initial_state |-> 0,
     transitions |-> [s \in State |-> IF s = 0 THEN [e \in {Ask} |-> 1]
                                               ELSE [e \in replies |-> 0]]]

MCAutomaton == [v1 |-> Automata({Answer, Doubt}), v3 |-> Automata({Answer})]

=============================================================================
