----------------------------- MODULE MCLangfuse -----------------------------
(* The monitor of the README's clarification loop,                          *)
(*     rec Loop.!Ask.?{Answer.Loop, Quit.end}                               *)
(* whose reply can be one the projection does not recognise.                *)
EXTENDS LangfuseMonitor

MCAutomaton ==
    [now |-> [initial_state |-> 0,
              transitions |-> [s \in State |->
                  CASE s = 0 -> [e \in {<<"send", "Ask">>} |-> 1]
                    [] s = 1 -> [e \in {<<"receive", "Answer">>, <<"receive", "Quit">>} |->
                                    IF e[2] = "Answer" THEN 0 ELSE 3]
                    [] OTHER -> [e \in {} |-> 0]]]]

=============================================================================
