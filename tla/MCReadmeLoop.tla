---------------------------- MODULE MCReadmeLoop ----------------------------
(***************************************************************************)
(* The wrappers as the README sets them up:                                *)
(*   rec Loop.!Request.?{ToolCall.!ToolResult.Loop, FinalAnswer.end}       *)
(* and a middleware with the tools search and book and no label of its own.*)
(***************************************************************************)
EXTENDS AgentLoop

Edges ==
    {<<0, "send", "Request", 1>>,
     <<1, "receive", "ToolCall", 2>>, <<1, "receive", "FinalAnswer", 4>>,
     <<2, "send", "ToolResult", 0>>}

MCAutomaton ==
    [now |-> [initial_state |-> 0,
              transitions |-> [s \in State |->
                 [e \in {<<x[2], x[3]>> : x \in {y \in Edges: y[1] = s}} |->
                     (CHOOSE x \in Edges: x[1] = s /\ <<x[2], x[3]>> = e)[4]]]]]

MCResponse ==
    {[label |-> "ToolCall", tool_calls |-> <<"search">>],
     [label |-> "ToolCall", tool_calls |-> <<"search", "book">>],
     [label |-> "FinalAnswer", tool_calls |-> <<>>]}

MC_recv_label == [t \in Tool |-> t]

MC_result_label == [t \in Tool |-> {t}]

=============================================================================
