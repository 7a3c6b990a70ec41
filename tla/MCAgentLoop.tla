---------------------------- MODULE MCAgentLoop ----------------------------
(***************************************************************************)
(* A booking agent whose protocol names the tools after the kind of the    *)
(* response,                                                               *)
(*   rec Loop.!Request.?{One.?{search.!Found.Loop, book.!Booked.Loop},     *)
(*                       Two.?search.!Found.?book.!Booked.Loop, Answer.end}*)
(***************************************************************************)
EXTENDS AgentLoop

\* The automaton the compiler builds for it.
Edges ==
    {<<0, "send", "Request", 1>>,
     <<1, "receive", "One", 2>>, <<1, "receive", "Two", 7>>, <<1, "receive", "Answer", 12>>,
     <<2, "receive", "search", 3>>, <<3, "send", "Found", 0>>,
     <<2, "receive", "book", 5>>, <<5, "send", "Booked", 0>>,
     <<7, "receive", "search", 8>>, <<8, "send", "Found", 9>>,
     <<9, "receive", "book", 10>>, <<10, "send", "Booked", 0>>}

MCAutomaton ==
    [now |-> [initial_state |-> 0,
              transitions |-> [s \in State |->
                 [e \in {<<x[2], x[3]>> : x \in {y \in Edges: y[1] = s}} |->
                     (CHOOSE x \in Edges: x[1] = s /\ <<x[2], x[3]>> = e)[4]]]]]

MCResponse ==
    {[label |-> "One", tool_calls |-> <<"search">>],
     [label |-> "One", tool_calls |-> <<"book">>],
     [label |-> "Two", tool_calls |-> <<"search", "book">>],
     [label |-> "Two", tool_calls |-> <<"search", "delete">>],
     [label |-> "Answer", tool_calls |-> <<>>],
     [label |-> UNRECOGNIZED, tool_calls |-> <<>>]}

MC_recv_label == [t \in Tool |-> t]

\* A result the projection cannot classify is sent with the sentinel; delete, which is
\* registered late, has no label of its own.
MC_result_label ==
    [t \in Tool |-> CASE t = "search" -> {"Found", UNRECOGNIZED}
                      [] t = "book" -> {"Booked"}
                      [] OTHER -> {t}]

=============================================================================
