-------------------------- MODULE BookingProtocol --------------------------
(***************************************************************************)
(* What the booking examples share (examples/langchain_booking/            *)
(* booking_agent.py): the labels of the tools, the protocol made of them,  *)
(* and the projection of user messages.  The protocol is linear: its       *)
(* states are the positions in the list of its events.  Module BookingText *)
(* derives it from the text the examples hand to Monitor.                  *)
(***************************************************************************)
EXTENDS MonitorStep

CONSTANT Tool           \* the tool names a model may call

\* Tool name -> (send label, receive label); a name the module does not define is
\* its own send label.
TOOL_LABELS == [search_flights |-> <<"SearchFlights", "FlightResults">>,
                book_flight    |-> <<"BookFlight", "BookingConfirmation">>]

Labels(name) ==
    IF name \in DOMAIN TOOL_LABELS THEN TOOL_LABELS[name]
    ELSE <<name, name \o "Result">>

ToolEvents(name) == <<<<"send", Labels(name)[1]>>, <<"receive", Labels(name)[2]>>>>

PresentOptions == <<"send", "PresentOptions">>
UserApproval == <<"receive", "UserApproval">>

Positions ==
    ToolEvents("search_flights")
        \o <<PresentOptions, UserApproval>>
        \o ToolEvents("book_flight")

Final == Len(Positions)

BookingState == 0..Final

BookingAutomaton ==
    [initial_state   |-> 0,
     terminal_states |-> {Final},
     transitions     |-> [s \in BookingState |->
         [event \in (IF s = Final THEN {} ELSE {Positions[s + 1]}) |-> s + 1]]]

\* The constants of MonitorStep.
BookingLabel ==
    {"PresentOptions", "UserApproval", UNRECOGNIZED}
        \cup UNION {{Labels(name)[1], Labels(name)[2]} : name \in Tool \cup DOMAIN TOOL_LABELS}

Automata == [now |-> BookingAutomaton]

ASSUME BookingAssumption ==
    /\ Label = BookingLabel
    /\ State = BookingState
    /\ Release = {"now"}
    /\ Automaton = Automata

Offered(state) == Transitions("now", state)

\* Monitor._step on a monitor [state, halted], with its answer in result.
Stepped(monitor, event) == After("now", monitor.state, monitor.halted, event)

NewMonitor == Fresh("now")

is_terminal(state) == state \in BookingAutomaton.terminal_states

\* What a user may reply: consent, something else, nothing.
Reply == {"yes", "maybe", ""}

project_user_message(reply) == IF reply = "yes" THEN "UserApproval" ELSE UNRECOGNIZED

=============================================================================
