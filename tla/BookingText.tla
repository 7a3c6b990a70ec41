---------------------------- MODULE BookingText ----------------------------
(* The text of the booking protocol, as linear_protocol writes it, parsed   *)
(* and compiled by the library: it is the automaton of BookingProtocol.     *)
EXTENDS BookingProtocol, Parser, Compiler

Sign(direction) == IF direction = "send" THEN "!" ELSE "?"

\* A sign and a label for every event, and end behind the last ".".
linear_protocol(events) ==
    FlattenSeq([i \in DOMAIN events |-> <<Sign(events[i][1]), events[i][2], ".">>]) \o <<"end">>

PROTOCOL == linear_protocol(Positions)

ASSUME CompiledAssumption ==
    LET compiled == compile_ast(parse(PROTOCOL).node)
    IN  \A field \in DOMAIN BookingAutomaton: compiled[field] = BookingAutomaton[field]

=============================================================================
