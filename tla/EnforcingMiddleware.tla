------------------------ MODULE EnforcingMiddleware ------------------------
(***************************************************************************)
(* The booking agent behind an enforcing middleware                        *)
(* (examples/langchain_booking/booking_agent_middleware.py).               *)
(*                                                                         *)
(* The middleware wraps the tool calls of an agent: it sends the call's    *)
(* label to a Monitor, refuses the call on a Violation, and otherwise runs *)
(* the tool and reports what came back.  A refusal clears the monitor's    *)
(* halted flag.  The calls of one message run in threads, which share the  *)
(* monitor; its _step reads and writes three fields without a lock.        *)
(* Between the agent's runs an orchestrator presents its answer to the     *)
(* user and reports the reply.                                             *)
(***************************************************************************)
EXTENDS BookingProtocol

CONSTANTS
    MaxCalls,       \* bound: tool calls in a message
    MaxReplies      \* bound: user replies

ASSUME BoundsAssumption == MaxCalls \in Nat \ {0} /\ MaxReplies \in Nat

MaxTurns == 4       \* range(4) in run_with_middleware

VARIABLES
    state,          \* Monitor._current_state
    halted,         \* Monitor._halted
    trace,          \* Monitor._trace, kept as the monitor from_dict makes of it
    phase,          \* "agent" while the model writes, "tools", "answered", "presented",
                    \* or what run_with_middleware returned
    calls,          \* the calls of the message, each with its thread
    turn,           \* turns of the orchestrator so far
    replies,        \* how many user replies are left
    furthest,       \* history: where the accepted events lead, taken one by one
    refused,        \* history: what was a Violation, a "call" or something "else"
    overlapped      \* history: a message had several calls

monitor == <<state, halted, trace>>
history == <<furthest, refused>>
vars == <<monitor, phase, calls, turn, replies, history, overlapped>>

Init ==
    /\ state = NewMonitor.state
    /\ halted = FALSE
    /\ trace = NewMonitor
    /\ phase = "agent"
    /\ calls = <<>>
    /\ turn = 0
    /\ replies \in 0..MaxReplies
    /\ furthest = NewMonitor.state
    /\ refused = {}
    /\ overlapped = FALSE

\* self._trace.append(event)
Record(event) == trace' = [Stepped(trace, event) EXCEPT !.result = "none"]

\* The monitor has answered event with verdict.
Answered(event, verdict, kind) ==
    /\ furthest' = IF verdict = "Ok" /\ event \in DOMAIN Offered(furthest)
                   THEN Offered(furthest)[event] ELSE furthest
    /\ refused' = IF verdict = "Violation" THEN refused \cup {kind} ELSE refused

-----------------------------------------------------------------------------
(* The tool calls of a message                                              *)

\* A thread in wrap_tool_call: verb says which of its two events it is at, pc how
\* far _step has come, target the state it read.
Call(name) ==
    [name |-> name, verb |-> "send", pc |-> "append", target |-> state, verdict |-> "none"]

EventOf(call) ==
    <<call.verb, IF call.verb = "send" THEN Labels(call.name)[1] ELSE Labels(call.name)[2]>>

Move(i, pc) == calls' = [calls EXCEPT ![i].pc = pc]

Answer(i, verdict, pc, target) ==
    /\ calls' = [calls EXCEPT ![i].verdict = verdict, ![i].pc = pc, ![i].target = target]
    /\ Answered(EventOf(calls[i]), verdict, IF calls[i].verb = "send" THEN "call" ELSE "else")

\* The model asks for tools.
model_calls(names) ==
    /\ phase = "agent"
    /\ phase' = "tools"
    /\ calls' = [i \in DOMAIN names |-> Call(names[i])]
    /\ overlapped' = (overlapped \/ Len(names) > 1)
    /\ UNCHANGED <<monitor, turn, replies, history>>

\* _step: self._trace.append(event)
append(i) ==
    /\ calls[i].pc = "append"
    /\ Record(EventOf(calls[i]))
    /\ Move(i, "test")
    /\ UNCHANGED <<state, halted, phase, turn, replies, history, overlapped>>

\* if self._halted: return Blocked
test(i) ==
    /\ calls[i].pc = "test"
    /\ IF halted THEN Answer(i, "Blocked", "answered", calls[i].target)
       ELSE Move(i, "look_up") /\ UNCHANGED history
    /\ UNCHANGED <<monitor, phase, turn, replies, overlapped>>

\* Mutant: an event is accepted when any state of the automaton offers it.
look_up_any_state(i) ==
    /\ calls[i].pc = "look_up"
    /\ LET event == EventOf(calls[i])
           open == {s \in BookingState: event \in DOMAIN Offered(s)}
       IN  IF open # {}
           THEN Answer(i, "Ok", "assign", Offered(CHOOSE s \in open: TRUE)[event])
           ELSE Answer(i, "Violation", "assign", state)
    /\ UNCHANGED <<monitor, phase, turn, replies, overlapped>>

\* transitions.get(self._current_state): what is assigned is decided here,
look_up(i) ==
    /\ calls[i].pc = "look_up"
    /\ LET event == EventOf(calls[i])
       IN  IF event \in DOMAIN Offered(state)
           THEN Answer(i, "Ok", "assign", Offered(state)[event])
           ELSE Answer(i, "Violation", "assign", state)
    /\ UNCHANGED <<monitor, phase, turn, replies, overlapped>>

\* and assigned here.
assign(i) ==
    /\ calls[i].pc = "assign"
    /\ IF calls[i].verdict = "Ok" THEN state' = calls[i].target /\ UNCHANGED halted
       ELSE halted' = TRUE /\ UNCHANGED state
    /\ Move(i, "answered")
    /\ UNCHANGED <<trace, phase, turn, replies, history, overlapped>>

Refused(call) == call.verb = "send" /\ call.verdict = "Violation"

\* Mutant: the flag stays, as Monitor leaves it.
refuse_halted(i) ==
    /\ calls[i].pc = "answered"
    /\ Refused(calls[i])
    /\ Move(i, "refused")
    /\ UNCHANGED <<monitor, phase, turn, replies, history, overlapped>>

\* outer.monitor._halted = False, and an error message is the call's result.
refuse(i) ==
    /\ calls[i].pc = "answered"
    /\ Refused(calls[i])
    /\ halted' = FALSE
    /\ Move(i, "refused")
    /\ UNCHANGED <<state, trace, phase, turn, replies, history, overlapped>>

\* Mutant: the refusal is only logged.
run_tool_anyway(i) ==
    /\ calls[i].pc = "answered"
    /\ calls[i].verb = "send"
    /\ Move(i, "running")
    /\ UNCHANGED <<monitor, phase, turn, replies, history, overlapped>>

\* Mutant: the tool runs once the monitor has said Ok.
run_tool_if_ok(i) ==
    /\ calls[i].pc = "answered"
    /\ calls[i].verb = "send"
    /\ calls[i].verdict = "Ok"
    /\ Move(i, "running")
    /\ UNCHANGED <<monitor, phase, turn, replies, history, overlapped>>

\* handler(request) is called on any other verdict.
run_tool(i) ==
    /\ calls[i].pc = "answered"
    /\ calls[i].verb = "send"
    /\ ~Refused(calls[i])
    /\ Move(i, "running")
    /\ UNCHANGED <<monitor, phase, turn, replies, history, overlapped>>

tool_returns(i) ==
    /\ calls[i].pc = "running"
    /\ calls' = [calls EXCEPT ![i].verb = "receive", ![i].pc = "append"]
    /\ UNCHANGED <<monitor, phase, turn, replies, history, overlapped>>

\* The verdict on the result is logged only.
finish_call(i) ==
    /\ calls[i].pc = "answered"
    /\ calls[i].verb = "receive"
    /\ Move(i, "done")
    /\ UNCHANGED <<monitor, phase, turn, replies, history, overlapped>>

\* The model sees the results.
join ==
    /\ phase = "tools"
    /\ \A i \in DOMAIN calls: calls[i].pc \in {"refused", "done"}
    /\ phase' = "agent"
    /\ calls' = <<>>
    /\ UNCHANGED <<monitor, turn, replies, history, overlapped>>

Thread(i) ==
    \/ append(i) \/ test(i) \/ look_up(i) \/ assign(i)
    \/ refuse(i) \/ run_tool(i) \/ tool_returns(i) \/ finish_call(i)

ToolsStep == join \/ \E i \in DOMAIN calls: Thread(i)

-----------------------------------------------------------------------------
(* run_with_middleware                                                      *)

\* No thread is running: a step of the monitor is one action.
_step(event) ==
    LET next == Stepped([state |-> state, halted |-> halted], event)
    IN  /\ state' = next.state
        /\ halted' = next.halted
        /\ Record(event)
        /\ Answered(event, next.result, "else")

AnswerTo(event) == Stepped([state |-> state, halted |-> halted], event).result

NextTurn ==
    /\ turn' = turn + 1
    /\ phase' = IF turn + 1 = MaxTurns THEN "incomplete" ELSE "agent"

\* agent.invoke returns: the model has answered without tool calls,
model_answers ==
    /\ phase = "agent"
    /\ phase' = "answered"
    /\ UNCHANGED <<monitor, calls, turn, replies, history, overlapped>>

\* without text,
empty_answer ==
    /\ phase = "answered"
    /\ NextTurn
    /\ UNCHANGED <<monitor, calls, replies, history, overlapped>>

\* or with text, which ends the run in a terminal state
finished ==
    /\ phase = "answered"
    /\ is_terminal(state)
    /\ phase' = "ok"
    /\ UNCHANGED <<monitor, calls, turn, replies, history, overlapped>>

\* Mutant: the end of the user's replies is not noticed.
present_always ==
    /\ phase = "answered"
    /\ ~is_terminal(state)
    /\ _step(PresentOptions)
    /\ phase' = IF AnswerTo(PresentOptions) = "Violation" THEN "violated" ELSE "presented"
    /\ UNCHANGED <<calls, turn, replies, overlapped>>

\* and otherwise goes to the user.
present ==
    /\ phase = "answered"
    /\ ~is_terminal(state)
    /\ _step(PresentOptions)
    /\ phase' = IF AnswerTo(PresentOptions) = "Violation" THEN "violated"
                ELSE IF replies = 0 THEN "incomplete" ELSE "presented"
    /\ UNCHANGED <<calls, turn, replies, overlapped>>

user_replies(message) ==
    /\ phase = "presented"
    /\ replies' = replies - 1
    /\ LET event == <<"receive", project_user_message(message)>>
       IN  /\ _step(event)
           /\ IF event[2] = UNRECOGNIZED THEN phase' = "unrecognized" /\ UNCHANGED turn
              ELSE IF AnswerTo(event) = "Violation" THEN phase' = "violated" /\ UNCHANGED turn
              ELSE NextTurn
    /\ UNCHANGED <<calls, overlapped>>

Next ==
    \/ \E n \in 1..MaxCalls: \E names \in [1..n -> Tool]: model_calls(names)
    \/ ToolsStep
    \/ model_answers \/ empty_answer \/ finished \/ present
    \/ \E message \in Reply: user_replies(message)

Spec == Init /\ [][Next]_vars

\* Some thread runs on as long as one can, tools return (both tools of the example
\* are plain lookups), and the agent goes on when all calls have a result.
FairSpec == Spec /\ WF_vars(ToolsStep)

-----------------------------------------------------------------------------
(* Properties                                                               *)

\* No tool outside the table has the name of an event of the protocol, and none has
\* the sentinel for its label: of a name that is not in the table the middleware
\* makes the labels itself.
NamesApart ==
    \A name \in Tool:
        /\ Labels(name)[1] # UNRECOGNIZED
        /\ name \notin DOMAIN TOOL_LABELS =>
              \A s \in DOMAIN Positions: Positions[s] # <<"send", name>>

AtRest == calls = <<>>

Phases == {"agent", "tools", "answered", "presented",
           "ok", "violated", "unrecognized", "incomplete"}

CallRecord ==
    [name    : Tool,
     verb    : {"send", "receive"},
     pc      : {"append", "test", "look_up", "assign", "answered", "running", "refused", "done"},
     target  : BookingState,
     verdict : {"none", "Ok", "Violation", "Blocked"}]

\* Every variable has its type.
TypeOK ==
    /\ state \in BookingState
    /\ halted \in BOOLEAN
    /\ trace \in [state : BookingState, halted : BOOLEAN, result : {"none"}]
    /\ phase \in Phases
    /\ calls \in Seq(CallRecord)
    /\ turn \in Nat
    /\ replies \in Nat
    /\ furthest \in BookingState
    /\ refused \subseteq {"call", "else"}
    /\ overlapped \in BOOLEAN

\* The middleware enforces the protocol ("Enforcement, not just observation" in its
\* docstring): a tool that runs was accepted.
ToolsRunOnlyIfAccepted ==
    \A i \in DOMAIN calls: calls[i].pc = "running" => calls[i].verdict = "Ok"

\* With one tool call per message it does, and the accepted events are a path to
\* where the monitor stands: no refused call, whatever was refused before, leaves
\* the monitor such that a later one passes unchecked (wrap_tool_call).
EnforcedOneByOne ==
    ~overlapped => ToolsRunOnlyIfAccepted /\ (AtRest => state = furthest)

\* Whatever the threads of a message do to each other, the monitor stands nowhere
\* it has not earned: the events that lead there were accepted in their order.  So
\* a run that ends "ok" has presented the options and been approved before it
\* booked.  (State ids number the positions of the linear protocol.)
StateIsEarned ==
    /\ state <= furthest
    /\ phase = "ok" => is_terminal(furthest)

\* No refused tool call leaves the monitor halted: when it is halted at rest, an
\* answer other than the one to a tool's send was a Violation (the "fail-soft"
\* comment in wrap_tool_call).
HaltHasReason == halted /\ AtRest => "else" \in refused

\* What a replay of the monitor's trace gives, since the middleware clears the flag
\* behind the monitor's back: the same monitor as long as nothing was refused, and from
\* then on a halted one that stands where the first refusal was.  The comment beside
\* Monitor._trace has it otherwise ("serializing it is sufficient to reconstruct the
\* monitor's state by replay"); the example never does serialise it.
RefusalSurvivesSnapshot ==
    ~overlapped /\ AtRest =>
        /\ trace.halted <=> refused # {}
        /\ refused = {} => trace.state = state /\ ~halted
        /\ trace.state <= state

\* A message's calls all come to an end, refused, run, or run unchecked.
ToolsEnd == phase = "tools" ~> phase # "tools"

=============================================================================
