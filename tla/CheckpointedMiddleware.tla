----------------------- MODULE CheckpointedMiddleware -----------------------
(***************************************************************************)
(* CheckpointedProtocolMiddleware (llmcontract/langchain/middleware.py) in *)
(* the agent loop it hooks into.                                           *)
(*                                                                         *)
(* The state of the protocol, fsm_state and fsm_trace, is held in the      *)
(* thread's checkpoint.  The agent loop, the model, the tools and the      *)
(* checkpointer are LangChain's and LangGraph's; what the middleware       *)
(* relies on is modelled from how it uses them: a node runs on a copy of   *)
(* the checkpoint, its update is committed when the whole step has         *)
(* succeeded, and an exception or a crash leaves the checkpoint as it was, *)
(* to be invoked again.  The tool calls of one model message are one step. *)
(***************************************************************************)
EXTENDS ProtocolFSM

CONSTANTS
    tool_refs,      \* labels of the registered tools
    OtherTool,      \* tools the protocol does not cover
    Absent,         \* a channel that was never written
    MaxCalls,       \* bound: tool calls in one model message
    MaxTrace,       \* bound: events in fsm_trace before the model falls silent
    MaxInvoke,      \* bound: calls of agent.invoke
    NoType          \* the channel of the structured response is not set

ASSUME MiddlewareAssumption ==
    /\ {t.label : t \in {u \in Transitions: u.tool}} \subseteq tool_refs
    /\ MaxCalls \in Nat /\ MaxTrace \in Nat /\ MaxInvoke \in Nat
    /\ NoType \notin ResponseType /\ Absent \notin FsmState

Plain == "plain"    \* a resume value that names no event_label
Nothing == "nothing"

VARIABLES
    fsm_state, fsm_trace,   \* the protocol channels of the checkpoint
    structured_response,    \* LangChain's channel: the last typed response
    message,                \* the tool calls of the last model message
    node,                   \* the node to run next
    running,                \* is an invocation in progress
    resume,                 \* the value a suspended run was resumed with
    calls,                  \* the tool calls of the running tools step
    invocations,
    failures,               \* history: the invocations that ended in an exception or crash
    completed               \* history: how often each registered tool has run to its end

protocol == <<fsm_state, fsm_trace>>
agent == <<structured_response, message>>
work == <<calls, completed>>
bounds == <<invocations, failures>>
vars == <<protocol, agent, node, running, resume, work, bounds>>

Tool == tool_refs \cup OtherTool

Init ==
    /\ fsm_state = Absent /\ fsm_trace = <<>>
    /\ structured_response = NoType
    /\ message = <<>>
    /\ node = "end"
    /\ running = FALSE
    /\ resume = Nothing
    /\ calls = <<>>
    /\ invocations = 0 /\ failures = 0
    /\ completed = [t \in tool_refs |-> 0]

-----------------------------------------------------------------------------
(* The caller                                                               *)

\* agent.invoke with new input: the loop starts over on the thread's checkpoint.
invoke ==
    /\ ~running
    /\ invocations < MaxInvoke
    /\ invocations' = invocations + 1
    /\ running' = TRUE
    /\ node' = "before_agent"
    /\ resume' = Nothing
    /\ calls' = <<>>
    /\ UNCHANGED <<protocol, agent, completed, failures>>

\* agent.invoke on the thread where it stopped: Command(resume=value) for a run
\* suspended in before_model, or no value at all to run the failed node again.
invoke_again(value) ==
    /\ ~running
    /\ node # "end"
    /\ value # Nothing => node = "before_model"
    /\ invocations < MaxInvoke
    /\ invocations' = invocations + 1
    /\ running' = TRUE
    /\ resume' = value
    /\ UNCHANGED <<protocol, agent, node, work, failures>>

\* Every call gets its own copy of the state, which send and recv take forward.
Started(i) == [tool |-> message[i], pc |-> "send", state |-> fsm_state, trace |-> fsm_trace]

\* The step is given up: nothing it did to the checkpoint is kept.  Run again, it
\* starts all its tool calls anew, or keeps the results of the finished ones.
Fail ==
    /\ failures' = failures + 1
    /\ running' = FALSE
    /\ resume' = Nothing
    /\ \E keep \in BOOLEAN:
          calls' = [i \in DOMAIN calls |->
                       IF keep /\ calls[i].pc = "done" THEN calls[i] ELSE Started(i)]
    /\ UNCHANGED <<protocol, agent, node, completed, invocations>>

\* A worker crash, a model error.
Crash == running /\ Fail

-----------------------------------------------------------------------------
(* The hooks                                                                *)

\* Mutant: the channels are not initialised.
before_agent_sets_nothing ==
    /\ running /\ node = "before_agent"
    /\ node' = "before_model"
    /\ UNCHANGED <<protocol, agent, running, resume, work, bounds>>

\* Mutant: they are initialised on every invocation.
before_agent_always ==
    /\ running /\ node = "before_agent"
    /\ fsm_state' = initial /\ fsm_trace' = <<>>
    /\ node' = "before_model"
    /\ UNCHANGED <<agent, running, resume, work, bounds>>

before_agent ==
    /\ running /\ node = "before_agent"
    /\ fsm_state' = IF fsm_state = Absent THEN initial ELSE fsm_state
    /\ node' = "before_model"
    /\ UNCHANGED <<fsm_trace, agent, running, resume, work, bounds>>

\* Mutant: the update of a hook leaves fsm_state out.
Fire_keeps_state(ev, next) ==
    \E f \in fire_step(fsm_state, fsm_trace, ev):
        \/ /\ ~f.raises
           /\ fsm_trace' = f.trace
           /\ node' = next
           /\ resume' = Nothing
           /\ UNCHANGED <<fsm_state, agent, running, work, bounds>>
        \/ f.raises /\ Fail

\* fire_step in a hook: its update is committed with the step, or it raises.
Fire(ev, next) ==
    \E f \in fire_step(fsm_state, fsm_trace, ev):
        \/ /\ ~f.raises
           /\ fsm_state' = f.state
           /\ fsm_trace' = f.trace
           /\ node' = next
           /\ resume' = Nothing
           /\ UNCHANGED <<agent, running, work, bounds>>
        \/ f.raises /\ Fail

Skip(next) ==
    /\ node' = next
    /\ resume' = Nothing
    /\ UNCHANGED <<protocol, agent, running, work, bounds>>

\* interrupt() without a resume value suspends the run at this node.
Suspend ==
    /\ running' = FALSE
    /\ UNCHANGED <<protocol, agent, node, resume, work, bounds>>

\* The transition a resume value selects: one of its event_label, or the only one.
Selected(candidates) ==
    IF resume # Plain THEN {t \in candidates: t.label = resume}
    ELSE IF Cardinality(candidates) = 1 THEN candidates ELSE {}

\* Mutant: a resume value that names no edge is passed over, not an error.
before_model_passes_over ==
    /\ running /\ node = "before_model"
    /\ LET candidates == interrupt_transitions_from(fsm_state)
           selected == Selected(candidates)
       IN  \/ selected = {} /\ (candidates = {} \/ resume # Nothing) /\ Skip("model")
           \/ candidates # {} /\ resume = Nothing /\ Suspend
           \/ /\ candidates # {} /\ resume # Nothing
              /\ \E t \in selected: Fire(event(t), "model")

before_model ==
    /\ running /\ node = "before_model"
    /\ LET candidates == interrupt_transitions_from(fsm_state)
           selected == Selected(candidates)
       IN  \/ candidates = {} /\ Skip("model")
           \/ candidates # {} /\ resume = Nothing /\ Suspend
           \/ candidates # {} /\ resume # Nothing /\ selected = {} /\ Fail
           \/ /\ candidates # {} /\ resume # Nothing
              /\ \E t \in selected: Fire(event(t), "model")

\* Where the loop goes after a model message.
AfterModel == IF message = <<>> THEN "end" ELSE "tools"

\* The model answers with tool calls and perhaps a typed response, which stays in
\* the channel until another replaces it.
model(ts, type) ==
    /\ running /\ node = "model"
    /\ Len(fsm_trace) >= MaxTrace => ts = <<>> /\ type = NoType
    /\ message' = ts
    /\ structured_response' = IF type = NoType THEN structured_response ELSE type
    /\ node' = "after_model"
    /\ UNCHANGED <<protocol, running, resume, work, bounds>>

after_model ==
    /\ running /\ node = "after_model"
    /\ LET matched == {t \in structured_response_transitions_from(fsm_state):
                          structured_response \in t.match}
       IN  \/ matched = {} /\ Skip(AfterModel)
           \/ Cardinality(matched) > 1 /\ Fail
           \/ /\ Cardinality(matched) = 1
              /\ \E t \in matched: Fire(event(t), AfterModel)

\* The agent's loop ends.
finish ==
    /\ running /\ node = "end"
    /\ running' = FALSE
    /\ UNCHANGED <<protocol, agent, node, resume, work, bounds>>

-----------------------------------------------------------------------------
(* The tools step: each call works on the checkpoint the step started from  *)

start_tools ==
    /\ running /\ node = "tools" /\ calls = <<>>
    /\ calls' = [i \in DOMAIN message |-> Started(i)]
    /\ UNCHANGED <<protocol, agent, node, running, resume, completed, bounds>>

\* fire_step within a call: it takes the call's copy on, or the step fails.
FireCall(i, phase, next) ==
    \E f \in fire_step(calls[i].state, calls[i].trace, <<phase, calls[i].tool>>):
        \/ /\ ~f.raises
           /\ calls' = [calls EXCEPT ![i].state = f.state, ![i].trace = f.trace, ![i].pc = next]
           /\ UNCHANGED <<protocol, agent, node, running, resume, completed, bounds>>
        \/ f.raises /\ Fail

At(i, pc) == running /\ node = "tools" /\ i \in DOMAIN calls /\ calls[i].pc = pc

Monitored(i) == calls[i].tool \in tool_refs

\* The head of _dispatch_sync; a tool without a ref is passed through.
dispatch_send(i) ==
    /\ At(i, "send")
    /\ \/ Monitored(i) /\ FireCall(i, "send", "run")
       \/ /\ ~Monitored(i)
          /\ calls' = [calls EXCEPT ![i].pc = "run"]
          /\ UNCHANGED <<protocol, agent, node, running, resume, completed, bounds>>

\* handler(request) returns.
tool_returns(i) ==
    /\ At(i, "run")
    /\ calls' = [calls EXCEPT ![i].pc = IF Monitored(i) THEN "recv" ELSE "done"]
    /\ completed' = [t \in tool_refs |-> completed[t] + IF t = calls[i].tool THEN 1 ELSE 0]
    /\ UNCHANGED <<protocol, agent, node, running, resume, bounds>>

\* handler(request) raises, and so does the step.  The call's state and trace after the
\* send are local to _dispatch_sync and go with it.
tool_raises(i) == At(i, "run") /\ Fail

dispatch_recv(i) == At(i, "recv") /\ FireCall(i, "recv", "done")

\* Mutant: only an update that changes fsm_state is sent.
Writers_that_move == {i \in DOMAIN calls: Monitored(i) /\ calls[i].state # fsm_state}

\* The calls whose result comes wrapped with an update of the channels.
Writers == {i \in DOMAIN calls: Monitored(i)}

Returned == calls # <<>> /\ \A i \in DOMAIN calls: calls[i].pc = "done"

\* All calls have returned and their Commands are applied to the checkpoint: the
\* channels take one value in a step, two updates are an error.
join ==
    /\ running /\ node = "tools" /\ Returned
    /\ \/ /\ Cardinality(Writers) <= 1
          /\ \/ /\ Writers = {}
                /\ UNCHANGED protocol
             \/ \E i \in Writers:
                   /\ fsm_state' = calls[i].state
                   /\ fsm_trace' = calls[i].trace
          /\ node' = "before_model"
          /\ calls' = <<>>
          /\ UNCHANGED <<agent, running, resume, completed, bounds>>
       \/ Cardinality(Writers) > 1 /\ Fail

-----------------------------------------------------------------------------

Messages == UNION {[1..n -> Tool] : n \in 0..MaxCalls}

ResumeValues == {Nothing, Plain} \cup {t.label : t \in {u \in Transitions: u.interrupt}}

Next ==
    \/ invoke \/ Crash
    \/ \E value \in ResumeValues: invoke_again(value)
    \/ before_agent \/ before_model \/ after_model \/ finish
    \/ \E ts \in Messages, type \in ResponseType \cup {NoType}: model(ts, type)
    \/ start_tools \/ join
    \/ \E i \in DOMAIN calls:
          dispatch_send(i) \/ tool_returns(i) \/ tool_raises(i) \/ dispatch_recv(i)

Spec == Init /\ [][Next]_vars

-----------------------------------------------------------------------------
(* Properties                                                               *)

\* No resume and no typed response fires an event of this phase under the label of a
\* registered tool: no hook's event is taken for the tool's send, or for its recv.
HooksApart(phase) ==
    \A t \in Transitions:
        (t.interrupt \/ t.match # {}) /\ t.phase = phase => t.label \notin tool_refs

\* A resume gets past its gate, and not into another: a guard that refuses it raises, or
\* there is none, and no gate opens on a state with gates.
GatesOpen ==
    \A t \in Transitions: t.interrupt =>
        /\ FALSE \notin Raising \/ ~t.guarded
        /\ interrupt_transitions_from(t.target) = {}

Event == Phase \X (Tool \cup {t.label : t \in Transitions})

\* The checkpoint holds a state of the table and events, and the agent loop is at a
\* node it has.
TypeOK ==
    /\ fsm_state \in FsmState \cup {Absent}
    /\ fsm_trace \in Seq(Event)
    /\ structured_response \in ResponseType \cup {NoType}
    /\ message \in Messages
    /\ node \in {"before_agent", "before_model", "model", "after_model", "tools", "end"}
    /\ fsm_state = Absent => node \in {"before_agent", "end"}
    /\ running \in BOOLEAN /\ resume \in ResumeValues
    /\ DOMAIN calls \in {{}, DOMAIN message}
    /\ \A i \in DOMAIN calls:
          /\ calls[i].tool = message[i]
          /\ calls[i].pc \in {"send", "run", "recv", "done"}
          /\ calls[i].state \in FsmState /\ calls[i].trace \in Seq(Event)
    /\ failures \in 0..invocations /\ invocations \in 0..MaxInvoke
    /\ completed \in [tool_refs -> Nat]

\* The two channels of the checkpoint are a run of the table: they are written together,
\* fsm_trace only grows, and what it grows by takes the table from the old fsm_state to
\* the new one, over any number of hooks, retries, parallel calls and resumes.
Run == INSTANCE ProtocolRun WITH
    state <- IF fsm_state = Absent THEN initial ELSE fsm_state,
    trace <- fsm_trace

ImplementsRun == Run!Spec

\* A tool's send and recv reach the checkpoint as one.  The comment at the handler's
\* call, "the protocol stays in the post-send state", holds of no state a later step sees.
CallsAreWhole ==
    \A k \in DOMAIN fsm_trace:
        fsm_trace[k][1] = "send" /\ fsm_trace[k][2] \in tool_refs =>
            k < Len(fsm_trace) /\ fsm_trace[k + 1] = <<"recv", fsm_trace[k][2]>>

Recorded(t) == Cardinality({k \in DOMAIN fsm_trace: fsm_trace[k] = <<"recv", t>>})

InFlight(t) == Cardinality({i \in DOMAIN calls: calls[i].tool = t /\ calls[i].pc \in {"recv", "done"}})

\* The trace records no result that no tool gave, and a result a tool did give is
\* missing from it only after an exception or a crash, one step's calls for each.
WorkIsRecorded ==
    \A t \in tool_refs:
        /\ Recorded(t) <= completed[t]
        /\ completed[t] <= Recorded(t) + InFlight(t) + failures * MaxCalls

\* The model is never called while the protocol waits at an interrupt gate.
ModelNeverRunsAtGate ==
    node = "model" => interrupt_transitions_from(fsm_state) = {}

=============================================================================
