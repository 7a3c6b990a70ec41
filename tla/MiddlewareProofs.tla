-------------------------- MODULE MiddlewareProofs --------------------------
(***************************************************************************)
(* Proofs about CheckpointedMiddleware: for every table, any number of     *)
(* tool calls in a message and of crashes and invocations, the checkpoint  *)
(* moves as the table says and holds whole calls.                          *)
(***************************************************************************)
EXTENDS CheckpointedMiddleware, FsmProofs, FiniteSetTheorems

Pc == {"send", "run", "recv", "done"}

Call == [tool : Tool, pc : Pc, state : FsmState, trace : Seq(Event)]

\* How far a call's copy has got from the state and trace of the checkpoint.
Fit(c, state, trace) ==
    LET send == <<"send", c.tool>>
        recv == <<"recv", c.tool>>
    IN  /\ c.pc = "recv" => c.tool \in tool_refs
        /\ c.pc = "send" \/ c.tool \notin tool_refs =>
              c.state = state /\ c.trace = trace
        /\ c.pc \in {"run", "recv"} /\ c.tool \in tool_refs =>
              c.state \in Landing({state}, send) /\ c.trace = Append(trace, send)
        /\ c.pc = "done" /\ c.tool \in tool_refs =>
              /\ c.state \in Landing(Landing({state}, send), recv)
              /\ c.trace = Append(Append(trace, send), recv)

\* Calls exist only in the tools step, on copies of a checkpoint that stays as it was.
CallsFit ==
    /\ calls \in [DOMAIN calls -> Call]
    /\ DOMAIN calls # {} => node = "tools"
    /\ \A i \in DOMAIN calls: Fit(calls[i], fsm_state, fsm_trace)

IInv ==
    /\ TypeOK
    /\ CallsFit
    /\ running => failures < invocations

-----------------------------------------------------------------------------
(* One call                                                                 *)

\* What a tool call fires is an event (_dispatch_sync).
LEMMA ToolEvents == ASSUME NEW t \in Tool, NEW phase \in Phase PROVE <<phase, t>> \in Event
  BY DEF Event

\* What an edge is fired by is an event (Transition.event).
LEMMA TableEvents == ASSUME NEW t \in Transitions PROVE event(t) \in Event
  BY TableAssumption DEF Event, event, Accepted

\* A tool without a ref, and the return of a tool, leave the copy where it is.
LEMMA FitMoves ==
    ASSUME NEW state, NEW trace, NEW c, Fit(c, state, trace),
           NEW d, d.tool = c.tool, d.state = c.state, d.trace = c.trace,
           \/ c.pc = "send" /\ c.tool \notin tool_refs /\ d.pc = "run"
           \/ c.pc = "run" /\ d.pc = IF c.tool \in tool_refs THEN "recv" ELSE "done"
    PROVE  Fit(d, state, trace)
  BY DEF Fit

\* fire_step in a call takes its copy one event further.
LEMMA FitFires ==
    ASSUME NEW state, NEW trace, NEW c \in Call, Fit(c, state, trace), c.tool \in tool_refs,
           NEW phase, NEW next, c.pc = phase,
           (phase = "send" /\ next = "run") \/ (phase = "recv" /\ next = "done"),
           NEW f \in fire_step(c.state, c.trace, <<phase, c.tool>>), ~f.raises,
           NEW d, d.tool = c.tool, d.pc = next, d.state = f.state, d.trace = f.trace
    PROVE  Fit(d, state, trace) /\ f.state \in FsmState /\ f.trace \in Seq(Event)
<1>1. c.state \in FsmState /\ c.trace \in Seq(Event) /\ c.tool \in Tool
  BY DEF Call
<1>2. f.state \in FsmState /\ f.trace = Append(c.trace, <<phase, c.tool>>)
  BY <1>1, FireStepIs
<1>3. <<phase, c.tool>> \in Event
  BY <1>1, ToolEvents DEF Phase
<1>4. CASE c.pc = "send"
  <2>1. phase = "send" /\ next = "run" /\ c.state = state /\ c.trace = trace
    BY <1>4 DEF Fit
  <2>2. f.state \in Landing({state}, <<"send", c.tool>>)
    BY <2>1, FireLands
  <2>3. QED
    BY <1>1, <1>2, <1>3, <2>1, <2>2 DEF Fit
<1>5. CASE c.pc = "recv"
  <2>1. /\ phase = "recv" /\ next = "done"
        /\ c.state \in Landing({state}, <<"send", c.tool>>)
        /\ c.trace = Append(trace, <<"send", c.tool>>)
    BY <1>5 DEF Fit
  <2>2. f.state \in Landing(Landing({state}, <<"send", c.tool>>), <<"recv", c.tool>>)
    BY <2>1, FireLands
  <2>3. QED
    BY <1>1, <1>2, <1>3, <2>1, <2>2 DEF Fit
<1>6. QED
  BY <1>4, <1>5


-----------------------------------------------------------------------------
(* The steps                                                                *)

\* A thread of LangGraph's begins without checkpoint and calls.
LEMMA InitInv == Init => IInv
<1> SUFFICES ASSUME Init PROVE IInv
  OBVIOUS
<1>1. /\ fsm_state = Absent /\ fsm_trace = <<>> /\ structured_response = NoType
      /\ message = <<>> /\ node = "end" /\ running = FALSE /\ resume = Nothing /\ calls = <<>>
      /\ invocations = 0 /\ failures = 0 /\ completed = [t \in tool_refs |-> 0]
  BY DEF Init
<1>2. DOMAIN calls = {} /\ calls \in [DOMAIN calls -> Call]
  BY <1>1
<1>3. message \in Messages
  <2>1. <<>> \in [1..0 -> Tool] /\ 0 \in 0..MaxCalls
    BY MiddlewareAssumption
  <2>2. QED
    BY <1>1, <2>1 DEF Messages
<1>4. <<>> \in Seq(Event) /\ 0 \in 0..0 /\ 0 \in 0..MaxInvoke /\ 0 \in Nat
  BY MiddlewareAssumption
<1>5. resume \in ResumeValues
  BY <1>1 DEF ResumeValues
<1>6. TypeOK
  BY <1>1, <1>2, <1>3, <1>4, <1>5 DEF TypeOK
<1>7. QED
  BY <1>1, <1>2, <1>6 DEF IInv, CallsFit

\* The step is given up: calls are started anew on the checkpoint, or kept as they are.
LEMMA FailKeeps == ASSUME IInv, running, Fail PROVE IInv'
<1>0. TypeOK /\ CallsFit /\ failures < invocations
  BY DEF IInv
<1>1. /\ failures' = failures + 1 /\ running' = FALSE /\ resume' = Nothing
      /\ fsm_state' = fsm_state /\ fsm_trace' = fsm_trace
      /\ structured_response' = structured_response /\ message' = message
      /\ node' = node /\ completed' = completed /\ invocations' = invocations
  BY DEF Fail, protocol, agent
<1>2. PICK keep \in BOOLEAN:
        calls' = [i \in DOMAIN calls |->
                     IF keep /\ calls[i].pc = "done" THEN calls[i] ELSE Started(i)]
  BY DEF Fail
<1>3. DOMAIN calls' = DOMAIN calls
  BY <1>2
<1>4. ASSUME NEW i \in DOMAIN calls
      PROVE  /\ calls'[i] \in Call /\ calls'[i].tool = message[i]
             /\ Fit(calls'[i], fsm_state, fsm_trace)
  <2>1. CASE calls'[i] = calls[i]
    BY <1>0, <2>1 DEF CallsFit, TypeOK
  <2>2. CASE calls'[i] = Started(i)
    <3>1. node = "tools" /\ fsm_state \in FsmState /\ fsm_trace \in Seq(Event)
      BY <1>0 DEF CallsFit, TypeOK
    <3>2. message[i] \in Tool
      BY <1>0 DEF CallsFit, TypeOK, Call
    <3>3. QED
      BY <2>2, <3>1, <3>2 DEF Started, Call, Pc, Fit
  <2>3. QED
    BY <1>2, <2>1, <2>2
<1>5. calls' \in [DOMAIN calls' -> Call]
  BY <1>2, <1>3, <1>4
<1>6. CallsFit'
  BY <1>0, <1>1, <1>3, <1>4, <1>5 DEF CallsFit
<1>7. /\ failures' \in 0..invocations' /\ resume' \in ResumeValues
  BY <1>0, <1>1 DEF TypeOK, ResumeValues
<1>8. \A i \in DOMAIN calls': /\ calls'[i].tool = message'[i]
                              /\ calls'[i].pc \in {"send", "run", "recv", "done"}
                              /\ calls'[i].state \in FsmState /\ calls'[i].trace \in Seq(Event)
  BY <1>1, <1>3, <1>4 DEF Call, Pc
<1>9. TypeOK'
  BY <1>0, <1>1, <1>3, <1>7, <1>8 DEF TypeOK
<1>10. QED
  BY <1>1, <1>6, <1>9 DEF IInv

\* Where there are no calls, a step that starts none disturbs none.
LEMMA NoCalls ==
    ASSUME DOMAIN calls = {}, calls' = calls, CallsFit
    PROVE  CallsFit' /\ DOMAIN calls' = {}
  BY DEF CallsFit

\* A hook without edges writes nothing.
LEMMA SkipKeeps ==
    ASSUME IInv, NEW next \in {"before_model", "model", "tools", "end"},
           node \in {"before_model", "after_model"}, Skip(next)
    PROVE  IInv'
<1>0. TypeOK /\ CallsFit /\ DOMAIN calls = {} /\ fsm_state # Absent
  BY DEF IInv, CallsFit, TypeOK
<1>1. /\ node' = next /\ resume' = Nothing
      /\ fsm_state' = fsm_state /\ fsm_trace' = fsm_trace
      /\ structured_response' = structured_response /\ message' = message
      /\ running' = running /\ calls' = calls /\ completed' = completed
      /\ invocations' = invocations /\ failures' = failures
  BY DEF Skip, protocol, agent, work, bounds
<1>2. CallsFit' /\ DOMAIN calls' = {}
  BY <1>0, <1>1, NoCalls
<1>3. TypeOK'
  BY <1>0, <1>1, <1>2 DEF TypeOK, ResumeValues
<1>4. QED
  BY <1>1, <1>2, <1>3 DEF IInv

\* A hook that fires an edge writes the state and trace of fire_step.
LEMMA FireKeeps ==
    ASSUME IInv, running, NEW t \in Transitions,
           NEW next \in {"model", "tools", "end"},
           node \in {"before_model", "after_model"}, Fire(event(t), next)
    PROVE  IInv'
<1>0. TypeOK /\ CallsFit /\ DOMAIN calls = {} /\ fsm_state \in FsmState
  BY DEF IInv, CallsFit, TypeOK
<1>1. PICK f \in fire_step(fsm_state, fsm_trace, event(t)):
        \/ /\ ~f.raises
           /\ fsm_state' = f.state
           /\ fsm_trace' = f.trace
           /\ node' = next
           /\ resume' = Nothing
           /\ UNCHANGED <<agent, running, work, bounds>>
        \/ f.raises /\ Fail
  BY DEF Fire
<1>2. CASE f.raises /\ Fail
  BY <1>2, FailKeeps
<1>3. CASE /\ fsm_state' = f.state
           /\ fsm_trace' = f.trace
           /\ node' = next
           /\ resume' = Nothing
           /\ UNCHANGED <<agent, running, work, bounds>>
  <2>1. /\ structured_response' = structured_response /\ message' = message
        /\ running' = running /\ calls' = calls /\ completed' = completed
        /\ invocations' = invocations /\ failures' = failures
    BY <1>3 DEF agent, work, bounds
  <2>2. fsm_state' \in FsmState /\ fsm_trace' \in Seq(Event)
    <3>1. event(t) \in Event /\ fsm_trace \in Seq(Event)
      BY <1>0, TableEvents DEF TypeOK
    <3>2. f.state \in FsmState /\ f.trace = Append(fsm_trace, event(t))
      BY <1>0, FireStepIs
    <3>3. Append(fsm_trace, event(t)) \in Seq(Event)
      BY <3>1
    <3>4. QED
      BY <1>3, <3>2, <3>3
  <2>3. fsm_state' # Absent
    BY <2>2, MiddlewareAssumption
  <2>4. CallsFit' /\ DOMAIN calls' = {}
    BY <1>0, <2>1, NoCalls
  <2>5. TypeOK'
    <3>1. resume' \in ResumeValues
      BY <1>3 DEF ResumeValues
    <3>2. node' \in {"model", "tools", "end"}
      BY <1>3
    <3>3. DOMAIN calls' \in {{}, DOMAIN message'} /\ \A i \in DOMAIN calls': FALSE
      BY <2>4
    <3>4. QED
      BY <1>0, <2>1, <2>2, <2>3, <3>1, <3>2, <3>3 DEF TypeOK
  <2>6. QED
    BY <2>1, <2>4, <2>5 DEF IInv
<1>4. QED
  BY <1>1, <1>2, <1>3

\* interrupt() writes nothing.
LEMMA SuspendKeeps == ASSUME IInv, Suspend PROVE IInv'
<1>1. /\ running' = FALSE /\ node' = node /\ resume' = resume
      /\ fsm_state' = fsm_state /\ fsm_trace' = fsm_trace
      /\ structured_response' = structured_response /\ message' = message
      /\ calls' = calls /\ completed' = completed
      /\ invocations' = invocations /\ failures' = failures
  BY DEF Suspend, protocol, agent, work, bounds
<1>2. QED
  BY <1>1 DEF IInv, TypeOK, CallsFit

\* The caller, and the hooks.
LEMMA InvokeKeeps == ASSUME IInv, invoke PROVE IInv'
<1>0. TypeOK /\ CallsFit
  BY DEF IInv
<1>1. /\ invocations < MaxInvoke /\ invocations' = invocations + 1 /\ running' = TRUE
      /\ node' = "before_agent" /\ resume' = Nothing /\ calls' = <<>>
      /\ fsm_state' = fsm_state /\ fsm_trace' = fsm_trace
      /\ structured_response' = structured_response /\ message' = message
      /\ completed' = completed /\ failures' = failures
  BY DEF invoke, protocol, agent
<1>2. DOMAIN calls' = {} /\ calls' \in [DOMAIN calls' -> Call]
  BY <1>1
<1>3. /\ failures' \in 0..invocations' /\ invocations' \in 0..MaxInvoke
      /\ failures' < invocations'
  BY <1>0, <1>1, MiddlewareAssumption DEF TypeOK
<1>4. TypeOK'
  BY <1>0, <1>1, <1>2, <1>3 DEF TypeOK, ResumeValues
<1>5. CallsFit'
  BY <1>2 DEF CallsFit
<1>6. QED
  BY <1>3, <1>4, <1>5 DEF IInv

\* Neither does resuming, or retrying after a failure.
LEMMA InvokeAgainKeeps ==
    ASSUME IInv, NEW value \in ResumeValues, invoke_again(value) PROVE IInv'
<1>0. TypeOK /\ CallsFit
  BY DEF IInv
<1>1. /\ invocations < MaxInvoke /\ invocations' = invocations + 1 /\ running' = TRUE
      /\ node' = node /\ resume' = value /\ calls' = calls
      /\ fsm_state' = fsm_state /\ fsm_trace' = fsm_trace
      /\ structured_response' = structured_response /\ message' = message
      /\ completed' = completed /\ failures' = failures
  BY DEF invoke_again, protocol, agent, work
<1>2. /\ failures' \in 0..invocations' /\ invocations' \in 0..MaxInvoke
      /\ failures' < invocations'
  BY <1>0, <1>1, MiddlewareAssumption DEF TypeOK
<1>3. TypeOK'
  BY <1>0, <1>1, <1>2 DEF TypeOK
<1>4. CallsFit'
  BY <1>0, <1>1 DEF CallsFit
<1>5. QED
  BY <1>2, <1>3, <1>4 DEF IInv

\* before_agent writes the initial state once.
LEMMA BeforeAgentKeeps == ASSUME IInv, before_agent PROVE IInv'
<1>0. TypeOK /\ CallsFit /\ DOMAIN calls = {}
  BY DEF IInv, CallsFit, before_agent
<1>1. /\ fsm_state' = IF fsm_state = Absent THEN initial ELSE fsm_state
      /\ node' = "before_model" /\ fsm_trace' = fsm_trace
      /\ structured_response' = structured_response /\ message' = message
      /\ running' = running /\ resume' = resume /\ calls' = calls /\ completed' = completed
      /\ invocations' = invocations /\ failures' = failures
  BY DEF before_agent, agent, work, bounds
<1>2. fsm_state' \in FsmState /\ fsm_state' # Absent
  BY <1>0, <1>1, TableAssumption, MiddlewareAssumption DEF TypeOK
<1>3. CallsFit' /\ DOMAIN calls' = {}
  BY <1>0, <1>1, NoCalls
<1>4. TypeOK'
  BY <1>0, <1>1, <1>2, <1>3 DEF TypeOK
<1>5. QED
  BY <1>1, <1>3, <1>4 DEF IInv

\* before_model waits, fires the selected gate, or goes on (_maybe_interrupt).
LEMMA BeforeModelKeeps == ASSUME IInv, before_model PROVE IInv'
<1> DEFINE candidates == interrupt_transitions_from(fsm_state)
           selected == Selected(candidates)
<1>1. running /\ node = "before_model"
  BY DEF before_model
<1>2. \/ Skip("model")
      \/ Suspend
      \/ Fail
      \/ \E t \in selected: Fire(event(t), "model")
  BY DEF before_model
<1>3. selected \subseteq Transitions
  BY DEF Selected, interrupt_transitions_from
<1>4. QED
  BY <1>1, <1>2, <1>3, SkipKeeps, SuspendKeeps, FailKeeps, FireKeeps

\* The model writes a message and perhaps a typed response, no protocol channel.
LEMMA ModelKeeps ==
    ASSUME IInv, NEW ts \in Messages, NEW type \in ResponseType \cup {NoType}, model(ts, type)
    PROVE  IInv'
<1>0. TypeOK /\ CallsFit /\ DOMAIN calls = {} /\ fsm_state # Absent
  BY DEF IInv, CallsFit, TypeOK, model
<1>1. /\ message' = ts /\ node' = "after_model"
      /\ structured_response' = IF type = NoType THEN structured_response ELSE type
      /\ fsm_state' = fsm_state /\ fsm_trace' = fsm_trace
      /\ running' = running /\ resume' = resume /\ calls' = calls /\ completed' = completed
      /\ invocations' = invocations /\ failures' = failures
  BY DEF model, protocol, work, bounds
<1>2. structured_response' \in ResponseType \cup {NoType}
  BY <1>0, <1>1 DEF TypeOK
<1>3. CallsFit' /\ DOMAIN calls' = {}
  BY <1>0, <1>1, NoCalls
<1>4. TypeOK'
  BY <1>0, <1>1, <1>2, <1>3 DEF TypeOK
<1>5. QED
  BY <1>1, <1>3, <1>4 DEF IInv

\* after_model fires the edge the typed response matches
\* (_maybe_match_structured_response).
LEMMA AfterModelKeeps == ASSUME IInv, after_model PROVE IInv'
<1> DEFINE matched == {t \in structured_response_transitions_from(fsm_state):
                          structured_response \in t.match}
<1>1. running /\ node = "after_model" /\ AfterModel \in {"end", "tools"}
  BY DEF after_model, AfterModel
<1>2. \/ Skip(AfterModel)
      \/ Fail
      \/ \E t \in matched: Fire(event(t), AfterModel)
  BY DEF after_model
<1>3. matched \subseteq Transitions
  BY DEF structured_response_transitions_from
<1>4. QED
  <2>1. PICK next: next = AfterModel
    OBVIOUS
  <2>2. next \in {"model", "tools", "end"}
    BY <1>1, <2>1
  <2>3. CASE Skip(AfterModel)
    <3>1. Skip(next)
      BY <2>1, <2>3 DEF Skip
    <3>2. QED
      BY <1>1, <2>2, <3>1, SkipKeeps
  <2>4. CASE \E t \in matched: Fire(event(t), AfterModel)
    <3>1. \E t \in matched: Fire(event(t), next)
      BY <2>1, <2>4 DEF Fire
    <3>2. QED
      BY <1>1, <1>3, <2>2, <3>1, FireKeeps
  <2>5. QED
    BY <1>1, <1>2, <2>3, <2>4, FailKeeps

\* The end of an invocation writes nothing.
LEMMA FinishKeeps == ASSUME IInv, finish PROVE IInv'
<1>1. Suspend
  BY DEF finish, Suspend
<1>2. QED
  BY <1>1, SuspendKeeps


\* The tools step.
LEMMA StartKeeps == ASSUME IInv, start_tools PROVE IInv'
<1>0. TypeOK /\ CallsFit /\ node = "tools" /\ fsm_state \in FsmState /\ fsm_trace \in Seq(Event)
  BY DEF IInv, start_tools, TypeOK
<1>1. /\ calls' = [i \in DOMAIN message |-> Started(i)]
      /\ fsm_state' = fsm_state /\ fsm_trace' = fsm_trace
      /\ structured_response' = structured_response /\ message' = message /\ node' = node
      /\ running' = running /\ resume' = resume /\ completed' = completed
      /\ invocations' = invocations /\ failures' = failures
  BY DEF start_tools, protocol, agent, bounds
<1>2. \A i \in DOMAIN message: message[i] \in Tool
  BY <1>0 DEF TypeOK, Messages
<1>3. DOMAIN calls' = DOMAIN message /\ \A i \in DOMAIN message: calls'[i] = Started(i)
  BY <1>1
<1>4. ASSUME NEW i \in DOMAIN message
      PROVE  /\ calls'[i] \in Call /\ calls'[i].tool = message[i]
             /\ Fit(calls'[i], fsm_state, fsm_trace)
  BY <1>0, <1>2, <1>3 DEF Started, Call, Pc, Fit
<1>5. calls' \in [DOMAIN calls' -> Call]
  BY <1>1, <1>3, <1>4
<1>6. CallsFit'
  BY <1>0, <1>1, <1>3, <1>4, <1>5 DEF CallsFit
<1>7. \A i \in DOMAIN calls': /\ calls'[i].tool = message'[i]
                              /\ calls'[i].pc \in {"send", "run", "recv", "done"}
                              /\ calls'[i].state \in FsmState /\ calls'[i].trace \in Seq(Event)
  BY <1>1, <1>3, <1>4 DEF Call, Pc
<1>8. TypeOK'
  BY <1>0, <1>1, <1>3, <1>7 DEF TypeOK
<1>9. QED
  BY <1>1, <1>6, <1>8 DEF IInv

\* One call moves, to where its copy fits again.
LEMMA CallStep ==
    ASSUME IInv, NEW i \in DOMAIN calls,
           calls' \in [DOMAIN calls -> Call],
           \A j \in DOMAIN calls: j # i => calls'[j] = calls[j],
           calls'[i].tool = calls[i].tool, Fit(calls'[i], fsm_state, fsm_trace),
           completed' \in [tool_refs -> Nat],
           UNCHANGED <<protocol, agent, node, running, resume, bounds>>
    PROVE  IInv'
<1>0. TypeOK /\ CallsFit
  BY DEF IInv
<1>1. /\ fsm_state' = fsm_state /\ fsm_trace' = fsm_trace
      /\ structured_response' = structured_response /\ message' = message /\ node' = node
      /\ running' = running /\ resume' = resume
      /\ invocations' = invocations /\ failures' = failures
  BY DEF protocol, agent, bounds
<1>2. DOMAIN calls' = DOMAIN calls
  OBVIOUS
<1>3. ASSUME NEW j \in DOMAIN calls
      PROVE  calls'[j].tool = message[j] /\ Fit(calls'[j], fsm_state, fsm_trace)
  BY <1>0 DEF TypeOK, CallsFit
<1>4. CallsFit'
  BY <1>0, <1>1, <1>2, <1>3 DEF CallsFit
<1>5. \A j \in DOMAIN calls': /\ calls'[j].tool = message'[j]
                              /\ calls'[j].pc \in {"send", "run", "recv", "done"}
                              /\ calls'[j].state \in FsmState /\ calls'[j].trace \in Seq(Event)
  BY <1>1, <1>2, <1>3 DEF Call, Pc
<1>6. TypeOK'
  BY <1>0, <1>1, <1>2, <1>5 DEF TypeOK
<1>7. QED
  BY <1>0, <1>1, <1>4, <1>6 DEF IInv

\* A call that fires moves its own copy one event on (_dispatch_sync).
LEMMA FireCallKeeps ==
    ASSUME IInv, NEW i, NEW phase, NEW next, At(i, phase), Monitored(i),
           (phase = "send" /\ next = "run") \/ (phase = "recv" /\ next = "done"),
           FireCall(i, phase, next)
    PROVE  IInv'
<1>0. /\ running /\ i \in DOMAIN calls /\ calls[i].pc = phase /\ calls[i].tool \in tool_refs
      /\ calls \in [DOMAIN calls -> Call] /\ Fit(calls[i], fsm_state, fsm_trace)
      /\ completed \in [tool_refs -> Nat]
  BY DEF IInv, At, Monitored, CallsFit, TypeOK
<1>1. PICK f \in fire_step(calls[i].state, calls[i].trace, <<phase, calls[i].tool>>):
        \/ /\ ~f.raises
           /\ calls' = [calls EXCEPT ![i].state = f.state, ![i].trace = f.trace, ![i].pc = next]
           /\ UNCHANGED <<protocol, agent, node, running, resume, completed, bounds>>
        \/ f.raises /\ Fail
  BY DEF FireCall
<1>2. CASE f.raises /\ Fail
  BY <1>0, <1>2, FailKeeps
<1>3. CASE /\ ~f.raises
           /\ calls' = [calls EXCEPT ![i].state = f.state, ![i].trace = f.trace, ![i].pc = next]
           /\ UNCHANGED <<protocol, agent, node, running, resume, completed, bounds>>
  <2>1. PICK c \in Call: c = calls[i] /\ c.pc = phase /\ c.tool \in tool_refs /\ c.tool \in Tool
    BY <1>0 DEF Tool
  <2>2. f \in fire_step(c.state, c.trace, <<phase, c.tool>>) /\ Fit(c, fsm_state, fsm_trace)
    BY <1>0, <2>1
  <2>3. next \in Pc
    BY DEF Pc
  <2>4. f.state \in FsmState /\ f.trace \in Seq(Event)
    <3>1. c.state \in FsmState /\ c.trace \in Seq(Event) /\ phase \in Phase
      BY DEF Call, Phase
    <3>2. f.state \in FsmState /\ f.trace = Append(c.trace, <<phase, c.tool>>)
      BY <2>2, <3>1, FireStepIs
    <3>3. <<phase, c.tool>> \in Event
      BY <2>1, <3>1, ToolEvents
    <3>4. QED
      BY <3>1, <3>2, <3>3
  <2>5. /\ calls' \in [DOMAIN calls -> Call]
        /\ \A j \in DOMAIN calls: j # i => calls'[j] = calls[j]
        /\ calls'[i].tool = calls[i].tool /\ calls'[i].pc = next
        /\ calls'[i].state = f.state /\ calls'[i].trace = f.trace
    <3> DEFINE d == [c EXCEPT !.state = f.state, !.trace = f.trace, !.pc = next]
    <3>1. d \in Call /\ d.tool = c.tool /\ d.pc = next /\ d.state = f.state /\ d.trace = f.trace
      BY <2>3, <2>4 DEF Call
    <3>2. calls' = [calls EXCEPT ![i] = d]
      BY <1>0, <1>3, <2>1
    <3> HIDE DEF d
    <3>3. QED
      BY <1>0, <2>1, <3>1, <3>2
  <2>6. PICK d \in Call: d = calls'[i]
    BY <1>0, <2>5
  <2>7. Fit(d, fsm_state, fsm_trace)
    <3>1. d.tool = c.tool /\ d.pc = next /\ d.state = f.state /\ d.trace = f.trace
      BY <2>1, <2>5, <2>6
    <3>2. PICK state, trace: state = fsm_state /\ trace = fsm_trace
      OBVIOUS
    <3>3. Fit(c, state, trace) /\ f \in fire_step(c.state, c.trace, <<phase, c.tool>>)
          /\ ~f.raises /\ c.tool \in tool_refs
      BY <1>3, <2>1, <2>2, <3>2
    <3>4. Fit(d, state, trace)
      BY <2>1, <3>1, <3>3, FitFires
    <3>5. QED
      BY <3>2, <3>4
  <2>8. completed' = completed /\ UNCHANGED <<protocol, agent, node, running, resume, bounds>>
    BY <1>3
  <2>9. QED
    BY <1>0, <2>5, <2>6, <2>7, <2>8, CallStep
<1>4. QED
  BY <1>1, <1>2, <1>3

\* A call asks the table before its tool runs, or has no ref and asks nothing.
LEMMA SendKeeps == ASSUME IInv, NEW i \in DOMAIN calls, dispatch_send(i) PROVE IInv'
<1>0. /\ At(i, "send") /\ calls[i].pc = "send"
      /\ calls \in [DOMAIN calls -> Call] /\ Fit(calls[i], fsm_state, fsm_trace)
      /\ completed \in [tool_refs -> Nat]
  BY DEF IInv, At, CallsFit, TypeOK, dispatch_send
<1>1. CASE Monitored(i) /\ FireCall(i, "send", "run")
  BY <1>0, <1>1, FireCallKeeps
<1>2. CASE /\ ~Monitored(i)
           /\ calls' = [calls EXCEPT ![i].pc = "run"]
           /\ UNCHANGED <<protocol, agent, node, running, resume, completed, bounds>>
  <2>1. /\ calls' \in [DOMAIN calls -> Call]
        /\ \A j \in DOMAIN calls: j # i => calls'[j] = calls[j]
        /\ calls'[i].tool = calls[i].tool
        /\ calls'[i].state = calls[i].state /\ calls'[i].trace = calls[i].trace
    BY <1>0, <1>2 DEF Call, Pc
  <2>2. calls'[i].pc = "run" /\ calls[i].tool \notin tool_refs
    BY <1>0, <1>2 DEF Monitored, Call
  <2>3. PICK c, d: c = calls[i] /\ d = calls'[i]
    OBVIOUS
  <2>4. Fit(c, fsm_state, fsm_trace) /\ Fit(d, fsm_state, fsm_trace)
    BY <1>0, <2>1, <2>2, <2>3, FitMoves
  <2>5. /\ completed' = completed
        /\ UNCHANGED <<protocol, agent, node, running, resume, bounds>>
    BY <1>2
  <2>6. QED
    BY <1>0, <2>1, <2>3, <2>4, <2>5, CallStep
<1>3. QED
  BY <1>1, <1>2 DEF dispatch_send

\* A tool that returns leaves the call's copy as it was.
LEMMA ReturnKeeps == ASSUME IInv, NEW i \in DOMAIN calls, tool_returns(i) PROVE IInv'
<1>0. /\ calls[i].pc = "run"
      /\ calls \in [DOMAIN calls -> Call] /\ Fit(calls[i], fsm_state, fsm_trace)
      /\ completed \in [tool_refs -> Nat]
  BY DEF IInv, At, CallsFit, TypeOK, tool_returns
<1>1. PICK next \in Pc: /\ calls' = [calls EXCEPT ![i].pc = next]
                        /\ next = IF calls[i].tool \in tool_refs THEN "recv" ELSE "done"
  BY DEF tool_returns, Pc, Monitored
<1>2. /\ calls' \in [DOMAIN calls -> Call]
      /\ \A j \in DOMAIN calls: j # i => calls'[j] = calls[j]
      /\ calls'[i].tool = calls[i].tool /\ calls'[i].pc = next
      /\ calls'[i].state = calls[i].state /\ calls'[i].trace = calls[i].trace
  BY <1>0, <1>1 DEF Call
<1>3. Fit(calls'[i], fsm_state, fsm_trace)
  <2>1. PICK c, d: c = calls[i] /\ d = calls'[i]
    OBVIOUS
  <2>2. Fit(c, fsm_state, fsm_trace)
    BY <1>0, <2>1
  <2>3. /\ d.tool = c.tool /\ d.state = c.state /\ d.trace = c.trace
        /\ c.pc = "run" /\ d.pc = IF c.tool \in tool_refs THEN "recv" ELSE "done"
    BY <1>0, <1>1, <1>2, <2>1
  <2>4. QED
    BY <2>1, <2>2, <2>3, FitMoves
<1>4. completed' \in [tool_refs -> Nat]
  BY <1>0 DEF tool_returns
<1>5. UNCHANGED <<protocol, agent, node, running, resume, bounds>>
  BY DEF tool_returns
<1>6. QED
  BY <1>0, <1>2, <1>3, <1>4, <1>5, CallStep

\* A call's recv is fired on the copy its send has left.
LEMMA RecvKeeps == ASSUME IInv, NEW i \in DOMAIN calls, dispatch_recv(i) PROVE IInv'
<1>1. At(i, "recv") /\ FireCall(i, "recv", "done") /\ running
  BY DEF dispatch_recv, At
<1>2. Monitored(i)
  BY <1>1 DEF At, IInv, CallsFit, Fit, Monitored
<1>3. QED
  BY <1>1, <1>2, FireCallKeeps

\* What a call alone has written to its copy becomes the checkpoint; two writers fail.
LEMMA JoinKeeps == ASSUME IInv, join PROVE IInv'
<1>0. TypeOK /\ CallsFit /\ node = "tools" /\ running /\ fsm_state # Absent
  BY DEF IInv, join, TypeOK
<1>1. CASE Fail
  BY <1>0, <1>1, FailKeeps
<1>2. CASE /\ \/ Writers = {} /\ UNCHANGED protocol
              \/ \E i \in Writers: fsm_state' = calls[i].state /\ fsm_trace' = calls[i].trace
           /\ node' = "before_model"
           /\ calls' = <<>>
           /\ UNCHANGED <<agent, running, resume, completed, bounds>>
  <2>1. fsm_state' \in FsmState /\ fsm_trace' \in Seq(Event)
    BY <1>0, <1>2 DEF TypeOK, CallsFit, Call, Writers, protocol
  <2>2. /\ structured_response' = structured_response /\ message' = message
        /\ running' = running /\ resume' = resume /\ completed' = completed
        /\ invocations' = invocations /\ failures' = failures
    BY <1>2 DEF agent, bounds
  <2>3. DOMAIN calls' = {} /\ calls' \in [DOMAIN calls' -> Call]
    BY <1>2
  <2>4. CallsFit'
    BY <2>3 DEF CallsFit
  <2>5. fsm_state' # Absent /\ node' = "before_model"
    BY <1>2, <2>1, MiddlewareAssumption
  <2>6. TypeOK'
    BY <1>0, <2>1, <2>2, <2>3, <2>5 DEF TypeOK
  <2>7. QED
    BY <1>0, <2>2, <2>4, <2>6 DEF IInv
<1>3. QED
  BY <1>1, <1>2 DEF join

\* Every step of the middleware, the model and LangGraph keeps the invariant.
LEMMA NextInv == ASSUME IInv, [Next]_vars PROVE IInv'
<1>1. CASE invoke \/ \E value \in ResumeValues: invoke_again(value)
  BY <1>1, InvokeKeeps, InvokeAgainKeeps
<1>2. CASE Crash \/ \E i \in DOMAIN calls: tool_raises(i)
  BY <1>2, FailKeeps DEF Crash, tool_raises, At
<1>3. CASE before_agent \/ before_model \/ after_model \/ finish
  BY <1>3, BeforeAgentKeeps, BeforeModelKeeps, AfterModelKeeps, FinishKeeps
<1>4. CASE \E ts \in Messages, type \in ResponseType \cup {NoType}: model(ts, type)
  BY <1>4, ModelKeeps
<1>5. CASE start_tools \/ join
  BY <1>5, StartKeeps, JoinKeeps
<1>6. CASE \E i \in DOMAIN calls: dispatch_send(i) \/ tool_returns(i) \/ dispatch_recv(i)
  BY <1>6, SendKeeps, ReturnKeeps, RecvKeeps
<1>7. CASE UNCHANGED vars
  <2>1. /\ UNCHANGED <<protocol, agent, node, running, resume, work, bounds>>
    BY <1>7 DEF vars
  <2>2. QED
    BY <2>1 DEF IInv, TypeOK, CallsFit, protocol, agent, work, bounds
<1>8. QED
  BY <1>1, <1>2, <1>3, <1>4, <1>5, <1>6, <1>7 DEF Next

\* So it holds of every thread of LangGraph's.
LEMMA InvHolds == Spec => []IInv
<1>1. QED
  BY InitInv, NextInv, PTL DEF Spec


\* How a step can change the checkpoint: not at all, initialising it, by an edge that no
\* tool fires and of which nothing is pending, or by one tool call that is over.
LEMMA Writes ==
    ASSUME IInv, [Next]_vars
    PROVE  \/ fsm_state' = fsm_state /\ fsm_trace' = fsm_trace
           \/ fsm_state = Absent /\ fsm_trace' = fsm_trace
           \/ \E t \in Transitions:
                 /\ t.interrupt \/ t.match # {}
                 /\ fsm_state' \in Landing({fsm_state}, event(t))
                 /\ fsm_trace' = Append(fsm_trace, event(t))
           \/ \E i \in DOMAIN calls:
                 /\ calls[i].tool \in tool_refs /\ calls[i].pc = "done"
                 /\ fsm_state' = calls[i].state /\ fsm_trace' = calls[i].trace
<1> DEFINE Hooked(t) == /\ fsm_state' \in Landing({fsm_state}, event(t))
                        /\ fsm_trace' = Append(fsm_trace, event(t))
           Kept == fsm_state' = fsm_state /\ fsm_trace' = fsm_trace
<1>1. ASSUME NEW t \in Transitions, NEW next, Fire(event(t), next) PROVE Hooked(t) \/ Kept
  <2>1. PICK f \in fire_step(fsm_state, fsm_trace, event(t)):
          \/ ~f.raises /\ fsm_state' = f.state /\ fsm_trace' = f.trace
          \/ Fail
    BY <1>1 DEF Fire
  <2>2. f.trace = Append(fsm_trace, event(t))
    BY DEF fire_step
  <2>3. ~f.raises => f.state \in Landing({fsm_state}, event(t))
    BY FireLands
  <2>4. QED
    BY <2>1, <2>2, <2>3 DEF Fail, protocol
<1>2. CASE before_model
  <2>1. \/ Kept
        \/ \E t \in interrupt_transitions_from(fsm_state): Fire(event(t), "model")
    BY <1>2 DEF before_model, Skip, Suspend, Fail, Selected, protocol
  <2>2. QED
    BY <1>1, <2>1 DEF interrupt_transitions_from
<1>3. CASE after_model
  <2>1. \/ Kept
        \/ \E t \in structured_response_transitions_from(fsm_state):
              Fire(event(t), AfterModel)
    BY <1>3 DEF after_model, Skip, Fail, protocol
  <2>2. QED
    BY <1>1, <2>1 DEF structured_response_transitions_from
<1>4. CASE join
  BY <1>4 DEF join, Writers, Returned, Monitored, Fail, protocol
<1>5. ASSUME NEW i \in DOMAIN calls,
             dispatch_send(i) \/ tool_returns(i) \/ tool_raises(i) \/ dispatch_recv(i)
      PROVE  Kept
  BY <1>5 DEF dispatch_send, tool_returns, tool_raises, dispatch_recv, FireCall, Fail, protocol
<1>6. CASE before_agent
  BY <1>6 DEF before_agent
<1>7. CASE \/ invoke \/ Crash \/ finish \/ start_tools \/ UNCHANGED vars
           \/ \E value \in ResumeValues: invoke_again(value)
           \/ \E ts \in Messages, type \in ResponseType \cup {NoType}: model(ts, type)
  BY <1>7 DEF invoke, Crash, finish, start_tools, invoke_again, model, Fail, vars, protocol
<1>8. QED
  BY <1>2, <1>3, <1>4, <1>5, <1>6, <1>7 DEF Next

-----------------------------------------------------------------------------
(* The checkpoint and the table                                             *)

\* In a checkpoint that is initialised, state and trace are written together.
LEMMA CommitStep ==
    ASSUME IInv, [Next]_vars, fsm_state # Absent
    PROVE  /\ IsPrefix(fsm_trace, fsm_trace')
           /\ fsm_state' \in Reach(fsm_state,
                                   SubSeq(fsm_trace', Len(fsm_trace) + 1, Len(fsm_trace')))
<1>0. fsm_trace \in Seq(Event)
  BY DEF IInv, TypeOK
<1>1. CASE fsm_state' = fsm_state /\ fsm_trace' = fsm_trace
  <2>1. IsPrefix(fsm_trace, fsm_trace)
    BY <1>0, Extended
  <2>2. SubSeq(fsm_trace, Len(fsm_trace) + 1, Len(fsm_trace)) = <<>>
    BY <1>0, SubSeqEmpty
  <2>3. fsm_state \in Reach(fsm_state, <<>>)
    BY ReachEmpty
  <2>4. QED
    BY <1>1, <2>1, <2>2, <2>3
<1>2. ASSUME NEW t \in Transitions,
             fsm_state' \in Landing({fsm_state}, event(t)),
             fsm_trace' = Append(fsm_trace, event(t))
      PROVE  /\ IsPrefix(fsm_trace, fsm_trace')
             /\ fsm_state' \in Reach(fsm_state,
                                     SubSeq(fsm_trace', Len(fsm_trace) + 1, Len(fsm_trace')))
  <2>1. /\ IsPrefix(fsm_trace, fsm_trace')
        /\ SubSeq(fsm_trace', Len(fsm_trace) + 1, Len(fsm_trace')) = <<event(t)>>
    BY <1>0, <1>2, OneMore, TableEvents
  <2>2. QED
    BY <1>2, <2>1, ReachOne
<1>3. ASSUME NEW i \in DOMAIN calls, calls[i].tool \in tool_refs, calls[i].pc = "done",
             fsm_state' = calls[i].state, fsm_trace' = calls[i].trace
      PROVE  /\ IsPrefix(fsm_trace, fsm_trace')
             /\ fsm_state' \in Reach(fsm_state,
                                     SubSeq(fsm_trace', Len(fsm_trace) + 1, Len(fsm_trace')))
  <2>1. PICK a \in Event, b \in Event:
           /\ fsm_state' \in Landing(Landing({fsm_state}, a), b)
           /\ fsm_trace' = Append(Append(fsm_trace, a), b)
    <3>1. /\ <<"send", calls[i].tool>> \in Event /\ <<"recv", calls[i].tool>> \in Event
      BY <1>3, ToolEvents DEF Phase, Tool
    <3>2. Fit(calls[i], fsm_state, fsm_trace)
      BY DEF IInv, CallsFit
    <3>3. /\ fsm_state' \in Landing(Landing({fsm_state}, <<"send", calls[i].tool>>),
                                   <<"recv", calls[i].tool>>)
          /\ fsm_trace' = Append(Append(fsm_trace, <<"send", calls[i].tool>>),
                                 <<"recv", calls[i].tool>>)
      BY <1>3, <3>2 DEF Fit
    <3> DEFINE x == <<"send", calls[i].tool>>
               y == <<"recv", calls[i].tool>>
    <3>4. x \in Event /\ y \in Event
      BY <3>1
    <3>5. fsm_state' \in Landing(Landing({fsm_state}, x), y)
      BY <3>3
    <3>6. fsm_trace' = Append(Append(fsm_trace, x), y)
      BY <3>3
    <3> HIDE DEF x, y
    <3>7. QED
      BY <3>4, <3>5, <3>6
  <2>2. /\ IsPrefix(fsm_trace, fsm_trace')
        /\ SubSeq(fsm_trace', Len(fsm_trace) + 1, Len(fsm_trace')) = <<a, b>>
    <3>1. PICK s \in Seq(Event): s = fsm_trace
      BY <1>0
    <3>2. PICK t: t = Append(Append(s, a), b)
      OBVIOUS
    <3>3. IsPrefix(s, t) /\ SubSeq(t, Len(s) + 1, Len(t)) = <<a, b>>
      BY <3>2, TwoMore
    <3>4. fsm_trace' = t
      BY <2>1, <3>1, <3>2
    <3>5. QED
      BY <3>1, <3>3, <3>4
  <2>3. PICK p: p = <<a, b>>
    OBVIOUS
  <2>4. Reach(fsm_state, p) = Landing(Landing({fsm_state}, a), b)
    BY <2>3, ReachTwo
  <2>5. SubSeq(fsm_trace', Len(fsm_trace) + 1, Len(fsm_trace')) = p
    BY <2>2, <2>3
  <2>6. QED
    BY <2>1, <2>2, <2>4, <2>5
<1>4. QED
  BY <1>1, <1>2, <1>3, Writes

-----------------------------------------------------------------------------
(* The checkpoint is a run of the table                                     *)

\* The table of the run is the middleware's.
LEMMA SameTable == \A s, e: Run!Reach(s, e) = Reach(s, e)
  BY DEF Run!Reach, Run!Landing, Run!fire_step, Run!step, Run!event,
         Reach, Landing, fire_step, step, event

\* A channel that was never written is written by before_agent only, with no events; one
\* that was is never unwritten.
LEMMA AbsentStep ==
    ASSUME IInv, [Next]_vars
    PROVE  /\ fsm_state = Absent => fsm_trace' = fsm_trace /\ fsm_state' \in {Absent, initial}
           /\ fsm_state # Absent => fsm_state' # Absent
<1>1. CASE fsm_state = Absent
  <2>1. node \in {"before_agent", "end"} /\ DOMAIN calls = {}
    BY <1>1 DEF IInv, TypeOK, CallsFit
  <2>2. CASE before_agent
    BY <1>1, <2>2 DEF before_agent
  <2>3. CASE \/ invoke \/ Crash \/ finish \/ start_tools \/ UNCHANGED vars
             \/ \E value \in ResumeValues: invoke_again(value)
             \/ \E ts \in Messages, type \in ResponseType \cup {NoType}: model(ts, type)
    BY <1>1, <2>3 DEF invoke, Crash, finish, start_tools, invoke_again, model, Fail, vars, protocol
  <2>4. CASE before_model \/ after_model \/ join
    BY <2>1, <2>4 DEF before_model, after_model, join
  <2>5. QED
    BY <1>1, <2>1, <2>2, <2>3, <2>4 DEF Next
<1>2. CASE fsm_state # Absent
  <2>1. fsm_state \in FsmState /\ Absent \notin FsmState
    BY <1>2, MiddlewareAssumption DEF IInv, TypeOK
  <2>2. ASSUME NEW ev, NEW next \in Landing({fsm_state}, ev) PROVE next \in FsmState
    <3>1. PICK f \in fire_step(fsm_state, <<>>, ev): next = f.state
      BY DEF Landing
    <3>2. QED
      BY <2>1, <3>1, FireStepIs
  <2>3. \A i \in DOMAIN calls: calls[i].state \in FsmState
    BY DEF IInv, TypeOK
  <2>4. QED
    BY <1>2, <2>1, <2>2, <2>3, Writes
<1>3. QED
  BY <1>1, <1>2

\* A step of the agent is a step of the run or none.
LEMMA RunStep == ASSUME IInv, [Next]_vars PROVE [Run!Advance]_(Run!vars)
<1>1. CASE fsm_state = Absent
  BY <1>1, AbsentStep DEF Run!vars
<1>2. CASE fsm_state # Absent
  <2>1. fsm_state' # Absent
    BY <1>2, AbsentStep
  <2>2. /\ IsPrefix(fsm_trace, fsm_trace')
        /\ fsm_state' \in Reach(fsm_state,
                                SubSeq(fsm_trace', Len(fsm_trace) + 1, Len(fsm_trace')))
    BY <1>2, CommitStep
  <2>3. PICK p: p = SubSeq(fsm_trace', Len(fsm_trace) + 1, Len(fsm_trace'))
    OBVIOUS
  <2>4. fsm_state' \in Run!Reach(fsm_state, p)
    BY <2>2, <2>3, SameTable
  <2>5. QED
    BY <1>2, <2>1, <2>2, <2>3, <2>4 DEF Run!Advance, Run!IsPrefix, IsPrefix
<1>3. QED
  BY <1>1, <1>2

\* A checkpoint holds a state that its whole trace leads to.
CheckpointFits ==
    /\ fsm_state = Absent => fsm_trace = <<>>
    /\ fsm_state # Absent => fsm_state \in Reach(initial, fsm_trace)

\* What a run is extended by continues the path it is on.
LEMMA FitsStep == ASSUME IInv, CheckpointFits, [Next]_vars PROVE CheckpointFits'
<1>1. CASE fsm_state = Absent
  <2>1. fsm_trace' = <<>> /\ fsm_state' \in {Absent, initial}
    BY <1>1, AbsentStep DEF CheckpointFits
  <2>2. initial \in Reach(initial, <<>>)
    BY ReachEmpty
  <2>3. QED
    BY <2>1, <2>2 DEF CheckpointFits
<1>2. CASE fsm_state # Absent
  <2>1. fsm_state' # Absent
    BY <1>2, AbsentStep
  <2>2. PICK old \in Seq(Event), new \in Seq(Event): old = fsm_trace /\ new = fsm_trace'
    BY NextInv DEF IInv, TypeOK
  <2>3. PICK here, there: here = fsm_state /\ there = fsm_state'
    OBVIOUS
  <2>4. /\ IsPrefix(old, new)
        /\ there \in Reach(here, SubSeq(new, Len(old) + 1, Len(new)))
    BY <1>2, <2>2, <2>3, CommitStep
  <2>5. here \in Reach(initial, old)
    BY <1>2, <2>2, <2>3 DEF CheckpointFits
  <2>6. there \in Reach(initial, new)
    BY <2>4, <2>5, ReachExtends
  <2>7. QED
    BY <2>1, <2>2, <2>3, <2>6 DEF CheckpointFits
<1>3. QED
  BY <1>1, <1>2

-----------------------------------------------------------------------------
(* Whole calls                                                              *)

\* No step commits half a call.
LEMMA WholeStep ==
    ASSUME HooksApart("send"), IInv, CallsAreWhole, [Next]_vars
    PROVE  CallsAreWhole'
<1> DEFINE Whole(tr) == \A k \in DOMAIN tr:
                           tr[k][1] = "send" /\ tr[k][2] \in tool_refs =>
                               k < Len(tr) /\ tr[k + 1] = <<"recv", tr[k][2]>>
<1>1. PICK n \in Nat, tr \in Seq(Event): n = Len(tr) /\ tr = fsm_trace
  BY DEF IInv, TypeOK
<1>2. Whole(tr)
  BY <1>1 DEF CallsAreWhole
<1>3. ASSUME NEW e \in Event, ~(e[1] = "send" /\ e[2] \in tool_refs), NEW more,
             more = Append(tr, e)
      PROVE  Whole(more)
  <2>1. Len(more) = n + 1 /\ more[n + 1] = e /\ \A k \in 1..n: more[k] = tr[k]
    BY <1>1, <1>3
  <2>2. DOMAIN more = 1..(n + 1)
    BY <1>1, <1>3
  <2>3. \A k \in 1..n: k < n => k + 1 \in 1..n
    OBVIOUS
  <2>4. ASSUME NEW k \in 1..n, more[k][1] = "send", more[k][2] \in tool_refs
        PROVE  k < Len(more) /\ more[k + 1] = <<"recv", more[k][2]>>
    BY <1>1, <1>2, <2>1, <2>3, <2>4
  <2>5. ~(more[n + 1][1] = "send" /\ more[n + 1][2] \in tool_refs)
    BY <1>3, <2>1
  <2>6. \A k \in DOMAIN more: k \in 1..n \/ k = n + 1
    BY <2>2
  <2>7. QED
    BY <2>4, <2>5, <2>6
<1>4. ASSUME NEW t \in tool_refs, NEW more,
             more = Append(Append(tr, <<"send", t>>), <<"recv", t>>)
      PROVE  Whole(more)
  <2>1. /\ Len(more) = n + 2 /\ more[n + 1] = <<"send", t>> /\ more[n + 2] = <<"recv", t>>
        /\ \A k \in 1..n: more[k] = tr[k]
        /\ DOMAIN more = 1..(n + 2)
    BY <1>1, <1>4
  <2>2. \A k \in 1..n: k < n => k + 1 \in 1..n
    OBVIOUS
  <2>3. ASSUME NEW k \in 1..n, more[k][1] = "send", more[k][2] \in tool_refs
        PROVE  k < Len(more) /\ more[k + 1] = <<"recv", more[k][2]>>
    BY <1>1, <1>2, <2>1, <2>2, <2>3
  <2>4. more[n + 2][1] # "send"
    BY <2>1
  <2>5. n + 1 < Len(more) /\ more[(n + 1) + 1] = <<"recv", more[n + 1][2]>>
    BY <2>1
  <2>6. \A k \in DOMAIN more: k \in 1..n \/ k = n + 1 \/ k = n + 2
    BY <2>1
  <2>7. QED
    BY <2>3, <2>4, <2>5, <2>6
<1>5. CASE fsm_trace' = fsm_trace
  BY <1>1, <1>2, <1>5 DEF CallsAreWhole
<1>6. ASSUME NEW t \in Transitions, t.interrupt \/ t.match # {},
             fsm_trace' = Append(fsm_trace, event(t))
      PROVE  Whole(fsm_trace')
  <2>1. PICK e \in Event: e = event(t) /\ ~(e[1] = "send" /\ e[2] \in tool_refs)
    BY <1>6, TableEvents DEF event, HooksApart
  <2>2. QED
    BY <1>1, <1>3, <1>6, <2>1
<1>7. ASSUME NEW i \in DOMAIN calls, calls[i].tool \in tool_refs, calls[i].pc = "done",
             fsm_trace' = calls[i].trace
      PROVE  Whole(fsm_trace')
  <2>1. Fit(calls[i], fsm_state, fsm_trace)
    BY DEF IInv, CallsFit
  <2>2. fsm_trace' = Append(Append(tr, <<"send", calls[i].tool>>), <<"recv", calls[i].tool>>)
    BY <1>1, <1>7, <2>1 DEF Fit
  <2>3. QED
    BY <1>4, <1>7, <2>2
<1>8. Whole(fsm_trace') => CallsAreWhole'
  BY DEF CallsAreWhole
<1> HIDE DEF Whole
<1>9. QED
  BY <1>5, <1>6, <1>7, <1>8, Writes

-----------------------------------------------------------------------------
(* Gates                                                                    *)

\* No step leads to the model under a gate.
LEMMA GateStep ==
    ASSUME GatesOpen, IInv, ModelNeverRunsAtGate, [Next]_vars
    PROVE  ModelNeverRunsAtGate'
<1>1. ASSUME NEW t \in interrupt_transitions_from(fsm_state), Fire(event(t), "model")
      PROVE  \/ interrupt_transitions_from(fsm_state') = {}
             \/ fsm_state' = fsm_state /\ node' = node
  <2>1. PICK f \in fire_step(fsm_state, fsm_trace, event(t)):
           \/ ~f.raises /\ fsm_state' = f.state
           \/ Fail
    BY <1>1 DEF Fire
  <2>2. CASE Fail
    BY <2>2 DEF Fail, protocol
  <2>3. CASE ~f.raises /\ fsm_state' = f.state
    <3>1. t \in Transitions /\ t.source = fsm_state /\ t.interrupt
      BY DEF interrupt_transitions_from
    <3>2. \A u \in Transitions: u.source = fsm_state /\ event(u) = event(t) => u = t
      BY <3>1, TableAssumption DEF Deterministic
    <3>3. PICK s \in step(fsm_state, event(t)), raising \in Raising:
             f.state = s.state /\ (f.raises <=> ~s.ok /\ raising)
      <4>1. fsm_state \in FsmState
        BY <3>1, TableAssumption
      <4>2. QED
        BY <4>1, FireStepIs
    <3>4. s = [state |-> t.target, ok |-> TRUE] \/ (~s.ok /\ t.guarded)
      <4>1. CASE \E u \in {v \in Transitions: v.source = fsm_state /\ event(v) = event(t)}:
                    s = [state |-> u.target, ok |-> TRUE]
        BY <3>2, <4>1
      <4>2. CASE /\ s = [state |-> fsm_state, ok |-> FALSE]
                 /\ ~\E u \in {v \in Transitions: v.source = fsm_state /\ event(v) = event(t)}:
                       ~u.guarded
        BY <3>1, <4>2
      <4>3. QED
        BY <4>1, <4>2 DEF step
    <3>5. (FALSE \notin Raising \/ ~t.guarded) /\ interrupt_transitions_from(t.target) = {}
      BY <3>1 DEF GatesOpen
    <3>6. t.guarded \in BOOLEAN /\ Raising \subseteq BOOLEAN
      BY <3>1, TableAssumption
    <3>7. s.state = t.target
      <4>1. ~(~s.ok /\ raising)
        BY <2>3, <3>3
      <4>2. ~(~s.ok /\ t.guarded)
        BY <3>5, <3>6, <4>1
      <4>3. QED
        BY <3>4, <4>2
    <3>8. QED
      BY <2>3, <3>3, <3>5, <3>7
  <2>4. QED
    BY <2>1, <2>2, <2>3
<1>2. CASE before_model
  <2>1. \/ interrupt_transitions_from(fsm_state) = {} /\ fsm_state' = fsm_state
        \/ fsm_state' = fsm_state /\ node' = node
        \/ \E t \in interrupt_transitions_from(fsm_state): Fire(event(t), "model")
    BY <1>2 DEF before_model, Skip, Suspend, Fail, Selected, protocol
  <2>2. QED
    BY <1>1, <2>1 DEF ModelNeverRunsAtGate
<1>3. CASE after_model
  <2>1. \A ev: Fire(ev, AfterModel) => node' # "model" \/ Fail
    BY DEF Fire, AfterModel
  <2>2. node' # "model" \/ Fail
    BY <1>3, <2>1 DEF after_model, Skip, AfterModel
  <2>3. QED
    BY <2>2 DEF Fail, protocol, ModelNeverRunsAtGate
<1>4. CASE join
  BY <1>4 DEF join, Fail, protocol, ModelNeverRunsAtGate
<1>5. ASSUME NEW i \in DOMAIN calls,
             dispatch_send(i) \/ tool_returns(i) \/ tool_raises(i) \/ dispatch_recv(i)
      PROVE  ModelNeverRunsAtGate'
  BY <1>5 DEF dispatch_send, tool_returns, tool_raises, dispatch_recv, FireCall, Fail, protocol,
              ModelNeverRunsAtGate
<1>6. CASE before_agent \/ invoke \/ \E ts \in Messages, type \in ResponseType \cup {NoType}:
                                        model(ts, type)
  BY <1>6 DEF before_agent, invoke, model, ModelNeverRunsAtGate
<1>7. CASE \/ Crash \/ finish \/ start_tools \/ UNCHANGED vars
           \/ \E value \in ResumeValues: invoke_again(value)
  BY <1>7 DEF Crash, finish, start_tools, invoke_again, Fail, vars, protocol,
              ModelNeverRunsAtGate
<1>8. QED
  BY <1>2, <1>3, <1>4, <1>5, <1>6, <1>7 DEF Next


-----------------------------------------------------------------------------
(* The work of the tools                                                    *)

Hits(tr, e) == {k \in DOMAIN tr: tr[k] = e}

Flying(cs, t) == {i \in DOMAIN cs: cs[i].tool = t /\ cs[i].pc \in {"recv", "done"}}

\* What is recorded of a tool and what its calls still hold is at most what it did, and
\* at least that but for a step's calls for each failure; of a run that has stopped,
\* whatever its calls hold is accounted for by the failure that stopped it.
WorkInv ==
    \A t \in tool_refs:
        /\ Recorded(t) + InFlight(t) <= completed[t]
        /\ completed[t] <= Recorded(t) + (IF running THEN InFlight(t) ELSE 0)
                             + failures * MaxCalls

\* The positions of an event in a trace can be counted.
LEMMA HitsFinite ==
    ASSUME NEW tr \in Seq(Event), NEW e
    PROVE  IsFiniteSet(Hits(tr, e)) /\ Cardinality(Hits(tr, e)) \in Nat
<1>1. PICK n \in Nat: n = Len(tr)
  OBVIOUS
<1>2. IsFiniteSet(1..n)
  BY FS_Interval
<1>3. Hits(tr, e) \in SUBSET (1..n)
  BY <1>1 DEF Hits
<1>4. QED
  BY <1>2, <1>3, FS_Subset, FS_CardinalityType

\* One more event counts one more position if it is the one, and none otherwise.
LEMMA HitsAppend ==
    ASSUME NEW tr \in Seq(Event), NEW x \in Event, NEW e
    PROVE  /\ x = e => Cardinality(Hits(Append(tr, x), e)) = Cardinality(Hits(tr, e)) + 1
           /\ x # e => Hits(Append(tr, x), e) = Hits(tr, e)
<1>0. PICK more: more = Append(tr, x)
  OBVIOUS
<1>1. PICK n \in Nat: n = Len(tr)
  OBVIOUS
<1>2. /\ DOMAIN more = 1..(n + 1) /\ DOMAIN tr = 1..n
      /\ more[n + 1] = x /\ \A k \in 1..n: more[k] = tr[k]
  BY <1>0, <1>1
<1>3. IsFiniteSet(Hits(tr, e)) /\ Cardinality(Hits(tr, e)) \in Nat
  BY HitsFinite
<1>4. n + 1 \notin Hits(tr, e)
  BY <1>2 DEF Hits
<1>5. CASE x = e
  <2>1. Hits(more, e) = Hits(tr, e) \cup {n + 1}
    BY <1>2, <1>5 DEF Hits
  <2>2. Cardinality(Hits(more, e)) = Cardinality(Hits(tr, e)) + 1
    BY <1>3, <1>4, <2>1, FS_AddElement
  <2>3. QED
    BY <1>0, <1>5, <2>2
<1>6. CASE x # e
  <2>1. Hits(more, e) = Hits(tr, e)
    BY <1>2, <1>6 DEF Hits
  <2>2. QED
    BY <1>0, <1>6, <2>1
<1>7. QED
  BY <1>5, <1>6

\* The numbers the invariant is about.
LEMMA Counts ==
    ASSUME IInv, NEW t \in tool_refs
    PROVE  /\ IsFiniteSet(Flying(calls, t)) /\ InFlight(t) = Cardinality(Flying(calls, t))
           /\ InFlight(t) \in 0..MaxCalls /\ InFlight(t) \in Nat
           /\ Recorded(t) = Cardinality(Hits(fsm_trace, <<"recv", t>>)) /\ Recorded(t) \in Nat
           /\ completed[t] \in Nat /\ failures \in Nat /\ MaxCalls \in Nat
<1>1. PICK n \in 0..MaxCalls: message \in [1..n -> Tool]
  BY DEF IInv, TypeOK, Messages
<1>2. /\ n \in Nat /\ n <= MaxCalls /\ MaxCalls \in Nat
  BY MiddlewareAssumption
<1>3. Flying(calls, t) \in SUBSET (1..n)
  BY <1>1 DEF IInv, TypeOK, Flying
<1>4. IsFiniteSet(1..n) /\ Cardinality(1..n) = n
  BY <1>2, FS_Interval
<1>5. IsFiniteSet(Flying(calls, t)) /\ Cardinality(Flying(calls, t)) <= n
  BY <1>3, <1>4, FS_Subset
<1>6. Cardinality(Flying(calls, t)) \in 0..MaxCalls
  BY <1>2, <1>5, FS_CardinalityType
<1>7. InFlight(t) = Cardinality(Flying(calls, t))
  BY DEF InFlight, Flying
<1>8. Recorded(t) = Cardinality(Hits(fsm_trace, <<"recv", t>>)) /\ Recorded(t) \in Nat
  <2>1. fsm_trace \in Seq(Event)
    BY DEF IInv, TypeOK
  <2>2. QED
    BY <2>1, HitsFinite DEF Recorded, Hits
<1>9. completed[t] \in Nat /\ failures \in Nat
  BY DEF IInv, TypeOK
<1>10. InFlight(t) \in Nat
  BY <1>2, <1>6, <1>7
<1>11. QED
  BY <1>2, <1>5, <1>6, <1>7, <1>8, <1>9, <1>10

\* The counts after a step, of the trace and calls after it.
LEMMA Recount ==
    ASSUME NEW t \in tool_refs
    PROVE  /\ Recorded(t)' = Cardinality(Hits(fsm_trace', <<"recv", t>>))
           /\ InFlight(t)' = Cardinality(Flying(calls', t))
  BY DEF Recorded, InFlight, Hits, Flying

\* One more failure allows for one more step's calls.
LEMMA MoreFailures ==
    ASSUME NEW f \in Nat, NEW m \in Nat
    PROVE  f * m \in Nat /\ (f + 1) * m = f * m + m
  OBVIOUS

\* A step in which no tool returns and none of its calls is recorded or dropped.
LEMMA QuietStep ==
    ASSUME IInv, WorkInv, completed' = completed, failures' = failures,
           \A t \in tool_refs: Flying(calls', t) = Flying(calls, t),
           \A t \in tool_refs: Cardinality(Hits(fsm_trace', <<"recv", t>>)) = Recorded(t),
           (running => running') \/ DOMAIN calls = {}
    PROVE  WorkInv'
<1> SUFFICES ASSUME NEW t \in tool_refs
             PROVE  /\ (Recorded(t) + InFlight(t) <= completed[t])'
                    /\ (completed[t] <= Recorded(t) + (IF running THEN InFlight(t) ELSE 0)
                                          + failures * MaxCalls)'
  BY DEF WorkInv
<1>1. PICK r \in Nat, i \in Nat, c \in Nat, l \in Nat:
         r = Recorded(t) /\ i = InFlight(t) /\ c = completed[t] /\ l = failures * MaxCalls
  BY Counts, MoreFailures
<1>2. /\ Recorded(t)' = r /\ InFlight(t)' = i /\ completed'[t] = c
      /\ failures' * MaxCalls = l
  BY <1>1, Counts, Recount
<1>3. r + i <= c /\ c <= r + (IF running THEN i ELSE 0) + l
  BY <1>1 DEF WorkInv
<1>4. DOMAIN calls = {} => i = 0
  <2>1. DOMAIN calls = {} => Flying(calls, t) = {}
    BY DEF Flying
  <2>2. QED
    BY <1>1, <2>1, Counts, FS_EmptySet
<1>5. c <= r + (IF running' THEN i ELSE 0) + l
  BY <1>3, <1>4
<1>6. QED
  BY <1>2, <1>3, <1>5

\* What a failure drops it accounts for.
LEMMA FailWork ==
    ASSUME IInv, WorkInv, Fail
    PROVE  WorkInv'
<1> SUFFICES ASSUME NEW t \in tool_refs
             PROVE  /\ (Recorded(t) + InFlight(t) <= completed[t])'
                    /\ (completed[t] <= Recorded(t) + (IF running THEN InFlight(t) ELSE 0)
                                          + failures * MaxCalls)'
  BY DEF WorkInv
<1>1. /\ failures' = failures + 1 /\ running' = FALSE /\ fsm_trace' = fsm_trace
      /\ completed' = completed
  BY DEF Fail, protocol
<1>2. Flying(calls', t) \subseteq Flying(calls, t)
  <2>1. PICK keep \in BOOLEAN:
          calls' = [i \in DOMAIN calls |->
                       IF keep /\ calls[i].pc = "done" THEN calls[i] ELSE Started(i)]
    BY DEF Fail
  <2>2. QED
    BY <2>1 DEF Flying, Started
<1>3. PICK r \in Nat, i \in 0..MaxCalls, c \in Nat, l \in Nat:
         r = Recorded(t) /\ i = InFlight(t) /\ c = completed[t] /\ l = failures * MaxCalls
  BY Counts, MoreFailures
<1>4. r + i <= c /\ c <= r + i + l
  BY <1>3 DEF WorkInv
<1>5. Recorded(t)' = r /\ completed'[t] = c /\ failures' * MaxCalls = l + MaxCalls
  BY <1>1, <1>3, Counts, Recount, MoreFailures
<1>6. InFlight(t)' \in Nat /\ InFlight(t)' <= i
  BY <1>2, <1>3, Counts, Recount, FS_Subset, FS_CardinalityType
<1>7. r + InFlight(t)' <= c /\ c <= r + 0 + (l + MaxCalls)
  BY <1>3, <1>4, <1>6, MiddlewareAssumption
<1>8. QED
  BY <1>1, <1>5, <1>7


\* A new invocation loses nothing.
LEMMA InvokeWork ==
    ASSUME IInv, WorkInv, invoke
    PROVE  WorkInv'
<1> SUFFICES ASSUME NEW t \in tool_refs
             PROVE  /\ (Recorded(t) + InFlight(t) <= completed[t])'
                    /\ (completed[t] <= Recorded(t) + (IF running THEN InFlight(t) ELSE 0)
                                          + failures * MaxCalls)'
  BY DEF WorkInv
<1>1. /\ ~running /\ running' = TRUE /\ calls' = <<>> /\ fsm_trace' = fsm_trace
      /\ completed' = completed /\ failures' = failures
  BY DEF invoke, protocol
<1>2. Flying(calls', t) = {}
  BY <1>1 DEF Flying
<1>3. PICK r \in Nat, i \in 0..MaxCalls, c \in Nat, l \in Nat:
         r = Recorded(t) /\ i = InFlight(t) /\ c = completed[t] /\ l = failures * MaxCalls
  BY Counts, MoreFailures
<1>4. r + i <= c /\ c <= r + 0 + l
  BY <1>1, <1>3 DEF WorkInv
<1>5. Recorded(t)' = r /\ completed'[t] = c /\ failures' * MaxCalls = l
  BY <1>1, <1>3, Counts, Recount
<1>6. InFlight(t)' = 0
  BY <1>2, Recount, FS_EmptySet
<1>7. r + 0 <= c
  BY <1>3, <1>4, MiddlewareAssumption
<1>8. QED
  BY <1>1, <1>4, <1>5, <1>6, <1>7

\* A tool that has returned is done once and held by its call.
LEMMA ReturnWork ==
    ASSUME IInv, WorkInv, NEW k \in DOMAIN calls, tool_returns(k)
    PROVE  WorkInv'
<1> SUFFICES ASSUME NEW t \in tool_refs
             PROVE  /\ (Recorded(t) + InFlight(t) <= completed[t])'
                    /\ (completed[t] <= Recorded(t) + (IF running THEN InFlight(t) ELSE 0)
                                          + failures * MaxCalls)'
  BY DEF WorkInv
<1> DEFINE one == IF t = calls[k].tool THEN 1 ELSE 0
<1>1. /\ calls[k].pc = "run" /\ running /\ running' = running /\ fsm_trace' = fsm_trace
      /\ failures' = failures /\ calls \in [DOMAIN calls -> Call]
      /\ calls' = [calls EXCEPT ![k].pc = IF calls[k].tool \in tool_refs THEN "recv" ELSE "done"]
      /\ completed'[t] = completed[t] + one
  BY DEF tool_returns, At, Monitored, protocol, bounds, IInv, CallsFit
<1>2. /\ DOMAIN calls' = DOMAIN calls
      /\ \A j \in DOMAIN calls: j # k => calls'[j] = calls[j]
      /\ calls'[k].tool = calls[k].tool /\ calls'[k].pc \in {"recv", "done"}
  BY <1>1 DEF Call
<1>3. PICK r \in Nat, i \in 0..MaxCalls, c \in Nat, l \in Nat:
         r = Recorded(t) /\ i = InFlight(t) /\ c = completed[t] /\ l = failures * MaxCalls
  BY Counts, MoreFailures
<1>4. r + i <= c /\ c <= r + i + l
  BY <1>1, <1>3 DEF WorkInv
<1>5. Recorded(t)' = r /\ completed'[t] = c + one /\ failures' * MaxCalls = l
  BY <1>1, <1>3, Counts, Recount
<1>6. InFlight(t)' = i + one
  <2>1. CASE t = calls[k].tool
    <3>1. Flying(calls', t) = Flying(calls, t) \cup {k}
      BY <1>1, <1>2, <2>1 DEF Flying
    <3>2. k \notin Flying(calls, t)
      BY <1>1 DEF Flying
    <3>3. PICK before, after: before = Flying(calls, t) /\ after = Flying(calls', t)
      OBVIOUS
    <3>4. IsFiniteSet(before) /\ Cardinality(before) = i
      BY <1>3, <3>3, Counts
    <3>5. after = before \cup {k} /\ k \notin before
      BY <3>1, <3>2, <3>3
    <3>6. Cardinality(after) = i + 1
      BY <3>4, <3>5, FS_AddElement
    <3>7. InFlight(t)' = Cardinality(after)
      BY <3>3, Recount
    <3>8. QED
      BY <2>1, <3>6, <3>7
  <2>2. CASE t # calls[k].tool
    <3>1. Flying(calls', t) = Flying(calls, t)
      BY <1>1, <1>2, <2>2 DEF Flying
    <3>2. InFlight(t)' = i
      BY <1>3, <3>1, Counts, Recount
    <3>3. QED
      BY <1>3, <2>2, <3>2, MiddlewareAssumption
  <2>3. QED
    BY <2>1, <2>2
<1>7. r + (i + one) <= c + one /\ c + one <= r + (i + one) + l
  BY <1>3, <1>4, MiddlewareAssumption
<1>8. QED
  BY <1>1, <1>5, <1>6, <1>7

\* Of the calls of a step that is committed, the one that is recorded is the one counted.
LEMMA JoinWork ==
    ASSUME IInv, WorkInv, join
    PROVE  WorkInv'
<1>1. CASE Fail
  BY <1>1, FailWork
<1>2. CASE /\ Cardinality(Writers) <= 1
           /\ \/ Writers = {} /\ UNCHANGED protocol
              \/ \E k \in Writers: fsm_state' = calls[k].state /\ fsm_trace' = calls[k].trace
           /\ calls' = <<>>
           /\ UNCHANGED <<running, completed, bounds>>
  <2> SUFFICES ASSUME NEW t \in tool_refs
               PROVE  /\ (Recorded(t) + InFlight(t) <= completed[t])'
                      /\ (completed[t] <= Recorded(t) + (IF running THEN InFlight(t) ELSE 0)
                                            + failures * MaxCalls)'
    BY DEF WorkInv
  <2>1. /\ running /\ running' = running /\ completed' = completed /\ failures' = failures
        /\ \A j \in DOMAIN calls: calls[j].pc = "done"
    BY <1>2 DEF join, Returned, bounds
  <2>2. Flying(calls, t) \subseteq Writers /\ Flying(calls', t) = {}
    BY <1>2 DEF Flying, Writers, Monitored
  <2>3. PICK r \in Nat, i \in 0..MaxCalls, c \in Nat, l \in Nat:
           r = Recorded(t) /\ i = InFlight(t) /\ c = completed[t] /\ l = failures * MaxCalls
    BY Counts, MoreFailures
  <2>4. r + i <= c /\ c <= r + i + l
    BY <2>1, <2>3 DEF WorkInv
  <2>5. completed'[t] = c /\ failures' * MaxCalls = l
    BY <2>1, <2>3
  <2>6. InFlight(t)' = 0
    BY <2>2, Recount, FS_EmptySet
  <2>7. Recorded(t)' = r + i
    <3>1. CASE Writers = {} /\ UNCHANGED protocol
      <4>1. Flying(calls, t) = {} /\ fsm_trace' = fsm_trace
        BY <2>2, <3>1 DEF protocol
      <4>2. i = 0
        BY <2>3, <4>1, Counts, FS_EmptySet
      <4>3. Recorded(t)' = r
        BY <2>3, <4>1, Counts, Recount
      <4>4. QED
        BY <4>2, <4>3
    <3>2. ASSUME NEW k \in Writers, fsm_trace' = calls[k].trace
          PROVE  Recorded(t)' = r + i
      <4>1. Writers = {k}
        <5>1. PICK n \in 0..MaxCalls: DOMAIN message = 1..n
          BY DEF IInv, TypeOK, Messages
        <5>2. Writers \in SUBSET (1..n) /\ n \in Nat
          BY <5>1, MiddlewareAssumption DEF Writers, IInv, TypeOK
        <5>3. IsFiniteSet(Writers)
          <6>1. IsFiniteSet(1..n)
            BY <5>2, FS_Interval
          <6>2. QED
            BY <5>2, <6>1, FS_Subset
        <5>4. {k} \in SUBSET Writers /\ Cardinality({k}) = 1
          BY FS_Singleton
        <5>5. Cardinality(Writers) = Cardinality({k})
          BY <1>2, <5>3, <5>4, FS_Subset, FS_CardinalityType
        <5>6. QED
          BY <5>3, <5>4, <5>5, FS_Subset
      <4>2. PICK tr \in Seq(Event), a \in Event, b \in Event:
               /\ tr = fsm_trace /\ a = <<"send", calls[k].tool>> /\ b = <<"recv", calls[k].tool>>
        BY ToolEvents DEF IInv, TypeOK, Phase, Tool, Writers, Monitored
      <4>3. /\ k \in DOMAIN calls /\ calls[k].tool \in tool_refs /\ calls[k].pc = "done"
            /\ Fit(calls[k], fsm_state, fsm_trace)
        BY <2>1 DEF Writers, Monitored, IInv, CallsFit
      <4>4. PICK mid: mid = Append(tr, a)
        OBVIOUS
      <4>5. mid \in Seq(Event) /\ fsm_trace' = Append(mid, b)
        <5>1. calls[k].trace = Append(Append(fsm_trace, a), b)
          BY <4>2, <4>3 DEF Fit
        <5>2. mid \in Seq(Event)
          BY <4>2, <4>4
        <5>3. QED
          BY <3>2, <4>2, <4>4, <5>1, <5>2
      <4>6. PICK e: e = <<"recv", t>>
        OBVIOUS
      <4>7. a # e /\ (b = e <=> calls[k].tool = t)
        BY <4>2, <4>6
      <4>8. Recorded(t)' = Cardinality(Hits(Append(mid, b), e)) /\ Cardinality(Hits(tr, e)) = r
        BY <2>3, <4>2, <4>5, <4>6, Counts, Recount
      <4>9. Recorded(t)' = r + IF calls[k].tool = t THEN 1 ELSE 0
        <5>1. Hits(mid, e) = Hits(tr, e)
          BY <4>4, <4>7, HitsAppend
        <5>2. CASE b = e
          <6>1. Cardinality(Hits(Append(mid, b), e)) = Cardinality(Hits(mid, e)) + 1
            BY <4>5, <5>2, HitsAppend
          <6>2. QED
            BY <4>7, <4>8, <5>1, <5>2, <6>1
        <5>3. CASE b # e
          <6>1. Hits(Append(mid, b), e) = Hits(mid, e)
            BY <4>5, <5>3, HitsAppend
          <6>2. QED
            BY <4>7, <4>8, <5>1, <5>3, <6>1
        <5>4. QED
          BY <5>2, <5>3
      <4>10. i = IF calls[k].tool = t THEN 1 ELSE 0
        <5>1. Flying(calls, t) = IF calls[k].tool = t THEN {k} ELSE {}
          BY <2>2, <4>1, <4>3 DEF Flying
        <5>2. QED
          BY <2>3, <5>1, Counts, FS_Singleton, FS_EmptySet
      <4>11. QED
        BY <4>9, <4>10
    <3>3. QED
      BY <1>2, <3>1, <3>2
  <2>8. r + i + 0 <= c /\ c <= (r + i) + 0 + l
    BY <2>3, <2>4, MiddlewareAssumption
  <2>9. QED
    BY <2>1, <2>5, <2>6, <2>7, <2>8
<1>3. QED
  BY <1>1, <1>2 DEF join


\* Where no call exists, none holds anything.
LEMMA NoFlight ==
    ASSUME DOMAIN calls = {}, calls' = calls
    PROVE  \A t \in tool_refs: Flying(calls', t) = Flying(calls, t)
  OBVIOUS

\* A hook records an event of its own, which is no tool's result.
LEMMA HookWork ==
    ASSUME HooksApart("recv"), IInv, WorkInv, NEW t \in Transitions, NEW next,
           t.interrupt \/ t.match # {}, DOMAIN calls = {}, Fire(event(t), next)
    PROVE  WorkInv'
<1>1. PICK f \in fire_step(fsm_state, fsm_trace, event(t)):
        \/ fsm_trace' = f.trace /\ UNCHANGED <<work, bounds>>
        \/ Fail
  BY DEF Fire
<1>2. CASE fsm_trace' = f.trace /\ UNCHANGED <<work, bounds>>
  <2>1. /\ calls' = calls /\ completed' = completed /\ failures' = failures
        /\ fsm_trace' = Append(fsm_trace, event(t)) /\ fsm_trace \in Seq(Event)
    BY <1>2 DEF work, bounds, fire_step, IInv, TypeOK
  <2>2. ASSUME NEW u \in tool_refs
        PROVE  Cardinality(Hits(fsm_trace', <<"recv", u>>)) = Recorded(u)
    <3>1. PICK e: e = <<"recv", u>>
      OBVIOUS
    <3>2. PICK x \in Event: x = event(t) /\ x # e
      BY <3>1, TableEvents DEF HooksApart, event
    <3>3. Hits(Append(fsm_trace, x), e) = Hits(fsm_trace, e)
      BY <2>1, <3>2, HitsAppend
    <3>4. QED
      BY <2>1, <3>1, <3>2, <3>3, Counts
  <2>3. QED
    BY <2>1, <2>2, NoFlight, QuietStep
<1>3. QED
  BY <1>1, <1>2, FailWork

\* A call that goes on holds what it held.
LEMMA CallWork ==
    ASSUME IInv, WorkInv, NEW k \in DOMAIN calls, NEW from, NEW next, calls[k].pc = from,
           (from = "send" /\ next = "run") \/ (from = "recv" /\ next = "done"),
           DOMAIN calls' = DOMAIN calls,
           \A j \in DOMAIN calls: j # k => calls'[j] = calls[j],
           calls'[k].tool = calls[k].tool, calls'[k].pc = next,
           UNCHANGED <<protocol, running, completed, bounds>>
    PROVE  WorkInv'
<1>1. \A t \in tool_refs: Flying(calls', t) = Flying(calls, t)
  BY DEF Flying
<1>2. fsm_trace' = fsm_trace /\ completed' = completed /\ failures' = failures
  BY DEF protocol, bounds
<1>3. \A t \in tool_refs: Cardinality(Hits(fsm_trace', <<"recv", t>>)) = Recorded(t)
  BY <1>2, Counts
<1>4. running => running'
  OBVIOUS
<1>5. QED
  BY <1>1, <1>2, <1>3, <1>4, QuietStep

\* A call that fires holds what it held.
LEMMA FireWork ==
    ASSUME IInv, WorkInv, NEW k \in DOMAIN calls, NEW phase, NEW next, calls[k].pc = phase,
           (phase = "send" /\ next = "run") \/ (phase = "recv" /\ next = "done"),
           FireCall(k, phase, next)
    PROVE  WorkInv'
<1>1. CASE Fail
  BY <1>1, FailWork
<1>2. CASE \E f: /\ calls' = [calls EXCEPT ![k].state = f.state, ![k].trace = f.trace,
                                          ![k].pc = next]
                 /\ UNCHANGED <<protocol, running, completed, bounds>>
  <2>1. calls \in [DOMAIN calls -> Call]
    BY DEF IInv, CallsFit
  <2>2. /\ DOMAIN calls' = DOMAIN calls
        /\ \A j \in DOMAIN calls: j # k => calls'[j] = calls[j]
        /\ calls'[k].tool = calls[k].tool /\ calls'[k].pc = next
    BY <1>2, <2>1 DEF Call
  <2>3. UNCHANGED <<protocol, running, completed, bounds>>
    BY <1>2
  <2>4. QED
    BY <2>2, <2>3, CallWork
<1>3. QED
  BY <1>1, <1>2 DEF FireCall

\* No step invents work, and none but a failure loses any.
LEMMA WorkStep ==
    ASSUME HooksApart("recv"), IInv, WorkInv, [Next]_vars
    PROVE  WorkInv'
<1> DEFINE Still == /\ fsm_trace' = fsm_trace /\ completed' = completed /\ failures' = failures
<1>1. ASSUME Still, calls' = calls, (running => running') \/ DOMAIN calls = {} PROVE WorkInv'
  <2>1. \A t \in tool_refs: Cardinality(Hits(fsm_trace', <<"recv", t>>)) = Recorded(t)
    BY <1>1, Counts
  <2>2. \A t \in tool_refs: Flying(calls', t) = Flying(calls, t)
    BY <1>1
  <2>3. QED
    BY <1>1, <2>1, <2>2, QuietStep
<1>2. CASE invoke
  BY <1>2, InvokeWork
<1>3. CASE \E value \in ResumeValues: invoke_again(value)
  <2>1. Still /\ calls' = calls /\ running'
    BY <1>3 DEF invoke_again, protocol, work
  <2>2. QED
    BY <1>1, <2>1
<1>4. CASE before_agent \/ \E ts \in Messages, type \in ResponseType \cup {NoType}: model(ts, type)
  <2>1. Still /\ calls' = calls /\ running' = running
    BY <1>4 DEF before_agent, model, protocol, work, bounds
  <2>2. QED
    BY <1>1, <2>1
<1>5. CASE finish
  <2>1. Still /\ calls' = calls /\ DOMAIN calls = {}
    BY <1>5 DEF finish, protocol, work, bounds, IInv, CallsFit
  <2>2. QED
    BY <1>1, <2>1
<1>6. CASE before_model
  <2>1. DOMAIN calls = {}
    BY <1>6 DEF before_model, IInv, CallsFit
  <2>2. \/ Still /\ calls' = calls
        \/ Fail
        \/ \E t \in interrupt_transitions_from(fsm_state): Fire(event(t), "model")
    BY <1>6 DEF before_model, Skip, Suspend, Selected, protocol, work, bounds
  <2>3. QED
    BY <1>1, <2>1, <2>2, FailWork, HookWork DEF interrupt_transitions_from
<1>7. CASE after_model
  <2>1. DOMAIN calls = {}
    BY <1>7 DEF after_model, IInv, CallsFit
  <2>2. \/ Still /\ calls' = calls
        \/ Fail
        \/ \E t \in structured_response_transitions_from(fsm_state):
              \E next: Fire(event(t), next)
    BY <1>7 DEF after_model, Skip, protocol, work, bounds
  <2>3. QED
    BY <1>1, <2>1, <2>2, FailWork, HookWork DEF structured_response_transitions_from
<1>8. CASE start_tools
  <2>1. Still /\ running' = running
    BY <1>8 DEF start_tools, protocol, bounds
  <2>2. /\ calls = <<>> /\ calls' = [i \in DOMAIN message |-> Started(i)]
    BY <1>8 DEF start_tools
  <2>3. \A t \in tool_refs: Flying(calls', t) = {} /\ Flying(calls, t) = {}
    BY <2>2 DEF Flying, Started
  <2>4. \A t \in tool_refs: Cardinality(Hits(fsm_trace', <<"recv", t>>)) = Recorded(t)
    BY <2>1, Counts
  <2>5. QED
    BY <2>1, <2>3, <2>4, QuietStep
<1>9. ASSUME NEW k \in DOMAIN calls, dispatch_send(k) PROVE WorkInv'
  <2>1. calls[k].pc = "send" /\ calls \in [DOMAIN calls -> Call]
    BY <1>9 DEF dispatch_send, At, IInv, CallsFit
  <2>2. CASE FireCall(k, "send", "run")
    BY <2>1, <2>2, FireWork
  <2>3. CASE /\ calls' = [calls EXCEPT ![k].pc = "run"]
             /\ UNCHANGED <<protocol, running, completed, bounds>>
    <3>1. /\ DOMAIN calls' = DOMAIN calls
          /\ \A j \in DOMAIN calls: j # k => calls'[j] = calls[j]
          /\ calls'[k].tool = calls[k].tool /\ calls'[k].pc = "run"
      BY <2>1, <2>3 DEF Call
    <3>2. QED
      BY <2>1, <2>3, <3>1, CallWork
  <2>4. QED
    BY <1>9, <2>2, <2>3 DEF dispatch_send
<1>10. ASSUME NEW k \in DOMAIN calls, dispatch_recv(k) PROVE WorkInv'
  <2>1. calls[k].pc = "recv" /\ FireCall(k, "recv", "done")
    BY <1>10 DEF dispatch_recv, At
  <2>2. QED
    BY <2>1, FireWork
<1>11. CASE Crash \/ \E k \in DOMAIN calls: tool_raises(k)
  BY <1>11, FailWork DEF Crash, tool_raises
<1>12. CASE UNCHANGED vars
  <2>1. Still /\ calls' = calls /\ running' = running
    BY <1>12 DEF vars, protocol, work, bounds
  <2>2. QED
    BY <1>1, <2>1
<1>13. QED
  BY <1>2, <1>3, <1>4, <1>5, <1>6, <1>7, <1>8, <1>9, <1>10, <1>11, <1>12,
     ReturnWork, JoinWork DEF Next

\* At first there is nothing to record.
LEMMA InitWork == Init => WorkInv
<1> SUFFICES ASSUME Init, NEW t \in tool_refs
             PROVE  /\ Recorded(t) + InFlight(t) <= completed[t]
                    /\ completed[t] <= Recorded(t) + (IF running THEN InFlight(t) ELSE 0)
                                         + failures * MaxCalls
  BY DEF WorkInv
<1>1. /\ fsm_trace = <<>> /\ calls = <<>> /\ completed[t] = 0 /\ ~running /\ failures = 0
  BY DEF Init
<1>2. {k \in DOMAIN fsm_trace: fsm_trace[k] = <<"recv", t>>} = {}
  BY <1>1
<1>3. {i \in DOMAIN calls: calls[i].tool = t /\ calls[i].pc \in {"recv", "done"}} = {}
  BY <1>1
<1>4. Recorded(t) = 0 /\ InFlight(t) = 0
  BY <1>2, <1>3, FS_EmptySet DEF Recorded, InFlight
<1>5. failures * MaxCalls \in Nat
  BY <1>1, MiddlewareAssumption
<1>6. QED
  BY <1>1, <1>4, <1>5

-----------------------------------------------------------------------------
(* A tools step comes to its end                                            *)

\* The tools node runs.
Working == running /\ node = "tools"

\* The steps a call has before it at a pc: its send, the tool, its recv.
Ahead(pc) == CASE pc = "send" -> 3 [] pc = "run" -> 2 [] pc = "recv" -> 1 [] OTHER -> 0

\* The steps a tools step has left, one by one; before it begins, one more for each call.
Left ==
    IF calls = <<>> THEN (DOMAIN message) \X (0..3)
    ELSE {s \in (DOMAIN calls) \X (1..3): s[2] <= Ahead(calls[s[1]].pc)}

\* The tools node is for messages with tool calls.
ToolsHaveCalls == node = "tools" => message # <<>>

\* Only a message with tool calls leads to the tools node (AfterModel), and the next message
\* comes after it.
LEMMA ToolsHaveCallsStep == ASSUME ToolsHaveCalls, [Next]_vars PROVE ToolsHaveCalls'
<1>1. ASSUME NEW next, message' = message, node' = next \/ node' = node,
             next = "tools" => message # <<>>
      PROVE  ToolsHaveCalls'
  BY <1>1 DEF ToolsHaveCalls
<1>2. Fail => message' = message /\ node' = node
  BY DEF Fail, agent
<1>3. ASSUME NEW ev, NEW next, Fire(ev, next), next = "tools" => message # <<>>
      PROVE  ToolsHaveCalls'
  <2>1. message' = message /\ (node' = next \/ node' = node)
    BY <1>2, <1>3 DEF Fire, agent
  <2>2. QED
    BY <1>1, <1>3, <2>1
<1>4. CASE before_model
  <2>1. \/ Skip("model") \/ Suspend \/ Fail
        \/ \E t \in Transitions: Fire(event(t), "model")
    BY <1>4 DEF before_model, Selected, interrupt_transitions_from
  <2>2. QED
    BY <1>2, <1>3, <2>1 DEF Skip, Suspend, agent, ToolsHaveCalls
<1>5. CASE after_model
  <2>1. AfterModel = "tools" => message # <<>>
    BY DEF AfterModel
  <2>2. \/ Skip(AfterModel) \/ Fail
        \/ \E t \in Transitions: Fire(event(t), AfterModel)
    BY <1>5 DEF after_model, structured_response_transitions_from
  <2>3. CASE Skip(AfterModel)
    BY <2>1, <2>3 DEF Skip, agent, ToolsHaveCalls
  <2>4. QED
    BY <1>2, <1>3, <2>1, <2>2, <2>3 DEF ToolsHaveCalls
<1>6. CASE join
  BY <1>2, <1>6 DEF join, agent, ToolsHaveCalls
<1>7. ASSUME NEW i \in DOMAIN calls,
             dispatch_send(i) \/ tool_returns(i) \/ tool_raises(i) \/ dispatch_recv(i)
      PROVE  ToolsHaveCalls'
  BY <1>2, <1>7 DEF dispatch_send, tool_returns, tool_raises, dispatch_recv, FireCall, agent,
                    ToolsHaveCalls
<1>8. CASE before_agent \/ invoke \/ \E ts \in Messages, type \in ResponseType \cup {NoType}:
                                        model(ts, type)
  BY <1>8 DEF before_agent, invoke, model, ToolsHaveCalls
<1>9. CASE \/ Crash \/ finish \/ start_tools \/ UNCHANGED vars
           \/ \E value \in ResumeValues: invoke_again(value)
  BY <1>2, <1>9 DEF Crash, finish, start_tools, invoke_again, vars, agent, ToolsHaveCalls
<1>10. QED
  BY <1>4, <1>5, <1>6, <1>7, <1>8, <1>9 DEF Next

\* What is left is a finite number of steps, at most four for each call of the message.
LEMMA LeftIsFinite ==
    ASSUME IInv
    PROVE  IsFiniteSet(Left) /\ Cardinality(Left) \in 0..4 * MaxCalls
<1>1. PICK n \in 0..MaxCalls: DOMAIN message = 1..n
  <2>1. message \in Messages
    BY DEF IInv, TypeOK
  <2>2. PICK n \in 0..MaxCalls: message \in [1..n -> Tool]
    BY <2>1 DEF Messages
  <2>3. QED
    BY <2>2
<1>2. n \in Nat /\ MaxCalls \in Nat /\ n <= MaxCalls
  BY <1>1, MiddlewareAssumption
<1>3. IsFiniteSet(1..n) /\ Cardinality(1..n) = n
  BY <1>2, FS_Interval
<1>4. IsFiniteSet(0..3) /\ Cardinality(0..3) = 4
  <2>1. PICK a \in Int, b \in Int: a = 0 /\ b = 3
    OBVIOUS
  <2>2. IsFiniteSet(a..b) /\ Cardinality(a..b) = IF a > b THEN 0 ELSE b - a + 1
    BY FS_Interval
  <2>3. QED
    BY <2>1, <2>2
<1>5. IsFiniteSet((1..n) \X (0..3)) /\ Cardinality((1..n) \X (0..3)) = n * 4
  BY <1>3, <1>4, FS_Product
<1>6. PICK rest \in SUBSET ((1..n) \X (0..3)): rest = Left
  <2>1. calls # <<>> => DOMAIN calls \subseteq DOMAIN message
    BY DEF IInv, TypeOK
  <2>2. Left \subseteq (1..n) \X (0..3)
    BY <1>1, <2>1 DEF Left
  <2>3. QED
    BY <2>2
<1>7. IsFiniteSet(rest) /\ Cardinality(rest) <= n * 4
  BY <1>5, FS_Subset
<1>8. Cardinality(rest) \in Nat
  BY <1>7, FS_CardinalityType
<1>9. QED
  BY <1>2, <1>6, <1>7, <1>8

\* What loses a step and gains none is smaller.
LEMMA Fewer ==
    ASSUME NEW S, NEW T, IsFiniteSet(S), T \subseteq S, NEW s \in S, s \notin T
    PROVE  Cardinality(T) < Cardinality(S)
<1>1. /\ Cardinality(T) <= Cardinality(S) /\ IsFiniteSet(T)
      /\ Cardinality(S) = Cardinality(T) => S = T
  BY FS_Subset
<1>2. Cardinality(S) \in Nat /\ Cardinality(T) \in Nat
  BY <1>1, FS_CardinalityType
<1>3. Cardinality(S) # Cardinality(T)
  BY <1>1
<1>4. QED
  BY <1>1, <1>2, <1>3

\* A call that goes on leaves every other call what it has left.
LEMMA CallGoesOn ==
    ASSUME IInv, NEW i \in DOMAIN calls, calls' \in [DOMAIN calls -> Call],
           \A j \in DOMAIN calls: j # i => calls'[j] = calls[j],
           Ahead(calls'[i].pc) < Ahead(calls[i].pc)
    PROVE  \E S, T: S = Left /\ T = Left' /\ T \subseteq S /\ \E s \in S: s \notin T
<1>1. calls # <<>> /\ calls' # <<>> /\ DOMAIN calls' = DOMAIN calls
  OBVIOUS
<1>2. PICK D, S, T: D = DOMAIN calls /\ S = Left /\ T = Left'
  OBVIOUS
<1>3. /\ S = {s \in D \X (1..3): s[2] <= Ahead(calls[s[1]].pc)}
      /\ T = {s \in D \X (1..3): s[2] <= Ahead(calls'[s[1]].pc)}
  BY <1>1, <1>2 DEF Left
<1>4. \A pc: Ahead(pc) \in 0..3
  BY DEF Ahead
<1>5. ASSUME NEW s \in T PROVE s \in S
  <2>1. s[1] \in D /\ s[2] \in 1..3 /\ s[2] <= Ahead(calls'[s[1]].pc)
    BY <1>3
  <2>2. s[2] <= Ahead(calls[s[1]].pc)
    <3>1. CASE s[1] = i
      <4>1. PICK a \in 0..3, b \in 0..3: a = Ahead(calls'[i].pc) /\ b = Ahead(calls[i].pc)
        BY <1>4
      <4>2. QED
        BY <2>1, <3>1, <4>1
    <3>2. CASE s[1] # i
      BY <1>2, <2>1, <3>2
    <3>3. QED
      BY <3>1, <3>2
  <2>3. QED
    BY <1>3, <2>2
<1>6. PICK a \in 0..3, b \in 0..3: a = Ahead(calls'[i].pc) /\ b = Ahead(calls[i].pc)
  BY <1>4
<1>7. a < b /\ b \in 1..3
  BY <1>6
<1>8. <<i, b>> \in S /\ <<i, b>> \notin T
  <2>1. i \in D
    BY <1>2
  <2>2. <<i, b>> \in S
    BY <1>3, <1>6, <1>7, <2>1
  <2>3. ~(b <= a)
    BY <1>7
  <2>4. <<i, b>> \notin T
    BY <1>3, <1>6, <2>3
  <2>5. QED
    BY <2>2, <2>4
<1>9. QED
  BY <1>2, <1>5, <1>8

\* The start of a tools step, and every step of a call, leaves fewer.
LEMMA FewerLeft ==
    ASSUME IInv, ToolsHaveCalls, Next, Working, Working'
    PROVE  Cardinality(Left') < Cardinality(Left)
<1>1. calls \in [DOMAIN calls -> Call] /\ ~Fail
  BY DEF IInv, CallsFit, Fail, Working
<1>2. ASSUME \E S, T: S = Left /\ T = Left' /\ T \subseteq S /\ \E s \in S: s \notin T
      PROVE  Cardinality(Left') < Cardinality(Left)
  <2>1. PICK S, T: S = Left /\ T = Left' /\ T \subseteq S /\ \E s \in S: s \notin T
    BY <1>2
  <2>2. IsFiniteSet(S)
    BY <2>1, LeftIsFinite
  <2>3. Cardinality(T) < Cardinality(S)
    BY <2>1, <2>2, Fewer
  <2>4. QED
    BY <2>1, <2>3
<1>3. CASE start_tools
  <2>1. /\ calls = <<>> /\ calls' = [i \in DOMAIN message |-> Started(i)]
        /\ message' = message /\ message # <<>>
    BY <1>3 DEF start_tools, agent, ToolsHaveCalls
  <2>2. PICK n \in Nat: DOMAIN message = 1..n /\ n # 0
    <3>1. PICK n \in Nat: message \in [1..n -> Tool]
      BY DEF IInv, TypeOK, Messages
    <3>2. n # 0
      BY <2>1, <3>1
    <3>3. QED
      BY <3>1, <3>2
  <2>3. DOMAIN calls' = 1..n /\ calls' # <<>>
    BY <2>1, <2>2
  <2>4. PICK S, T: S = Left /\ T = Left'
    OBVIOUS
  <2>5. S = (1..n) \X (0..3) /\ T \subseteq (1..n) \X (1..3)
    BY <2>1, <2>2, <2>3, <2>4 DEF Left
  <2>6. T \subseteq S /\ <<1, 0>> \in S /\ <<1, 0>> \notin T
    BY <2>2, <2>5
  <2>7. QED
    BY <1>2, <2>4, <2>6
<1>4. ASSUME NEW i \in DOMAIN calls, NEW next,
             \/ calls[i].pc = "send" /\ next = "run"
             \/ calls[i].pc = "run" /\ next \in {"recv", "done"}
             \/ calls[i].pc = "recv" /\ next = "done",
             \A j \in DOMAIN calls: j # i => calls'[j] = calls[j],
             DOMAIN calls' = DOMAIN calls, calls'[i].pc = next
      PROVE  Cardinality(Left') < Cardinality(Left)
  <2>1. calls' \in [DOMAIN calls -> Call]
    BY <1>4, NextInv DEF IInv, CallsFit
  <2>2. Ahead(calls'[i].pc) < Ahead(calls[i].pc)
    BY <1>4 DEF Ahead
  <2>3. QED
    BY <1>2, <1>4, <2>1, <2>2, CallGoesOn
<1>5. ASSUME NEW i \in DOMAIN calls, NEW phase, NEW next, calls[i].pc = phase,
             (phase = "send" /\ next = "run") \/ (phase = "recv" /\ next = "done"),
             FireCall(i, phase, next)
      PROVE  Cardinality(Left') < Cardinality(Left)
  <2>1. PICK f: calls' = [calls EXCEPT ![i].state = f.state, ![i].trace = f.trace, ![i].pc = next]
    BY <1>1, <1>5 DEF FireCall
  <2>2. PICK c \in Call: c = calls[i]
    BY <1>1
  <2>3. DEFINE d == [c EXCEPT !.state = f.state, !.trace = f.trace, !.pc = next]
  <2>4. d.pc = next
    BY DEF Call
  <2>5. calls' = [calls EXCEPT ![i] = d]
    BY <1>1, <2>1, <2>2
  <2> HIDE DEF d
  <2>6. calls'[i].pc = next /\ DOMAIN calls' = DOMAIN calls
        /\ \A j \in DOMAIN calls: j # i => calls'[j] = calls[j]
    BY <1>1, <2>4, <2>5
  <2>7. QED
    BY <1>4, <1>5, <2>6
<1>6. ASSUME NEW i \in DOMAIN calls, NEW next, calls' = [calls EXCEPT ![i].pc = next]
      PROVE  /\ calls'[i].pc = next /\ DOMAIN calls' = DOMAIN calls
             /\ \A j \in DOMAIN calls: j # i => calls'[j] = calls[j]
  BY <1>1, <1>6 DEF Call
<1>7. ASSUME NEW i \in DOMAIN calls, dispatch_send(i)
      PROVE  Cardinality(Left') < Cardinality(Left)
  <2>1. calls[i].pc = "send"
    BY <1>7 DEF dispatch_send, At
  <2>2. CASE FireCall(i, "send", "run")
    BY <1>5, <2>1, <2>2
  <2>3. CASE calls' = [calls EXCEPT ![i].pc = "run"]
    BY <1>4, <1>6, <2>1, <2>3
  <2>4. QED
    BY <1>7, <2>2, <2>3 DEF dispatch_send
<1>8. ASSUME NEW i \in DOMAIN calls, tool_returns(i)
      PROVE  Cardinality(Left') < Cardinality(Left)
  <2>1. PICK next \in {"recv", "done"}: calls' = [calls EXCEPT ![i].pc = next]
    BY <1>8 DEF tool_returns
  <2>2. calls[i].pc = "run"
    BY <1>8 DEF tool_returns, At
  <2>3. QED
    BY <1>4, <1>6, <2>1, <2>2
<1>9. ASSUME NEW i \in DOMAIN calls, dispatch_recv(i)
      PROVE  Cardinality(Left') < Cardinality(Left)
  <2>1. calls[i].pc = "recv" /\ FireCall(i, "recv", "done")
    BY <1>9 DEF dispatch_recv, At
  <2>2. QED
    BY <1>5, <2>1
<1>10. \A i \in DOMAIN calls: ~tool_raises(i)
  BY <1>1 DEF tool_raises
<1>11. ~join
  BY <1>1 DEF join, Working
<1>12. ~(invoke \/ Crash \/ finish \/ before_agent \/ before_model \/ after_model)
  BY <1>1 DEF Working, invoke, Crash, finish, before_agent, before_model, after_model
<1>13. /\ \A value \in ResumeValues: ~invoke_again(value)
       /\ \A ts \in Messages, type \in ResponseType \cup {NoType}: ~model(ts, type)
  BY DEF Working, invoke_again, model
<1>14. QED
  BY <1>3, <1>7, <1>8, <1>9, <1>10, <1>11, <1>12, <1>13 DEF Next

-----------------------------------------------------------------------------
(* Theorems                                                                 *)

\* The checkpoint holds a state of the table and events, every call a tool of its message
\* and a copy, and no invocation fails twice.
THEOREM CheckpointTypes == Spec => []TypeOK
<1>1. IInv => TypeOK
  BY DEF IInv
<1>2. QED
  BY <1>1, InvHolds, PTL

\* The checkpoint implements ProtocolRun: whatever hook, tool call, retry or resume extends
\* fsm_trace, in every table, the table leads from the old fsm_state to the new one by the
\* events it is extended with, and no event is ever taken back.
THEOREM CheckpointIsRun == Spec => ImplementsRun
<1>1. Init => Run!Init
  BY DEF Init, Run!Init
<1>2. IInv /\ [Next]_vars => [Run!Advance]_(Run!vars)
  BY RunStep
<1>3. QED
  BY <1>1, <1>2, InvHolds, PTL DEF Spec, ImplementsRun, Run!Spec

\* After any crash and any number of invocations, fsm_state is one that the whole of
\* fsm_trace leads to from the initial state.
THEOREM CheckpointFitsTrace == Spec => []CheckpointFits
<1>1. Init => CheckpointFits
  BY DEF Init, CheckpointFits
<1>2. IInv /\ CheckpointFits /\ [Next]_vars => CheckpointFits'
  BY FitsStep
<1>3. QED
  BY <1>1, <1>2, InvHolds, PTL DEF Spec

\* In a table without guards fsm_trace alone tells fsm_state: it can be replayed from the
\* initial state, refused events and all, and leads to the state of the checkpoint only.
THEOREM TraceTellsState ==
    ASSUME Unguarded
    PROVE  Spec => [](fsm_state # Absent => Reach(initial, fsm_trace) = {fsm_state})
<1>1. ASSUME IInv, CheckpointFits, fsm_state # Absent
      PROVE  Reach(initial, fsm_trace) = {fsm_state}
  <2>1. PICK evs \in Seq(Event): evs = fsm_trace
    BY <1>1 DEF IInv, TypeOK
  <2>2. \A p, q \in Reach(initial, evs): p = q
    <3>1. Len(evs) \in Nat
      OBVIOUS
    <3>2. QED
      BY <3>1, OneReached
  <2>3. fsm_state \in Reach(initial, evs)
    BY <1>1, <2>1 DEF CheckpointFits
  <2>4. QED
    BY <2>1, <2>2, <2>3
<1>2. IInv /\ CheckpointFits => (fsm_state # Absent => Reach(initial, fsm_trace) = {fsm_state})
  BY <1>1
<1>3. QED
  BY <1>2, InvHolds, CheckpointFitsTrace, PTL

\* The checkpoint never holds a tool's send without its recv, whatever fails or crashes
\* in between and however many calls a message has, provided that no hook's event is itself
\* a send of a tool's label: after a tool's exception the protocol is where it was before
\* the send, which the comment at the handler's call (middleware.py:286-290) denies.
THEOREM OnlyWholeCalls ==
    ASSUME HooksApart("send")
    PROVE  Spec => []CallsAreWhole
<1>1. Init => CallsAreWhole
  BY DEF Init, CallsAreWhole
<1>2. IInv /\ CallsAreWhole /\ [Next]_vars => CallsAreWhole'
  BY WholeStep
<1>3. QED
  BY <1>1, <1>2, InvHolds, PTL DEF Spec

\* The model is not called while the protocol waits at a gate, after any crash, retry and
\* sequence of resumes, provided that a refused resume raises and that no gate leads to
\* another.
THEOREM NoModelAtGate ==
    ASSUME GatesOpen
    PROVE  Spec => []ModelNeverRunsAtGate
<1>1. Init => ModelNeverRunsAtGate
  BY DEF Init, ModelNeverRunsAtGate
<1>2. IInv /\ ModelNeverRunsAtGate /\ [Next]_vars => ModelNeverRunsAtGate'
  BY GateStep
<1>3. QED
  BY <1>1, <1>2, InvHolds, PTL DEF Spec

\* fsm_trace records no result that no tool gave, and of those the tools did give it lacks
\* at most one step's calls for each invocation that failed or crashed, and those of the
\* step that is running.
THEOREM NoWorkInvented ==
    ASSUME HooksApart("recv")
    PROVE  Spec => []WorkIsRecorded
<1>1. Init => WorkInv
  BY InitWork
<1>2. IInv /\ WorkInv /\ [Next]_vars => WorkInv'
  BY WorkStep
<1>3. ASSUME IInv, WorkInv PROVE WorkIsRecorded
  <2>1. ASSUME NEW t \in tool_refs
        PROVE  /\ Recorded(t) <= completed[t]
               /\ completed[t] <= Recorded(t) + InFlight(t) + failures * MaxCalls
    <3>1. PICK r \in Nat, i \in Nat, c \in Nat, l \in Nat:
             r = Recorded(t) /\ i = InFlight(t) /\ c = completed[t] /\ l = failures * MaxCalls
      BY <1>3, Counts, MoreFailures
    <3>2. r + i <= c /\ c <= r + (IF running THEN i ELSE 0) + l
      BY <1>3, <3>1 DEF WorkInv
    <3>3. r <= c /\ c <= r + i + l
      BY <3>2
    <3>4. QED
      BY <3>1, <3>3
  <2>2. QED
    BY <2>1 DEF WorkIsRecorded
<1>4. QED
  BY <1>1, <1>2, <1>3, InvHolds, PTL DEF Spec

\* A tools step that neither fails nor is joined comes nearer to its end with every step of
\* it, whichever of its parallel calls takes it, whatever tools have no ref and whatever is
\* refused: no call of it waits for another, and none goes back.
THEOREM ToolsStepShrinks ==
    Spec => [][Working /\ Working' => Cardinality(Left') < Cardinality(Left)]_vars
<1>1. Init => ToolsHaveCalls
  BY DEF Init, ToolsHaveCalls
<1>2. ToolsHaveCalls /\ [Next]_vars => ToolsHaveCalls'
  BY ToolsHaveCallsStep
<1>3. IInv /\ ToolsHaveCalls /\ [Next]_vars =>
         [Working /\ Working' => Cardinality(Left') < Cardinality(Left)]_vars
  BY FewerLeft
<1>4. QED
  BY <1>1, <1>2, <1>3, InvHolds, PTL DEF Spec

\* It is over, or has failed, after at most four steps for each call of the message.
THEOREM ToolsStepIsShort == Spec => [](Cardinality(Left) \in 0..4 * MaxCalls)
<1>1. IInv => Cardinality(Left) \in 0..4 * MaxCalls
  BY LeftIsFinite
<1>2. QED
  BY <1>1, InvHolds, PTL

=============================================================================
