-------------------------- MODULE EnforcingProofs --------------------------
(***************************************************************************)
(* Proofs about the enforcing middleware: with any number of parallel tool *)
(* calls of any tools, the monitor stands nowhere it has not earned.       *)
(***************************************************************************)
EXTENDS EnforcingMiddleware, SequenceTheorems, FiniteSetTheorems, TLAPS

\* The protocol has finitely many positions.
LEMMA FinalNat == Final \in Nat
<1>1. \A name: Len(ToolEvents(name)) = 2 /\ ToolEvents(name) \in Seq({"send", "receive"} \X {Labels(name)[1], Labels(name)[2]})
  BY DEF ToolEvents
<1>2. Len(<<PresentOptions, UserApproval>>) = 2
  OBVIOUS
<1>3. QED
  BY <1>1, <1>2 DEF Final, Positions

\* A position offers one event, which leads to the next position.
LEMMA OneStep ==
    ASSUME NEW s \in BookingState, NEW event \in DOMAIN Offered(s)
    PROVE  /\ event = Positions[s + 1]
           /\ Offered(s)[event] = s + 1
           /\ s + 1 \in BookingState
<1>1. Offered(s) = [e \in (IF s = Final THEN {} ELSE {Positions[s + 1]}) |-> s + 1]
  BY BookingAssumption DEF Offered, Transitions, Automata, BookingAutomaton
<1>2. s # Final /\ event = Positions[s + 1]
  BY <1>1
<1>3. QED
  BY <1>1, <1>2, FinalNat DEF BookingState

\* A new monitor stands at the start and is not halted (Monitor.__init__).
LEMMA NewMonitorIs == NewMonitor = [state |-> 0, halted |-> FALSE, result |-> "none"]
BY BookingAssumption DEF NewMonitor, Fresh, Automata, BookingAutomaton

\* A step of a monitor keeps its types; the state moves on an Ok only.
LEMMA SteppedType ==
    ASSUME NEW m, m.state \in BookingState, m.halted \in BOOLEAN, NEW event
    PROVE  /\ Stepped(m, event).state \in BookingState
           /\ Stepped(m, event).halted \in BOOLEAN
           /\ Stepped(m, event).result = "Ok"
                 => /\ event \in DOMAIN Offered(m.state)
                    /\ Stepped(m, event).state = Offered(m.state)[event]
           /\ Stepped(m, event).result # "Ok" => Stepped(m, event).state = m.state
<1> DEFINE v == Verdict("now", m.state, m.halted, event)
<1>1. /\ Stepped(m, event).state
            = IF v = "Ok" THEN Offered(m.state)[event] ELSE m.state
      /\ Stepped(m, event).halted = (m.halted \/ v = "Violation")
      /\ Stepped(m, event).result = v
  BY DEF Stepped, After, Offered
<1>2. v = "Ok" => event \in DOMAIN Offered(m.state)
  BY DEF Verdict, Offered
<1>3. v = "Ok" => Offered(m.state)[event] \in BookingState
  BY <1>2, OneStep
<1>4. QED
  BY <1>1, <1>2, <1>3

\* The recorded trace stays one a monitor can have (Monitor._trace).
LEMMA RecordType ==
    ASSUME TypeOK, NEW event, Record(event)
    PROVE  trace' \in [state : BookingState, halted : BOOLEAN, result : {"none"}]
<1>1. trace.state \in BookingState /\ trace.halted \in BOOLEAN
  BY DEF TypeOK
<1>2. Stepped(trace, event).state \in BookingState /\ Stepped(trace, event).halted \in BOOLEAN
  BY <1>1, SteppedType
<1>3. trace' = [state  |-> Stepped(trace, event).state,
                halted |-> Stepped(trace, event).halted,
                result |-> "none"]
  BY DEF Record, Stepped, After
<1>4. QED
  BY <1>2, <1>3

\* The history never goes back, and passes every event accepted at or before it.
LEMMA AnsweredGoesOn ==
    ASSUME TypeOK, NEW event, NEW verdict, NEW kind \in {"call", "else"},
           Answered(event, verdict, kind)
    PROVE  /\ furthest' \in BookingState
           /\ furthest <= furthest'
           /\ refused' \subseteq {"call", "else"}
           /\ \A s \in BookingState:
                 verdict = "Ok" /\ s <= furthest /\ event \in DOMAIN Offered(s)
                    => Offered(s)[event] <= furthest'
<1> DEFINE moves == verdict = "Ok" /\ event \in DOMAIN Offered(furthest)
<1>1. /\ furthest \in BookingState /\ furthest \in Nat
      /\ refused \subseteq {"call", "else"}
  BY FinalNat DEF TypeOK, BookingState
<1>2. furthest' = IF moves THEN Offered(furthest)[event] ELSE furthest
  BY DEF Answered
<1>3. moves => Offered(furthest)[event] = furthest + 1 /\ furthest + 1 \in BookingState
  BY <1>1, OneStep
<1>4. furthest' \in BookingState /\ furthest <= furthest'
  BY <1>1, <1>2, <1>3
<1>5. refused' \subseteq {"call", "else"}
  BY <1>1 DEF Answered
<1>6. ASSUME NEW s \in BookingState, verdict = "Ok", s <= furthest,
             event \in DOMAIN Offered(s)
      PROVE  Offered(s)[event] <= furthest'
  <2>1. Offered(s)[event] = s + 1 /\ s \in Nat
    BY <1>6, OneStep, FinalNat DEF BookingState
  <2>2. CASE s = furthest
    <3>1. moves
      BY <1>6, <2>2
    <3>2. furthest' = furthest + 1
      BY <3>1, <1>2, <1>3
    <3>3. QED
      BY <2>1, <2>2, <3>2
  <2>3. CASE s < furthest
    <3>1. furthest' \in Nat
      BY <1>4, FinalNat DEF BookingState
    <3>2. QED
      BY <1>1, <1>4, <2>1, <2>3, <3>1
  <2>4. QED
    BY <1>1, <1>6, <2>1, <2>2, <2>3
<1>7. QED
  BY <1>4, <1>5, <1>6

-----------------------------------------------------------------------------
(* The inductive invariant                                                  *)

\* A thread that has been told Ok will assign a position that is earned.
PendingEarned ==
    \A i \in DOMAIN calls:
        calls[i].pc = "assign" /\ calls[i].verdict = "Ok" => calls[i].target <= furthest

IInv ==
    /\ TypeOK
    /\ phase = "presented" => replies > 0
    /\ StateIsEarned
    /\ PendingEarned

\* What a thread changes of its call.
LEMMA CallChanged ==
    ASSUME TypeOK, NEW i \in DOMAIN calls, NEW c \in CallRecord,
           calls' = [calls EXCEPT ![i] = c]
    PROVE  /\ calls' \in Seq(CallRecord)
           /\ \A j \in DOMAIN calls': j \in DOMAIN calls /\ calls'[j] = IF j = i THEN c ELSE calls[j]
<1>1. calls \in Seq(CallRecord) /\ i \in 1..Len(calls)
  BY DEF TypeOK
<1>2. calls' \in Seq(CallRecord)
  BY <1>1
<1>3. DOMAIN calls' = DOMAIN calls
  OBVIOUS
<1>4. QED
  BY <1>2, <1>3

\* A thread that goes on without touching the monitor leaves it as it was.
LEMMA Moved ==
    ASSUME TypeOK, NEW i \in DOMAIN calls, NEW pc, Move(i, pc),
           pc \in {"test", "look_up", "answered", "running", "refused", "done"}
    PROVE  /\ calls' \in Seq(CallRecord)
           /\ \A j \in DOMAIN calls':
                 calls'[j].pc = "assign" => j \in DOMAIN calls /\ calls'[j] = calls[j]
<1> DEFINE c == [calls[i] EXCEPT !.pc = pc]
<1>1. calls[i] \in CallRecord
  BY DEF TypeOK
<1>2. c \in CallRecord /\ c.pc = pc
  BY <1>1 DEF CallRecord
<1>3. calls' = [calls EXCEPT ![i] = c]
  BY DEF Move
<1>4. QED
  BY <1>2, <1>3, CallChanged

\* The orchestrator begins with a new monitor and no calls.
LEMMA InitInv == Init => IInv
<1> SUFFICES ASSUME Init PROVE IInv
  OBVIOUS
<1>1. 0 \in BookingState /\ 0 <= 0
  BY FinalNat DEF BookingState
<1>2. TypeOK
  <2>1. /\ state = 0 /\ halted = FALSE /\ phase = "agent" /\ calls = <<>> /\ turn = 0
        /\ furthest = 0 /\ refused = {} /\ overlapped = FALSE
        /\ trace = [state |-> 0, halted |-> FALSE, result |-> "none"]
    BY NewMonitorIs DEF Init
  <2>2. replies \in Nat
    BY BoundsAssumption DEF Init
  <2>3. calls \in Seq(CallRecord)
    BY <2>1
  <2>4. QED
    BY <1>1, <2>1, <2>2, <2>3 DEF TypeOK, Phases
<1>3. StateIsEarned /\ PendingEarned
  BY <1>1, NewMonitorIs DEF Init, StateIsEarned, PendingEarned
<1>4. QED
  BY <1>2, <1>3 DEF IInv, Init

\* A step of the orchestrator: the state moves where the history goes.
LEMMA OrchestratorStep ==
    ASSUME IInv, NEW event, _step(event), UNCHANGED calls
    PROVE  /\ state' \in BookingState /\ halted' \in BOOLEAN
           /\ trace' \in [state : BookingState, halted : BOOLEAN, result : {"none"}]
           /\ furthest' \in BookingState /\ furthest <= furthest'
           /\ refused' \subseteq {"call", "else"}
           /\ state' <= furthest'
           /\ PendingEarned'
<1> DEFINE m == [state |-> state, halted |-> halted]
           next == Stepped(m, event)
<1>1. TypeOK /\ m.state \in BookingState /\ m.halted \in BOOLEAN /\ state <= furthest
  BY DEF IInv, TypeOK, StateIsEarned
<1>2. /\ next.state \in BookingState /\ next.halted \in BOOLEAN
      /\ next.result = "Ok" => /\ event \in DOMAIN Offered(m.state)
                               /\ next.state = Offered(m.state)[event]
      /\ next.result # "Ok" => next.state = m.state
  BY <1>1, SteppedType
<1>3. /\ state' = next.state /\ halted' = next.halted
      /\ Record(event) /\ Answered(event, next.result, "else")
  BY DEF _step
<1>4. /\ furthest' \in BookingState /\ furthest <= furthest'
      /\ refused' \subseteq {"call", "else"}
      /\ next.result = "Ok" => next.state <= furthest'
  BY <1>1, <1>2, <1>3, AnsweredGoesOn
<1>5. {state, state', furthest, furthest'} \subseteq Nat
  BY <1>1, <1>2, <1>3, <1>4, FinalNat DEF BookingState, TypeOK
<1>6. state' <= furthest'
  BY <1>1, <1>2, <1>3, <1>4, <1>5
<1>7. PendingEarned'
  <2>1. \A i \in DOMAIN calls: calls[i].target \in Nat
    <3>1. \A i \in DOMAIN calls: calls[i] \in CallRecord
      BY <1>1 DEF TypeOK
    <3>2. QED
      BY <3>1, FinalNat DEF CallRecord, BookingState
  <2>2. SUFFICES ASSUME NEW i \in DOMAIN calls, calls[i].pc = "assign", calls[i].verdict = "Ok"
                 PROVE  calls[i].target <= furthest'
    BY DEF PendingEarned
  <2>3. calls[i].target <= furthest
    BY <2>2 DEF IInv, PendingEarned
  <2>4. QED
    BY <2>1, <2>3, <1>4, <1>5
<1>8. QED
  BY <1>1, <1>2, <1>3, <1>4, <1>6, <1>7, RecordType

\* A step that leaves monitor and history alone, except for the flag or the trace.
LEMMA Quiet ==
    ASSUME IInv, UNCHANGED <<state, furthest, refused>>,
           halted' \in BOOLEAN, overlapped' \in BOOLEAN,
           trace' \in [state : BookingState, halted : BOOLEAN, result : {"none"}],
           phase' \in Phases, turn' \in Nat, UNCHANGED replies,
           phase' = "presented" => phase = "presented",
           phase' = "ok" => phase = "ok" \/ is_terminal(state),
           calls' \in Seq(CallRecord),
           \A j \in DOMAIN calls':
               calls'[j].pc = "assign" => j \in DOMAIN calls /\ calls'[j] = calls[j]
    PROVE  IInv'
<1>1. TypeOK'
  BY DEF IInv, TypeOK
<1>2. PendingEarned'
  BY DEF IInv, PendingEarned
<1>3. StateIsEarned'
  <2>1. is_terminal(state) => is_terminal(furthest)
    BY FinalNat DEF IInv, TypeOK, StateIsEarned, is_terminal, BookingAutomaton, BookingState
  <2>2. QED
    BY <2>1 DEF IInv, StateIsEarned, is_terminal
<1>4. phase' = "presented" => replies' > 0
  BY DEF IInv
<1>5. QED
  BY <1>1, <1>2, <1>3, <1>4 DEF IInv

\* A thread that is answered.
LEMMA AnswerKeeps ==
    ASSUME IInv, NEW i \in DOMAIN calls, NEW verdict, NEW pc, NEW target \in BookingState,
           verdict \in {"Ok", "Violation", "Blocked"}, pc \in {"assign", "answered"},
           Answer(i, verdict, pc, target),
           verdict = "Ok" => /\ EventOf(calls[i]) \in DOMAIN Offered(state)
                            /\ target = Offered(state)[EventOf(calls[i])],
           UNCHANGED <<monitor, phase, turn, replies, overlapped>>
    PROVE  IInv'
<1> DEFINE event == EventOf(calls[i])
           kind == IF calls[i].verb = "send" THEN "call" ELSE "else"
           c == [calls[i] EXCEPT !.verdict = verdict, !.pc = pc, !.target = target]
<1>0. TypeOK /\ calls[i] \in CallRecord /\ state \in BookingState /\ state <= furthest
  BY DEF IInv, TypeOK, StateIsEarned
<1>1. /\ furthest' \in BookingState /\ furthest <= furthest'
      /\ refused' \subseteq {"call", "else"}
      /\ verdict = "Ok" => target <= furthest'
  <2>1. Answered(event, verdict, kind)
    BY DEF Answer
  <2>2. QED
    BY <1>0, <2>1, AnsweredGoesOn
<1>2. c \in CallRecord /\ c.pc = pc /\ c.verdict = verdict /\ c.target = target
  BY <1>0 DEF CallRecord
<1>3. calls' = [calls EXCEPT ![i] = c]
  BY DEF Answer
<1>4. /\ calls' \in Seq(CallRecord)
      /\ \A j \in DOMAIN calls': j \in DOMAIN calls /\ calls'[j] = IF j = i THEN c ELSE calls[j]
  BY <1>0, <1>2, <1>3, CallChanged
<1>5. {state, furthest, furthest'} \subseteq Nat
  BY <1>0, <1>1, FinalNat DEF TypeOK, BookingState
<1>6. TypeOK'
  BY <1>0, <1>1, <1>4 DEF TypeOK, monitor
<1>7. PendingEarned'
  <2>1. SUFFICES ASSUME NEW j \in DOMAIN calls', calls'[j].pc = "assign", calls'[j].verdict = "Ok"
                 PROVE  calls'[j].target <= furthest'
    BY DEF PendingEarned
  <2>2. CASE j = i
    BY <1>1, <1>2, <1>4, <2>1, <2>2
  <2>3. CASE j # i
    <3>1. j \in DOMAIN calls /\ calls'[j] = calls[j]
      BY <1>4, <2>3
    <3>2. calls[j].target <= furthest /\ calls[j].target \in Nat
      <4>1. calls[j] \in CallRecord
        BY <3>1 DEF IInv, TypeOK
      <4>2. QED
        BY <2>1, <3>1, <4>1, FinalNat DEF IInv, PendingEarned, CallRecord, BookingState
    <3>3. QED
      BY <3>1, <3>2, <1>1, <1>5
  <2>4. QED
    BY <2>2, <2>3
<1>8. StateIsEarned'
  <2>1. is_terminal(furthest) => is_terminal(furthest')
    BY <1>1, <1>5, FinalNat DEF is_terminal, BookingAutomaton, BookingState
  <2>2. state' <= furthest'
    BY <1>0, <1>1, <1>5 DEF monitor
  <2>3. QED
    BY <2>1, <2>2 DEF IInv, StateIsEarned, is_terminal
<1>9. QED
  BY <1>6, <1>7, <1>8 DEF IInv

\* Each access of a thread to the monitor keeps the invariant (wrap_tool_call).
LEMMA ThreadKeeps ==
    ASSUME IInv, NEW i \in DOMAIN calls, Thread(i)
    PROVE  IInv'
<1>1. TypeOK /\ calls[i] \in CallRecord
  BY DEF IInv, TypeOK
<1> DEFINE others == \A j \in DOMAIN calls':
                        calls'[j].pc = "assign" => j \in DOMAIN calls /\ calls'[j] = calls[j]
<1>2. CASE append(i)
  <2>1. calls' \in Seq(CallRecord) /\ others
    BY <1>1, <1>2, Moved DEF append
  <2>2. trace' \in [state : BookingState, halted : BOOLEAN, result : {"none"}]
    BY <1>1, <1>2, RecordType DEF append
  <2>3. QED
    BY <1>1, <1>2, <2>1, <2>2, Quiet DEF append, history, TypeOK
<1>3. CASE test(i)
  <2>1. CASE halted
    BY <1>1, <1>3, <2>1, AnswerKeeps DEF test, CallRecord
  <2>2. CASE ~halted
    <3>1. calls' \in Seq(CallRecord) /\ others
      BY <1>1, <1>3, <2>2, Moved DEF test
    <3>2. QED
      BY <1>1, <1>3, <2>2, <3>1, Quiet DEF test, monitor, history, TypeOK
  <2>3. QED
    BY <2>1, <2>2
<1>4. CASE look_up(i)
  <2> DEFINE event == EventOf(calls[i])
  <2>0. state \in BookingState
    BY <1>1 DEF TypeOK
  <2>1. CASE event \in DOMAIN Offered(state)
    <3>1. Answer(i, "Ok", "assign", Offered(state)[event])
      BY <1>4, <2>1 DEF look_up
    <3>2. Offered(state)[event] \in BookingState
      BY <2>0, <2>1, OneStep
    <3>3. QED
      BY <1>4, <2>1, <3>1, <3>2, AnswerKeeps DEF look_up
  <2>2. CASE event \notin DOMAIN Offered(state)
    <3>1. Answer(i, "Violation", "assign", state)
      BY <1>4, <2>2 DEF look_up
    <3>2. QED
      BY <1>4, <2>0, <3>1, AnswerKeeps DEF look_up
  <2>3. QED
    BY <2>1, <2>2
<1>5. CASE assign(i)
  <2>1. calls' \in Seq(CallRecord) /\ others
    BY <1>1, <1>5, Moved DEF assign
  <2>2. CASE calls[i].verdict = "Ok"
    <3>1. state' = calls[i].target /\ state' \in BookingState /\ state' <= furthest
      BY <1>1, <1>5, <2>2 DEF assign, IInv, PendingEarned, CallRecord
    <3>2. TypeOK'
      BY <1>1, <1>5, <2>1, <2>2, <3>1 DEF assign, history, TypeOK
    <3>3. StateIsEarned' /\ PendingEarned'
      BY <1>5, <2>1, <3>1 DEF assign, history, IInv, StateIsEarned, PendingEarned, is_terminal
    <3>4. QED
      BY <1>5, <3>2, <3>3 DEF assign, IInv
  <2>3. CASE calls[i].verdict # "Ok"
    BY <1>1, <1>5, <2>1, <2>3, Quiet DEF assign, history, TypeOK
  <2>4. QED
    BY <2>2, <2>3
<1>6. CASE refuse(i)
  <2>1. calls' \in Seq(CallRecord) /\ others
    BY <1>1, <1>6, Moved DEF refuse
  <2>2. QED
    BY <1>1, <1>6, <2>1, Quiet DEF refuse, history, TypeOK
<1>7. CASE run_tool(i)
  <2>1. calls' \in Seq(CallRecord) /\ others
    BY <1>1, <1>7, Moved DEF run_tool
  <2>2. QED
    BY <1>1, <1>7, <2>1, Quiet DEF run_tool, monitor, history, TypeOK
<1>8. CASE tool_returns(i)
  <2> DEFINE c == [calls[i] EXCEPT !.verb = "receive", !.pc = "append"]
  <2>1. c \in CallRecord /\ c.pc = "append"
    BY <1>1 DEF CallRecord
  <2>2. calls' \in Seq(CallRecord) /\ others
    BY <1>1, <1>8, <2>1, CallChanged DEF tool_returns
  <2>3. QED
    BY <1>1, <1>8, <2>2, Quiet DEF tool_returns, monitor, history, TypeOK
<1>9. CASE finish_call(i)
  <2>1. calls' \in Seq(CallRecord) /\ others
    BY <1>1, <1>9, Moved DEF finish_call
  <2>2. QED
    BY <1>1, <1>9, <2>1, Quiet DEF finish_call, monitor, history, TypeOK
<1>10. QED
  BY <1>2, <1>3, <1>4, <1>5, <1>6, <1>7, <1>8, <1>9 DEF Thread

\* An answer to the user, or the user's reply.
LEMMA StepKeeps ==
    ASSUME IInv, NEW event, _step(event), UNCHANGED <<calls, overlapped>>,
           phase' \in Phases \ {"ok"}, turn' \in Nat, replies' \in Nat,
           phase' = "presented" => replies' > 0
    PROVE  IInv'
<1>1. /\ state' \in BookingState /\ halted' \in BOOLEAN
      /\ trace' \in [state : BookingState, halted : BOOLEAN, result : {"none"}]
      /\ furthest' \in BookingState /\ refused' \subseteq {"call", "else"}
      /\ state' <= furthest' /\ PendingEarned'
  BY OrchestratorStep
<1>2. TypeOK'
  BY <1>1 DEF IInv, TypeOK
<1>3. StateIsEarned'
  BY <1>1 DEF StateIsEarned
<1>4. QED
  BY <1>1, <1>2, <1>3 DEF IInv

\* Every step of the threads and of run_with_middleware keeps the invariant.
LEMMA NextInv == IInv /\ [Next]_vars => IInv'
<1> SUFFICES ASSUME IInv, [Next]_vars PROVE IInv'
  OBVIOUS
<1>0. /\ calls \in Seq(CallRecord) /\ phase \in Phases /\ turn \in Nat /\ replies \in Nat
      /\ halted \in BOOLEAN /\ overlapped \in BOOLEAN
      /\ trace \in [state : BookingState, halted : BOOLEAN, result : {"none"}]
  BY DEF IInv, TypeOK
<1>1. ASSUME NEW n \in 1..MaxCalls, NEW names \in [1..n -> Tool], model_calls(names)
      PROVE  IInv'
  <2>1. calls' = [i \in 1..n |-> Call(names[i])]
    BY <1>1 DEF model_calls
  <2>2. \A i \in 1..n: Call(names[i]) \in CallRecord /\ Call(names[i]).pc = "append"
    BY <1>1 DEF Call, CallRecord, IInv, TypeOK
  <2>3. calls' \in Seq(CallRecord) /\ \A j \in DOMAIN calls': calls'[j].pc # "assign"
    BY <2>1, <2>2, BoundsAssumption
  <2>4. overlapped' \in BOOLEAN
    BY <1>1 DEF model_calls
  <2>5. QED
    BY <1>0, <1>1, <2>3, <2>4, Quiet DEF model_calls, monitor, history, Phases
<1>2. CASE join
  BY <1>0, <1>2, Quiet DEF join, monitor, history, Phases
<1>3. ASSUME NEW i \in DOMAIN calls, Thread(i) PROVE IInv'
  BY <1>3, ThreadKeeps
<1>4. CASE model_answers
  BY <1>0, <1>4, Quiet DEF model_answers, monitor, history, Phases
<1>5. CASE empty_answer
  BY <1>0, <1>5, Quiet DEF empty_answer, NextTurn, monitor, history, Phases
<1>6. CASE finished
  BY <1>0, <1>6, Quiet DEF finished, monitor, history, Phases
<1>7. CASE present
  BY <1>0, <1>7, StepKeeps DEF present, Phases
<1>8. ASSUME NEW message \in Reply, user_replies(message) PROVE IInv'
  <2>1. replies' \in Nat
    BY <1>0, <1>8 DEF user_replies, IInv
  <2>2. /\ phase' \in Phases \ {"ok", "presented"} /\ turn' \in Nat
        /\ UNCHANGED <<calls, overlapped>>
    BY <1>0, <1>8 DEF user_replies, NextTurn, Phases
  <2>3. QED
    BY <1>8, <2>1, <2>2, StepKeeps DEF user_replies
<1>9. CASE UNCHANGED vars
  BY <1>0, <1>9, Quiet DEF vars, monitor, history
<1>10. QED
  BY <1>1, <1>2, <1>3, <1>4, <1>5, <1>6, <1>7, <1>8, <1>9 DEF Next, ToolsStep

-----------------------------------------------------------------------------
(* The halted flag                                                          *)

\* Who has halted the monitor: a call that has yet to clear the flag, or something
\* that does not clear it.
HaltInv ==
    /\ phase # "tools" => calls = <<>>
    /\ halted => \/ "else" \in refused
                 \/ \E i \in DOMAIN calls: calls[i].pc = "answered" /\ Refused(calls[i])
    /\ \A i \in DOMAIN calls:
          calls[i].pc = "assign" =>
              /\ calls[i].verdict \in {"Ok", "Violation"}
              /\ calls[i].verdict = "Violation" /\ calls[i].verb = "receive" => "else" \in refused

\* What a thread's answer adds to the history.
LEMMA AnswerRefuses ==
    ASSUME NEW event, NEW verdict, NEW kind, Answered(event, verdict, kind)
    PROVE  /\ refused \subseteq refused'
           /\ verdict = "Violation" => kind \in refused'
BY DEF Answered

\* A step of one thread, the others waiting where they were.
LEMMA HaltThread ==
    ASSUME TypeOK, HaltInv, NEW i \in DOMAIN calls, Thread(i)
    PROVE  HaltInv'
<1>0. calls \in Seq(CallRecord) /\ calls[i] \in CallRecord /\ phase = "tools"
  BY DEF TypeOK, HaltInv
<1>1. CASE append(i)
  BY <1>0, <1>1 DEF append, Move, HaltInv, Refused, history
<1>2. CASE test(i)
  <2>1. CASE halted
    <3>1. /\ calls' = [calls EXCEPT ![i].verdict = "Blocked", ![i].pc = "answered",
                                    ![i].target = calls[i].target]
          /\ refused' = refused /\ halted' = halted /\ phase' = phase
      BY <1>2, <2>1 DEF test, Answer, Answered, monitor
    <3>2. /\ DOMAIN calls' = DOMAIN calls
          /\ calls[i].pc = "test" /\ calls'[i].pc = "answered"
          /\ \A j \in DOMAIN calls: j # i => calls'[j] = calls[j]
      BY <1>0, <1>2, <3>1 DEF test, CallRecord
    <3>3. QED
      BY <1>0, <3>1, <3>2 DEF HaltInv, Refused
  <2>2. CASE ~halted
    <3>1. ~halted' /\ phase' = phase /\ refused' = refused /\ calls' = [calls EXCEPT ![i].pc = "look_up"]
      BY <1>2, <2>2 DEF test, Move, monitor, history
    <3>2. QED
      BY <1>0, <3>1 DEF HaltInv
  <2>3. QED
    BY <2>1, <2>2
<1>3. CASE look_up(i)
  <2>1. PICK verdict, target: /\ verdict \in {"Ok", "Violation"}
                              /\ Answer(i, verdict, "assign", target)
    BY <1>3 DEF look_up
  <2>2. /\ calls' = [calls EXCEPT ![i].verdict = verdict, ![i].pc = "assign", ![i].target = target]
        /\ verdict \in {"Ok", "Violation"}
        /\ refused \subseteq refused'
        /\ verdict = "Violation" /\ calls[i].verb # "send" => "else" \in refused'
    BY <2>1 DEF Answer, Answered
  <2>3. halted' = halted /\ phase' = phase /\ calls[i].pc = "look_up"
    BY <1>3 DEF look_up, monitor
  <2>4. /\ DOMAIN calls' = DOMAIN calls
        /\ calls'[i].pc = "assign" /\ calls'[i].verdict = verdict /\ calls'[i].verb = calls[i].verb
        /\ \A j \in DOMAIN calls: j # i => calls'[j] = calls[j]
    BY <1>0, <2>2 DEF CallRecord
  <2>5. calls[i].verb = "receive" => calls[i].verb # "send"
    OBVIOUS
  <2>6. QED
    BY <1>0, <2>2, <2>3, <2>4, <2>5 DEF HaltInv, Refused
<1>4. CASE assign(i)
  <2>1. /\ calls[i].pc = "assign" /\ calls' = [calls EXCEPT ![i].pc = "answered"]
        /\ refused' = refused /\ phase' = phase
        /\ halted' => halted \/ calls[i].verdict # "Ok"
    BY <1>4 DEF assign, Move, history
  <2>2. /\ DOMAIN calls' = DOMAIN calls
        /\ calls'[i].pc = "answered" /\ calls'[i].verdict = calls[i].verdict
        /\ calls'[i].verb = calls[i].verb
        /\ \A j \in DOMAIN calls: j # i => calls'[j] = calls[j]
    BY <1>0, <2>1 DEF CallRecord
  <2>3. calls[i].verb \in {"send", "receive"}
    BY <1>0 DEF CallRecord
  <2>4. QED
    BY <1>0, <2>1, <2>2, <2>3 DEF HaltInv, Refused
<1>5. CASE refuse(i)
  BY <1>0, <1>5 DEF refuse, Move, HaltInv, Refused, history
<1>6. CASE run_tool(i)
  BY <1>0, <1>6 DEF run_tool, Move, HaltInv, Refused, history, monitor
<1>7. CASE tool_returns(i)
  BY <1>0, <1>7 DEF tool_returns, HaltInv, Refused, history, monitor
<1>8. CASE finish_call(i)
  BY <1>0, <1>8 DEF finish_call, Move, HaltInv, Refused, history, monitor
<1>9. QED
  BY <1>1, <1>2, <1>3, <1>4, <1>5, <1>6, <1>7, <1>8 DEF Thread

\* The orchestrator's events are no tool calls.
LEMMA HaltOrchestrator ==
    ASSUME HaltInv, NEW event, _step(event), calls = <<>>, UNCHANGED calls
    PROVE  HaltInv'
<1> DEFINE v == Verdict("now", state, halted, event)
<1>1. halted' = (halted \/ v = "Violation") /\ Answered(event, v, "else")
  BY DEF _step, Stepped, After
<1>2. refused \subseteq refused' /\ (v = "Violation" => "else" \in refused')
  BY <1>1 DEF Answered
<1>3. QED
  BY <1>1, <1>2 DEF HaltInv, Refused

\* No step leaves a halt nobody answers for.
LEMMA HaltNext == TypeOK /\ HaltInv /\ [Next]_vars => HaltInv'
<1> SUFFICES ASSUME TypeOK, HaltInv, [Next]_vars PROVE HaltInv'
  OBVIOUS
<1>1. ASSUME NEW n \in 1..MaxCalls, NEW names \in [1..n -> Tool], model_calls(names)
      PROVE  HaltInv'
  <2>1. calls' = [i \in 1..n |-> Call(names[i])] /\ refused' = refused /\ halted' = halted
    BY <1>1 DEF model_calls, monitor, history
  <2>2. \A i \in DOMAIN calls': calls'[i].pc = "append"
    BY <2>1 DEF Call
  <2>3. halted => "else" \in refused
    BY <1>1 DEF HaltInv, model_calls
  <2>4. QED
    BY <1>1, <2>1, <2>2, <2>3 DEF HaltInv, model_calls
<1>2. CASE join
  <2>1. halted => "else" \in refused
    BY <1>2 DEF HaltInv, join, Refused
  <2>2. calls' = <<>> /\ refused' = refused /\ halted' = halted
    BY <1>2 DEF join, monitor, history
  <2>3. QED
    BY <2>1, <2>2 DEF HaltInv
<1>3. ASSUME NEW i \in DOMAIN calls, Thread(i) PROVE HaltInv'
  BY <1>3, HaltThread
<1>4. CASE model_answers \/ empty_answer \/ finished
  BY <1>4 DEF model_answers, empty_answer, finished, NextTurn, HaltInv, Refused, monitor, history
<1>5. CASE present
  BY <1>5, HaltOrchestrator DEF present, HaltInv
<1>6. ASSUME NEW message \in Reply, user_replies(message) PROVE HaltInv'
  BY <1>6, HaltOrchestrator DEF user_replies, HaltInv
<1>7. CASE UNCHANGED vars
  BY <1>7 DEF vars, monitor, history, HaltInv, Refused
<1>8. QED
  BY <1>1, <1>2, <1>3, <1>4, <1>5, <1>6, <1>7 DEF Next, ToolsStep

-----------------------------------------------------------------------------
(* One tool call at a time                                                  *)

Accepts(s, event) == event \in DOMAIN Offered(s)

ResultOf(call) == <<"receive", Labels(call.name)[2]>>

\* The monitor that the trace restores, between two events, when the monitor itself
\* stands at s.
SnapshotAt(s) ==
    /\ trace.halted <=> refused # {}
    /\ refused = {} => trace.state = s
    /\ trace.state <= s

\* The same with an event in the trace that the monitor is still to answer.
SnapshotAhead(event) ==
    IF refused # {} THEN trace.halted /\ trace.state <= state
    ELSE /\ trace.halted <=> ~Accepts(state, event)
         /\ trace.state = IF Accepts(state, event) THEN state + 1 ELSE state

\* A call whose thread has the monitor for itself: between the look-up and the
\* assignment the history and the trace are a step ahead of the monitor, and from
\* the acceptance of the call on the protocol waits for its result.
CallFits ==
    LET call == calls[1] IN
    /\ halted => call.pc = "answered" /\ Refused(call)
    /\ call.verb = "send" /\ call.pc \in {"answered", "running"} /\ call.verdict = "Ok"
          => Accepts(state, ResultOf(call))
    /\ call.verb = "receive" /\ call.pc \in {"append", "test", "look_up"}
          => Accepts(state, ResultOf(call))
    /\ IF call.pc = "assign" /\ call.verdict = "Ok"
       THEN /\ call.target = furthest
            /\ call.verb = "send" => Accepts(furthest, ResultOf(call))
            /\ SnapshotAt(furthest)
       ELSE /\ state = furthest
            /\ call.pc = "assign" => Refused(call) /\ refused # {}
            /\ IF call.pc \in {"test", "look_up"} THEN SnapshotAhead(EventOf(call))
               ELSE SnapshotAt(state)
    /\ call.pc = "answered" => call.verdict = "Ok" \/ Refused(call)
    /\ call.pc = "running" => call.verdict = "Ok" /\ call.verb = "send"

RestFits ==
    /\ state = furthest
    /\ SnapshotAt(state)
    /\ halted => phase = "violated" /\ refused # {}

AloneInv ==
    /\ phase # "tools" => calls = <<>>
    /\ ~overlapped =>
         /\ Len(calls) <= 1
         /\ calls = <<>> => RestFits
         /\ calls # <<>> => CallFits

\* The protocol of the booking agent, event by event (linear_protocol).
LEMMA PositionsAre ==
    /\ Final = 6 /\ DOMAIN Positions = 1..6
    /\ Positions[1] = <<"send", "SearchFlights">>
    /\ Positions[2] = <<"receive", "FlightResults">>
    /\ Positions[3] = PresentOptions
    /\ Positions[4] = UserApproval
    /\ Positions[5] = <<"send", "BookFlight">>
    /\ Positions[6] = <<"receive", "BookingConfirmation">>
<1>1. /\ ToolEvents("search_flights") = <<<<"send", "SearchFlights">>, <<"receive", "FlightResults">>>>
      /\ ToolEvents("book_flight") = <<<<"send", "BookFlight">>, <<"receive", "BookingConfirmation">>>>
  BY DEF ToolEvents, Labels, TOOL_LABELS
<1>2. ASSUME NEW S, NEW a \in S, NEW b \in S, NEW c \in S, NEW d \in S, NEW e \in S, NEW f \in S,
             NEW r, r = <<a, b>> \o <<c, d>> \o <<e, f>>
      PROVE  /\ Len(r) = 6 /\ DOMAIN r = 1..6
             /\ r[1] = a /\ r[2] = b /\ r[3] = c /\ r[4] = d /\ r[5] = e /\ r[6] = f
  <2> DEFINE q == <<a, b>> \o <<c, d>>
  <2>1. /\ q \in Seq(S) /\ Len(q) = 4
        /\ q[1] = a /\ q[2] = b /\ q[3] = c /\ q[4] = d
    OBVIOUS
  <2> HIDE DEF q
  <2>2. /\ q \o <<e, f>> \in Seq(S) /\ Len(q \o <<e, f>>) = 6
        /\ \A i \in 1..4: (q \o <<e, f>>)[i] = q[i]
        /\ (q \o <<e, f>>)[5] = e /\ (q \o <<e, f>>)[6] = f
    <3>1. <<e, f>> \in Seq(S) /\ Len(<<e, f>>) = 2 /\ <<e, f>>[1] = e /\ <<e, f>>[2] = f
      OBVIOUS
    <3> DEFINE p == <<e, f>>
    <3> HIDE DEF p
    <3>2. /\ q \o p \in Seq(S)
          /\ Len(q \o p) = Len(q) + Len(p)
          /\ \A i \in 1..Len(q) + Len(p): (q \o p)[i] = IF i <= Len(q) THEN q[i] ELSE p[i - Len(q)]
      BY <2>1, <3>1, ConcatProperties DEF p
    <3>3. QED
      BY <2>1, <3>1, <3>2 DEF p
  <2>3. r = q \o <<e, f>>
    BY <1>2 DEF q
  <2>4. QED
    BY <2>1, <2>2, <2>3
<1>3. QED
  <2> DEFINE S == {<<"send", "SearchFlights">>, <<"receive", "FlightResults">>,
                   PresentOptions, UserApproval,
                   <<"send", "BookFlight">>, <<"receive", "BookingConfirmation">>}
  <2>1. Positions = <<<<"send", "SearchFlights">>, <<"receive", "FlightResults">>>>
                    \o <<PresentOptions, UserApproval>>
                    \o <<<<"send", "BookFlight">>, <<"receive", "BookingConfirmation">>>>
    BY <1>1 DEF Positions
  <2>2. QED
    BY <1>2, <2>1 DEF Final

\* What a position accepts is the event that is written there.
LEMMA AcceptsOne ==
    ASSUME NEW s \in BookingState
    PROVE  \A event: Accepts(s, event) <=> s # Final /\ event = Positions[s + 1]
<1>1. Offered(s) = [e \in (IF s = Final THEN {} ELSE {Positions[s + 1]}) |-> s + 1]
  BY BookingAssumption DEF Offered, Transitions, Automata, BookingAutomaton
<1>2. QED
  BY <1>1 DEF Accepts

\* After a tool's call the protocol offers that tool's result.
LEMMA ResultFollows ==
    ASSUME NamesApart, NEW name \in Tool, NEW s \in BookingState,
           Accepts(s, <<"send", Labels(name)[1]>>)
    PROVE  s + 1 \in BookingState /\ Accepts(s + 1, <<"receive", Labels(name)[2]>>)
<1>1. s \in 0..5 /\ Positions[s + 1] = <<"send", Labels(name)[1]>>
  BY AcceptsOne, PositionsAre DEF BookingState
<1>2. name \in DOMAIN TOOL_LABELS
  <2>1. SUFFICES ASSUME name \notin DOMAIN TOOL_LABELS PROVE FALSE
    OBVIOUS
  <2>2. Labels(name)[1] = name
    BY <2>1 DEF Labels
  <2>3. s + 1 \in DOMAIN Positions
    BY <1>1, PositionsAre
  <2>4. QED
    BY <1>1, <2>1, <2>2, <2>3 DEF NamesApart
<1>3. CASE name = "search_flights"
  <2>1. Labels(name) = <<"SearchFlights", "FlightResults">>
    BY <1>3 DEF Labels, TOOL_LABELS
  <2>2. s = 0
    BY <1>1, <2>1, PositionsAre DEF PresentOptions, UserApproval
  <2>3. QED
    BY <2>1, <2>2, AcceptsOne, PositionsAre DEF BookingState
<1>4. CASE name = "book_flight"
  <2>1. Labels(name) = <<"BookFlight", "BookingConfirmation">>
    BY <1>4 DEF Labels, TOOL_LABELS
  <2>2. s = 4
    BY <1>1, <2>1, PositionsAre DEF PresentOptions, UserApproval
  <2>3. QED
    BY <2>1, <2>2, AcceptsOne, PositionsAre DEF BookingState
<1>5. QED
  BY <1>2, <1>3, <1>4 DEF TOOL_LABELS

\* A step of a monitor, in terms of what its state accepts.
LEMMA SteppedIs ==
    ASSUME NEW m, m.state \in BookingState, m.halted \in BOOLEAN, NEW event
    PROVE  /\ Stepped(m, event).state
                = IF ~m.halted /\ Accepts(m.state, event) THEN m.state + 1 ELSE m.state
           /\ Stepped(m, event).halted
                <=> m.halted \/ (~Accepts(m.state, event) /\ event[2] # UNRECOGNIZED)
           /\ Stepped(m, event).result
                = IF m.halted THEN "Blocked"
                  ELSE IF Accepts(m.state, event) THEN "Ok"
                  ELSE IF event[2] = UNRECOGNIZED THEN "Unrecognized" ELSE "Violation"
<1> DEFINE v == Verdict("now", m.state, m.halted, event)
<1>1. /\ Stepped(m, event).state
            = IF v = "Ok" THEN Offered(m.state)[event] ELSE m.state
      /\ Stepped(m, event).halted = (m.halted \/ v = "Violation")
      /\ Stepped(m, event).result = v
  BY DEF Stepped, After, Offered
<1>2. v = IF m.halted THEN "Blocked"
          ELSE IF Accepts(m.state, event) THEN "Ok"
          ELSE IF event[2] = UNRECOGNIZED THEN "Unrecognized" ELSE "Violation"
  BY DEF Verdict, Accepts, Offered
<1>3. Accepts(m.state, event) => Offered(m.state)[event] = m.state + 1
  BY OneStep DEF Accepts
<1>4. QED
  BY <1>1, <1>2, <1>3

\* The same for the monitor the trace stands for.
LEMMA RecordIs ==
    ASSUME TypeOK, NEW event, Record(event)
    PROVE  /\ trace'.state
                = IF ~trace.halted /\ Accepts(trace.state, event) THEN trace.state + 1 ELSE trace.state
           /\ trace'.halted
                <=> trace.halted \/ (~Accepts(trace.state, event) /\ event[2] # UNRECOGNIZED)
<1>1. trace.state \in BookingState /\ trace.halted \in BOOLEAN
  BY DEF TypeOK
<1>2. trace'.state = Stepped(trace, event).state /\ trace'.halted = Stepped(trace, event).halted
  BY DEF Record, Stepped, After
<1>3. QED
  BY <1>1, <1>2, SteppedIs

\* With one call at most, the invariant is about that call.
LEMMA AloneCall ==
    ASSUME TypeOK, AloneInv, NEW i \in DOMAIN calls, ~overlapped
    PROVE  /\ i = 1 /\ calls \in Seq(CallRecord) /\ Len(calls) = 1 /\ calls # <<>>
           /\ phase = "tools" /\ CallFits
           /\ \A c \in CallRecord:
                 /\ calls' = [calls EXCEPT ![i] = c]
                 /\ UNCHANGED <<phase, overlapped>>
                 => /\ calls'[1] = c
                    /\ CallFits' => AloneInv'
<1>1. calls \in Seq(CallRecord) /\ Len(calls) = 1 /\ i = 1 /\ calls # <<>>
  <2> DEFINE n == Len(calls)
  <2>1. calls \in Seq(CallRecord) /\ i \in 1..n /\ n \in Nat
    BY DEF TypeOK
  <2>2. n <= 1
    BY DEF AloneInv
  <2>3. calls # <<>>
    OBVIOUS
  <2> HIDE DEF n
  <2>4. n = 1 /\ i = 1
    BY <2>1, <2>2
  <2>5. QED
    BY <2>1, <2>3, <2>4 DEF n
<1>2. phase = "tools" /\ CallFits
  BY <1>1 DEF AloneInv
<1>3. ASSUME NEW c \in CallRecord, calls' = [calls EXCEPT ![i] = c],
             UNCHANGED <<phase, overlapped>>
      PROVE  calls'[1] = c /\ (CallFits' => AloneInv')
  <2>1. Len(calls') = 1 /\ calls' # <<>> /\ calls'[1] = c
    BY <1>1, <1>3
  <2>2. QED
    BY <1>2, <1>3, <2>1 DEF AloneInv
<1>4. QED
  BY <1>1, <1>2, <1>3

\* A call that runs alone keeps to the protocol, whatever is refused (wrap_tool_call).
LEMMA AloneThread ==
    ASSUME NamesApart, TypeOK, AloneInv, NEW i \in DOMAIN calls, Thread(i)
    PROVE  AloneInv'
<1>a. UNCHANGED <<phase, overlapped>>
  BY DEF Thread, append, test, look_up, assign, refuse, run_tool, tool_returns, finish_call
<1>b. CASE overlapped
  <2>1. calls # <<>>
    OBVIOUS
  <2>2. QED
    BY <1>a, <1>b, <2>1 DEF AloneInv
<1>c. CASE ~overlapped
  <2>0. PICK c \in CallRecord:
        /\ i = 1 /\ c = calls[1] /\ CallFits
        /\ \A d \in CallRecord: calls' = [calls EXCEPT ![i] = d] => calls'[1] = d
        /\ \A d \in CallRecord: calls' = [calls EXCEPT ![i] = d] /\ CallFits' => AloneInv'
    BY <1>a, <1>c, AloneCall DEF TypeOK
  <2> DEFINE ev == EventOf(c)
  <2>t. /\ state \in BookingState /\ furthest \in BookingState /\ state \in Nat /\ furthest \in Nat
        /\ trace.state \in BookingState /\ trace.state \in Nat /\ trace.halted \in BOOLEAN
        /\ c.name \in Tool
    BY <2>0, PositionsAre DEF TypeOK, BookingState, CallRecord
  <2>1. CASE append(i)
    <3> DEFINE d == [c EXCEPT !.pc = "test"]
    <3>1. d \in CallRecord /\ d.pc = "test" /\ d.verb = c.verb /\ d.name = c.name
      BY <2>0 DEF CallRecord
    <3>2. calls' = [calls EXCEPT ![i] = d] /\ calls'[1] = d
      BY <2>0, <2>1, <3>1 DEF append, Move
    <3>3. c.pc = "append" /\ Record(ev) /\ UNCHANGED <<state, halted, furthest, refused>>
      BY <2>0, <2>1 DEF append, history
    <3>4. /\ ~halted /\ state = furthest /\ SnapshotAt(state)
          /\ c.verb = "receive" => Accepts(state, ResultOf(c))
      BY <2>0, <3>3 DEF CallFits
    <3>5. EventOf(d) = ev /\ (c.verb = "receive" => ev = ResultOf(c))
      BY <3>1 DEF EventOf, ResultOf
    <3>6. ~Accepts(state, ev) => ev[2] # UNRECOGNIZED
      <4>1. c.verb # "receive" => ev[2] = Labels(c.name)[1]
        BY <2>0 DEF EventOf, CallRecord
      <4>2. QED
        BY <2>t, <3>4, <3>5, <4>1 DEF NamesApart
    <3>7. /\ trace'.state = IF ~trace.halted /\ Accepts(trace.state, ev) THEN trace.state + 1
                            ELSE trace.state
          /\ trace'.halted <=> trace.halted \/ (~Accepts(trace.state, ev) /\ ev[2] # UNRECOGNIZED)
      BY <3>3, RecordIs
    <3>8. SnapshotAhead(EventOf(calls[1]))'
      <4>0. EventOf(calls[1])' = ev
        BY <3>2, <3>5 DEF EventOf
      <4> HIDE DEF ev
      <4>1. CASE refused = {}
        BY <4>0, <3>3, <3>4, <3>6, <3>7, <4>1 DEF SnapshotAt, SnapshotAhead, Accepts
      <4>2. CASE refused # {}
        BY <3>3, <3>4, <3>7, <4>2 DEF SnapshotAt, SnapshotAhead
      <4>3. QED
        BY <4>1, <4>2
    <3>9. CallFits'
      <4>2. ~halted' /\ state' = furthest' /\ calls'[1].pc = "test"
        BY <3>1, <3>2, <3>3, <3>4
      <4>3. calls'[1].verb = "receive" => Accepts(state, ResultOf(calls[1]))'
        BY <3>1, <3>2, <3>3, <3>4 DEF ResultOf, Accepts
      <4>4. QED
        BY <3>8, <4>2, <4>3 DEF CallFits
    <3>10. QED
      BY <2>0, <3>1, <3>2, <3>9
  <2>2. CASE test(i)
    <3> DEFINE d == [c EXCEPT !.pc = "look_up"]
    <3>1. d \in CallRecord /\ d.pc = "look_up" /\ d.verb = c.verb /\ d.name = c.name
      BY <2>0 DEF CallRecord
    <3>2. c.pc = "test" /\ ~halted /\ state = furthest /\ SnapshotAhead(ev)
      BY <2>0, <2>2 DEF test, CallFits, Refused
    <3>3. /\ calls' = [calls EXCEPT ![i] = d] /\ calls'[1] = d
          /\ UNCHANGED <<state, halted, trace, furthest, refused>>
      BY <2>0, <2>2, <3>1, <3>2 DEF test, Move, monitor, history
    <3>4. EventOf(calls[1])' = ev
      <4>1. EventOf(d) = ev
        BY <3>1 DEF EventOf
      <4>2. QED
        BY <3>3, <4>1 DEF EventOf
    <3>5. SnapshotAhead(EventOf(calls[1]))'
      BY <3>2, <3>3, <3>4 DEF SnapshotAhead
    <3>6. calls'[1].verb = "receive" => Accepts(state, ResultOf(calls[1]))'
      BY <2>0, <3>1, <3>2, <3>3 DEF CallFits, ResultOf, Accepts
    <3>7. CallFits'
      BY <3>1, <3>2, <3>3, <3>5, <3>6 DEF CallFits
    <3>8. QED
      BY <2>0, <3>1, <3>3, <3>7
  <2>3. CASE look_up(i)
    <3>1. /\ c.pc = "look_up" /\ ~halted /\ state = furthest /\ SnapshotAhead(ev)
          /\ c.verb = "receive" => Accepts(state, ResultOf(c))
      BY <2>0, <2>3 DEF look_up, CallFits
    <3>2. UNCHANGED <<state, halted, trace>>
      BY <2>3 DEF look_up, monitor
    <3>3. CASE Accepts(state, ev)
      <4> DEFINE d == [c EXCEPT !.verdict = "Ok", !.pc = "assign", !.target = state + 1]
      <4>1. Offered(state)[ev] = state + 1 /\ state + 1 \in BookingState
        BY <2>t, <3>3, OneStep DEF Accepts
      <4>2. /\ d \in CallRecord /\ d.pc = "assign" /\ d.verb = c.verb /\ d.name = c.name
            /\ d.verdict = "Ok" /\ d.target = state + 1
        BY <2>0, <4>1 DEF CallRecord
      <4>3. /\ calls' = [calls EXCEPT ![i] = d] /\ calls'[1] = d
            /\ furthest' = state + 1 /\ refused' = refused
        BY <2>0, <2>3, <3>1, <3>3, <4>1, <4>2 DEF look_up, Answer, Answered, Accepts
      <4>4. c.verb = "send" => Accepts(state + 1, ResultOf(c))
        BY <2>t, <3>3, ResultFollows DEF EventOf, ResultOf
      <4>5. calls'[1].verb = "send" => Accepts(furthest, ResultOf(calls[1]))'
        BY <4>2, <4>3, <4>4 DEF ResultOf, Accepts
      <4>6. SnapshotAt(furthest)'
        BY <2>t, <3>1, <3>2, <3>3, <4>3 DEF SnapshotAhead, SnapshotAt
      <4>7. CallFits'
        BY <3>1, <3>2, <4>2, <4>3, <4>5, <4>6 DEF CallFits
      <4>8. QED
        BY <2>0, <4>2, <4>3, <4>7
    <3>4. CASE ~Accepts(state, ev)
      <4> DEFINE d == [c EXCEPT !.verdict = "Violation", !.pc = "assign", !.target = state]
      <4>1. c.verb = "send"
        BY <2>0, <3>1, <3>4 DEF EventOf, ResultOf, CallRecord
      <4>2. /\ d \in CallRecord /\ d.pc = "assign" /\ d.verb = "send"
            /\ d.verdict = "Violation"
        BY <2>0, <2>t, <4>1 DEF CallRecord
      <4>3. /\ calls' = [calls EXCEPT ![i] = d] /\ calls'[1] = d
            /\ furthest' = furthest /\ refused' = refused \cup {"call"}
        BY <2>0, <2>3, <3>4, <4>1, <4>2 DEF look_up, Answer, Answered, Accepts
      <4>4. SnapshotAt(state)' /\ refused' # {}
        BY <2>t, <3>1, <3>2, <3>4, <4>3 DEF SnapshotAhead, SnapshotAt
      <4>5. CallFits'
        BY <3>1, <3>2, <4>2, <4>3, <4>4 DEF CallFits, Refused
      <4>6. QED
        BY <2>0, <4>2, <4>3, <4>5
    <3>5. QED
      BY <3>3, <3>4
  <2>4. CASE assign(i)
    <3> DEFINE d == [c EXCEPT !.pc = "answered"]
    <3>1. /\ d \in CallRecord /\ d.pc = "answered" /\ d.verb = c.verb /\ d.name = c.name
          /\ d.verdict = c.verdict
      BY <2>0 DEF CallRecord
    <3>2. /\ calls' = [calls EXCEPT ![i] = d] /\ calls'[1] = d /\ c.pc = "assign"
          /\ UNCHANGED <<trace, furthest, refused>>
      BY <2>0, <2>4, <3>1 DEF assign, Move, history
    <3>3. CASE c.verdict = "Ok"
      <4>1. /\ c.target = furthest /\ SnapshotAt(furthest) /\ ~halted
            /\ c.verb = "send" => Accepts(furthest, ResultOf(c))
        BY <2>0, <3>2, <3>3 DEF CallFits
      <4>2. state' = furthest /\ ~halted'
        BY <2>0, <2>4, <3>3, <4>1 DEF assign
      <4>3. SnapshotAt(state)'
        BY <3>2, <4>1, <4>2 DEF SnapshotAt
      <4>4. calls'[1].verb = "send" => Accepts(state, ResultOf(calls[1]))'
        BY <3>1, <3>2, <4>1, <4>2 DEF ResultOf, Accepts
      <4>5. CallFits'
        BY <3>1, <3>2, <3>3, <4>2, <4>3, <4>4 DEF CallFits
      <4>6. QED
        BY <2>0, <3>1, <3>2, <4>5
    <3>4. CASE c.verdict # "Ok"
      <4>1. Refused(c) /\ refused # {} /\ state = furthest /\ SnapshotAt(state)
        BY <2>0, <3>2, <3>4 DEF CallFits
      <4>2. state' = state
        BY <2>0, <2>4, <3>4 DEF assign
      <4>3. SnapshotAt(state)'
        BY <3>2, <4>1, <4>2 DEF SnapshotAt
      <4>4. QED
        BY <2>0, <3>1, <3>2, <3>4, <4>1, <4>2, <4>3 DEF CallFits, Refused
    <3>5. QED
      BY <3>3, <3>4
  <2>5. CASE refuse(i)
    <3> DEFINE d == [c EXCEPT !.pc = "refused"]
    <3>1. d \in CallRecord /\ d.pc = "refused"
      BY <2>0 DEF CallRecord
    <3>2. /\ calls' = [calls EXCEPT ![i] = d] /\ calls'[1] = d /\ c.pc = "answered"
          /\ ~halted' /\ UNCHANGED <<state, trace, furthest, refused>>
      BY <2>0, <2>5, <3>1 DEF refuse, Move, history
    <3>3. state = furthest /\ SnapshotAt(state)
      BY <2>0, <3>2 DEF CallFits
    <3>4. CallFits'
      BY <3>1, <3>2, <3>3 DEF CallFits, SnapshotAt
    <3>5. QED
      BY <2>0, <3>1, <3>2, <3>4
  <2>6. CASE run_tool(i)
    <3> DEFINE d == [c EXCEPT !.pc = "running"]
    <3>1. /\ d \in CallRecord /\ d.pc = "running" /\ d.verb = c.verb /\ d.name = c.name
          /\ d.verdict = c.verdict
      BY <2>0 DEF CallRecord
    <3>2. /\ calls' = [calls EXCEPT ![i] = d] /\ calls'[1] = d
          /\ c.pc = "answered" /\ c.verb = "send" /\ ~Refused(c)
          /\ UNCHANGED <<state, halted, trace, furthest, refused>>
      BY <2>0, <2>6, <3>1 DEF run_tool, Move, monitor, history
    <3>3. /\ ~halted /\ c.verdict = "Ok" /\ state = furthest /\ SnapshotAt(state)
          /\ Accepts(state, ResultOf(c))
      BY <2>0, <3>2 DEF CallFits
    <3>4. Accepts(state, ResultOf(calls[1]))'
      BY <3>1, <3>2, <3>3 DEF ResultOf, Accepts
    <3>5. SnapshotAt(state)'
      BY <3>2, <3>3 DEF SnapshotAt
    <3>6. CallFits'
      BY <3>1, <3>2, <3>3, <3>4, <3>5 DEF CallFits
    <3>7. QED
      BY <2>0, <3>1, <3>2, <3>6
  <2>7. CASE tool_returns(i)
    <3> DEFINE d == [c EXCEPT !.verb = "receive", !.pc = "append"]
    <3>1. d \in CallRecord /\ d.pc = "append" /\ d.verb = "receive" /\ d.name = c.name
      BY <2>0 DEF CallRecord
    <3>2. /\ calls' = [calls EXCEPT ![i] = d] /\ calls'[1] = d /\ c.pc = "running"
          /\ UNCHANGED <<state, halted, trace, furthest, refused>>
      BY <2>0, <2>7, <3>1 DEF tool_returns, monitor, history
    <3>3. ~halted /\ state = furthest /\ SnapshotAt(state) /\ Accepts(state, ResultOf(c))
      BY <2>0, <3>2 DEF CallFits
    <3>4. Accepts(state, ResultOf(calls[1]))'
      BY <3>1, <3>2, <3>3 DEF ResultOf, Accepts
    <3>5. SnapshotAt(state)'
      BY <3>2, <3>3 DEF SnapshotAt
    <3>6. CallFits'
      BY <3>1, <3>2, <3>3, <3>4, <3>5 DEF CallFits
    <3>7. QED
      BY <2>0, <3>1, <3>2, <3>6
  <2>8. CASE finish_call(i)
    <3> DEFINE d == [c EXCEPT !.pc = "done"]
    <3>1. d \in CallRecord /\ d.pc = "done"
      BY <2>0 DEF CallRecord
    <3>2. /\ calls' = [calls EXCEPT ![i] = d] /\ calls'[1] = d
          /\ c.pc = "answered" /\ c.verb = "receive"
          /\ UNCHANGED <<state, halted, trace, furthest, refused>>
      BY <2>0, <2>8, <3>1 DEF finish_call, Move, monitor, history
    <3>3. ~halted /\ state = furthest /\ SnapshotAt(state)
      BY <2>0, <3>2 DEF CallFits, Refused
    <3>4. CallFits'
      BY <3>1, <3>2, <3>3 DEF CallFits, SnapshotAt
    <3>5. QED
      BY <2>0, <3>1, <3>2, <3>4
  <2>9. QED
    BY <2>1, <2>2, <2>3, <2>4, <2>5, <2>6, <2>7, <2>8 DEF Thread
<1>d. QED
  BY <1>b, <1>c

\* An event of the orchestrator, with no call under way.
LEMMA AloneOrchestrator ==
    ASSUME TypeOK, AloneInv, NEW event, _step(event), calls = <<>>,
           UNCHANGED <<calls, overlapped>>, phase' # "tools",
           ~halted, AnswerTo(event) = "Violation" => phase' = "violated"
    PROVE  AloneInv'
<1> DEFINE m == [state |-> state, halted |-> halted]
<1>1. CASE overlapped
  BY <1>1 DEF AloneInv
<1>2. CASE ~overlapped
  <2>1. /\ m.state \in BookingState /\ m.halted \in BOOLEAN /\ state \in BookingState
        /\ state \in Nat /\ trace.state \in Nat /\ m.state = state /\ m.halted = halted
    BY PositionsAre DEF TypeOK, BookingState
  <2>2. state = furthest /\ SnapshotAt(state)
    BY <1>2 DEF AloneInv, RestFits
  <2>3. /\ Stepped(m, event).state = IF Accepts(state, event) THEN state + 1 ELSE state
        /\ Stepped(m, event).halted <=> ~Accepts(state, event) /\ event[2] # UNRECOGNIZED
        /\ Stepped(m, event).result
             = IF Accepts(state, event) THEN "Ok"
               ELSE IF event[2] = UNRECOGNIZED THEN "Unrecognized" ELSE "Violation"
    BY <2>1, SteppedIs
  <2>4. /\ trace'.state = IF ~trace.halted /\ Accepts(trace.state, event) THEN trace.state + 1
                          ELSE trace.state
        /\ trace'.halted <=> trace.halted \/ (~Accepts(trace.state, event) /\ event[2] # UNRECOGNIZED)
    BY RecordIs DEF _step
  <2>5. /\ state' = Stepped(m, event).state /\ halted' = Stepped(m, event).halted
        /\ Answered(event, Stepped(m, event).result, "else")
    BY DEF _step
  <2>6. /\ furthest' = IF Accepts(state, event) THEN state + 1 ELSE state
        /\ refused' = IF Stepped(m, event).result = "Violation" THEN refused \cup {"else"} ELSE refused
    BY <2>1, <2>2, <2>3, <2>5, OneStep DEF Answered, Accepts
  <2>7. SnapshotAt(state)'
    <3>0. state' = IF Accepts(state, event) THEN state + 1 ELSE state
      BY <2>3, <2>5
    <3>1. refused' = IF ~Accepts(state, event) /\ event[2] # UNRECOGNIZED
                     THEN refused \cup {"else"} ELSE refused
      BY <2>3, <2>6
    <3>2. CASE refused = {}
      <4>1. ~trace.halted /\ trace.state = state
        BY <2>2, <3>2 DEF SnapshotAt
      <4>2. trace'.state = state' /\ (trace'.halted <=> refused' # {})
        BY <2>4, <3>0, <3>1, <3>2, <4>1
      <4>3. QED
        BY <2>1, <3>0, <4>2 DEF SnapshotAt
    <3>3. CASE refused # {}
      <4>1. trace.halted /\ trace.state <= state
        BY <2>2, <3>3 DEF SnapshotAt
      <4>2. trace'.halted /\ trace'.state = trace.state /\ refused' # {}
        BY <2>4, <3>1, <3>3, <4>1
      <4>3. QED
        BY <2>1, <3>0, <4>1, <4>2 DEF SnapshotAt
    <3>4. QED
      BY <3>2, <3>3
  <2>8. halted' => phase' = "violated" /\ refused' # {}
    BY <2>3, <2>5, <2>6 DEF AnswerTo
  <2>9. state' = furthest'
    BY <2>3, <2>5, <2>6
  <2>10. QED
    BY <2>7, <2>8, <2>9 DEF AloneInv, RestFits
<1>3. QED
  BY <1>1, <1>2

\* As long as no calls overlap, every step keeps what holds of a call alone.
LEMMA AloneNext == NamesApart /\ TypeOK /\ AloneInv /\ [Next]_vars => AloneInv'
<1> SUFFICES ASSUME NamesApart, TypeOK, AloneInv, [Next]_vars PROVE AloneInv'
  OBVIOUS
<1>0. phase # "tools" /\ ~overlapped /\ phase # "violated" =>
         state = furthest /\ SnapshotAt(state) /\ ~halted
  BY DEF AloneInv, RestFits
<1>1. ASSUME NEW n \in 1..MaxCalls, NEW names \in [1..n -> Tool], model_calls(names)
      PROVE  AloneInv'
  <2>1. calls' = [k \in 1..n |-> Call(names[k])] /\ phase' = "tools"
    BY <1>1 DEF model_calls
  <2>2. SUFFICES ASSUME ~overlapped' PROVE Len(calls') <= 1 /\ calls' # <<>> /\ CallFits'
    BY <2>1 DEF AloneInv
  <2>3. ~overlapped /\ ~(Len(names) > 1)
    BY <1>1, <2>2 DEF model_calls
  <2>4. n = 1
    BY <1>1, <2>3, BoundsAssumption
  <2>5. Len(calls') = 1 /\ calls' # <<>> /\ calls'[1] = Call(names[1])
    <3>1. DOMAIN calls' = 1..1 /\ calls'[1] = Call(names[1])
      BY <2>1, <2>4
    <3>2. Len(calls') = 1
      BY <3>1, <2>1, <2>4
    <3>3. QED
      BY <3>1, <3>2
  <2>6. state = furthest /\ SnapshotAt(state) /\ ~halted
    BY <1>0, <1>1, <2>3 DEF model_calls
  <2>7. CallFits'
    BY <1>1, <2>5, <2>6 DEF CallFits, Call, SnapshotAt, model_calls, monitor, history
  <2>8. QED
    BY <2>5, <2>7
<1>2. CASE join
  <2>1. CASE calls = <<>>
    BY <1>2, <2>1 DEF join, AloneInv, RestFits, SnapshotAt, monitor, history
  <2>2. CASE calls # <<>> /\ ~overlapped
    <3>1. CallFits /\ 1 \in DOMAIN calls
      BY <2>2 DEF AloneInv, TypeOK
    <3>2. calls[1].pc \in {"refused", "done"}
      BY <1>2, <3>1 DEF join
    <3>3. state = furthest /\ SnapshotAt(state) /\ ~halted
      BY <3>1, <3>2 DEF CallFits
    <3>4. QED
      BY <1>2, <3>3 DEF join, AloneInv, RestFits, SnapshotAt, monitor, history
  <2>3. CASE overlapped
    BY <1>2, <2>3 DEF join, AloneInv
  <2>4. QED
    BY <2>1, <2>2, <2>3
<1>3. ASSUME NEW i \in DOMAIN calls, Thread(i) PROVE AloneInv'
  BY <1>3, AloneThread
<1>4. CASE model_answers \/ empty_answer \/ finished
  BY <1>4 DEF model_answers, empty_answer, finished, NextTurn, AloneInv, RestFits, SnapshotAt,
              CallFits, monitor, history
<1>5. CASE present
  <2>1. CASE overlapped
    BY <1>5, <2>1 DEF present, AloneInv
  <2>2. CASE ~overlapped
    BY <1>0, <1>5, <2>2, AloneOrchestrator DEF present, AloneInv
  <2>3. QED
    BY <2>1, <2>2
<1>6. ASSUME NEW message \in Reply, user_replies(message) PROVE AloneInv'
  <2> DEFINE event == <<"receive", project_user_message(message)>>
  <2>1. /\ _step(event) /\ UNCHANGED <<calls, overlapped>> /\ calls = <<>>
        /\ phase' \in {"unrecognized", "violated", "incomplete", "agent"}
        /\ event[2] # UNRECOGNIZED /\ AnswerTo(event) = "Violation" => phase' = "violated"
    BY <1>6 DEF user_replies, AloneInv, NextTurn
  <2>2. CASE overlapped
    BY <2>1, <2>2 DEF AloneInv
  <2>3. CASE ~overlapped
    <3>1. ~halted
      BY <1>0, <1>6, <2>3 DEF user_replies
    <3>2. event[2] = UNRECOGNIZED => AnswerTo(event) # "Violation"
      BY DEF AnswerTo, Stepped, After, Verdict
    <3>3. QED
      BY <2>1, <3>1, <3>2, AloneOrchestrator
  <2>4. QED
    BY <2>2, <2>3
<1>7. CASE UNCHANGED vars
  BY <1>7 DEF vars, monitor, history, AloneInv, RestFits, CallFits, SnapshotAt, SnapshotAhead,
              Refused, EventOf, ResultOf
<1>8. QED
  BY <1>1, <1>2, <1>3, <1>4, <1>5, <1>6, <1>7 DEF Next, ToolsStep

-----------------------------------------------------------------------------
(* The tools come to their end                                              *)

\* The steps a thread has before it: two events, each recorded, tested, looked up,
\* assigned and answered, and the tool between them.
Ahead(call) ==
    IF call.pc \in {"refused", "done"} THEN 0
    ELSE (IF call.verb = "send" THEN 6 ELSE 0)
         + CASE call.pc = "append" -> 5 [] call.pc = "test" -> 4 [] call.pc = "look_up" -> 3
             [] call.pc = "assign" -> 2 [] call.pc = "answered" -> 1 [] OTHER -> 0

\* The steps the threads of a message have left, one by one.
Left == {s \in (DOMAIN calls) \X (1..11): s[2] <= Ahead(calls[s[1]])}

\* A thread never has more than eleven.
LEMMA AheadIs == \A call: Ahead(call) \in 0..11
BY DEF Ahead

\* A tool runs between the two events of its call.
RunsAsSent == \A i \in DOMAIN calls: calls[i].pc = "running" => calls[i].verb = "send"

\* What comes of a call that takes a step.
Onward(d, c) ==
    /\ Ahead(d) < Ahead(c)
    /\ d.pc = "running" => d.verb = "send"

\* Every step of a thread brings its call on, whatever the others have made of the
\* monitor in between.
LEMMA ThreadGoesOn ==
    ASSUME TypeOK, RunsAsSent, NEW i \in DOMAIN calls, Thread(i)
    PROVE  \E d \in CallRecord: calls' = [calls EXCEPT ![i] = d] /\ Onward(d, calls[i])
<1>1. PICK c \in CallRecord: c = calls[i]
  BY DEF TypeOK
<1>2. ASSUME NEW next, Move(i, next), c.pc \notin {"refused", "done"},
             \/ c.pc = "append" /\ next = "test"
             \/ c.pc = "test" /\ next = "look_up"
             \/ c.pc = "assign" /\ next = "answered"
             \/ c.pc = "answered" /\ next \in {"refused", "done"}
             \/ c.pc = "answered" /\ c.verb = "send" /\ next = "running"
      PROVE  \E d \in CallRecord: calls' = [calls EXCEPT ![i] = d] /\ Onward(d, calls[i])
  <2>1. DEFINE d == [c EXCEPT !.pc = next]
  <2>2. d \in CallRecord /\ d.pc = next /\ d.verb = c.verb
    BY <1>2 DEF CallRecord
  <2>3. calls' = [calls EXCEPT ![i] = d]
    BY <1>1, <1>2 DEF Move
  <2> HIDE DEF d
  <2>4. Onward(d, c)
    BY <1>2, <2>2 DEF Ahead, Onward
  <2>5. QED
    BY <1>1, <2>2, <2>3, <2>4
<1>3. ASSUME NEW verdict \in {"Ok", "Violation", "Blocked"}, NEW next,
             NEW target \in BookingState, Answer(i, verdict, next, target),
             \/ c.pc = "test" /\ next = "answered"
             \/ c.pc = "look_up" /\ next = "assign"
      PROVE  \E d \in CallRecord: calls' = [calls EXCEPT ![i] = d] /\ Onward(d, calls[i])
  <2>1. DEFINE d == [c EXCEPT !.verdict = verdict, !.pc = next, !.target = target]
  <2>2. d \in CallRecord /\ d.pc = next /\ d.verb = c.verb
    BY <1>3 DEF CallRecord
  <2>3. calls' = [calls EXCEPT ![i] = d]
    BY <1>1, <1>3 DEF Answer
  <2> HIDE DEF d
  <2>4. Onward(d, c)
    BY <1>3, <2>2 DEF Ahead, Onward
  <2>5. QED
    BY <1>1, <2>2, <2>3, <2>4
<1>4. CASE append(i)
  BY <1>1, <1>2, <1>4 DEF append
<1>5. CASE test(i)
  <2>1. c.target \in BookingState /\ c.pc = "test"
    BY <1>1, <1>5 DEF CallRecord, test
  <2>2. CASE Answer(i, "Blocked", "answered", c.target)
    BY <1>3, <2>1, <2>2
  <2>3. CASE Move(i, "look_up")
    BY <1>2, <2>1, <2>3
  <2>4. QED
    BY <1>1, <1>5, <2>2, <2>3 DEF test
<1>6. CASE look_up(i)
  <2>1. c.pc = "look_up" /\ state \in BookingState
    BY <1>1, <1>6 DEF look_up, TypeOK
  <2>2. CASE /\ EventOf(calls[i]) \in DOMAIN Offered(state)
             /\ Answer(i, "Ok", "assign", Offered(state)[EventOf(calls[i])])
    <3>1. Offered(state)[EventOf(calls[i])] \in BookingState
      BY <2>1, <2>2, OneStep
    <3>2. QED
      BY <1>3, <2>1, <2>2, <3>1
  <2>3. CASE Answer(i, "Violation", "assign", state)
    BY <1>3, <2>1, <2>3
  <2>4. QED
    BY <1>6, <2>2, <2>3 DEF look_up
<1>7. CASE assign(i)
  BY <1>1, <1>2, <1>7 DEF assign
<1>8. CASE refuse(i) \/ run_tool(i) \/ finish_call(i)
  BY <1>1, <1>2, <1>8 DEF refuse, run_tool, finish_call
<1>9. CASE tool_returns(i)
  <2>1. DEFINE d == [c EXCEPT !.verb = "receive", !.pc = "append"]
  <2>2. d \in CallRecord /\ d.pc = "append" /\ d.verb = "receive" /\ c.pc = "running"
    BY <1>1, <1>9 DEF CallRecord, tool_returns
  <2>3. calls' = [calls EXCEPT ![i] = d]
    BY <1>1, <1>9 DEF tool_returns
  <2> HIDE DEF d
  <2>4. c.verb = "send"
    BY <1>1, <2>2 DEF RunsAsSent
  <2>5. Onward(d, c)
    BY <2>2, <2>4 DEF Ahead, Onward
  <2>6. QED
    BY <1>1, <2>2, <2>3, <2>5
<1>10. QED
  BY <1>4, <1>5, <1>6, <1>7, <1>8, <1>9 DEF Thread

\* No thread is running a tool for an event it has not asked about.
LEMMA SentStep == ASSUME TypeOK, RunsAsSent, [Next]_vars PROVE RunsAsSent'
<1>1. ASSUME NEW i \in DOMAIN calls, Thread(i) PROVE RunsAsSent'
  <2>1. PICK d \in CallRecord: calls' = [calls EXCEPT ![i] = d] /\ Onward(d, calls[i])
    BY <1>1, ThreadGoesOn
  <2>2. \A j \in DOMAIN calls': j \in DOMAIN calls /\ calls'[j] = IF j = i THEN d ELSE calls[j]
    BY <2>1
  <2>3. QED
    BY <2>1, <2>2 DEF RunsAsSent, Onward
<1>2. CASE join
  BY <1>2 DEF join, RunsAsSent
<1>3. ASSUME NEW n \in 1..MaxCalls, NEW names \in [1..n -> Tool], model_calls(names)
      PROVE  RunsAsSent'
  BY <1>3 DEF model_calls, Call, RunsAsSent
<1>4. CASE UNCHANGED calls
  BY <1>4 DEF RunsAsSent
<1>5. CASE \/ model_answers \/ empty_answer \/ finished \/ present \/ UNCHANGED vars
           \/ \E reply \in Reply: user_replies(reply)
  BY <1>4, <1>5 DEF model_answers, empty_answer, finished, present, user_replies, vars
<1>6. QED
  BY <1>1, <1>2, <1>3, <1>5 DEF Next, ToolsStep

\* What is left is finite, at most eleven steps for each call.
LEMMA LeftIsFinite ==
    ASSUME TypeOK
    PROVE  IsFiniteSet(Left) /\ Cardinality(Left) \in 0..11 * Len(calls)
<1>1. PICK n \in Nat: n = Len(calls) /\ DOMAIN calls = 1..n
  BY DEF TypeOK
<1>2. PICK a \in Int, b \in Int: a = 1 /\ b = 11
  OBVIOUS
<1>3. IsFiniteSet(a..b) /\ Cardinality(a..b) = 11
  <2>1. IsFiniteSet(a..b) /\ Cardinality(a..b) = IF a > b THEN 0 ELSE b - a + 1
    BY FS_Interval
  <2>2. QED
    BY <1>2, <2>1
<1>4. IsFiniteSet(1..n) /\ Cardinality(1..n) = n
  BY FS_Interval
<1>5. IsFiniteSet((1..n) \X (a..b)) /\ Cardinality((1..n) \X (a..b)) = n * 11
  BY <1>3, <1>4, FS_Product
<1>6. PICK rest \in SUBSET ((1..n) \X (a..b)): rest = Left
  BY <1>1, <1>2 DEF Left
<1>7. IsFiniteSet(rest) /\ Cardinality(rest) <= n * 11
  BY <1>5, FS_Subset
<1>8. Cardinality(rest) \in Nat
  BY <1>7, FS_CardinalityType
<1>9. QED
  BY <1>1, <1>6, <1>7, <1>8

\* When one thread goes on, the others have what they had left.
LEMMA FewerLeft ==
    ASSUME TypeOK, NEW i \in DOMAIN calls, NEW d, calls' = [calls EXCEPT ![i] = d],
           Ahead(d) < Ahead(calls[i])
    PROVE  Cardinality(Left') < Cardinality(Left)
<1>1. PICK D, S, T: D = DOMAIN calls /\ S = Left /\ T = Left'
  OBVIOUS
<1>2. DOMAIN calls' = D /\ calls'[i] = d /\ \A j \in D: j # i => calls'[j] = calls[j]
  BY <1>1
<1>3. /\ S = {s \in D \X (1..11): s[2] <= Ahead(calls[s[1]])}
      /\ T = {s \in D \X (1..11): s[2] <= Ahead(calls'[s[1]])}
  BY <1>1, <1>2 DEF Left
<1>4. PICK a \in 0..11, b \in 0..11: a = Ahead(d) /\ b = Ahead(calls[i])
  BY AheadIs
<1>5. a < b /\ b \in 1..11
  BY <1>4
<1>6. ASSUME NEW s \in T PROVE s \in S
  <2>1. s[1] \in D /\ s[2] \in 1..11 /\ s[2] <= Ahead(calls'[s[1]]) /\ s \in D \X (1..11)
    BY <1>3
  <2>2. CASE s[1] = i
    <3>1. s[2] <= b
      BY <1>2, <1>4, <1>5, <2>1, <2>2
    <3>2. QED
      BY <1>3, <1>4, <2>1, <2>2, <3>1
  <2>3. CASE s[1] # i
    BY <1>2, <1>3, <2>1, <2>3
  <2>4. QED
    BY <2>2, <2>3
<1>7. <<i, b>> \in S /\ <<i, b>> \notin T
  <2>1. i \in D /\ ~(b <= a)
    BY <1>1, <1>5
  <2>2. QED
    BY <1>2, <1>3, <1>4, <1>5, <2>1
<1>8. IsFiniteSet(S) /\ T \in SUBSET S
  BY <1>1, <1>6, LeftIsFinite
<1>9. /\ IsFiniteSet(T) /\ Cardinality(T) <= Cardinality(S)
      /\ Cardinality(S) = Cardinality(T) => S = T
  BY <1>8, FS_Subset
<1>10. Cardinality(S) \in Nat /\ Cardinality(T) \in Nat /\ Cardinality(S) # Cardinality(T)
  BY <1>7, <1>8, <1>9, FS_CardinalityType
<1>11. QED
  BY <1>1, <1>9, <1>10

-----------------------------------------------------------------------------
(* Theorems                                                                 *)

\* What every thread has read and will assign was earned, in every run of
\* run_with_middleware.
THEOREM InvariantHolds == Spec => []IInv
BY InitInv, NextInv, PTL DEF Spec

\* Every variable of the middleware, its threads and its orchestrator keeps its
\* type (_step and wrap_tool_call).
THEOREM EnforcingTypeCorrect == Spec => []TypeOK
<1>1. IInv => TypeOK
  BY DEF IInv
<1>2. QED
  BY <1>1, InvariantHolds, PTL

\* With any number of tool calls in a message, in any interleaving of their threads
\* on the unlocked monitor (Monitor._step), the monitor stands only where accepted
\* events lead, and a run that ends "ok" had the user's approval before it booked.
THEOREM RacesEarnNothing == Spec => []StateIsEarned
<1>1. IInv => StateIsEarned
  BY DEF IInv
<1>2. QED
  BY <1>1, InvariantHolds, PTL

\* No refused tool call leaves the monitor halted, with any number of parallel calls:
\* the refusal that clears the flag always comes after the Violation that set it
\* (the "fail-soft" comment in wrap_tool_call).
THEOREM OnlyOthersHalt == Spec => []HaltHasReason
<1>1. Init => HaltInv
  BY DEF Init, HaltInv
<1>2. HaltInv => HaltHasReason
  BY DEF HaltInv, HaltHasReason, AtRest
<1>3. QED
  BY <1>1, <1>2, HaltNext, EnforcingTypeCorrect, PTL DEF Spec

\* There is no call at first, and nothing refused.
LEMMA AloneInit == Init => AloneInv
<1>1. Init => calls = <<>> /\ ~halted /\ state = 0 /\ furthest = 0 /\ refused = {}
              /\ trace.state = 0 /\ ~trace.halted /\ Len(calls) = 0
  BY NewMonitorIs DEF Init
<1>2. QED
  BY <1>1 DEF AloneInv, RestFits, SnapshotAt

\* What holds of a call alone holds until calls overlap.
LEMMA AloneHolds == ASSUME NamesApart PROVE Spec => []AloneInv
<1>1. NamesApart
  OBVIOUS
<1>2. AloneInv /\ TypeOK /\ [Next]_vars => AloneInv'
  BY <1>1, AloneNext
<1>3. QED
  BY <1>2, AloneInit, EnforcingTypeCorrect, PTL DEF Spec

\* For every set of tools whose names are not those of the protocol's events the
\* middleware enforces the protocol, as long as each message has one tool call: a tool
\* runs on an Ok only and the monitor stands where the accepted events lead.
THEOREM OneByOneEnforces == ASSUME NamesApart PROVE Spec => []EnforcedOneByOne
<1>1. AloneInv /\ TypeOK => EnforcedOneByOne
  <2> SUFFICES ASSUME AloneInv, TypeOK, ~overlapped
               PROVE  ToolsRunOnlyIfAccepted /\ (AtRest => state = furthest)
    BY DEF EnforcedOneByOne
  <2>1. AtRest => state = furthest
    BY DEF AloneInv, RestFits, AtRest
  <2>2. ASSUME NEW i \in DOMAIN calls, calls[i].pc = "running" PROVE calls[i].verdict = "Ok"
    BY <2>2, AloneCall DEF CallFits
  <2>3. QED
    BY <2>1, <2>2 DEF ToolsRunOnlyIfAccepted
<1>2. QED
  BY <1>1, AloneHolds, EnforcingTypeCorrect, PTL

\* Under the same condition a trace restores the monitor until the first refusal only,
\* unlike the comment beside Monitor._trace says, and from then on a halted one that
\* stands where the refusal was.
THEOREM SnapshotsKeepRefusals == ASSUME NamesApart PROVE Spec => []RefusalSurvivesSnapshot
<1>1. AloneInv => RefusalSurvivesSnapshot
  BY DEF AloneInv, RestFits, SnapshotAt, RefusalSurvivesSnapshot, AtRest
<1>2. QED
  BY <1>1, AloneHolds, PTL

\* While a message's calls run, every step is one of their threads and leaves fewer, for any
\* number of threads on the unlocked monitor and whether calls are accepted, refused or
\* let through halted: what ToolsEnd needs besides that threads run.
THEOREM ToolsStepShrinks ==
    Spec => [][phase = "tools" /\ phase' = "tools" => Cardinality(Left') < Cardinality(Left)]_vars
<1>1. ASSUME TypeOK, RunsAsSent, Next, phase = "tools", phase' = "tools"
      PROVE  Cardinality(Left') < Cardinality(Left)
  <2>1. PICK i \in DOMAIN calls: Thread(i)
    BY <1>1 DEF Next, ToolsStep, join, model_calls, model_answers, empty_answer, finished,
                present, user_replies
  <2>2. PICK d \in CallRecord: calls' = [calls EXCEPT ![i] = d] /\ Onward(d, calls[i])
    BY <1>1, <2>1, ThreadGoesOn
  <2>3. QED
    BY <1>1, <2>2, FewerLeft DEF Onward
<1>2. TypeOK /\ RunsAsSent /\ [Next]_vars =>
         [phase = "tools" /\ phase' = "tools" => Cardinality(Left') < Cardinality(Left)]_vars
  BY <1>1
<1>3. Init => RunsAsSent
  BY DEF Init, RunsAsSent
<1>4. TypeOK /\ RunsAsSent /\ [Next]_vars => RunsAsSent'
  BY SentStep
<1>5. QED
  BY <1>2, <1>3, <1>4, EnforcingTypeCorrect, PTL DEF Spec

\* The calls of a message are over after at most eleven steps for each.
THEOREM ToolsStepIsShort == Spec => [](Cardinality(Left) \in 0..11 * Len(calls))
<1>1. TypeOK => Cardinality(Left) \in 0..11 * Len(calls)
  BY LeftIsFinite
<1>2. QED
  BY <1>1, EnforcingTypeCorrect, PTL

=============================================================================
