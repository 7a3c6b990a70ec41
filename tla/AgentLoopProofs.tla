-------------------------- MODULE AgentLoopProofs --------------------------
(***************************************************************************)
(* The wrappers of the integration layer, for every protocol, response and *)
(* tool: nothing is begun under a halted monitor, no verdict is lost, and  *)
(* the results process returns are results the monitor has accepted.       *)
(***************************************************************************)
EXTENDS AgentLoop, MonitorProofs, SequenceTheorems

-----------------------------------------------------------------------------
(* The inductive invariant, in parts                                        *)

\* The loop has one process with one monitor, whose history stands beside its
\* trace; a tool that runs has a call it runs for.
Looping ==
    /\ LoopTypeOK
    /\ mode = "live"
    /\ Len(past) = Len(trace) + 1
    /\ pc = "tool" => Len(results) < Len(batch)

\* The k-th call of the batch and its result are the k-th pair of events behind the
\* n-th, and the monitor accepted both.
Answered(n, k) ==
    /\ trace[n + 2 * k - 1] = <<"receive", recv_label[batch[k]]>>
    /\ trace[n + 2 * k][1] = "send" /\ trace[n + 2 * k][2] \in result_label[batch[k]]
    /\ past[n + 2 * k].result = "Ok" /\ past[n + 2 * k + 1].result = "Ok"

\* The events of process so far: a pair for each result, and under a tool the call.
Accounted ==
    /\ pc = "process" =>
          /\ Len(trace) >= 2 * Len(results)
          /\ \A k \in 1..Len(results): Answered(Len(trace) - 2 * Len(results), k)
    /\ pc = "tool" =>
          /\ Len(trace) >= 2 * Len(results) + 1
          /\ \A k \in 1..Len(results): Answered(Len(trace) - 1 - 2 * Len(results), k)
          /\ trace[Len(trace)] = <<"receive", recv_label[Current]>>
          /\ past[Len(past)].result = "Ok"

LoopInv == Looping /\ NothingSwallowed /\ Accounted

-----------------------------------------------------------------------------
(* No work under a halt                                                     *)

\* An event a wrapper reports to a halted monitor is answered Blocked and leaves it
\* halted (the guard at the head of Monitor._step).
LEMMA HaltedBlocks ==
  ASSUME halted, NEW direction, NEW label, Observe(direction, label)
  PROVE  result' = "Blocked" /\ halted'
<1>1. Verdict(release, current_state, halted, <<direction, label>>) = "Blocked"
  BY DEF Verdict
<1>2. result' = "Blocked"
  BY <1>1 DEF Observe
<1>3. halted' = After(release, current_state, halted, <<direction, label>>).halted
  BY DEF Observe, _step
<1>4. halted'
  BY <1>3 DEF After
<1>5. QED
  BY <1>2, <1>4

\* While the monitor stays halted no LLM call and no tool begins, whatever the loop
\* calls (MonitoredClient.call, ToolMiddleware.execute).
THEOREM NoWorkAfterHalt == LoopSpec => HaltStopsWork
<1>1. ASSUME [LoopNext]_allVars, halted, halted'
      PROVE  worked' = worked
  <2>1. ASSUME NEW label, call(label)
        PROVE  worked' = worked
    BY <1>1, <2>1, HaltedBlocks DEF call, Checked
  <2>2. ASSUME NEW r, llm_call_returns(r)
        PROVE  worked' = worked
    BY <1>1, <2>2, HaltedBlocks DEF llm_call_returns, Checked
  <2>3. CASE llm_call_raises \/ tool_raises
    BY <2>3 DEF llm_call_raises, tool_raises, Raise
  <2>4. CASE process \/ process_returns
    BY <2>4 DEF process, process_returns
  <2>5. CASE execute
    BY <1>1, <2>5, HaltedBlocks DEF execute, Checked, Raise
  <2>6. CASE tool_returns
    BY <1>1, <2>6, HaltedBlocks DEF tool_returns, Checked
  <2>7. ASSUME NEW label, report(label)
        PROVE  worked' = worked
    BY <2>7 DEF report
  <2>8. CASE start_over
    BY <1>1, <2>8 DEF start_over, reset, BecomeFresh
  <2>9. CASE UNCHANGED allVars
    BY <2>9 DEF allVars, loopVars
  <2>10. ASSUME NEW name, register(name)
         PROVE  worked' = worked
    BY <2>10 DEF register
  <2>11. QED
    BY <1>1, <2>1, <2>2, <2>3, <2>4, <2>5, <2>6, <2>7, <2>8, <2>9, <2>10 DEF LoopNext
<1>2. QED
  BY <1>1, PTL DEF LoopSpec, HaltStopsWork

-----------------------------------------------------------------------------
(* What the wrappers' events do to the monitor                              *)

\* A trace entry was not accepted.
Refusal == \E i \in DOMAIN trace: past[i + 1].result # "Ok"

\* An event is appended to the trace, and its verdict to the history (_step).
LEMMA Observed ==
    ASSUME Looping, NEW d \in Direction, NEW label \in Label, Observe(d, label)
    PROVE  /\ TypeOK' /\ mode' = "live"
           /\ Len(trace') = Len(trace) + 1 /\ Len(past') = Len(trace') + 1
           /\ \A i \in 1..Len(trace): trace'[i] = trace[i] /\ past'[i] = past[i]
           /\ past'[Len(trace) + 1] = past[Len(trace) + 1]
           /\ trace'[Len(trace) + 1] = <<d, label>>
           /\ past'[Len(trace) + 2].result = result'
           /\ Refusal' <=> (Refusal \/ result' # "Ok")
<1> DEFINE e == <<d, label>>
<1> DEFINE next == After(release, current_state, halted, e)
<1>1. TypeOK /\ mode = "live" /\ Len(past) = Len(trace) + 1
  BY DEF Looping, LoopTypeOK
<1>2. e \in Event
  BY DEF Event
<1>3. next \in Config
  BY <1>1, <1>2, AfterType DEF TypeOK
<1>4. /\ trace' = Append(trace, e) /\ past' = Append(past, next)
      /\ current_state' = next.state /\ halted' = next.halted
      /\ result' = Verdict(release, current_state, halted, e)
      /\ UNCHANGED <<mode, release, snapshot, saved, crashes>>
  BY DEF Observe, _step, disk
<1>5. next.result = result'
  BY <1>4 DEF After
<1>6. result' \in Verdicts
  BY <1>3, <1>5 DEF Config
<1> HIDE DEF next, e
<1>7. trace \in Seq(Event) /\ past \in Seq(Config) /\ Len(trace) \in Nat
  BY <1>1 DEF TypeOK
<1>8. trace' \in Seq(Event) /\ past' \in Seq(Config)
  BY <1>2, <1>3, <1>4, <1>7
<1>9. TypeOK'
  <2>1. current_state' \in State /\ halted' \in BOOLEAN
    BY <1>3, <1>4 DEF Config
  <2>2. QED
    BY <1>1, <1>4, <1>6, <1>8, <2>1 DEF TypeOK
<1>10. /\ Len(trace') = Len(trace) + 1 /\ Len(past') = Len(trace') + 1
       /\ \A i \in 1..Len(trace): trace'[i] = trace[i] /\ past'[i] = past[i]
       /\ past'[Len(trace) + 1] = past[Len(trace) + 1]
       /\ trace'[Len(trace) + 1] = e
       /\ past'[Len(trace) + 2] = next
  BY <1>1, <1>2, <1>3, <1>4, <1>7
<1>11. Refusal' <=> (Refusal \/ result' # "Ok")
  <2>1. DOMAIN trace = 1..Len(trace) /\ DOMAIN trace' = 1..(Len(trace) + 1)
    BY <1>7, <1>8, <1>10
  <2>2. \A i \in 1..Len(trace): past'[i + 1] = past[i + 1]
    BY <1>7, <1>10
  <2>3. past'[(Len(trace) + 1) + 1].result = result'
    BY <1>5, <1>7, <1>10
  <2>4. \A i \in 1..(Len(trace) + 1): i \in 1..Len(trace) \/ i = Len(trace) + 1
    BY <1>7
  <2>5. Len(trace) + 1 \in 1..(Len(trace) + 1) /\ 1..Len(trace) \subseteq 1..(Len(trace) + 1)
    BY <1>7
  <2>6. QED
    BY <2>1, <2>2, <2>3, <2>4, <2>5 DEF Refusal
<1>12. QED
  BY <1>1, <1>4, <1>5, <1>9, <1>10, <1>11 DEF e

-----------------------------------------------------------------------------
(* The invariant is inductive                                               *)

\* Nothing has happened in a new loop (MonitoredClient and ToolMiddleware, __init__).
LEMMA InitLoopInv == LoopInit => LoopInv
<1> SUFFICES ASSUME LoopInit PROVE LoopInv
  OBVIOUS
<1>1. Fresh(release) \in Config
  BY FreshType DEF LoopInit, Init
<1>2. /\ past = <<Fresh(release)>> /\ trace = <<>> /\ snapshot = <<>>
      /\ saved = [past |-> past, release |-> release] /\ release \in Release
      /\ batch = <<>> /\ results = <<>> /\ pc = "idle" /\ mode = "live"
  BY DEF LoopInit, Init
<1>3. past \in Seq(Config) /\ Len(past) = Len(trace) + 1
  BY <1>1, <1>2
<1>4. TypeOK
  <2>1. trace \in Seq(Event) /\ snapshot \in Seq(Event \cup {Malformed})
    BY <1>2
  <2>2. saved \in [past : Seq(Config), release : Release]
    BY <1>2, <1>3
  <2>3. current_state \in State /\ halted \in BOOLEAN /\ result \in Verdicts /\ crashes \in Nat
    BY <1>1 DEF LoopInit, Init, Config, Verdicts
  <2>4. QED
    BY <1>2, <1>3, <2>1, <2>2, <2>3 DEF TypeOK
<1>5. batch \in Seq(Tool) /\ Len(results) = 0 /\ Len(batch) = 0 /\ results = SubSeq(batch, 1, 0)
  BY <1>2
<1>6. Looping
  <2>1. worked \in 0..Len(trace) /\ tools \subseteq Tool
    BY <1>2, LoopAssumption DEF LoopInit
  <2>2. /\ response \in Response \cup {None} /\ outcome \in {"none", "returned"}
        /\ objected \in BOOLEAN /\ ignored \in BOOLEAN
    BY DEF LoopInit
  <2>3. Len(results) <= Len(batch) /\ results = SubSeq(batch, 1, Len(results))
    BY <1>5
  <2>4. LoopTypeOK
    BY <1>2, <1>4, <1>5, <2>1, <2>2, <2>3 DEF LoopTypeOK
  <2>5. QED
    BY <1>2, <1>3, <2>4 DEF Looping
<1>7. NothingSwallowed
  BY <1>2 DEF LoopInit, NothingSwallowed
<1>8. QED
  BY <1>2, <1>6, <1>7 DEF LoopInv, Accounted

\* Without an event the monitor, its history and what they say stay.
LEMMA Unobserved ==
    ASSUME Looping, UNCHANGED monitor
    PROVE  /\ TypeOK' /\ mode' = "live" /\ Len(past') = Len(trace') + 1
           /\ UNCHANGED <<trace, past>> /\ Refusal' = Refusal
  BY DEF monitor, object, disk, Looping, LoopTypeOK, TypeOK, Refusal

\* An exception leaves the loop idle, with no batch (the raise of a wrapper, of the
\* LLM or of a tool).
LEMMA Stopped ==
    ASSUME Looping, TypeOK', mode' = "live", Len(past') = Len(trace') + 1,
           Len(trace') \in Nat, Len(trace') >= Len(trace),
           pc' = "idle", batch' = <<>>, results' = <<>>,
           outcome' \in {"ProtocolViolationError", "ValueError", "ToolError", "LlmError"},
           objected' \in BOOLEAN, UNCHANGED <<tools, response, ignored, worked>>
    PROVE  Looping' /\ Accounted'
<1>1. /\ response' \in Response \cup {None} /\ tools' \subseteq Tool
      /\ ignored' \in BOOLEAN /\ worked' \in 0..Len(trace')
  <2>1. Len(trace) \in Nat /\ worked \in 0..Len(trace)
    BY DEF Looping, LoopTypeOK, TypeOK
  <2>2. QED
    BY <2>1 DEF Looping, LoopTypeOK
<1>2. /\ batch' \in Seq(Tool) /\ Len(results') = 0 /\ Len(batch') = 0
      /\ results' = SubSeq(batch', 1, 0)
  BY SMT
<1>3. LoopTypeOK'
  BY <1>1, <1>2 DEF LoopTypeOK
<1>4. QED
  BY <1>3 DEF Looping, Accounted

\* A verdict that is not Ok raises ProtocolViolationError.
LEMMA Objected ==
    ASSUME LoopInv, NEW d \in Direction, NEW label \in Label, Observe(d, label), result' # "Ok",
           pc' = "idle", batch' = <<>>, results' = <<>>,
           outcome' = "ProtocolViolationError", objected' = TRUE,
           UNCHANGED <<tools, response, ignored, worked>>
    PROVE  LoopInv'
<1>1. /\ TypeOK' /\ mode' = "live" /\ Len(trace') = Len(trace) + 1 /\ Len(past') = Len(trace') + 1
      /\ Refusal'
  BY Observed DEF LoopInv
<1>2. Len(trace) \in Nat
  BY DEF LoopInv, Looping, LoopTypeOK, TypeOK
<1>3. Looping' /\ Accounted'
  <2>1. Len(trace') \in Nat /\ Len(trace') >= Len(trace) /\ objected' \in BOOLEAN
    BY <1>1, <1>2
  <2>2. outcome' \in {"ProtocolViolationError", "ValueError", "ToolError", "LlmError"}
    OBVIOUS
  <2>3. QED
    BY <1>1, <2>1, <2>2, Stopped DEF LoopInv
<1>4. NothingSwallowed'
  BY <1>1 DEF NothingSwallowed, Refusal
<1>5. QED
  BY <1>3, <1>4 DEF LoopInv

\* Any other exception comes without an event.
LEMMA Raised ==
    ASSUME LoopInv, NEW error \in {"ValueError", "ToolError", "LlmError"}, Raise(error)
    PROVE  LoopInv'
<1>1. UNCHANGED monitor
  BY DEF Raise
<1>2. /\ TypeOK' /\ mode' = "live" /\ Len(past') = Len(trace') + 1
      /\ UNCHANGED <<trace, past>> /\ Refusal' = Refusal
  BY <1>1, Unobserved DEF LoopInv
<1>3. Looping' /\ Accounted'
  <2>1. Len(trace') \in Nat /\ Len(trace') >= Len(trace)
    BY <1>2 DEF TypeOK
  <2>2. objected' \in BOOLEAN
    BY DEF Raise, LoopInv, Looping, LoopTypeOK
  <2>3. QED
    BY <1>2, <2>1, <2>2, Stopped DEF Raise, LoopInv
<1>4. NothingSwallowed'
  BY <1>2 DEF Raise, LoopInv, NothingSwallowed, Refusal
<1>5. QED
  BY <1>3, <1>4 DEF LoopInv

\* A verdict of Ok leaves what was refused as it was.
LEMMA NotSwallowed ==
    ASSUME LoopInv, NEW d \in Direction, NEW label \in Label, Observe(d, label), result' = "Ok",
           UNCHANGED <<objected, ignored>>
    PROVE  NothingSwallowed'
<1>1. Refusal' <=> Refusal
  BY Observed DEF LoopInv
<1>2. (objected \/ ignored) <=> Refusal
  BY DEF LoopInv, NothingSwallowed, Refusal
<1>3. (objected' \/ ignored') <=> Refusal'
  BY <1>1, <1>2
<1>4. QED
  BY <1>3 DEF NothingSwallowed, Refusal

\* What was answered stays answered: events only follow it.
LEMMA AnsweredStays ==
    ASSUME Looping, NEW d \in Direction, NEW label \in Label, Observe(d, label), batch' = batch,
           NEW n \in Nat, NEW k \in Nat \ {0}, n + 2 * k \in 1..Len(trace), Answered(n, k)
    PROVE  Answered(n, k)'
<1>1. \A i \in 1..Len(trace): trace'[i] = trace[i] /\ past'[i] = past[i]
  BY Observed
<1>2. past'[Len(trace) + 1] = past[Len(trace) + 1] /\ Len(trace) \in Nat
  BY Observed DEF Looping, LoopTypeOK, TypeOK
<1>3. n + 2 * k - 1 \in 1..Len(trace)
  BY <1>2
<1>4. n + 2 * k + 1 \in 1..Len(trace) \/ n + 2 * k + 1 = Len(trace) + 1
  BY <1>2
<1>5. past'[n + 2 * k + 1] = past[n + 2 * k + 1]
  BY <1>1, <1>2, <1>4
<1>6. /\ trace'[n + 2 * k - 1] = trace[n + 2 * k - 1] /\ trace'[n + 2 * k] = trace[n + 2 * k]
      /\ past'[n + 2 * k] = past[n + 2 * k]
  BY <1>1, <1>3
<1>7. QED
  BY <1>5, <1>6 DEF Answered

\* Each operation of the two wrappers and the loop keeps the invariant.
LEMMA NextLoopInv == LoopInv /\ [LoopNext]_allVars => LoopInv'
<1> SUFFICES ASSUME LoopInv, [LoopNext]_allVars PROVE LoopInv'
  OBVIOUS
<1> Looping /\ Len(trace) \in Nat /\ Len(results) \in Nat /\ Len(batch) \in Nat
  BY DEF LoopInv, Looping, LoopTypeOK, TypeOK
<1>1. ASSUME NEW label \in SendLabel, call(label) PROVE LoopInv'
  <2>1. label \in Label /\ "send" \in Direction /\ Observe("send", label)
    BY <1>1, LoopAssumption DEF call, Checked, Direction
  <2>2. CASE result' = "Ok"
    <3>1. /\ TypeOK' /\ mode' = "live" /\ Len(trace') = Len(trace) + 1 /\ Len(past') = Len(trace') + 1
      BY <2>1, Observed
    <3>2. /\ pc' = "llm_call" /\ worked' = worked + 1
          /\ UNCHANGED <<tools, response, batch, results, outcome, objected, ignored>>
      BY <1>1, <2>2 DEF call, Checked, Ask
    <3>3. worked' \in 0..Len(trace')
      BY <3>1, <3>2 DEF Looping, LoopTypeOK
    <3>4. Looping' /\ Accounted'
      BY <3>1, <3>2, <3>3 DEF Looping, LoopTypeOK, Accounted
    <3>5. NothingSwallowed'
      BY <2>1, <2>2, <3>2, NotSwallowed
    <3>6. QED
      BY <3>4, <3>5 DEF LoopInv
  <2>3. CASE result' # "Ok"
    BY <1>1, <2>1, <2>3, Objected DEF call, Checked
  <2>4. QED
    BY <2>2, <2>3
<1>2. ASSUME NEW r \in Response, llm_call_returns(r) PROVE LoopInv'
  <2>1. r.label \in Label /\ "receive" \in Direction /\ Observe("receive", r.label)
    BY <1>2, LoopAssumption DEF llm_call_returns, Checked, Direction
  <2>2. CASE result' = "Ok"
    <3>1. /\ TypeOK' /\ mode' = "live" /\ Len(trace') = Len(trace) + 1 /\ Len(past') = Len(trace') + 1
      BY <2>1, Observed
    <3>2. /\ pc' = "idle" /\ response' = r /\ outcome' = "returned"
          /\ UNCHANGED <<tools, batch, results, objected, ignored, worked>>
      BY <1>2, <2>2 DEF llm_call_returns, Checked
    <3>3. worked' \in 0..Len(trace')
      BY <3>1, <3>2 DEF Looping, LoopTypeOK
    <3>4. Looping' /\ Accounted'
      BY <3>1, <3>2, <3>3 DEF Looping, LoopTypeOK, Accounted
    <3>5. NothingSwallowed'
      BY <2>1, <2>2, <3>2, NotSwallowed
    <3>6. QED
      BY <3>4, <3>5 DEF LoopInv
  <2>3. CASE result' # "Ok"
    BY <1>2, <2>1, <2>3, Objected DEF llm_call_returns, Checked
  <2>4. QED
    BY <2>2, <2>3
<1>3. CASE llm_call_raises \/ tool_raises
  BY <1>3, Raised DEF llm_call_raises, tool_raises
<1>4. ASSUME NEW name \in Tool, register(name) PROVE LoopInv'
  <2>1. /\ tools' = tools \cup {name}
        /\ UNCHANGED <<monitor, pc, response, batch, results, outcome, objected, ignored, worked>>
    BY <1>4 DEF register
  <2>2. /\ TypeOK' /\ mode' = "live" /\ Len(past') = Len(trace') + 1
        /\ UNCHANGED <<trace, past>> /\ Refusal' = Refusal
    BY <2>1, Unobserved
  <2>3. QED
    BY <2>1, <2>2
    DEF LoopInv, Looping, LoopTypeOK, Current, NothingSwallowed, Refusal, Accounted, Answered
<1>5. CASE process
  <2>1. /\ response \in Response /\ pc' = "process" /\ batch' = response.tool_calls /\ results' = <<>>
        /\ UNCHANGED <<tools, monitor, response, outcome, objected, ignored, worked>>
    BY <1>5 DEF process, Looping, LoopTypeOK
  <2>2. /\ TypeOK' /\ mode' = "live" /\ Len(past') = Len(trace') + 1
        /\ UNCHANGED <<trace, past>> /\ Refusal' = Refusal
    BY <2>1, Unobserved
  <2>3. /\ batch' \in Seq(Tool) /\ Len(results') = 0 /\ Len(batch') >= 0
        /\ results' = SubSeq(batch', 1, 0)
    BY <2>1, LoopAssumption
  <2>4. Looping'
    BY <2>1, <2>2, <2>3 DEF Looping, LoopTypeOK
  <2>5. Accounted'
    BY <2>1, <2>2, <2>3 DEF Accounted
  <2>6. NothingSwallowed'
    BY <2>1, <2>2 DEF LoopInv, NothingSwallowed, Refusal
  <2>7. QED
    BY <2>4, <2>5, <2>6 DEF LoopInv
<1>6. CASE execute
  <2>1. pc = "process" /\ Len(results) < Len(batch) /\ Current \in Tool
    BY <1>6 DEF execute, Current, Looping, LoopTypeOK
  <2>2. CASE Current \notin tools
    BY <1>6, <2>2, Raised DEF execute
  <2>3. CASE Current \in tools
    <3> DEFINE label == recv_label[Current]
    <3>1. label \in Label /\ "receive" \in Direction /\ Observe("receive", label)
      BY <1>6, <2>1, <2>3, LoopAssumption DEF execute, Checked, Direction
    <3>2. CASE result' = "Ok"
      <4>1. /\ TypeOK' /\ mode' = "live" /\ Len(trace') = Len(trace) + 1 /\ Len(past') = Len(trace') + 1
            /\ \A i \in 1..Len(trace): trace'[i] = trace[i] /\ past'[i] = past[i]
            /\ past'[Len(trace) + 1] = past[Len(trace) + 1]
            /\ trace'[Len(trace) + 1] = <<"receive", label>>
            /\ past'[Len(trace) + 2].result = "Ok"
        BY <3>1, <3>2, Observed
      <4>2. /\ pc' = "tool" /\ worked' = worked + 1 /\ Current' = Current
            /\ UNCHANGED <<tools, response, batch, results, outcome, objected, ignored>>
        BY <1>6, <2>3, <3>2 DEF execute, Checked, Current, Raise
      <4>3. worked' \in 0..Len(trace')
        BY <4>1, <4>2 DEF Looping, LoopTypeOK
      <4>4. Looping'
        BY <2>1, <2>3, <4>1, <4>2, <4>3 DEF Looping, LoopTypeOK
      <4>5. PICK n \in Nat: n = Len(trace) - 2 * Len(results)
        <5>1. Len(trace) >= 2 * Len(results)
          BY <2>1 DEF LoopInv, Accounted
        <5>2. Len(trace) - 2 * Len(results) \in Nat
          BY <5>1
        <5>3. QED
          BY <5>2
      <4>6. ASSUME NEW k \in 1..Len(results) PROVE Answered(n, k)'
        <5>1. Answered(n, k)
          BY <2>1, <4>5 DEF LoopInv, Accounted
        <5>2. n + 2 * k \in 1..Len(trace)
          BY <4>5
        <5>3. batch' = batch
          BY <4>2
        <5>4. QED
          BY <3>1, <5>1, <5>2, <5>3, AnsweredStays
      <4>7. Accounted'
        <5>1. Len(trace') - 1 - 2 * Len(results') = n /\ Len(trace') >= 2 * Len(results') + 1
          BY <4>1, <4>2, <4>5
        <5>2. \A k \in 1..Len(results'): Answered(Len(trace) - 1 - 2 * Len(results), k)'
          BY <4>2, <4>6, <5>1 DEF Answered
        <5>3. /\ trace'[Len(trace')] = <<"receive", recv_label[Current']>>
              /\ past'[Len(past')].result = "Ok"
          BY <4>1, <4>2
        <5>4. QED
          BY <4>2, <5>1, <5>2, <5>3 DEF Accounted
      <4>8. NothingSwallowed'
        BY <3>1, <3>2, <4>2, NotSwallowed
      <4>9. QED
        BY <4>4, <4>7, <4>8 DEF LoopInv
    <3>3. CASE result' # "Ok"
      BY <1>6, <2>3, <3>1, <3>3, Objected DEF execute, Checked
    <3>4. QED
      BY <3>2, <3>3
  <2>4. QED
    BY <2>2, <2>3
<1>7. CASE tool_returns
  <2>1. pc = "tool" /\ Len(results) < Len(batch) /\ Current \in Tool
    BY <1>7 DEF tool_returns, Looping, LoopTypeOK
  <2>2. PICK label \in result_label[Current]:
          Checked("send", label,
                  /\ pc' = "process" /\ results' = Append(results, Current)
                  /\ UNCHANGED <<tools, response, batch, outcome, objected, ignored, worked>>)
    BY <1>7 DEF tool_returns
  <2>3. label \in Label /\ "send" \in Direction /\ Observe("send", label)
    BY <2>1, <2>2, LoopAssumption DEF Checked, Direction
  <2>4. CASE result' = "Ok"
    <3>1. /\ TypeOK' /\ mode' = "live" /\ Len(trace') = Len(trace) + 1 /\ Len(past') = Len(trace') + 1
          /\ \A i \in 1..Len(trace): trace'[i] = trace[i] /\ past'[i] = past[i]
          /\ past'[Len(trace) + 1] = past[Len(trace) + 1]
          /\ trace'[Len(trace) + 1] = <<"send", label>>
          /\ past'[Len(trace) + 2].result = "Ok"
      BY <2>3, <2>4, Observed
    <3>2. /\ pc' = "process" /\ results' = Append(results, Current)
          /\ UNCHANGED <<tools, response, batch, outcome, objected, ignored, worked>>
      BY <2>2, <2>4 DEF Checked
    <3>3. worked' \in 0..Len(trace')
      BY <3>1, <3>2 DEF Looping, LoopTypeOK
    <3>4. Len(results') = Len(results) + 1 /\ results' = SubSeq(batch, 1, Len(results'))
      <4>1. batch \in Seq(Tool) /\ results = SubSeq(batch, 1, Len(results))
        BY DEF Looping, LoopTypeOK
      <4>2. results \in Seq(Tool)
        BY <2>1, <4>1
      <4>3. Len(results') = Len(results) + 1
        BY <2>1, <3>2, <4>2
      <4>4. SubSeq(batch, 1, Len(results) + 1)
              = Append(SubSeq(batch, 1, Len(results)), batch[Len(results) + 1])
        BY <2>1, <4>1
      <4>5. QED
        BY <3>2, <4>1, <4>3, <4>4 DEF Current
    <3>5. Looping'
      BY <2>1, <3>1, <3>2, <3>3, <3>4 DEF Looping, LoopTypeOK
    <3>6. PICK n \in Nat: n = Len(trace) - 1 - 2 * Len(results)
      <4>1. Len(trace) >= 2 * Len(results) + 1
        BY <2>1 DEF LoopInv, Accounted
      <4>2. Len(trace) - 1 - 2 * Len(results) \in Nat
        BY <4>1
      <4>3. QED
        BY <4>2
    <3>7. ASSUME NEW k \in 1..Len(results) PROVE Answered(n, k)'
      <4>1. Answered(n, k)
        BY <2>1, <3>6 DEF LoopInv, Accounted
      <4>2. n + 2 * k \in 1..Len(trace)
        BY <3>6
      <4>3. batch' = batch
        BY <3>2
      <4>4. QED
        BY <2>3, <4>1, <4>2, <4>3, AnsweredStays
    <3>8. PICK m \in Nat: m = Len(results) + 1
      OBVIOUS
    <3>9. Answered(n, m)'
      <4>1. n + 2 * m - 1 = Len(trace) /\ n + 2 * m = Len(trace) + 1
        BY <3>6, <3>8
      <4>2. trace[Len(trace)] = <<"receive", recv_label[Current]>> /\ past[Len(past)].result = "Ok"
        BY <2>1 DEF LoopInv, Accounted
      <4>3. Len(trace) \in 1..Len(trace) /\ Len(past) = Len(trace) + 1
        BY <4>1, <3>6, <3>8 DEF Looping
      <4>4. trace'[n + 2 * m - 1] = <<"receive", recv_label[batch[m]]>>
        BY <3>1, <3>8, <4>1, <4>2, <4>3 DEF Current
      <4>5. trace'[n + 2 * m] = <<"send", label>> /\ label \in result_label[batch[m]]
        BY <2>2, <3>1, <3>8, <4>1 DEF Current
      <4>6. past'[n + 2 * m].result = "Ok"
        BY <3>1, <4>1, <4>2, <4>3
      <4>7. past'[n + 2 * m + 1].result = "Ok"
        <5>1. n + 2 * m + 1 = Len(trace) + 2
          BY <4>1
        <5>2. QED
          BY <3>1, <5>1
      <4>8. QED
        BY <3>2, <4>4, <4>5, <4>6, <4>7 DEF Answered
    <3>10. Accounted'
      <4>1. Len(trace') - 2 * Len(results') = n /\ Len(trace') >= 2 * Len(results')
        BY <3>1, <3>4, <3>6
      <4>2. \A k \in 1..Len(results'): k \in 1..Len(results) \/ k = m
        BY <3>4, <3>8
      <4>3. \A k \in 1..Len(results'): Answered(n, k)'
        BY <3>7, <3>9, <4>2
      <4>4. \A k \in 1..Len(results'): Answered(Len(trace) - 2 * Len(results), k)'
        BY <4>1, <4>3 DEF Answered
      <4>5. QED
        BY <3>2, <4>1, <4>4 DEF Accounted
    <3>11. NothingSwallowed'
      BY <2>3, <2>4, <3>2, NotSwallowed
    <3>12. QED
      BY <3>5, <3>10, <3>11 DEF LoopInv
  <2>5. CASE result' # "Ok"
    BY <2>2, <2>3, <2>5, Objected DEF Checked
  <2>6. QED
    BY <2>4, <2>5
<1>8. CASE process_returns \/ UNCHANGED allVars
  <2>1. /\ UNCHANGED <<tools, monitor, response, batch, results, objected, ignored, worked>>
        /\ (pc' = "idle" /\ outcome' = "returned") \/ UNCHANGED <<pc, outcome>>
    BY <1>8 DEF process_returns, allVars, loopVars, progress
  <2>2. /\ TypeOK' /\ mode' = "live" /\ Len(past') = Len(trace') + 1
        /\ UNCHANGED <<trace, past>> /\ Refusal' = Refusal
    BY <2>1, Unobserved
  <2>3. Looping'
    BY <2>1, <2>2 DEF Looping, LoopTypeOK, Current
  <2>4. NothingSwallowed'
    BY <2>1, <2>2 DEF LoopInv, NothingSwallowed, Refusal
  <2>5. Accounted'
    BY <2>1, <2>2 DEF LoopInv, Accounted, Answered, Current
  <2>6. QED
    BY <2>3, <2>4, <2>5 DEF LoopInv
<1>9. ASSUME NEW label \in Reported, report(label) PROVE LoopInv'
  <2>1. label \in Label /\ "send" \in Direction /\ Observe("send", label)
    BY <1>9, LoopAssumption DEF report, send, Direction
  <2>2. /\ pc = "idle" /\ ignored' = (ignored \/ result' # "Ok")
        /\ UNCHANGED <<progress, outcome, objected, worked>>
    BY <1>9 DEF report
  <2>3. /\ TypeOK' /\ mode' = "live" /\ Len(trace') = Len(trace) + 1 /\ Len(past') = Len(trace') + 1
        /\ Refusal' <=> (Refusal \/ result' # "Ok")
    BY <2>1, Observed
  <2>4. worked' \in 0..Len(trace')
    BY <2>2, <2>3 DEF Looping, LoopTypeOK
  <2>5. Looping' /\ Accounted'
    BY <2>2, <2>3, <2>4 DEF Looping, LoopTypeOK, Accounted, progress
  <2>6. (objected' \/ ignored') <=> Refusal'
    <3>1. (objected \/ ignored) <=> Refusal
      BY DEF LoopInv, NothingSwallowed, Refusal
    <3>2. QED
      BY <2>2, <2>3, <3>1
  <2>7. QED
    BY <2>5, <2>6 DEF LoopInv, NothingSwallowed, Refusal
<1>10. CASE start_over
  <2>1. /\ pc = "idle" /\ objected' = FALSE /\ ignored' = FALSE /\ worked' = 0
        /\ trace' = <<>> /\ past' = <<Fresh(release)>>
        /\ current_state' = Fresh(release).state /\ halted' = FALSE
        /\ UNCHANGED <<mode, release, result, snapshot, saved, crashes, progress, outcome>>
    BY <1>10 DEF start_over, reset, BecomeFresh, disk
  <2>2. Fresh(release) \in Config
    BY FreshType DEF Looping, LoopTypeOK, TypeOK
  <2>3. /\ past' \in Seq(Config) /\ trace' \in Seq(Event)
        /\ Len(trace') = 0 /\ Len(past') = Len(trace') + 1 /\ DOMAIN trace' = {}
    BY <2>1, <2>2
  <2>4. TypeOK'
    <3>1. current_state' \in State /\ halted' \in BOOLEAN
      BY <2>1, <2>2 DEF Config
    <3>2. QED
      BY <2>1, <2>3, <3>1 DEF Looping, LoopTypeOK, TypeOK
  <2>5. /\ pc' = "idle" /\ worked' \in 0..Len(trace')
        /\ objected' \in BOOLEAN /\ ignored' \in BOOLEAN
    <3>1. pc' = "idle"
      BY <2>1 DEF progress
    <3>2. worked' = 0 /\ Len(trace') = 0
      BY <2>1, <2>3
    <3>3. worked' \in 0..Len(trace')
      BY <3>2
    <3>4. objected' \in BOOLEAN /\ ignored' \in BOOLEAN
      BY <2>1
    <3>5. QED
      BY <3>1, <3>3, <3>4
  <2>6. /\ response' = response /\ tools' = tools /\ batch' = batch /\ results' = results
        /\ outcome' = outcome /\ mode' = mode
    BY <2>1 DEF progress
  <2>7. LoopTypeOK'
    <3>1. /\ response \in Response \cup {None} /\ batch \in Seq(Tool) /\ tools \subseteq Tool
          /\ Len(results) <= Len(batch) /\ results = SubSeq(batch, 1, Len(results))
          /\ outcome \in {"none", "returned", "ProtocolViolationError", "ValueError",
                          "ToolError", "LlmError"}
      BY DEF Looping, LoopTypeOK
    <3>2. QED
      BY <2>4, <2>5, <2>6, <3>1 DEF LoopTypeOK
  <2>8. Looping' /\ Accounted'
    BY <2>3, <2>5, <2>6, <2>7 DEF Looping, Accounted
  <2>9. NothingSwallowed'
    BY <2>1, <2>3 DEF NothingSwallowed
  <2>10. QED
    BY <2>8, <2>9 DEF LoopInv
<1>11. QED
  BY <1>1, <1>2, <1>3, <1>4, <1>5, <1>6, <1>7, <1>8, <1>9, <1>10 DEF LoopNext

\* The inductive invariant of the loop.
THEOREM LoopInvariant == LoopSpec => []LoopInv
  BY InitLoopInv, NextLoopInv, PTL DEF LoopSpec

-----------------------------------------------------------------------------
(* What follows                                                             *)

\* Every variable of the wrappers keeps its type, and results are those of the first
\* calls of the batch (ToolMiddleware.process).
THEOREM LoopTypes == LoopSpec => []LoopTypeOK
<1>1. LoopInv => LoopTypeOK
  BY DEF LoopInv, Looping
<1>2. QED
  BY <1>1, LoopInvariant, PTL

\* A verdict that is not Ok becomes a ProtocolViolationError, or the loop itself drops
\* it; neither wrapper hides one or makes one up (call, process and execute).
THEOREM NoVerdictIsLost == LoopSpec => []NothingSwallowed
<1>1. LoopInv => NothingSwallowed
  BY DEF LoopInv
<1>2. QED
  BY <1>1, LoopInvariant, PTL

\* process returns only when the monitor has accepted every call and every result of
\* the response, in the order of the calls and with nothing between (process, execute).
THEOREM ReturnedResultsWereAccepted == LoopSpec => ResultsWereAccepted
<1> DEFINE Step ==
       pc = "process" /\ pc' = "idle" /\ outcome' = "returned" =>
          LET n == Len(trace) - 2 * Len(batch)
          IN  /\ n >= 0
              /\ \A k \in DOMAIN batch:
                    /\ trace[n + 2 * k - 1] = <<"receive", recv_label[batch[k]]>>
                    /\ trace[n + 2 * k][1] = "send" /\ trace[n + 2 * k][2] \in result_label[batch[k]]
                    /\ past[n + 2 * k].result = "Ok" /\ past[n + 2 * k + 1].result = "Ok"
<1>1. LoopInv /\ [LoopNext]_allVars => [Step]_allVars
  <2> SUFFICES ASSUME LoopInv, LoopNext, pc = "process", pc' = "idle", outcome' = "returned"
               PROVE  Step
    OBVIOUS
  <2>1. process_returns
    BY DEF LoopNext, call, llm_call_returns, llm_call_raises, register, process, execute, Checked,
           Raise, tool_returns, tool_raises, report, start_over
  <2>2. /\ Len(results) = Len(batch) /\ batch \in Seq(Tool)
        /\ Len(trace) \in Nat /\ DOMAIN batch = 1..Len(batch)
    BY <2>1 DEF process_returns, LoopInv, Looping, LoopTypeOK, TypeOK
  <2>3. /\ Len(trace) >= 2 * Len(batch)
        /\ \A k \in DOMAIN batch: Answered(Len(trace) - 2 * Len(batch), k)
    BY <2>2 DEF LoopInv, Accounted
  <2>4. Len(trace) - 2 * Len(batch) >= 0
    BY <2>2, <2>3
  <2>5. QED
    BY <2>3, <2>4 DEF Answered
<1>2. QED
  BY <1>1, LoopInvariant, PTL DEF LoopSpec, ResultsWereAccepted

-----------------------------------------------------------------------------
(* What the loop inherits from its monitor                                  *)

\* A step of the loop is a call of the monitor or leaves it alone.
LEMMA LoopStepIsStep == ASSUME LoopInv, [LoopNext]_allVars PROVE [Next]_vars
<1>1. tools \subseteq Tool /\ (pc = "tool" => Current \in tools)
  BY DEF LoopInv, Looping, LoopTypeOK
<1>2. ASSUME NEW direction \in Direction, NEW label \in Label, Observe(direction, label)
      PROVE  Next
  BY <1>2 DEF Direction, send, receive, Next
<1>3. "send" \in Direction /\ "receive" \in Direction
  BY DEF Direction
<1>4. ASSUME NEW label \in SendLabel, call(label) PROVE Next
  BY <1>2, <1>3, <1>4, LoopAssumption DEF call, Checked
<1>5. ASSUME NEW r \in Response, llm_call_returns(r) PROVE Next
  BY <1>2, <1>3, <1>5, LoopAssumption DEF llm_call_returns, Checked
<1>6. ASSUME NEW label \in Reported, report(label) PROVE Next
  BY <1>2, <1>3, <1>6, LoopAssumption DEF report, send
<1>7. CASE execute
  <2>1. CASE Raise("ValueError")
    BY <2>1 DEF Raise, monitor, vars
  <2>2. CASE Current \in tools /\ Observe("receive", recv_label[Current])
    <3>1. recv_label[Current] \in Label
      BY <1>1, <2>2, LoopAssumption
    <3>2. QED
      BY <1>2, <1>3, <2>2, <3>1
  <2>3. QED
    BY <1>7, <2>1, <2>2 DEF execute, Checked
<1>8. CASE tool_returns
  <2>1. PICK label \in result_label[Current]: Observe("send", label)
    BY <1>8 DEF tool_returns, Checked
  <2>2. label \in Label
    <3>1. Current \in Tool
      BY <1>1, <1>8 DEF tool_returns
    <3>2. QED
      BY <2>1, <3>1, LoopAssumption
  <2>3. QED
    BY <1>2, <1>3, <2>1, <2>2
<1>9. CASE start_over
  BY <1>9 DEF start_over, Next
<1>10. CASE \/ llm_call_raises \/ process \/ tool_raises \/ process_returns
            \/ \E name \in Tool: register(name)
  BY <1>10 DEF llm_call_raises, process, tool_raises, process_returns, register, Raise,
               monitor, vars
<1>11. CASE UNCHANGED allVars
  BY <1>11 DEF allVars, monitor, vars
<1>12. QED
  BY <1>4, <1>5, <1>6, <1>7, <1>8, <1>9, <1>10, <1>11 DEF LoopNext

\* The monitor the two wrappers share behaves as one without them: client, middleware and
\* loop reach it through send, receive and reset only (call, execute, report, start_over).
THEOREM LoopIsMonitor == LoopSpec => Spec
<1>1. LoopInit => Init
  BY DEF LoopInit
<1>2. QED
  BY <1>1, LoopInvariant, LoopStepIsStep, PTL DEF LoopSpec, Spec

\* So the wrappers see a Session: what call and execute raise at is a verdict of the
\* protocol's position, or the halt that an earlier one left.
THEOREM LoopIsSession == LoopSpec => ImplementsSession
  BY LoopIsMonitor, MonitorImplementsSession

\* A halted monitor of a loop explains itself by its trace, like one of its own.
THEOREM LoopHaltIsExplained == LoopSpec => []HaltExplained
  BY LoopIsMonitor, HaltIsExplained

\* No loop runs into a halt unheard: the violation was raised as an error by a wrapper, or
\* it was the answer to a send of the loop's own that it did not look at.
HaltIsHeard == halted => objected \/ ignored

\* An agent whose monitor has halted was told so since the last reset, by the raise in
\* MonitoredClient.call and ToolMiddleware.execute, or had the answer and dropped it.
THEOREM NoSilentHalt == LoopSpec => []HaltIsHeard
<1>1. ASSUME LoopInv, HaltExplained, halted PROVE objected \/ ignored
  <2>1. PICK k \in DOMAIN trace: \A i \in DOMAIN trace:
          i >= k => past[i + 1].result = IF i = k THEN "Violation" ELSE "Blocked"
    BY <1>1 DEF HaltExplained
  <2>2. k >= k
    BY <1>1 DEF LoopInv, Looping, LoopTypeOK, TypeOK
  <2>3. past[k + 1].result # "Ok"
    BY <2>1, <2>2
  <2>4. QED
    BY <1>1, <2>3 DEF LoopInv, NothingSwallowed
<1>2. LoopInv /\ HaltExplained => HaltIsHeard
  BY <1>1 DEF HaltIsHeard
<1>3. QED
  BY <1>2, LoopInvariant, LoopHaltIsExplained, PTL

=============================================================================
