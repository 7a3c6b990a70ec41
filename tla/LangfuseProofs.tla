--------------------------- MODULE LangfuseProofs ---------------------------
(***************************************************************************)
(* LangfuseMonitor, for every protocol and every failure of Langfuse: the  *)
(* wrapper is a monitor, and its audit is exact and complete.              *)
(***************************************************************************)
EXTENDS LangfuseMonitor, MonitorProofs, FiniteSetTheorems

\* The monitor inside the wrapper behaves as one without it: what Langfuse does,
\* exceptions included, neither adds an event nor takes one back
\* (LangfuseMonitor.send, receive and _record).
THEOREM WrapperIsMonitor == LangfuseSpec => BehavesAsMonitor
<1>1. LangfuseInit => Init
  BY DEF LangfuseInit
<1>2. ASSUME [LangfuseNext]_langfuseVars
      PROVE  [Next]_vars
  <2>1. ASSUME NEW direction \in Direction, NEW label \in Label, Delegate(direction, label)
        PROVE  Next
    <3>1. send(label) \/ receive(label)
      BY <2>1 DEF Delegate, Direction, send, receive
    <3>2. QED
      BY <3>1 DEF Next
  <2>2. CASE open \/ update \/ score \/ langfuse_raises
    BY <2>2 DEF open, update, score, langfuse_raises, monitor, vars, disk
  <2>3. CASE UNCHANGED langfuseVars
    BY <2>3 DEF langfuseVars, monitor, vars
  <2>4. QED
    BY <1>2, <2>1, <2>2, <2>3 DEF LangfuseNext
<1>3. QED
  BY <1>1, <1>2, PTL DEF LangfuseSpec, Spec, BehavesAsMonitor

-----------------------------------------------------------------------------
(* The inductive invariant, in parts                                        *)

Guardrail == [step         : Nat,
              action       : Event,
              state_before : State,
              halted       : BOOLEAN,
              output       : [passed : BOOLEAN, result : {"ok", "violation", "blocked"}] \cup {Missing},
              score        : {0, 1, Missing}]

\* The monitor's history stands beside its trace and ends with the monitor now.
Kept ==
    /\ mode = "live" /\ release \in Release
    /\ trace \in Seq(Event) /\ past \in Seq(Config)
    /\ Len(past) = Len(trace) + 1
    /\ past[Len(past)] = [state |-> current_state, halted |-> halted, result |-> result]
    /\ Len(trace) > 0 => result # "none"

\* Where _record is: the last observation is of the last event, and not yet scored.
Recording ==
    /\ pc \in {"idle", "open", "update", "score"}
    /\ pc # "idle" => Len(trace) > 0
    /\ _step_count = IF pc = "open" THEN Len(trace) - 1 ELSE Len(trace)
    /\ observations \in Seq(Guardrail) /\ failures \in Nat
    /\ \A i \in DOMAIN observations: observations[i].step \in 1.._step_count
    /\ \A i, j \in DOMAIN observations: i < j => observations[i].step < observations[j].step
    /\ pc \in {"update", "score"} =>
          Last > 0 /\ observations[Last].step = Len(trace) /\ observations[Last].score = Missing

\* What _record has written of the event of the observation's number, every field of it.
Tells(o) ==
    /\ o.action = trace[o.step]
    /\ o.halted = past[o.step + 1].halted /\ o.state_before = past[o.step + 1].state
    /\ o.output # Missing => o.output.passed = (past[o.step + 1].result \in {"Ok", "Unrecognized"})
    /\ o.score # Missing => (o.score = 1) = (past[o.step + 1].result = "Ok")

Scored == {i \in DOMAIN observations: observations[i].score # Missing}

\* Each event is scored, being recorded, or lost to an exception.
Counted == Cardinality(Scored) + failures + (IF pc = "idle" THEN 0 ELSE 1) = Len(trace)

RecordInv ==
    /\ Kept /\ Recording /\ Counted
    /\ \A i \in DOMAIN observations: Tells(observations[i])

-----------------------------------------------------------------------------
(* The invariant is inductive                                               *)

\* What the last configuration of the history says of the variables.
LEMMA NowTyped ==
    ASSUME Kept
    PROVE  /\ Len(trace) \in Nat /\ Len(trace) + 1 \in 1..Len(past)
           /\ past[Len(trace) + 1].state = current_state
           /\ past[Len(trace) + 1].halted = halted /\ past[Len(trace) + 1].result = result
           /\ current_state \in State /\ halted \in BOOLEAN /\ result \in Verdicts
<1>1. /\ Len(trace) \in Nat /\ Len(past) = Len(trace) + 1 /\ past \in Seq(Config)
      /\ past[Len(past)] = [state |-> current_state, halted |-> halted, result |-> result]
  BY DEF Kept
<1>2. past[Len(past)] \in Config
  BY <1>1
<1>3. [state |-> current_state, halted |-> halted, result |-> result] \in Config
  BY <1>1, <1>2
<1>4. current_state \in State /\ halted \in BOOLEAN /\ result \in Verdicts
  BY <1>3 DEF Config
<1>5. QED
  BY <1>1, <1>4

\* An event is appended to the trace, and what became of it to the history (_step).
LEMMA Observed ==
    ASSUME Kept, NEW d \in Direction, NEW label \in Label, Observe(d, label)
    PROVE  /\ Kept' /\ Len(trace') = Len(trace) + 1
           /\ \A i \in 1..Len(trace): trace'[i] = trace[i] /\ past'[i + 1] = past[i + 1]
<1> DEFINE e == <<d, label>>
<1> DEFINE next == After(release, current_state, halted, e)
<1>1. e \in Event
  BY DEF Event
<1>2. next \in Config
  BY <1>1, AfterType, NowTyped DEF Kept
<1>3. next = [state |-> next.state, halted |-> next.halted, result |-> next.result]
  BY DEF After
<1>4. /\ trace' = Append(trace, e) /\ past' = Append(past, next)
      /\ current_state' = next.state /\ halted' = next.halted /\ result' = next.result
      /\ UNCHANGED <<mode, release>>
  BY DEF Observe, _step, After
<1> HIDE DEF next, e
<1>5. trace \in Seq(Event) /\ past \in Seq(Config) /\ Len(past) = Len(trace) + 1
  BY DEF Kept
<1>6. /\ trace' \in Seq(Event) /\ past' \in Seq(Config)
      /\ Len(trace') = Len(trace) + 1 /\ Len(past') = Len(trace') + 1
      /\ past'[Len(past')] = next
      /\ \A i \in 1..Len(trace): trace'[i] = trace[i]
      /\ \A i \in 1..Len(past): past'[i] = past[i]
  BY <1>1, <1>2, <1>4, <1>5
<1>7. Kept'
  <2>1. result' # "none"
    BY DEF Observe, Verdict
  <2>2. QED
    BY <1>3, <1>4, <1>6, <2>1 DEF Kept
<1>8. \A i \in 1..Len(trace): i + 1 \in 1..Len(past)
  BY <1>5
<1>9. QED
  BY <1>6, <1>7, <1>8

\* The history of a new monitor (LangfuseMonitor.__init__).
LEMMA InitRecordInv == LangfuseInit => RecordInv
<1> SUFFICES ASSUME LangfuseInit PROVE RecordInv
  OBVIOUS
<1>1. /\ mode = "live" /\ release \in Release /\ trace = <<>> /\ past = <<Fresh(release)>>
      /\ current_state = Fresh(release).state /\ halted = FALSE /\ result = "none"
      /\ pc = "idle" /\ _step_count = 0 /\ observations = <<>> /\ failures = 0
  BY DEF LangfuseInit, Init
<1>2. Fresh(release) = [state |-> current_state, halted |-> halted, result |-> result]
  BY <1>1 DEF Fresh
<1>3. Fresh(release) \in Config
  BY <1>1, AutomatonAssumption DEF Fresh, Config, Verdicts
<1>4. Kept
  BY <1>1, <1>2, <1>3 DEF Kept
<1>5. Recording
  BY <1>1 DEF Recording
<1>6. Counted
  <2>1. Scored = {}
    BY <1>1 DEF Scored
  <2>2. Cardinality(Scored) = 0
    BY <2>1, FS_EmptySet
  <2>3. QED
    BY <1>1, <2>2 DEF Counted
<1>7. QED
  BY <1>1, <1>4, <1>5, <1>6 DEF RecordInv

\* What is known of the observations whatever _record does next.
LEMMA ObservationTyped ==
    ASSUME RecordInv
    PROVE  /\ Len(trace) \in Nat /\ _step_count \in 0..Len(trace) /\ failures \in Nat
           /\ Last \in Nat /\ DOMAIN observations = 1..Last
           /\ \A i \in 1..Last: /\ observations[i] \in Guardrail
                                /\ observations[i].step \in 1..Len(trace)
                                /\ Tells(observations[i])
<1>1. Len(trace) \in Nat /\ failures \in Nat /\ observations \in Seq(Guardrail)
  BY NowTyped DEF RecordInv, Recording
<1>2. _step_count \in 0..Len(trace)
  BY <1>1 DEF RecordInv, Recording
<1>3. Last \in Nat /\ DOMAIN observations = 1..Last /\ \A i \in 1..Last: observations[i] \in Guardrail
  BY <1>1 DEF Last
<1>4. \A i \in 1..Last: observations[i].step \in 1..Len(trace)
  BY <1>1, <1>2, <1>3 DEF RecordInv, Recording
<1>5. QED
  BY <1>1, <1>2, <1>3, <1>4 DEF RecordInv

\* As many scored observations as events, but for the one in hand and those lost.
LEMMA ScoredFinite ==
    ASSUME RecordInv
    PROVE  /\ IsFiniteSet(Scored) /\ Cardinality(Scored) \in Nat
           /\ Cardinality(Scored) + failures + (IF pc = "idle" THEN 0 ELSE 1) = Len(trace)
<1>1. Last \in Nat /\ Scored \subseteq 1..Last
  BY ObservationTyped DEF Scored
<1>2. IsFiniteSet(Scored)
  <2>1. PICK n \in Nat: n = Last
    BY <1>1
  <2>2. IsFiniteSet(1..n)
    BY FS_Interval
  <2>3. Scored \subseteq 1..n
    BY <1>1, <2>1
  <2>4. QED
    BY <2>2, <2>3, FS_Subset
<1>3. Cardinality(Scored) \in Nat
  BY <1>2, FS_CardinalityType
<1>4. QED
  BY <1>2, <1>3 DEF RecordInv, Counted

\* The monitor steps and _record begins (send, receive).
LEMMA DelegateKeeps ==
    ASSUME RecordInv, NEW d \in Direction, NEW label \in Label, Delegate(d, label)
    PROVE  RecordInv'
<1>1. /\ pc = "idle" /\ pc' = "open" /\ Observe(d, label)
      /\ UNCHANGED <<_step_count, observations, failures>>
  BY DEF Delegate
<1>2. /\ Kept' /\ Len(trace') = Len(trace) + 1
      /\ \A i \in 1..Len(trace): trace'[i] = trace[i] /\ past'[i + 1] = past[i + 1]
  BY <1>1, Observed DEF RecordInv
<1>3. Len(trace) \in Nat /\ Recording
  BY ObservationTyped DEF RecordInv
<1>4. Recording'
  BY <1>1, <1>2, <1>3 DEF Recording, Last
<1>5. Counted'
  <2>1. Scored' = Scored
    BY <1>1 DEF Scored
  <2>2. /\ Cardinality(Scored) \in Nat /\ failures \in Nat
        /\ Cardinality(Scored) + failures = Len(trace)
    BY <1>1, ScoredFinite, ObservationTyped
  <2>3. Cardinality(Scored') + failures' + 1 = Len(trace')
    BY <1>1, <1>2, <1>3, <2>1, <2>2
  <2>4. QED
    BY <1>1, <2>3 DEF Counted
<1>6. ASSUME NEW o \in Guardrail, o.step \in 1..Len(trace), Tells(o) PROVE Tells(o)'
  <2>1. trace'[o.step] = trace[o.step] /\ past'[o.step + 1] = past[o.step + 1]
    BY <1>2, <1>6
  <2>2. QED
    BY <1>6, <2>1 DEF Tells
<1>7. (\A i \in DOMAIN observations: Tells(observations[i]))'
  <2> SUFFICES ASSUME NEW i \in DOMAIN observations' PROVE Tells(observations[i])'
    OBVIOUS
  <2>1. PICK o \in Guardrail: o = observations[i]
    BY <1>1, ObservationTyped
  <2>2. Tells(o) /\ o.step \in 1..Len(trace)
    BY <1>1, <2>1, ObservationTyped
  <2>3. Tells(o)'
    BY <1>6, <2>2
  <2>4. observations'[i] = o
    BY <1>1, <2>1
  <2>5. QED
    BY <2>3, <2>4 DEF Tells
<1>8. QED
  BY <1>2, <1>4, <1>5, <1>7 DEF RecordInv

\* While the monitor stays, so does what it says of an observation.
LEMMA TellsStays ==
    ASSUME UNCHANGED monitor, NEW o \in Guardrail, Tells(o)
    PROVE  Tells(o)'
  BY DEF monitor, object, Tells

\* Langfuse's calls and exceptions leave the monitor alone (_record).
LEMMA KeptStays == ASSUME Kept, UNCHANGED monitor PROVE Kept' /\ trace' = trace /\ past' = past
  BY DEF Kept, monitor, object

\* The observation is opened.
LEMMA OpenKeeps == ASSUME RecordInv, open PROVE RecordInv'
<1> DEFINE o == Observation(_step_count + 1)
<1>1. /\ pc = "open" /\ pc' = "update" /\ _step_count' = _step_count + 1
      /\ observations' = Append(observations, o)
      /\ UNCHANGED <<monitor, failures>>
  BY DEF open
<1>2. Kept' /\ trace' = trace /\ past' = past
  BY <1>1, KeptStays DEF RecordInv
<1>3. /\ _step_count = Len(trace) - 1 /\ Len(trace) > 0 /\ Len(trace) \in Nat
      /\ observations \in Seq(Guardrail)
  BY <1>1, ObservationTyped DEF RecordInv, Recording
<1>4. o = [step |-> Len(trace), action |-> trace[Len(trace)], state_before |-> current_state,
           halted |-> halted, output |-> Missing, score |-> Missing]
  BY <1>3 DEF Observation
<1>5. o \in Guardrail
  <2>1. trace[Len(trace)] \in Event /\ current_state \in State /\ halted \in BOOLEAN
    BY <1>3, NowTyped DEF RecordInv, Kept
  <2>2. QED
    BY <1>3, <1>4, <2>1 DEF Guardrail
<1> HIDE DEF o
<1>6. /\ observations' \in Seq(Guardrail) /\ Len(observations') = Last + 1
      /\ \A i \in 1..Last: observations'[i] = observations[i]
      /\ observations'[Last + 1] = o
      /\ DOMAIN observations' = 1..(Last + 1) /\ Last \in Nat
  BY <1>1, <1>3, <1>5 DEF Last
<1>7. o.step = Len(trace) /\ o.score = Missing /\ o.output = Missing
  BY <1>4
<1>8. Recording'
  <2>1. \A i \in 1..Last: observations[i].step \in 1.._step_count
    BY ObservationTyped DEF RecordInv, Recording
  <2>2. \A i \in 1..(Last + 1): observations'[i].step \in 1.._step_count'
    BY <1>1, <1>3, <1>6, <1>7, <2>1
  <2>3. \A i, j \in 1..(Last + 1): i < j => observations'[i].step < observations'[j].step
    <3> SUFFICES ASSUME NEW i \in 1..(Last + 1), NEW j \in 1..(Last + 1), i < j
                 PROVE  observations'[i].step < observations'[j].step
      OBVIOUS
    <3>1. i \in 1..Last
      BY <1>6
    <3>2. CASE j \in 1..Last
      BY <1>6, <3>1, <3>2, ObservationTyped DEF RecordInv, Recording
    <3>3. CASE j = Last + 1
      <4>1. observations'[i].step \in 1..(Len(trace) - 1)
        BY <1>3, <1>6, <2>1, <3>1
      <4>2. QED
        BY <1>3, <1>6, <1>7, <3>3, <4>1
    <3>4. QED
      BY <1>6, <3>2, <3>3
  <2>4. Last' = Last + 1
    BY <1>6 DEF Last
  <2>5. failures' = failures /\ failures \in Nat
    BY <1>1, ObservationTyped
  <2>6. QED
    BY <1>1, <1>2, <1>3, <1>6, <1>7, <2>2, <2>3, <2>4, <2>5 DEF Recording
<1>9. Counted'
  <2>1. Scored' = Scored
    BY <1>6, <1>7, ObservationTyped DEF Scored
  <2>2. QED
    BY <1>1, <1>2, <2>1, ScoredFinite DEF Counted
<1>10. Tells(o)
  BY <1>3, <1>4, NowTyped DEF Tells, RecordInv
<1>11. (\A i \in DOMAIN observations: Tells(observations[i]))'
  <2> SUFFICES ASSUME NEW i \in 1..(Last + 1) PROVE Tells(observations[i])'
    BY <1>6
  <2>1. PICK p \in Guardrail: p = observations'[i]
    BY <1>6
  <2>2. Tells(p)
    BY <1>6, <1>10, <2>1, ObservationTyped
  <2>3. Tells(p)'
    BY <1>1, <2>2, TellsStays
  <2>4. QED
    BY <2>1, <2>3 DEF Tells
<1>12. QED
  BY <1>2, <1>8, <1>9, <1>11 DEF RecordInv

\* What is written to the last observation leaves the others (update, score).
LEMMA LastWritten ==
    ASSUME RecordInv, pc \in {"update", "score"}, pc' \in {"score", "idle"},
           NEW p \in Guardrail, observations' = [observations EXCEPT ![Last] = p],
           p.step = observations[Last].step, pc' = "score" => p.score = Missing,
           Tells(p), UNCHANGED <<monitor, _step_count, failures>>
    PROVE  /\ Kept' /\ Recording' /\ (\A i \in DOMAIN observations: Tells(observations[i]))'
           /\ trace' = trace /\ Last \in 1..Last /\ DOMAIN observations' = DOMAIN observations
           /\ \A i \in DOMAIN observations:
                 observations'[i] = IF i = Last THEN p ELSE observations[i]
<1>1. Kept' /\ trace' = trace /\ past' = past
  BY KeptStays DEF RecordInv
<1>2. /\ Last \in 1..Last /\ observations \in Seq(Guardrail) /\ DOMAIN observations = 1..Last
      /\ _step_count = Len(trace) /\ Len(trace) > 0 /\ observations[Last].step = Len(trace)
  BY ObservationTyped DEF RecordInv, Recording
<1>3. /\ observations' \in Seq(Guardrail) /\ Len(observations') = Len(observations)
      /\ DOMAIN observations' = DOMAIN observations
      /\ \A i \in DOMAIN observations:
            observations'[i] = IF i = Last THEN p ELSE observations[i]
  BY <1>2 DEF Last
<1>4. \A i \in DOMAIN observations: observations'[i].step = observations[i].step
  BY <1>3
<1>5. Recording'
  <2>1. Last' = Last /\ failures' = failures /\ _step_count' = _step_count
    BY <1>3 DEF Last
  <2>2. observations'[Last].step = Len(trace) /\ (pc' = "score" => observations'[Last].score = Missing)
    BY <1>2, <1>3
  <2>3. \A i \in DOMAIN observations': observations'[i].step \in 1.._step_count
    BY <1>3, <1>4 DEF RecordInv, Recording
  <2>4. \A i, j \in DOMAIN observations': i < j => observations'[i].step < observations'[j].step
    BY <1>3, <1>4 DEF RecordInv, Recording
  <2>5. failures \in Nat
    BY ObservationTyped
  <2>6. QED
    BY <1>1, <1>2, <1>3, <2>1, <2>2, <2>3, <2>4, <2>5 DEF Recording
<1>6. (\A i \in DOMAIN observations: Tells(observations[i]))'
  <2> SUFFICES ASSUME NEW i \in DOMAIN observations' PROVE Tells(observations[i])'
    OBVIOUS
  <2>1. PICK q \in Guardrail: q = observations'[i]
    BY <1>3
  <2>2. Tells(q)
    BY <1>2, <1>3, <2>1, ObservationTyped
  <2>3. Tells(q)'
    BY <2>2, TellsStays
  <2>4. QED
    BY <2>1, <2>3 DEF Tells
<1>7. QED
  BY <1>1, <1>2, <1>3, <1>5, <1>6

\* Its output is written.
LEMMA UpdateKeeps == ASSUME RecordInv, update PROVE RecordInv'
<1>1. /\ pc = "update" /\ pc' = "score"
      /\ observations' = [observations EXCEPT ![Last].output = output]
      /\ UNCHANGED <<monitor, _step_count, failures>>
  BY DEF update
<1>2. /\ Last \in 1..Last /\ observations \in Seq(Guardrail) /\ DOMAIN observations = 1..Last
      /\ observations[Last].step = Len(trace) /\ observations[Last].score = Missing
  BY <1>1, ObservationTyped DEF RecordInv, Recording
<1>3. PICK q \in Guardrail: q = observations[Last]
  BY <1>2, ObservationTyped
<1>4. /\ output \in [passed : BOOLEAN, result : {"ok", "violation", "blocked"}]
      /\ output.passed <=> result \in {"Ok", "Unrecognized"}
  <2>1. result \in {"Ok", "Unrecognized", "Violation", "Blocked"}
    BY <1>1, NowTyped DEF RecordInv, Recording, Kept, Verdicts
  <2>2. CASE result \in {"Ok", "Unrecognized"}
    <3>1. output = [passed |-> TRUE, result |-> "ok"]
      BY <2>2 DEF output
    <3>2. output \in [passed : BOOLEAN, result : {"ok", "violation", "blocked"}]
      BY <3>1
    <3>3. output.passed <=> result \in {"Ok", "Unrecognized"}
      BY <2>2, <3>1
    <3>4. QED
      BY <3>2, <3>3
  <2>3. CASE result = "Violation"
    <3>1. output = [passed |-> FALSE, result |-> "violation"]
      BY <2>3 DEF output
    <3>2. output \in [passed : BOOLEAN, result : {"ok", "violation", "blocked"}]
      BY <3>1
    <3>3. output.passed <=> result \in {"Ok", "Unrecognized"}
      BY <2>3, <3>1
    <3>4. QED
      BY <3>2, <3>3
  <2>4. CASE result = "Blocked"
    <3>1. output = [passed |-> FALSE, result |-> "blocked"]
      BY <2>4 DEF output
    <3>2. output \in [passed : BOOLEAN, result : {"ok", "violation", "blocked"}]
      BY <3>1
    <3>3. output.passed <=> result \in {"Ok", "Unrecognized"}
      BY <2>4, <3>1
    <3>4. QED
      BY <3>2, <3>3
  <2>5. QED
    BY <2>1, <2>2, <2>3, <2>4
<1>5. PICK w \in [passed : BOOLEAN, result : {"ok", "violation", "blocked"}]: w = output
  BY <1>4
<1>6. w.passed = (result \in {"Ok", "Unrecognized"})
  BY <1>4, <1>5
<1> DEFINE p == [q EXCEPT !.output = w]
<1>7. p \in Guardrail
  BY DEF Guardrail
<1>8. /\ p.step = Len(trace) /\ p.score = Missing /\ p.output = w
      /\ p.action = q.action /\ p.halted = q.halted /\ p.state_before = q.state_before
  BY <1>2, <1>3 DEF Guardrail
<1>9. observations' = [observations EXCEPT ![Last] = p]
  BY <1>1, <1>2, <1>3, <1>5
<1> HIDE DEF p
<1>10. Tells(p)
  <2>1. Tells(q) /\ q.step = Len(trace)
    BY <1>2, <1>3, ObservationTyped
  <2>2. past[p.step + 1].result = result
    BY <1>8, NowTyped DEF RecordInv
  <2>3. p.output.passed = (past[p.step + 1].result \in {"Ok", "Unrecognized"})
    BY <1>6, <1>8, <2>2
  <2>4. QED
    BY <1>8, <2>1, <2>3 DEF Tells
<1>11. /\ Kept' /\ Recording' /\ (\A i \in DOMAIN observations: Tells(observations[i]))'
       /\ trace' = trace /\ DOMAIN observations' = DOMAIN observations
       /\ \A i \in DOMAIN observations:
             observations'[i] = IF i = Last THEN p ELSE observations[i]
  BY <1>1, <1>2, <1>7, <1>8, <1>9, <1>10, LastWritten
<1>12. Counted'
  <2>1. Scored' = Scored
    BY <1>2, <1>8, <1>11 DEF Scored
  <2>2. QED
    BY <1>1, <1>11, <2>1, ScoredFinite DEF Counted
<1>13. QED
  BY <1>11, <1>12 DEF RecordInv

\* Its score is written, which ends the record.
LEMMA ScoreKeeps == ASSUME RecordInv, score PROVE RecordInv'
<1>1. /\ pc = "score" /\ pc' = "idle"
      /\ observations' = [observations EXCEPT ![Last].score = IF passed THEN 1 ELSE 0]
      /\ UNCHANGED <<monitor, _step_count, failures>>
  BY DEF score
<1>2. /\ Last \in 1..Last /\ observations \in Seq(Guardrail) /\ DOMAIN observations = 1..Last
      /\ observations[Last].step = Len(trace) /\ observations[Last].score = Missing
  BY <1>1, ObservationTyped DEF RecordInv, Recording
<1>3. PICK q \in Guardrail: q = observations[Last]
  BY <1>2, ObservationTyped
<1>4. PICK w \in {0, 1}: w = IF passed THEN 1 ELSE 0
  OBVIOUS
<1>5. (w = 1) = (result = "Ok")
  BY <1>4 DEF passed
<1> DEFINE p == [q EXCEPT !.score = w]
<1>6. p \in Guardrail
  BY DEF Guardrail
<1>7. /\ p.step = Len(trace) /\ p.score = w /\ p.output = q.output
      /\ p.action = q.action /\ p.halted = q.halted /\ p.state_before = q.state_before
  BY <1>2, <1>3 DEF Guardrail
<1>8. observations' = [observations EXCEPT ![Last] = p]
  BY <1>1, <1>2, <1>3, <1>4
<1> HIDE DEF p
<1>9. Tells(p)
  <2>1. Tells(q) /\ q.step = Len(trace)
    BY <1>2, <1>3, ObservationTyped
  <2>2. past[p.step + 1].result = result
    BY <1>7, NowTyped DEF RecordInv
  <2>3. (p.score = 1) = (past[p.step + 1].result = "Ok")
    BY <1>5, <1>7, <2>2
  <2>4. QED
    BY <1>7, <2>1, <2>3 DEF Tells
<1>10. /\ Kept' /\ Recording' /\ (\A i \in DOMAIN observations: Tells(observations[i]))'
       /\ trace' = trace /\ DOMAIN observations' = DOMAIN observations
       /\ \A i \in DOMAIN observations:
             observations'[i] = IF i = Last THEN p ELSE observations[i]
  BY <1>1, <1>2, <1>6, <1>7, <1>8, <1>9, LastWritten
<1>11. Counted'
  <2>1. Scored' = Scored \cup {Last} /\ Last \notin Scored
    BY <1>2, <1>7, <1>10, MissingAssumption DEF Scored
  <2>2. PICK S: S = Scored
    OBVIOUS
  <2>3. PICK n: n = Last
    OBVIOUS
  <2>4. Cardinality(S \cup {n}) = Cardinality(S) + 1
    BY <2>1, <2>2, <2>3, ScoredFinite, FS_AddElement
  <2>5. Cardinality(Scored') = Cardinality(Scored) + 1
    BY <2>1, <2>2, <2>3, <2>4
  <2>6. /\ Cardinality(Scored) \in Nat /\ failures \in Nat
        /\ Cardinality(Scored) + failures + 1 = Len(trace)
    BY <1>1, ScoredFinite, ObservationTyped
  <2>7. Cardinality(Scored') + failures' + 0 = Len(trace')
    BY <1>1, <1>10, <2>5, <2>6
  <2>8. QED
    BY <1>1, <2>7 DEF Counted
<1>12. QED
  BY <1>10, <1>11 DEF RecordInv

\* Langfuse raises, and the record stays as it is.
LEMMA RaiseKeeps == ASSUME RecordInv, langfuse_raises PROVE RecordInv'
<1>1. /\ pc # "idle" /\ pc' = "idle" /\ failures' = failures + 1
      /\ _step_count' = IF pc = "open" THEN _step_count + 1 ELSE _step_count
      /\ observations' = observations /\ UNCHANGED monitor
  BY DEF langfuse_raises
<1>2. Kept' /\ trace' = trace /\ past' = past
  BY <1>1, KeptStays DEF RecordInv
<1>3. Len(trace) \in Nat /\ failures \in Nat /\ Recording
  BY ObservationTyped DEF RecordInv
<1>4. Recording'
  BY <1>1, <1>2, <1>3 DEF Recording
<1>5. Counted'
  <2>1. Scored' = Scored
    BY <1>1 DEF Scored
  <2>2. Cardinality(Scored) \in Nat /\ Cardinality(Scored) + failures + 1 = Len(trace)
    BY <1>1, ScoredFinite
  <2>3. Cardinality(Scored') + failures' + 0 = Len(trace')
    BY <1>1, <1>2, <1>3, <2>1, <2>2
  <2>4. QED
    BY <1>1, <2>3 DEF Counted
<1>6. (\A i \in DOMAIN observations: Tells(observations[i]))'
  BY <1>1, <1>2 DEF RecordInv, Tells
<1>7. QED
  BY <1>2, <1>4, <1>5, <1>6 DEF RecordInv

\* The audit holds from the first event on, whichever of Langfuse's calls fail.
THEOREM RecordInvariant == LangfuseSpec => []RecordInv
<1>1. ASSUME RecordInv, UNCHANGED langfuseVars PROVE RecordInv'
  <2>1. UNCHANGED <<monitor, trace, past, pc, _step_count, observations, failures>>
    BY <1>1 DEF langfuseVars, monitor, object
  <2>2. Kept'
    BY <1>1, <2>1, KeptStays DEF RecordInv
  <2>3. Recording'
    BY <1>1, <2>1 DEF RecordInv, Recording, Last
  <2>4. Counted'
    <3>1. Scored' = Scored
      BY <2>1 DEF Scored
    <3>2. QED
      BY <1>1, <2>1, <3>1 DEF RecordInv, Counted
  <2>5. (\A i \in DOMAIN observations: Tells(observations[i]))'
    BY <1>1, <2>1 DEF RecordInv, Tells
  <2>6. QED
    BY <2>2, <2>3, <2>4, <2>5 DEF RecordInv
<1>2. RecordInv /\ [LangfuseNext]_langfuseVars => RecordInv'
  BY <1>1, DelegateKeeps, OpenKeeps, UpdateKeeps, ScoreKeeps, RaiseKeeps DEF LangfuseNext
<1>3. QED
  BY <1>2, InitRecordInv, PTL DEF LangfuseSpec

\* Each observation is about the event of its number, whatever was lost before, and
\* neither fails an accepted event nor passes a refused or blocked one (_record's step
\* number, its output and its score).
THEOREM ObservationsKeepTheirPlace == LangfuseSpec => []ObservationsFitTrace
<1>1. RecordInv => ObservationsFitTrace
  <2> SUFFICES ASSUME RecordInv, NEW i \in DOMAIN observations
               PROVE  LET o == observations[i]
                          after == past[o.step + 1]
                      IN  /\ o.action = trace[o.step]
                          /\ o.halted = after.halted
                          /\ after.result # "Unrecognized" =>
                                /\ o.output # Missing => o.output.passed = (after.result = "Ok")
                                /\ o.score # Missing => (o.score = 1) = (after.result = "Ok")
    BY DEF ObservationsFitTrace
  <2>1. Tells(observations[i])
    BY DEF RecordInv
  <2>2. QED
    BY <2>1 DEF Tells
<1>2. QED
  BY <1>1, RecordInvariant, PTL

\* Every event is in the audit once, but for those an exception of Langfuse broke off
\* (_record).
THEOREM AuditMissesNothing == LangfuseSpec => []AuditIsComplete
<1>1. RecordInv => AuditIsComplete
  BY DEF RecordInv, Recording, Counted, Scored, AuditIsComplete
<1>2. QED
  BY <1>1, RecordInvariant, PTL

-----------------------------------------------------------------------------
(* What the wrapper inherits from its monitor                               *)

\* The caller of a LangfuseMonitor sees a Session, whatever Langfuse does.
THEOREM WrapperIsSession == LangfuseSpec => ImplementsSession
  BY WrapperIsMonitor, MonitorImplementsSession DEF BehavesAsMonitor

\* An observation that says the event did not pass: "violation" or "blocked".
Failed(o) == o.output # Missing /\ ~o.output.passed

\* The audit of a session turns once: behind a failed observation all that have an output
\* are failed ones.
FailedStaysFailed ==
    \A i, j \in DOMAIN observations:
        i < j /\ Failed(observations[i]) /\ observations[j].output # Missing
            => Failed(observations[j])

\* A reader of the audit finds no passed observation behind a failed one, although a
\* failed one may itself be missing: the wrapper is never reset, and the monitor's halt
\* is final (_record, and the halted branch of Monitor._step).
THEOREM AuditTurnsOnce == LangfuseSpec => []FailedStaysFailed
<1>1. ASSUME RecordInv, HaltInv,
             NEW i \in DOMAIN observations, NEW j \in DOMAIN observations,
             i < j, Failed(observations[i]), observations[j].output # Missing
      PROVE  Failed(observations[j])
  <2>1. PICK m \in Nat, n \in Nat:
          /\ m = observations[i].step /\ n = observations[j].step /\ m < n
          /\ m \in DOMAIN trace /\ n \in DOMAIN trace
    <3>1. observations[i].step < observations[j].step
      BY <1>1 DEF RecordInv, Recording
    <3>2. observations[i].step \in 1.._step_count /\ observations[j].step \in 1.._step_count
      BY <1>1 DEF RecordInv, Recording
    <3>3. Len(trace) \in Nat /\ _step_count = IF pc = "open" THEN Len(trace) - 1 ELSE Len(trace)
      BY <1>1 DEF RecordInv, Recording, Kept
    <3>4. DOMAIN trace = 1..Len(trace)
      BY <1>1 DEF RecordInv, Kept
    <3>5. PICK l \in Nat, c \in Int: l = Len(trace) /\ c = _step_count /\ c <= l
      BY <3>3
    <3>6. PICK m \in 1..c, n \in 1..c: m = observations[i].step /\ n = observations[j].step
      BY <3>2, <3>5
    <3>7. m \in Nat /\ n \in Nat /\ m \in 1..l /\ n \in 1..l
      BY <3>5
    <3>8. m < n
      BY <3>1, <3>6
    <3>9. QED
      BY <3>4, <3>5, <3>6, <3>7, <3>8
  <2>2. past[m + 1].result \notin {"Ok", "Unrecognized"}
    BY <1>1, <2>1 DEF RecordInv, Tells, Failed
  <2>3. halted
    BY <1>1, <2>1, <2>2 DEF HaltInv
  <2>4. PICK k \in DOMAIN trace:
          \A l \in DOMAIN trace:
             /\ l < k => past[l + 1].result \in {"Ok", "Unrecognized"}
             /\ l >= k => past[l + 1].result = IF l = k THEN "Violation" ELSE "Blocked"
    BY <1>1, <2>3 DEF HaltInv, HaltExplained
  <2>5. k \in Nat
    BY <1>1, <2>4 DEF RecordInv, Kept
  <2>6. ~(m < k)
    BY <2>1, <2>2, <2>4
  <2>7. n >= k
    BY <2>1, <2>5, <2>6
  <2>8. past[n + 1].result \notin {"Ok", "Unrecognized"}
    BY <2>1, <2>4, <2>7
  <2>9. QED
    BY <1>1, <2>1, <2>8 DEF RecordInv, Tells, Failed
<1>2. RecordInv /\ HaltInv => FailedStaysFailed
  BY <1>1 DEF FailedStaysFailed
<1>3. LangfuseSpec => []HaltInv
  BY WrapperIsMonitor, HaltInvHolds DEF BehavesAsMonitor
<1>4. QED
  BY <1>2, <1>3, RecordInvariant, PTL

=============================================================================
