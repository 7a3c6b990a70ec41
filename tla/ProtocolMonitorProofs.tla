----------------------- MODULE ProtocolMonitorProofs -----------------------
(***************************************************************************)
(* Proofs about ProtocolMonitor: for every table, every depth of nested    *)
(* calls and whatever the user's code does to the monitor in between, its  *)
(* state is one its trace leads to.                                        *)
(***************************************************************************)
EXTENDS ProtocolMonitor, FsmProofs

Frame == [state : FsmState, trace : Seq(Events) \ {<<>>}]

\* A pending call will write a state and a trace that fit each other; the only call
\* of a monitor left alone will add one event.
IInv ==
    /\ TypeOK
    /\ frames \in Seq(Frame)
    /\ StateFitsTrace
    /\ \A i \in DOMAIN frames: frames[i].state \in Reach(initial, frames[i].trace)
    /\ TraceIsAnswers
    /\ ~nested => Len(frames) <= 1
    /\ ~nested /\ frames # <<>> =>
          \E ev \in Events: frames[Len(frames)].trace = Append(_trace, ev)

\* What _step makes of a state that fits its trace fits the longer trace.
LEMMA StepFits ==
    ASSUME _state \in FsmState, _trace \in Seq(Events), StateFitsTrace,
           NEW ev \in Events, NEW s \in step(_state, ev)
    PROVE  /\ s.state \in FsmState
           /\ Append(_trace, ev) \in Seq(Events) \ {<<>>}
           /\ s.state \in Reach(initial, Append(_trace, ev))
<1>0. PICK raising \in Raising: ~raising
  BY MonitorAssumption
<1> DEFINE f == [state |-> s.state, trace |-> Append(_trace, ev), raises |-> ~s.ok /\ raising]
<1>1. f \in fire_step(_state, _trace, ev)
  BY FireCan
<1>2. ~f.raises
  BY <1>0
<1>3. f.state \in Landing(Reach(initial, _trace), ev)
  BY <1>1, <1>2, FireLands DEF StateFitsTrace
<1>4. Reach(initial, Append(_trace, ev)) = Landing(Reach(initial, _trace), ev)
  BY ReachAppend
<1>5. s.state \in FsmState
  BY StepIs
<1>6. QED
  BY <1>3, <1>4, <1>5

\* A new monitor is in the initial state with an empty trace (__init__).
LEMMA InitInv == Init => IInv
<1> SUFFICES ASSUME Init PROVE IInv
  OBVIOUS
<1>1. /\ _state = initial /\ _trace = <<>> /\ answered = <<>> /\ frames = <<>> /\ nested = FALSE
      /\ Len(frames) = 0 /\ DOMAIN frames = {}
  BY DEF Init
<1>2. TypeOK
  <2>1. /\ initial \in FsmState /\ MaxFrames \in Nat /\ <<>> \in Seq(Events)
    BY TableAssumption, MonitorAssumption
  <2>2. Len(frames) <= MaxFrames
    BY <1>1, <2>1
  <2>3. \A i \in DOMAIN frames:
           frames[i].state \in FsmState /\ frames[i].trace \in Seq(Events) \ {<<>>}
    BY <1>1
  <2>4. QED
    BY <1>1, <2>1, <2>2, <2>3 DEF TypeOK
<1>3. StateFitsTrace
  BY <1>1, ReachEmpty DEF StateFitsTrace
<1>4. frames \in Seq(Frame)
  BY <1>1
<1>5. Len(frames) <= 1
  BY <1>1
<1>6. QED
  BY <1>1, <1>2, <1>3, <1>4, <1>5 DEF IInv, TraceIsAnswers

\* The events of a trace and of the history that transition() returned.
LEMMA CommitKeeps ==
    ASSUME IInv, NEW s, NEW t, Commit(s, t), s \in FsmState, t \in Seq(Events) \ {<<>>},
           s \in Reach(initial, t)
    PROVE  /\ _state' \in FsmState /\ _trace' \in Seq(Events) /\ answered' \in Seq(Events)
           /\ StateFitsTrace'
           /\ \A ev \in Events: t = Append(_trace, ev) /\ _trace = answered => _trace' = answered'
<1>1. /\ _state' = s /\ _trace' = t /\ answered' = Append(answered, t[Len(t)])
      /\ answered \in Seq(Events) /\ _trace \in Seq(Events)
  BY DEF Commit, IInv, TypeOK
<1>2. t[Len(t)] \in Events
  OBVIOUS
<1>3. answered' \in Seq(Events)
  BY <1>1, <1>2
<1>4. \A ev \in Events: t = Append(_trace, ev) => t[Len(t)] = ev
  BY <1>1
<1>5. StateFitsTrace'
  BY <1>1 DEF StateFitsTrace
<1>6. QED
  BY <1>1, <1>3, <1>4, <1>5

\* transition() writes what fire_step gives, or leaves it to a callback to return.
LEMMA TransitionKeeps == ASSUME IInv, NEW ev \in Events, transition(ev) PROVE IInv'
<1>0. /\ _state \in FsmState /\ _trace \in Seq(Events) /\ frames \in Seq(Frame)
      /\ nested \in BOOLEAN /\ StateFitsTrace
      /\ Len(frames) <= MaxFrames /\ MaxFrames \in Nat
  BY MonitorAssumption DEF IInv, TypeOK
<1> DEFINE longer == Append(_trace, ev)
<1>1. nested' = (nested \/ frames # <<>>)
  BY DEF transition
<1>2. PICK s \in step(_state, ev):
        \/ Commit(s.state, longer) /\ UNCHANGED frames
        \/ /\ Len(frames) < MaxFrames
           /\ frames' = Append(frames, [state |-> s.state, trace |-> longer])
           /\ UNCHANGED <<_state, _trace, answered>>
  BY DEF transition
<1>3. /\ s.state \in FsmState /\ longer \in Seq(Events) \ {<<>>}
      /\ s.state \in Reach(initial, longer)
  BY <1>0, StepFits
<1>4. CASE Commit(s.state, longer) /\ UNCHANGED frames
  <2>1. /\ _state' \in FsmState /\ _trace' \in Seq(Events) /\ answered' \in Seq(Events)
        /\ StateFitsTrace'
        /\ _trace = answered => _trace' = answered'
    BY <1>3, <1>4, CommitKeeps
  <2>2. frames' = frames
    BY <1>4
  <2>3. TypeOK' /\ frames' \in Seq(Frame)
    BY <1>0, <1>1, <2>1, <2>2 DEF IInv, TypeOK
  <2>4. ~nested' => ~nested /\ frames = <<>> /\ Len(frames) <= 1
    BY <1>1 DEF IInv
  <2>5. QED
    BY <2>1, <2>2, <2>3, <2>4 DEF IInv, TraceIsAnswers
<1>5. CASE /\ Len(frames) < MaxFrames
           /\ frames' = Append(frames, [state |-> s.state, trace |-> longer])
           /\ UNCHANGED <<_state, _trace, answered>>
  <2> DEFINE frame == [state |-> s.state, trace |-> longer]
  <2>1. frame \in Frame
    BY <1>3 DEF Frame
  <2>2. /\ frames' \in Seq(Frame) /\ Len(frames') = Len(frames) + 1
        /\ \A i \in DOMAIN frames': IF i = Len(frames') THEN frames'[i] = frame
                                    ELSE i \in DOMAIN frames /\ frames'[i] = frames[i]
        /\ Len(frames') \in DOMAIN frames'
    BY <1>0, <1>5, <2>1
  <2>3. ASSUME NEW i \in DOMAIN frames'
        PROVE  frames'[i] \in Frame /\ frames'[i].state \in Reach(initial, frames'[i].trace)
    <3>1. CASE i = Len(frames')
      <4>1. frames'[i] = frame
        BY <2>2, <3>1
      <4>2. frame.state \in Reach(initial, frame.trace)
        BY <1>3
      <4> HIDE DEF frame
      <4>3. QED
        BY <2>1, <4>1, <4>2
    <3>2. CASE i # Len(frames')
      <4>1. i \in DOMAIN frames /\ frames'[i] = frames[i]
        BY <2>2, <3>2
      <4>2. frames[i] \in Frame /\ frames[i].state \in Reach(initial, frames[i].trace)
        BY <1>0, <4>1 DEF IInv
      <4>3. QED
        BY <4>1, <4>2
    <3>3. QED
      BY <3>1, <3>2
  <2>4. TypeOK'
    BY <1>0, <1>1, <1>5, <2>2, <2>3 DEF IInv, TypeOK, Frame
  <2>5. StateFitsTrace' /\ (~nested' => TraceIsAnswers')
    BY <1>1, <1>5 DEF IInv, StateFitsTrace, TraceIsAnswers
  <2>6. ~nested' => /\ Len(frames') <= 1
                    /\ frames'[Len(frames')].trace = longer /\ _trace' = _trace
    <3>1. frames'[Len(frames')] = frame /\ frame.trace = longer
      BY <2>2
    <3>2. frames = <<>> => Len(frames') <= 1
      <4>1. frames = <<>> => Len(frames) = 0
        OBVIOUS
      <4>2. QED
        BY <2>2, <4>1
    <3>3. ~nested' => frames = <<>>
      BY <1>1
    <3>4. _trace' = _trace
      BY <1>5
    <3>5. ~nested' => Len(frames') <= 1
      BY <3>2, <3>3
    <3> HIDE DEF frame, longer
    <3>6. QED
      BY <3>1, <3>4, <3>5
  <2>7. QED
    BY <2>2, <2>3, <2>4, <2>5, <2>6 DEF IInv, TraceIsAnswers
<1>6. QED
  BY <1>2, <1>4, <1>5

\* A call that is over, whether its frame is written or dropped.
LEMMA PopKeeps ==
    ASSUME IInv, frames # <<>>, Pop
    PROVE  /\ Top \in Frame /\ Top.state \in Reach(initial, Top.trace)
           /\ frames' \in Seq(Frame) /\ Len(frames') = Len(frames) - 1 /\ Len(frames) \in Nat
           /\ \A i \in DOMAIN frames': i \in DOMAIN frames /\ frames'[i] = frames[i]
           /\ Len(frames) = 1 => frames' = <<>>
<1>1. frames \in Seq(Frame) /\ Len(frames) \in Nat /\ Len(frames) # 0
  <2>1. frames \in Seq(Frame)
    BY DEF IInv
  <2>2. QED
    BY <2>1, EmptySeq
<1>2. Len(frames) \in DOMAIN frames
  BY <1>1
<1>3. Top \in Frame /\ Top.state \in Reach(initial, Top.trace)
  BY <1>1, <1>2 DEF Top, IInv
<1>4. frames' = SubSeq(frames, 1, Len(frames) - 1)
  BY DEF Pop
<1>5. /\ frames' \in Seq(Frame) /\ Len(frames') = Len(frames) - 1
      /\ \A i \in 1..(Len(frames) - 1): frames'[i] = frames[i]
  <2>1. PICK n \in Nat: n = Len(frames) /\ n # 0
    BY <1>1
  <2>2. \A i \in 1..(n - 1): frames[i] \in Frame
    BY <1>1, <2>1
  <2>3. LET r == SubSeq(frames, 1, n - 1)
        IN  r \in Seq(Frame) /\ Len(r) = n - 1 /\ \A i \in 1..(n - 1): r[i] = frames[i]
    BY <1>1, <2>1, <2>2
  <2>4. QED
    BY <1>4, <2>1, <2>3
<1>6. \A i \in DOMAIN frames': i \in DOMAIN frames /\ frames'[i] = frames[i]
  BY <1>1, <1>5
<1>7. Len(frames) = 1 => frames' = <<>>
  BY <1>5, EmptySeq
<1>8. QED
  BY <1>1, <1>3, <1>5, <1>6, <1>7

\* A callback that returns lets its call write, whatever was written meanwhile.
LEMMA ReturnKeeps == ASSUME IInv, callback_returns PROVE IInv'
<1>0. /\ frames # <<>> /\ Pop /\ Commit(Top.state, Top.trace) /\ nested' = nested
      /\ nested \in BOOLEAN /\ MaxFrames \in Nat /\ Len(frames) <= MaxFrames
  BY MonitorAssumption DEF callback_returns, IInv, TypeOK
<1>1. /\ Top \in Frame /\ Top.state \in Reach(initial, Top.trace)
      /\ frames' \in Seq(Frame) /\ Len(frames') = Len(frames) - 1 /\ Len(frames) \in Nat
      /\ \A i \in DOMAIN frames': i \in DOMAIN frames /\ frames'[i] = frames[i]
      /\ Len(frames) = 1 => frames' = <<>>
  BY <1>0, PopKeeps
<1>2. Top.state \in FsmState /\ Top.trace \in Seq(Events) \ {<<>>}
  BY <1>1 DEF Frame
<1>3. /\ _state' \in FsmState /\ _trace' \in Seq(Events) /\ answered' \in Seq(Events)
      /\ StateFitsTrace'
      /\ \A ev \in Events: Top.trace = Append(_trace, ev) /\ _trace = answered
                             => _trace' = answered'
  BY <1>0, <1>1, <1>2, CommitKeeps
<1>4. \A i \in DOMAIN frames': /\ frames'[i] \in Frame
                               /\ frames'[i].state \in Reach(initial, frames'[i].trace)
  BY <1>1 DEF IInv
<1>5. TypeOK'
  <2>1. Len(frames') <= MaxFrames
    BY <1>0, <1>1
  <2>2. QED
    BY <1>0, <1>3, <1>4, <2>1 DEF TypeOK, Frame
<1>6. ~nested' => frames' = <<>> /\ Len(frames') <= 1
  <2>1. ~nested => Len(frames) <= 1
    BY DEF IInv
  <2>2. Len(frames) # 0
    BY <1>0, <1>1, EmptySeq DEF IInv
  <2>3. ~nested => Len(frames) = 1 /\ Len(frames') <= 1
    BY <1>1, <2>1, <2>2
  <2>4. QED
    BY <1>0, <1>1, <2>3
<1>7. ~nested' => _trace' = answered'
  <2>1. ~nested => \E ev \in Events: Top.trace = Append(_trace, ev)
    BY <1>0 DEF IInv, Top
  <2>2. ~nested => _trace = answered
    BY DEF IInv, TraceIsAnswers
  <2>3. QED
    BY <1>0, <1>3, <2>1, <2>2
<1>8. QED
  BY <1>1, <1>3, <1>4, <1>5, <1>6, <1>7 DEF IInv, TraceIsAnswers

\* A call that raises leaves the monitor as it was, and its callers waiting.
LEMMA RaiseKeeps == ASSUME IInv, callback_raises PROVE IInv'
<1>0. /\ frames # <<>> /\ Pop /\ nested' = nested
      /\ _state' = _state /\ _trace' = _trace /\ answered' = answered
      /\ MaxFrames \in Nat /\ Len(frames) <= MaxFrames
  BY MonitorAssumption DEF callback_raises, IInv, TypeOK
<1>1. /\ frames' \in Seq(Frame) /\ Len(frames') = Len(frames) - 1 /\ Len(frames) \in Nat
      /\ \A i \in DOMAIN frames': i \in DOMAIN frames /\ frames'[i] = frames[i]
      /\ Len(frames) = 1 => frames' = <<>>
  BY <1>0, PopKeeps
<1>2. \A i \in DOMAIN frames': /\ frames'[i] \in Frame
                               /\ frames'[i].state \in Reach(initial, frames'[i].trace)
  BY <1>1 DEF IInv
<1>3. TypeOK'
  <2>1. Len(frames') <= MaxFrames
    BY <1>0, <1>1
  <2>2. QED
    BY <1>0, <1>2, <2>1 DEF IInv, TypeOK, Frame
<1>4. StateFitsTrace' /\ TraceIsAnswers'
  BY <1>0 DEF IInv, StateFitsTrace, TraceIsAnswers
<1>5. ~nested' => frames' = <<>> /\ Len(frames') <= 1
  <2>1. ~nested => Len(frames) <= 1
    BY DEF IInv
  <2>2. Len(frames) # 0
    BY <1>0, <1>1, EmptySeq DEF IInv
  <2>3. ~nested => Len(frames) = 1 /\ Len(frames') <= 1
    BY <1>1, <2>1, <2>2
  <2>4. QED
    BY <1>0, <1>1, <2>3
<1>6. QED
  BY <1>1, <1>2, <1>3, <1>4, <1>5 DEF IInv

\* A reset during a call: what the call will write still fits itself.
LEMMA ResetKeeps == ASSUME IInv, reset PROVE IInv'
<1>1. /\ _state' = initial /\ _trace' = <<>> /\ answered' = <<>> /\ frames' = frames
      /\ nested' = (frames # <<>>)
  BY DEF reset
<1>2. initial \in FsmState /\ <<>> \in Seq(Events)
  BY TableAssumption
<1>3. TypeOK'
  BY <1>1, <1>2 DEF IInv, TypeOK
<1>4. StateFitsTrace'
  BY <1>1, ReachEmpty DEF StateFitsTrace
<1>5. ~nested' => frames' = <<>> /\ Len(frames') <= 1
  <2>1. ~nested' => frames = <<>>
    BY <1>1
  <2>2. Len(<<>>) <= 1
    OBVIOUS
  <2>3. QED
    BY <1>1, <2>1, <2>2
<1>6. QED
  BY <1>1, <1>3, <1>4, <1>5 DEF IInv, TraceIsAnswers

\* Every call, return, exception and reset keeps the invariant.
LEMMA NextInv == ASSUME IInv, [Next]_vars PROVE IInv'
<1>1. CASE \E ev \in Events: transition(ev)
  BY <1>1, TransitionKeeps
<1>2. CASE callback_returns
  BY <1>2, ReturnKeeps
<1>3. CASE callback_raises
  BY <1>3, RaiseKeeps
<1>4. CASE reset
  BY <1>4, ResetKeeps
<1>5. CASE UNCHANGED vars
  BY <1>5 DEF IInv, TypeOK, StateFitsTrace, TraceIsAnswers, vars
<1>6. QED
  BY <1>1, <1>2, <1>3, <1>4, <1>5 DEF Next

\* So it holds of every monitor.
LEMMA InvHolds == Spec => []IInv
<1>1. QED
  BY InitInv, NextInv, PTL DEF Spec

-----------------------------------------------------------------------------
(* A monitor that is left alone is a run of the table                       *)

\* The table of the run is the monitor's.
LEMMA SameTable == \A s, e: Run!Reach(s, e) = Reach(s, e)
  BY DEF Run!Reach, Run!Landing, Run!fire_step, Run!step, Run!event,
         Reach, Landing, fire_step, step, event

\* The call that waits will write the step of the monitor as it still is.
Pending ==
    ~nested /\ frames # <<>> =>
        \E ev \in Events: Top.trace = Append(_trace, ev) /\ Top.state \in Landing({_state}, ev)

\* Where a step leads, a run without exceptions can go.
LEMMA StepLands ==
    ASSUME NEW ev, NEW s \in step(_state, ev)
    PROVE  s.state \in Landing({_state}, ev)
<1>0. PICK raising \in Raising: ~raising
  BY MonitorAssumption
<1> DEFINE f == [state |-> s.state, trace |-> Append(_trace, ev), raises |-> ~s.ok /\ raising]
<1>1. f \in fire_step(_state, _trace, ev)
  BY FireCan
<1>2. ~f.raises
  BY <1>0
<1>3. f.state \in Landing({_state}, ev)
  BY <1>1, <1>2, FireLands
<1>4. QED
  BY <1>3

\* Only a call of the monitor by the user's code could change it under a waiting call.
LEMMA PendingStays == ASSUME IInv, Pending, [Next]_vars PROVE Pending'
<1>0. frames \in Seq(Frame)
  BY DEF IInv
<1>1. ASSUME NEW ev \in Events, transition(ev) PROVE Pending'
  <2>1. ~nested' => frames = <<>>
    BY <1>1 DEF transition
  <2>2. PICK s \in step(_state, ev):
          \/ UNCHANGED frames
          \/ /\ frames' = Append(frames, [state |-> s.state, trace |-> Append(_trace, ev)])
             /\ _state' = _state /\ _trace' = _trace
    BY <1>1 DEF transition
  <2>3. CASE UNCHANGED frames
    BY <2>1, <2>3 DEF Pending
  <2>4. CASE /\ frames' = Append(frames, [state |-> s.state, trace |-> Append(_trace, ev)])
             /\ _state' = _state /\ _trace' = _trace
    <3> DEFINE frame == [state |-> s.state, trace |-> Append(_trace, ev)]
    <3>1. Top' = frame
      BY <1>0, <2>4 DEF Top
    <3>2. frame.state \in Landing({_state}, ev) /\ frame.trace = Append(_trace, ev)
      BY StepLands
    <3> HIDE DEF frame
    <3>3. QED
      BY <2>4, <3>1, <3>2 DEF Pending
  <2>5. QED
    BY <2>2, <2>3, <2>4
<1>2. CASE callback_returns \/ callback_raises
  <2>1. frames # <<>> /\ Pop /\ nested' = nested
    BY <1>2 DEF callback_returns, callback_raises
  <2>2. Len(frames) \in Nat /\ (Len(frames) = 1 => frames' = <<>>)
    BY <2>1, PopKeeps
  <2>3. Len(frames) # 0
    BY <1>0, <2>1, EmptySeq
  <2>4. ~nested => Len(frames) <= 1
    BY DEF IInv
  <2>5. ASSUME ~nested PROVE Len(frames) = 1
    <3>1. Len(frames) <= 1
      BY <2>4, <2>5
    <3>2. \A n \in Nat: n # 0 /\ n <= 1 => n = 1
      OBVIOUS
    <3>3. QED
      BY <2>2, <2>3, <3>1, <3>2
  <2>6. ~nested' => frames' = <<>>
    BY <2>1, <2>2, <2>5
  <2>7. QED
    BY <2>6 DEF Pending
<1>3. CASE reset
  BY <1>3 DEF reset, Pending
<1>4. CASE UNCHANGED vars
  BY <1>4 DEF Pending, Top, vars
<1>5. QED
  BY <1>1, <1>2, <1>3, <1>4 DEF Next

\* An event written with the step it takes advances the run.
LEMMA Advances ==
    ASSUME _trace \in Seq(Events), NEW ev \in Events,
           _trace' = Append(_trace, ev), _state' \in Landing({_state}, ev)
    PROVE  Run!Advance
<1>1. PICK old \in Seq(Events), new \in Seq(Events): old = _trace /\ new = Append(old, ev)
  OBVIOUS
<1>2. IsPrefix(old, new) /\ SubSeq(new, Len(old) + 1, Len(new)) = <<ev>>
  BY <1>1, OneMore
<1>3. PICK one: one = <<ev>>
  OBVIOUS
<1>4. Reach(_state, one) = Landing({_state}, ev)
  BY <1>3, ReachOne
<1>5. _state' \in Run!Reach(_state, one)
  BY <1>4, SameTable
<1>6. new = _trace' /\ one = SubSeq(_trace', Len(_trace) + 1, Len(_trace'))
  BY <1>1, <1>2, <1>3
<1>7. Run!IsPrefix(_trace, _trace')
  BY <1>1, <1>2, <1>6 DEF Run!IsPrefix, IsPrefix
<1>8. QED
  BY <1>5, <1>6, <1>7 DEF Run!Advance

\* Calls that return advance the run, calls that raise leave it, a reset starts it over.
LEMMA RunStep ==
    ASSUME IInv, Pending, [Next]_vars, ~nested'
    PROVE  [Run!Advance \/ Run!Restart]_(Run!vars)
<1>0. _trace \in Seq(Events)
  BY DEF IInv, TypeOK
<1>1. ASSUME NEW ev \in Events, transition(ev) PROVE Run!Advance \/ UNCHANGED Run!vars
  <2>1. PICK s \in step(_state, ev):
          \/ _state' = s.state /\ _trace' = Append(_trace, ev)
          \/ _state' = _state /\ _trace' = _trace
    BY <1>1 DEF transition, Commit
  <2>2. s.state \in Landing({_state}, ev)
    BY StepLands
  <2>3. CASE _state' = s.state /\ _trace' = Append(_trace, ev)
    BY <1>0, <2>2, <2>3, Advances
  <2>4. QED
    BY <2>1, <2>3 DEF Run!vars
<1>2. CASE callback_returns
  <2>1. frames # <<>> /\ ~nested /\ _state' = Top.state /\ _trace' = Top.trace
    BY <1>2 DEF callback_returns, Commit
  <2>2. PICK ev \in Events: _trace' = Append(_trace, ev) /\ _state' \in Landing({_state}, ev)
    BY <2>1 DEF Pending
  <2>3. QED
    BY <1>0, <2>2, Advances
<1>3. CASE callback_raises \/ UNCHANGED vars
  BY <1>3 DEF callback_raises, vars, Run!vars
<1>4. CASE reset
  BY <1>4 DEF reset, Run!Restart
<1>5. QED
  BY <1>1, <1>2, <1>3, <1>4 DEF Next

-----------------------------------------------------------------------------
(* Theorems                                                                 *)

\* What the monitor holds, and what a call that waits for the user's code will write,
\* are states of the table and sequences of the events fired.
THEOREM MonitorTypes == Spec => []TypeOK
<1>1. IInv => TypeOK
  BY DEF IInv
<1>2. QED
  BY <1>1, InvHolds, PTL

\* _state is one that _trace leads to, in every table and at every depth of calls of the
\* monitor by the user's code that the monitor itself is calling: what an outer call
\* writes over an inner one is a state and a trace that belong together.
THEOREM StateAlwaysFits == Spec => []StateFitsTrace
<1>1. IInv => StateFitsTrace
  BY DEF IInv
<1>2. QED
  BY <1>1, InvHolds, PTL

\* A monitor that the user's code leaves alone holds the events that transition() has
\* answered since the last reset, in order, refused ones included.
THEOREM TraceIsWhatWasAnswered == Spec => []TraceIsAnswers
<1>1. IInv => TraceIsAnswers
  BY DEF IInv
<1>2. QED
  BY <1>1, InvHolds, PTL

\* A monitor that the user's code leaves alone is a run of the table with restarts: every
\* transition() that returns extends its trace by a path from its state, whichever raised.
THEOREM MonitorIsRun == Spec => RunsAsRun
<1>1. Init => Pending
  BY DEF Init, Pending
<1>2. IInv /\ Pending /\ [Next]_vars => Pending'
  BY PendingStays
<1>3. IInv /\ Pending /\ [Next]_vars => [~nested' => [Run!Advance \/ Run!Restart]_(Run!vars)]_vars
  BY RunStep
<1>4. QED
  BY <1>1, <1>2, <1>3, InvHolds, PTL DEF Spec, RunsAsRun

\* In a table without guards _trace alone tells _state, at every depth of calls of the
\* monitor by the user's code.
THEOREM TraceTellsState ==
    ASSUME Unguarded
    PROVE  Spec => [](Reach(initial, _trace) = {_state})
<1>1. ASSUME IInv PROVE Reach(initial, _trace) = {_state}
  <2>1. PICK evs \in Seq(Events): evs = _trace
    BY <1>1 DEF IInv, TypeOK
  <2>2. \A p, q \in Reach(initial, evs): p = q
    <3>1. Len(evs) \in Nat
      OBVIOUS
    <3>2. QED
      BY <3>1, OneReached
  <2>3. _state \in Reach(initial, evs)
    BY <1>1, <2>1 DEF IInv, StateFitsTrace
  <2>4. QED
    BY <2>1, <2>2, <2>3
<1>2. IInv => Reach(initial, _trace) = {_state}
  BY <1>1
<1>3. QED
  BY <1>2, InvHolds, PTL

=============================================================================
