--------------------------- MODULE MonitorProofs ---------------------------
(***************************************************************************)
(* Theorems about the Monitor, for every protocol, every set of releases   *)
(* that agree on it, and every bound.                                      *)
(***************************************************************************)
EXTENDS MonitorReleases, TLAPS

\* The table of a release leads from its states to its states, so After is a
\* configuration (_step).
LEMMA AfterType ==
    ASSUME NEW r \in Release, NEW s \in State, NEW h \in BOOLEAN, NEW e \in Event
    PROVE  After(r, s, h, e) \in Config
  BY AutomatonAssumption
  DEF After, Verdict, Transitions, Config, Verdicts

\* A new monitor is a configuration (Monitor.__init__).
LEMMA FreshType == \A r \in Release: Fresh(r) \in Config
  BY AutomatonAssumption DEF Fresh, Config, Verdicts

\* One event of the trace or of the snapshot leaves a typed monitor (_step).
LEMMA StepType ==
    ASSUME TypeOK, NEW e \in Event, _step(e)
    PROVE  /\ current_state' \in State
           /\ halted' \in BOOLEAN
           /\ trace' \in Seq(Event)
           /\ past' \in Seq(Config)
<1>1. After(release, current_state, halted, e) \in Config
  BY AfterType DEF TypeOK
<1>2. QED
  BY <1>1 DEF _step, TypeOK, Config

\* A monitor built anew is typed (Monitor.__init__, reset).
LEMMA FreshStepType ==
    ASSUME NEW r \in Release, BecomeFresh(r)
    PROVE  /\ current_state' \in State
           /\ halted' \in BOOLEAN
           /\ trace' \in Seq(Event)
           /\ past' \in Seq(Config)
<1>1. Fresh(r) \in Config
  BY FreshType
<1>2. past' \in Seq(Config)
  BY <1>1 DEF BecomeFresh
<1>3. current_state' \in State
  BY <1>1 DEF BecomeFresh, Config
<1>4. trace' \in Seq(Event)
  <2>1. <<>> \in Seq(Event)
    OBVIOUS
  <2>2. QED
    BY <2>1 DEF BecomeFresh
<1>5. halted' \in BOOLEAN
  BY DEF BecomeFresh
<1>6. QED
  BY <1>2, <1>3, <1>4, <1>5

\* The monitor a process starts with is typed (Monitor.__init__).
LEMMA InitType == Init => TypeOK
<1> SUFFICES ASSUME Init PROVE TypeOK
  OBVIOUS
<1>1. Fresh(release) \in Config
  BY FreshType DEF Init
<1>2. past \in Seq(Config)
  BY <1>1 DEF Init
<1>3. saved \in [past : Seq(Config), release : Release]
  BY <1>2 DEF Init
<1>4. current_state \in State
  BY <1>1 DEF Init, Config
<1>5. <<>> \in Seq(Event) /\ <<>> \in Seq(Event \cup {Malformed})
  OBVIOUS
<1>6. trace \in Seq(Event) /\ snapshot \in Seq(Event \cup {Malformed})
  BY <1>5 DEF Init
<1>7. QED
  BY <1>2, <1>3, <1>4, <1>6 DEF Init, TypeOK, Verdicts

\* So is what any operation of the monitor or its process leaves.
LEMMA NextType == TypeOK /\ [Next]_vars => TypeOK'
<1> SUFFICES ASSUME TypeOK, [Next]_vars PROVE TypeOK'
  OBVIOUS
<1>1. ASSUME NEW d \in Direction, NEW label \in Label, Observe(d, label) PROVE TypeOK'
  <2>1. <<d, label>> \in Event
    BY DEF Event
  <2>2. result' \in Verdicts
    BY <1>1 DEF Observe, Verdict, Verdicts
  <2>3. QED
    BY <1>1, <2>1, <2>2, StepType DEF Observe, TypeOK, disk
<1>2. CASE reset
  BY <1>2, FreshStepType DEF reset, TypeOK, disk
<1>3. CASE to_dict
  <2>1. trace \in Seq(Event \cup {Malformed})
    BY DEF TypeOK
  <2>2. QED
    BY <1>3, <2>1 DEF to_dict, TypeOK, object
<1>4. CASE Crash
  BY <1>4, FreshStepType DEF Crash, TypeOK, disk, Verdicts
<1>5. ASSUME NEW i \in DOMAIN snapshot, Damage(i) PROVE TypeOK'
  <2>1. snapshot' \in Seq(Event \cup {Malformed})
    BY <1>5 DEF Damage, TypeOK
  <2>2. QED
    BY <1>5, <2>1 DEF Damage, TypeOK, object
<1>6. ASSUME NEW r \in Release, StartNew(r) \/ StartRestore(r) PROVE TypeOK'
  BY <1>6, FreshStepType DEF StartNew, StartRestore, TypeOK, disk
<1>7. CASE Replay
  BY <1>7, StepType DEF Replay, TypeOK, disk
<1>8. CASE ReplayRaises
  BY <1>8, FreshStepType DEF ReplayRaises, TypeOK, disk
<1>9. CASE Restored
  BY <1>9 DEF Restored, TypeOK, object, disk
<1>10. CASE UNCHANGED vars
  BY <1>10 DEF vars, TypeOK, object, disk
<1>11. QED
  BY <1>1, <1>2, <1>3, <1>4, <1>5, <1>6, <1>7, <1>8, <1>9, <1>10
  DEF Next, send, receive, Direction

\* Every variable of the monitor and its process keeps its type.
THEOREM TypeCorrect == Spec => []TypeOK
  BY InitType, NextType, PTL DEF Spec

-----------------------------------------------------------------------------
(* The history beside the trace                                             *)

\* Appending an event and what _step makes of it keeps the history (_step).
LEMMA StepRecorded ==
    ASSUME TypeOK, Recorded, NEW e \in Event, _step(e)
    PROVE  /\ Len(past') = Len(past) + 1
           /\ Len(trace') = Len(trace) + 1
           /\ \A i \in 1..Len(past): past'[i] = past[i]
           /\ \A i \in 1..Len(trace): trace'[i] = trace[i]
           /\ trace'[Len(trace) + 1] = e
           /\ past'[Len(past) + 1] = After(release, current_state, halted, e)
           /\ current_state' = past'[Len(past')].state
           /\ halted' = past'[Len(past')].halted
           /\ History(release, trace', past')
<1>1. /\ past \in Seq(Config) /\ trace \in Seq(Event)
      /\ Len(past) = Len(trace) + 1
      /\ current_state = past[Len(past)].state
      /\ halted = past[Len(past)].halted
  BY DEF TypeOK, Recorded, History, Now
<1> DEFINE next == After(release, current_state, halted, e)
<1>2. /\ past' = Append(past, next)
      /\ trace' = Append(trace, e)
      /\ current_state' = next.state
      /\ halted' = next.halted
  BY DEF _step
<1> HIDE DEF next
<1>3. /\ Len(past') = Len(past) + 1
      /\ Len(trace') = Len(trace) + 1
      /\ \A i \in 1..Len(past): past'[i] = past[i]
      /\ \A i \in 1..Len(trace): trace'[i] = trace[i]
      /\ trace'[Len(trace) + 1] = e
      /\ past'[Len(past) + 1] = next
  BY <1>1, <1>2
<1>4. History(release, trace', past')
  <2>1. past'[1] = Fresh(release)
    BY <1>1, <1>3 DEF Recorded, History
  <2>2. ASSUME NEW i \in 1..Len(trace'), trace'[i] # Malformed
        PROVE  past'[i + 1] = After(release, past'[i].state, past'[i].halted, trace'[i])
    <3>1. CASE i = Len(trace) + 1
      BY <3>1, <1>1, <1>3 DEF next
    <3>2. CASE i # Len(trace) + 1
      <4>1. i \in 1..Len(trace) /\ i \in 1..Len(past) /\ i + 1 \in 1..Len(past)
        BY <3>2, <1>1, <1>3
      <4>2. past[i + 1] = After(release, past[i].state, past[i].halted, trace[i])
        BY <4>1, <2>2, <1>3 DEF Recorded, History
      <4>3. QED
        BY <4>1, <4>2, <1>3
    <3>3. QED
      BY <3>1, <3>2
  <2>3. QED
    BY <2>1, <2>2, <1>1, <1>3 DEF History
<1>5. QED
  BY <1>1, <1>2, <1>3, <1>4 DEF next

\* The history of a monitor built anew (Monitor.__init__, reset).
LEMMA FreshRecorded ==
    ASSUME NEW r \in Release, BecomeFresh(r)
    PROVE  /\ Len(past') = 1 /\ Len(trace') = 0
           /\ past'[1] = Fresh(r)
           /\ current_state' = past'[Len(past')].state
           /\ halted' = past'[Len(past')].halted
           /\ History(r, trace', past')
<1>1. /\ past' = <<Fresh(r)>> /\ trace' = <<>>
      /\ current_state' = Fresh(r).state /\ halted' = FALSE
  BY DEF BecomeFresh
<1>2. Len(past') = 1 /\ Len(trace') = 0 /\ past'[1] = Fresh(r)
  BY <1>1
<1>3. History(r, trace', past')
  BY <1>2 DEF History
<1>4. Fresh(r).halted = FALSE
  BY DEF Fresh
<1>5. QED
  BY <1>1, <1>2, <1>3, <1>4

-----------------------------------------------------------------------------
(* Releases that agree                                                      *)

\* An event takes two states at one position to one position, with one verdict
\* (_step in two releases).
LEMMA StepAgrees ==
    ASSUME NEW r1 \in Release, NEW r2 \in Release, NEW s1 \in State, NEW s2 \in State,
           NEW h, NEW e \in Event, Pos[r1][s1] = Pos[r2][s2]
    PROVE  /\ Pos[r1][After(r1, s1, h, e).state] = Pos[r2][After(r2, s2, h, e).state]
           /\ After(r1, s1, h, e).halted = After(r2, s2, h, e).halted
<1>1. DOMAIN Transitions(r1, s1) = DOMAIN Transitions(r2, s2)
  BY ReleasesAgree
<1>2. ASSUME e \in DOMAIN Transitions(r1, s1)
      PROVE  Pos[r1][Transitions(r1, s1)[e]] = Pos[r2][Transitions(r2, s2)[e]]
  BY <1>1, <1>2, ReleasesAgree
<1>3. Verdict(r1, s1, h, e) = Verdict(r2, s2, h, e)
  BY <1>1 DEF Verdict
<1>4. Verdict(r1, s1, h, e) = "Ok" => e \in DOMAIN Transitions(r1, s1)
  BY DEF Verdict
<1>5. QED
  BY <1>2, <1>3, <1>4 DEF After

\* A new monitor agrees with the first configuration of whatever was saved.
LEMMA FreshAgrees ==
    ASSUME TypeOK, Recorded, NEW r \in Release, BecomeFresh(r), release' = r,
           UNCHANGED saved
    PROVE  Agreement'
<1>1. Len(past') = 1 /\ past'[1] = Fresh(r)
  BY FreshRecorded
<1>2. saved.past[1] = Fresh(saved.release) /\ saved.release \in Release
  BY DEF Recorded, History, TypeOK
<1>3. Pos[r][Fresh(r).state] = Pos[saved.release][Fresh(saved.release).state]
  BY <1>2, ReleasesAgree DEF Fresh
<1>4. Fresh(r).halted = Fresh(saved.release).halted
  BY DEF Fresh
<1>5. \A i \in 1..Len(past'): i = 1
  BY <1>1
<1>6. QED
  BY <1>1, <1>2, <1>3, <1>4, <1>5 DEF Agreement

\* Another event of the trace keeps the agreement (_step).
LEMMA StepAgreement ==
    ASSUME TypeOK, Recorded, Agreement, NEW e \in Event, _step(e),
           UNCHANGED <<release, snapshot, saved>>
    PROVE  Agreement'
<1> SUFFICES ASSUME NEW i \in 1..Len(past'), i <= Len(saved.past), SameSoFar(i)'
             PROVE  /\ Pos[release][past'[i].state] = Pos[saved.release][saved.past[i].state]
                    /\ past'[i].halted = saved.past[i].halted
  BY DEF Agreement
<1>1. /\ past \in Seq(Config) /\ saved.past \in Seq(Config)
      /\ trace \in Seq(Event) /\ snapshot \in Seq(Event \cup {Malformed})
      /\ release \in Release /\ saved.release \in Release
  BY DEF TypeOK
<1>2. /\ Len(past) = Len(trace) + 1 /\ Len(saved.past) = Len(snapshot) + 1
      /\ current_state = past[Len(past)].state
      /\ halted = past[Len(past)].halted
  BY DEF Recorded, History, Now
<1>3. CASE i \in 1..Len(past)
  <2>1. SameSoFar(i)
    BY <1>1, <1>2, <1>3, StepRecorded DEF SameSoFar
  <2>2. past'[i] = past[i]
    BY <1>3, StepRecorded
  <2>3. QED
    BY <1>3, <2>1, <2>2 DEF Agreement
<1>4. CASE i = Len(past) + 1
  <2> DEFINE k == Len(past)
  <2>1. k \in 1..Len(past) /\ k \in 1..Len(snapshot) /\ k <= Len(saved.past)
    BY <1>1, <1>2, <1>4
  <2>0. trace' = Append(trace, e) /\ k = Len(trace) + 1
    BY <1>2 DEF _step
  <2>2. SameSoFar(k) /\ snapshot[k] = e
    <3>1. \A j \in 1..k: trace'[j] = snapshot[j]
      BY <1>4, <1>1 DEF SameSoFar
    <3>2. \A j \in 1..(k - 1): trace'[j] = trace[j]
      BY <2>0, <1>1
    <3>3. trace'[k] = e
      BY <2>0, <1>1
    <3>4. QED
      BY <3>1, <3>2, <3>3, <1>1, <1>2 DEF SameSoFar
  <2>3. /\ Pos[release][past[k].state] = Pos[saved.release][saved.past[k].state]
        /\ past[k].halted = saved.past[k].halted
    BY <2>1, <2>2 DEF Agreement
  <2>4. saved.past[k + 1]
          = After(saved.release, saved.past[k].state, saved.past[k].halted, e)
    BY <2>1, <2>2, MalformedAssumption DEF Recorded, History
  <2>5. past'[k + 1] = After(release, past[k].state, past[k].halted, e)
    BY <1>2, StepRecorded
  <2>6. past[k].state \in State /\ saved.past[k].state \in State
    <3>1. past[k] \in Config /\ saved.past[k] \in Config
      BY <1>1, <1>2, <2>1
    <3>2. QED
      BY <3>1 DEF Config
  <2>7. QED
    BY <1>1, <1>4, <2>3, <2>4, <2>5, <2>6, StepAgrees
<1>5. QED
  BY <1>1, <1>3, <1>4, StepRecorded

-----------------------------------------------------------------------------
(* The inductive invariant                                                  *)

\* The invariant holds of the first process (Monitor.__init__).
LEMMA InitIInv == Init => IInv
<1> SUFFICES ASSUME Init PROVE IInv
  OBVIOUS
<1>1. TypeOK
  BY InitType
<1>2. Len(past) = 1 /\ past[1] = Fresh(release) /\ Len(trace) = 0
  BY DEF Init
<1>3. Recorded
  <2>1. History(release, trace, past)
    BY <1>2 DEF History
  <2>2. /\ saved.past = past /\ saved.release = release /\ snapshot = trace
        /\ current_state = Fresh(release).state /\ halted = Fresh(release).halted
    BY DEF Init, Fresh
  <2>3. QED
    BY <1>2, <2>1, <2>2 DEF Recorded, Now
<1>4. Agreement
  <2>1. saved.past = past /\ saved.release = release
    BY DEF Init
  <2>2. QED
    BY ONLY <2>1 DEF Agreement
<1>5. Replayed /\ Quiet
  BY DEF Init, Replayed, Quiet
<1>6. QED
  BY <1>1, <1>3, <1>4, <1>5 DEF IInv

\* _step keeps the invariant, in send and receive as in from_dict.
LEMMA StepIInv ==
    ASSUME IInv, NEW e \in Event, _step(e), UNCHANGED <<release, snapshot, saved>>
    PROVE  Recorded' /\ Agreement'
<1>1. Recorded'
  BY StepRecorded DEF IInv, Recorded, Now
<1>2. Agreement'
  BY StepAgreement DEF IInv
<1>3. QED
  BY <1>1, <1>2

\* A monitor built anew satisfies it, be it to serve or to be restored (reset,
\* from_dict).
LEMMA FreshIInv ==
    ASSUME IInv, NEW r \in Release, BecomeFresh(r), release' = r,
           UNCHANGED <<snapshot, saved>>
    PROVE  Recorded' /\ Agreement'
<1>1. Recorded'
  BY FreshRecorded DEF IInv, Recorded, Now, History
<1>2. Agreement'
  BY FreshAgrees DEF IInv
<1>3. QED
  BY <1>1, <1>2

\* Every operation, crash and step of from_dict keeps the invariant.
LEMMA NextIInv == IInv /\ [Next]_vars => IInv'
<1> SUFFICES ASSUME IInv, [Next]_vars PROVE IInv'
  OBVIOUS
<1>1. TypeOK'
  BY NextType DEF IInv
<1> SUFFICES Recorded' /\ Agreement' /\ Replayed' /\ Quiet'
  BY <1>1 DEF IInv
<1>2. ASSUME NEW d \in Direction, NEW label \in Label, Observe(d, label)
      PROVE  Recorded' /\ Agreement' /\ Replayed' /\ Quiet'
  <2>1. <<d, label>> \in Event
    BY DEF Event
  <2>2. QED
    BY <1>2, <2>1, StepIInv DEF Observe, disk, Replayed, Quiet
<1> release \in Release
  BY DEF IInv, TypeOK
<1>3. CASE reset
  <2>1. Recorded' /\ Agreement'
    BY <1>3, FreshIInv DEF reset, disk
  <2>2. QED
    BY <1>3, <2>1 DEF reset, Replayed, Quiet
<1>4. CASE to_dict
  <2>1. Recorded'
    <3>1. History(release, trace, past) /\ current_state = Now.state /\ halted = Now.halted
      BY DEF IInv, Recorded
    <3>2. /\ snapshot' = trace /\ saved'.past = past /\ saved'.release = release
          /\ UNCHANGED <<release, trace, past, current_state, halted>>
      BY <1>4 DEF to_dict, object
    <3>3. QED
      BY <3>1, <3>2 DEF Recorded, History, Now
  <2>2. Agreement'
    <3>1. saved'.past = past' /\ saved'.release = release'
      BY <1>4 DEF to_dict, object
    <3>2. QED
      BY <3>1 DEF Agreement
  <2>3. QED
    BY <1>4, <2>1, <2>2 DEF to_dict, Replayed, Quiet, IInv
<1>5. CASE Crash
  <2>1. Recorded' /\ Agreement'
    BY <1>5, FreshIInv DEF Crash, disk
  <2>2. QED
    BY <1>5, <2>1 DEF Crash, Replayed, Quiet, IInv
<1>6. ASSUME NEW i \in DOMAIN snapshot, Damage(i)
      PROVE  Recorded' /\ Agreement' /\ Replayed' /\ Quiet'
  <2>1. /\ Len(snapshot') = Len(snapshot)
        /\ \A j \in 1..Len(snapshot): snapshot'[j] \in {snapshot[j], Malformed}
    BY <1>6 DEF Damage, IInv, TypeOK
  <2>2. Recorded'
    <3>1. History(release, trace, past)'
      BY <1>6 DEF Damage, object, IInv, Recorded, History
    <3>2. History(saved.release, snapshot', saved.past)
      BY <2>1 DEF IInv, Recorded, History
    <3>3. QED
      BY <1>6, <3>1, <3>2 DEF Damage, object, IInv, Recorded, Now, History
  <2>3. ASSUME NEW n \in 1..Len(past), n <= Len(saved.past), SameSoFar(n)'
        PROVE  SameSoFar(n)
    <3>1. \A j \in 1..(n - 1): j \in 1..Len(trace) /\ j \in 1..Len(snapshot)
      BY <2>3 DEF IInv, Recorded, History, TypeOK
    <3>2. \A j \in 1..(n - 1): trace[j] # Malformed
      BY <3>1, MalformedAssumption DEF IInv, TypeOK
    <3>3. QED
      BY <1>6, <2>1, <2>3, <3>1, <3>2 DEF SameSoFar, Damage, object
  <2>4. Agreement'
    BY <1>6, <2>3 DEF Damage, object, IInv, Agreement
  <2>5. QED
    BY <1>6, <2>2, <2>4 DEF Damage, object, Replayed, Quiet, IInv
<1>7. ASSUME NEW r \in Release, StartNew(r) \/ StartRestore(r)
      PROVE  Recorded' /\ Agreement' /\ Replayed' /\ Quiet'
  <2>1. Recorded' /\ Agreement'
    BY <1>7, FreshIInv DEF StartNew, StartRestore, disk
  <2>2. Len(trace') = 0 /\ Len(snapshot') \in Nat
    BY <1>7, FreshRecorded DEF StartNew, StartRestore, disk, IInv, TypeOK
  <2>3. Replayed'
    BY <2>2 DEF Replayed, SameSoFar
  <2>4. QED
    BY <1>7, <2>1, <2>3 DEF StartNew, StartRestore, IInv, Quiet
<1>8. CASE Replay
  <2> DEFINE e == snapshot[Len(trace) + 1]
  <2>1. e \in Event /\ _step(e)
    BY <1>8 DEF Replay
  <2>2. Recorded' /\ Agreement'
    BY <1>8, <2>1, StepIInv DEF Replay, disk
  <2>3. Len(trace) \in Nat /\ Len(snapshot) \in Nat
    BY DEF IInv, TypeOK
  <2>4. Replayed'
    <3>1. Len(trace') = Len(trace) + 1 /\ Len(trace') <= Len(snapshot')
      BY <1>8, <2>1, <2>3, StepRecorded DEF Replay, disk, IInv
    <3>2. /\ \A j \in 1..Len(trace): trace'[j] = snapshot[j]
          /\ trace'[Len(trace) + 1] = snapshot[Len(trace) + 1]
      BY <1>8, <2>1, <2>3, StepRecorded DEF Replay, IInv, Replayed, SameSoFar
    <3>3. \A j \in 1..Len(trace'): trace'[j] = snapshot'[j]
      BY <1>8, <2>3, <3>1, <3>2 DEF Replay, disk
    <3>4. QED
      BY <2>3, <3>1, <3>3 DEF Replayed, SameSoFar
  <2>5. QED
    BY <1>8, <2>2, <2>4 DEF Replay, IInv, Quiet
<1>9. CASE ReplayRaises
  <2>1. Recorded' /\ Agreement'
    BY <1>9, FreshIInv DEF ReplayRaises, disk
  <2>2. QED
    BY <1>9, <2>1 DEF ReplayRaises, Replayed, Quiet, IInv
<1>10. CASE Restored \/ UNCHANGED vars
  <2>1. UNCHANGED <<release, current_state, halted, trace, past, snapshot, saved, result>>
    BY <1>10 DEF Restored, vars, object, disk
  <2>2. Recorded'
    BY <2>1 DEF IInv, Recorded, History, Now
  <2>3. Agreement'
    BY <2>1 DEF IInv, Agreement, SameSoFar
  <2>4. QED
    BY <1>10, <2>1, <2>2, <2>3
    DEF Restored, vars, object, disk, IInv, Replayed, SameSoFar, Quiet
<1>11. QED
  BY <1>2, <1>3, <1>4, <1>5, <1>6, <1>7, <1>8, <1>9, <1>10
  DEF Next, send, receive, Direction

\* The invariant: histories, agreement of releases, replay of a prefix.
THEOREM InvariantHolds == Spec => []IInv
  BY InitIInv, NextIInv, PTL DEF Spec

-----------------------------------------------------------------------------
(* What follows                                                             *)

\* A session restored from its trace is the session that was saved: position and
\* halted flag, across releases that agree on the protocol (from_dict).
THEOREM RestoreIsFaithful == Spec => []RestoredAsSaved
<1>1. IInv => RestoredAsSaved
  <2> SUFFICES ASSUME IInv, mode = "live", trace = snapshot
               PROVE  /\ Pos[release][current_state] = Pos[saved.release][Saved.state]
                      /\ halted = Saved.halted
    BY DEF RestoredAsSaved
  <2>1. /\ Len(past) = Len(trace) + 1 /\ Len(saved.past) = Len(snapshot) + 1
        /\ current_state = past[Len(past)].state /\ halted = past[Len(past)].halted
        /\ Len(trace) \in Nat
    BY DEF IInv, TypeOK, Recorded, History, Now
  <2>2. Len(past) \in 1..Len(past) /\ SameSoFar(Len(past)) /\ Len(past) = Len(saved.past)
    BY <2>1 DEF SameSoFar
  <2>3. QED
    BY <2>1, <2>2 DEF IInv, Agreement, Saved
<1>2. QED
  BY <1>1, InvariantHolds, PTL

\* Only reset or a new process ends a halt; until then the monitor does not move
\* (the guard at the head of _step).
THEOREM HaltedStaysHalted == Spec => HaltIsFinal
<1> DEFINE Step == mode = "live" /\ mode' = "live" /\ halted
                      => \/ trace' = <<>>
                         \/ halted' /\ current_state' = current_state
<1>1. [Next]_vars => [Step]_vars
  <2> SUFFICES ASSUME Next, mode = "live", mode' = "live", halted, trace' # <<>>
               PROVE  halted' /\ current_state' = current_state
    OBVIOUS
  <2>1. ASSUME NEW d \in Direction, NEW label \in Label, Observe(d, label)
        PROVE  halted' /\ current_state' = current_state
    BY <2>1 DEF Observe, _step, After, Verdict
  <2>2. CASE to_dict
    BY <2>2 DEF to_dict, object
  <2>3. QED
    BY <2>1, <2>2 DEF Next, send, receive, Direction, reset, BecomeFresh, Crash, Damage,
                      StartNew, StartRestore, Replay, ReplayRaises, Restored
<1>2. QED
  BY <1>1, PTL DEF Spec, HaltIsFinal

\* _step keeps the account of the halt: the first violation is the last event
\* that was judged.
LEMMA StepHaltInv ==
    ASSUME IInv, HaltInv, NEW e \in Event, _step(e), UNCHANGED release
    PROVE  HaltInv'
<1> DEFINE n == Len(trace) + 1
<1> DEFINE next == After(release, current_state, halted, e)
<1>1. /\ past \in Seq(Config) /\ trace \in Seq(Event) /\ Len(past) = n
      /\ Len(trace) \in Nat /\ DOMAIN trace = 1..Len(trace)
  BY DEF IInv, TypeOK, Recorded, History
<1>2. /\ Len(past') = n + 1 /\ Len(trace') = n
      /\ \A i \in 1..n: past'[i] = past[i]
      /\ \A i \in 1..Len(trace): trace'[i] = trace[i]
      /\ trace'[n] = e /\ past'[n + 1] = next
      /\ current_state' = next.state /\ halted' = next.halted
  BY <1>1, StepRecorded DEF IInv
<1>3. DOMAIN trace' = 1..n
  <2>1. trace' \in Seq(Event)
    BY StepType DEF IInv
  <2>2. QED
    BY <1>2, <2>1
<1>4. \A i \in 1..Len(trace): /\ i \in 1..n /\ i + 1 \in 1..n
                             /\ trace'[i] = trace[i] /\ past'[i + 1] = past[i + 1]
  BY <1>1, <1>2
<1>5. \A i \in 1..n: i = n \/ i \in 1..Len(trace)
  BY <1>1
<1>6. CASE halted
  <2>1. next.state = current_state /\ next.halted /\ next.result = "Blocked"
    BY <1>6 DEF After, Verdict
  <2>2. PICK k \in 1..Len(trace):
          /\ trace[k] \notin DOMAIN Transitions(release, current_state)
          /\ trace[k][2] # UNRECOGNIZED
          /\ \A i \in 1..Len(trace):
                /\ i < k => past[i + 1].result \in {"Ok", "Unrecognized"}
                /\ i >= k => /\ past[i + 1].state = current_state
                            /\ past[i + 1].result = IF i = k THEN "Violation" ELSE "Blocked"
    BY <1>1, <1>6 DEF HaltInv, HaltExplained
  <2>3. k \in 1..n /\ k # n /\ n >= k
    BY <1>1
  <2>4. /\ trace'[k] \notin DOMAIN Transitions(release', current_state')
        /\ trace'[k][2] # UNRECOGNIZED
    BY <1>2, <1>4, <2>1, <2>2
  <2>5. ASSUME NEW i \in 1..n
        PROVE  /\ i < k => past'[i + 1].result \in {"Ok", "Unrecognized"}
               /\ i >= k => /\ past'[i + 1].state = current_state'
                           /\ past'[i + 1].result = IF i = k THEN "Violation" ELSE "Blocked"
    <3>1. CASE i = n
      BY <1>1, <1>2, <2>1, <2>3, <3>1
    <3>2. CASE i \in 1..Len(trace)
      BY <1>2, <1>4, <2>1, <2>2, <3>2
    <3>3. QED
      BY <1>5, <3>1, <3>2
  <2>6. HaltExplained'
    BY <1>3, <2>3, <2>4, <2>5 DEF HaltExplained
  <2>7. QED
    BY <1>2, <2>1, <2>6 DEF HaltInv
<1>7. CASE ~halted
  <2>1. \A i \in 1..Len(trace): past'[i + 1].result \in {"Ok", "Unrecognized"}
    BY <1>1, <1>4, <1>7 DEF HaltInv
  <2>2. CASE next.halted
    <3>1. /\ next.result = "Violation" /\ next.state = current_state
          /\ e \notin DOMAIN Transitions(release, current_state)
          /\ e[2] # UNRECOGNIZED
      BY <1>7, <2>2 DEF After, Verdict
    <3>2. \A i \in 1..n:
             /\ i < n => past'[i + 1].result \in {"Ok", "Unrecognized"}
             /\ i >= n => /\ past'[i + 1].state = current_state'
                         /\ past'[i + 1].result = IF i = n THEN "Violation" ELSE "Blocked"
      BY <1>1, <1>2, <1>5, <2>1, <3>1
    <3>3. n \in 1..n
      BY <1>1
    <3>4. HaltExplained'
      BY <1>2, <1>3, <3>1, <3>2, <3>3 DEF HaltExplained
    <3>5. QED
      BY <1>2, <2>2, <3>4 DEF HaltInv
  <2>3. CASE ~next.halted
    <3>1. next.result \in {"Ok", "Unrecognized"}
      BY <1>7, <2>3 DEF After, Verdict
    <3>2. \A i \in 1..n: past'[i + 1].result \in {"Ok", "Unrecognized"}
      BY <1>2, <1>5, <2>1, <3>1
    <3>3. QED
      BY <1>2, <1>3, <2>3, <3>2 DEF HaltInv, HaltExplained
  <2>4. QED
    BY <2>2, <2>3
<1>8. QED
  BY <1>6, <1>7

\* Every operation, crash and step of from_dict keeps the account of the halt.
LEMMA NextHaltInv == IInv /\ HaltInv /\ [Next]_vars => HaltInv'
<1> SUFFICES ASSUME IInv, HaltInv, [Next]_vars PROVE HaltInv'
  OBVIOUS
<1>1. ASSUME NEW d \in Direction, NEW label \in Label, Observe(d, label) PROVE HaltInv'
  <2>1. <<d, label>> \in Event
    BY DEF Event
  <2>2. QED
    BY <1>1, <2>1, StepHaltInv DEF Observe
<1>2. CASE Replay
  BY <1>2, StepHaltInv DEF Replay
<1>3. ASSUME NEW r, BecomeFresh(r) PROVE HaltInv'
  <2>1. DOMAIN trace' = {} /\ ~halted'
    BY <1>3 DEF BecomeFresh
  <2>2. QED
    BY <2>1 DEF HaltInv, HaltExplained
<1>4. ASSUME UNCHANGED <<release, current_state, halted, trace, past>> PROVE HaltInv'
  BY <1>4 DEF HaltInv, HaltExplained
<1>5. QED
  BY <1>1, <1>2, <1>3, <1>4
  DEF Next, send, receive, Direction, reset, to_dict, Crash, Damage, StartNew,
      StartRestore, ReplayRaises, Restored, vars, object

\* So it holds of every monitor.
LEMMA HaltInvHolds == Spec => []HaltInv
<1>1. Init => HaltInv
  BY DEF Init, HaltInv, HaltExplained
<1>2. QED
  BY <1>1, InvariantHolds, NextHaltInv, PTL DEF Spec

\* A halted monitor's trace holds the one offending event, and the monitor stands
\* where that event found it (the audit log beside Monitor._trace).
THEOREM HaltIsExplained == Spec => []HaltExplained
<1>1. HaltInv => HaltExplained
  BY DEF HaltInv
<1>2. QED
  BY <1>1, HaltInvHolds, PTL

-----------------------------------------------------------------------------
(* The Monitor implements Session                                           *)

\* An entry of the disk is damaged only by Damage: what to_dict writes are events.
LEMMA EventsAreNotDamaged == \A events \in Seq(Event): \A i \in DOMAIN events: events[i] # Malformed
<1> SUFFICES ASSUME NEW events \in Seq(Event), NEW i \in DOMAIN events
             PROVE  events[i] \in Event
  BY MalformedAssumption
<1>1. QED
  OBVIOUS

\* send and receive answer as a session does (_step).
LEMMA ObserveImplements ==
    ASSUME IInv, NEW e \in Event, _step(e), mode = "live", mode' = "live",
           result' = Verdict(release, current_state, halted, e),
           UNCHANGED <<release, snapshot, saved>>
    PROVE  Abstract!Accept(e) \/ Abstract!Refuse(e) \/ Abstract!AskAgain(e) \/ Abstract!Ignore(e)
<1>1. /\ release \in Release /\ current_state \in State
      /\ e = <<e[1], e[2]>> /\ e[1] \in Direction /\ e[2] \in Label
  BY DEF IInv, TypeOK, Event
<1>2. DOMAIN Transitions(release, current_state) = DOMAIN Follow[Pos[release][current_state]]
  BY <1>1, ReleasesAgree
<1>3. e \in Unclear <=> e[2] = UNRECOGNIZED
  BY <1>1 DEF Unclear
<1>4. Saved' = Saved /\ Damaged' = Damaged
  BY DEF Saved, Damaged
<1>5. /\ current_state' = After(release, current_state, halted, e).state
      /\ halted' = After(release, current_state, halted, e).halted
  BY DEF _step
<1>6. CASE halted
  BY <1>4, <1>5, <1>6
  DEF After, Verdict, Abstract!Ignore, Abstract!session, Abstract!storage
<1>7. CASE ~halted /\ e \in DOMAIN Transitions(release, current_state)
  <2>1. Pos[release][Transitions(release, current_state)[e]]
          = Follow[Pos[release][current_state]][e]
    BY <1>1, <1>7, ReleasesAgree
  <2>2. current_state' = Transitions(release, current_state)[e] /\ ~halted' /\ result' = "Ok"
    BY <1>5, <1>7 DEF After, Verdict
  <2>3. Abstract!Accept(e)
    BY <1>2, <1>4, <1>7, <2>1, <2>2 DEF Abstract!Accept, Abstract!storage
  <2>4. QED
    BY <2>3
<1>8. CASE /\ ~halted /\ e \notin DOMAIN Transitions(release, current_state)
           /\ e[2] = UNRECOGNIZED
  <2>1. current_state' = current_state /\ ~halted' /\ result' = "Unrecognized"
    BY <1>5, <1>8 DEF After, Verdict
  <2>2. Abstract!AskAgain(e)
    BY <1>2, <1>3, <1>4, <1>8, <2>1 DEF Abstract!AskAgain, Abstract!session, Abstract!storage
  <2>3. QED
    BY <2>2
<1>9. CASE /\ ~halted /\ e \notin DOMAIN Transitions(release, current_state)
           /\ e[2] # UNRECOGNIZED
  <2>1. current_state' = current_state /\ halted' = TRUE /\ result' = "Violation"
    BY <1>5, <1>9 DEF After, Verdict
  <2>2. Abstract!Refuse(e)
    BY <1>2, <1>3, <1>4, <1>9, <2>1 DEF Abstract!Refuse, Abstract!storage
  <2>3. QED
    BY <2>2
<1>10. QED
  BY <1>6, <1>7, <1>8, <1>9

\* The end of from_dict hands out the saved session.
LEMMA RestoredImplements == IInv /\ Restored => Abstract!GoOn
<1> SUFFICES ASSUME IInv, Restored PROVE Abstract!GoOn
  OBVIOUS
<1>1. /\ mode = "restoring" /\ mode' = "live" /\ Len(trace) = Len(snapshot)
      /\ UNCHANGED <<release, current_state, halted, result, snapshot, saved>>
  BY DEF Restored, object, disk
<1>2. /\ trace \in Seq(Event) /\ snapshot \in Seq(Event \cup {Malformed})
      /\ Len(past) = Len(trace) + 1 /\ Len(saved.past) = Len(snapshot) + 1
      /\ current_state = past[Len(past)].state /\ halted = past[Len(past)].halted
      /\ SameSoFar(Len(trace) + 1)
  BY <1>1 DEF IInv, TypeOK, Recorded, History, Now, Replayed
<1>3. ~Damaged
  <2>1. \A i \in 1..Len(snapshot): trace[i] = snapshot[i]
    BY <1>1, <1>2 DEF SameSoFar
  <2>2. QED
    BY <1>1, <1>2, <2>1, EventsAreNotDamaged DEF Damaged
<1>4. /\ Pos[release][current_state] = Pos[saved.release][Saved.state]
      /\ halted = Saved.halted
  <2>1. Len(past) \in 1..Len(past) /\ Len(past) = Len(saved.past)
    BY <1>1, <1>2
  <2>2. QED
    BY <1>2, <2>1 DEF IInv, Agreement, Saved
<1>5. Saved' = Saved /\ Damaged' = Damaged
  BY <1>1 DEF Saved, Damaged
<1>6. halted \in BOOLEAN
  BY DEF IInv, TypeOK
<1>7. QED
  BY <1>1, <1>3, <1>4, <1>5, <1>6 DEF Abstract!GoOn, Abstract!storage

\* The first monitor is a new session (Monitor.__init__).
LEMMA InitImplements == Init => Abstract!Init
<1> SUFFICES ASSUME Init PROVE Abstract!Init
  OBVIOUS
<1>1. /\ mode = "live" /\ result = "none" /\ halted = FALSE
      /\ current_state = Automaton[release].initial_state
      /\ saved.release = release /\ Saved = Fresh(release) /\ ~Damaged
      /\ release \in Release
  BY DEF Init, Fresh, Saved, Damaged
<1>2. Pos[release][current_state] = Start
  BY <1>1, ReleasesAgree
<1>3. Saved.state = current_state /\ Saved.halted = FALSE
  BY <1>1 DEF Fresh
<1>4. [position |-> Pos[saved.release][Saved.state], broken |-> Saved.halted]
        = [position |-> Start, broken |-> FALSE]
  BY <1>1, <1>2, <1>3
<1>5. (mode = "live" /\ halted) = FALSE /\ (mode = "live") = TRUE /\ Damaged = FALSE
  BY <1>1 DEF Damaged
<1>6. QED
  BY <1>1, <1>2, <1>4, <1>5 DEF Abstract!Init, Abstract!New

\* Every step of the monitor and its process is a step of the session it stands
\* for, or one that its caller does not see.
LEMMA NextImplements == IInv /\ [Next]_vars => [Abstract!Next]_(Abstract!vars)
<1> SUFFICES ASSUME IInv, [Next]_vars PROVE [Abstract!Next]_(Abstract!vars)
  OBVIOUS
<1> release \in Release
  BY DEF IInv, TypeOK
<1> USE DEF Abstract!session, Abstract!storage, Abstract!vars
<1>1. ASSUME NEW d \in Direction, NEW label \in Label, Observe(d, label)
      PROVE  Abstract!Next
  <2>1. <<d, label>> \in Event
    BY DEF Event
  <2>2. QED
    BY <1>1, <2>1, ObserveImplements DEF Observe, disk, Abstract!Next
<1>2. CASE reset
  BY <1>2, ReleasesAgree
  DEF reset, BecomeFresh, Fresh, disk, Saved, Damaged, Abstract!StartOver, Abstract!Next
<1>3. CASE to_dict
  <2>1. /\ mode = "live" /\ snapshot' = trace /\ Saved' = Now /\ saved'.release = release
        /\ UNCHANGED <<mode, release, current_state, halted, result>>
    BY <1>3 DEF to_dict, object, Saved, Now
  <2>2. ~Damaged'
    BY <2>1, EventsAreNotDamaged DEF Damaged, IInv, TypeOK
  <2>3. Now.state = current_state /\ Now.halted = halted
    BY DEF IInv, Recorded
  <2>4. halted \in BOOLEAN /\ (mode = "live" /\ halted) = halted
    BY <2>1 DEF IInv, TypeOK
  <2>5. Abstract!Save
    BY <2>1, <2>2, <2>3, <2>4 DEF Abstract!Save
  <2>6. QED
    BY <2>5 DEF Abstract!Next
<1>4. CASE Crash
  <2>1. UNCHANGED <<Saved, Damaged, saved>>
    BY <1>4 DEF Crash, disk, Saved, Damaged
  <2>2. CASE mode = "live"
    BY <1>4, <2>1, <2>2 DEF Crash, Abstract!Crash, Abstract!Next
  <2>3. CASE mode # "live"
    BY <1>4, <2>1, <2>3 DEF Crash, IInv, Quiet
  <2>4. QED
    BY <2>2, <2>3
<1>5. ASSUME NEW i \in DOMAIN snapshot, Damage(i) PROVE Abstract!Next
  <2>1. Damaged'
    BY <1>5 DEF Damage, Damaged, IInv, TypeOK
  <2>2. QED
    BY <1>5, <2>1 DEF Damage, object, Saved, Abstract!Lose, Abstract!Next
<1>6. ASSUME NEW r \in Release, StartNew(r) PROVE Abstract!Next
  BY <1>6, ReleasesAgree
  DEF StartNew, BecomeFresh, Fresh, disk, Saved, Damaged, Abstract!StartNew, Abstract!Next
<1>7. ASSUME NEW r \in Release, StartRestore(r) PROVE UNCHANGED Abstract!vars
  BY <1>7 DEF StartRestore, disk, Saved, Damaged
<1>8. CASE Replay \/ ReplayRaises
  BY <1>8 DEF Replay, ReplayRaises, disk, Saved, Damaged
<1>9. CASE Restored
  BY <1>9, RestoredImplements DEF Abstract!Next
<1>10. CASE UNCHANGED vars
  BY <1>10 DEF vars, object, disk, Saved, Damaged
<1>11. QED
  BY <1>1, <1>2, <1>3, <1>4, <1>5, <1>6, <1>7, <1>8, <1>9, <1>10
  DEF Next, send, receive, Direction

\* Crashes, replays and renumberings included, a caller of the Monitor sees a
\* session: the Monitor implements Session.
THEOREM MonitorImplementsSession == Spec => ImplementsSession
  BY InitImplements, NextImplements, InvariantHolds, PTL
  DEF Spec, ImplementsSession, Abstract!Spec

=============================================================================
