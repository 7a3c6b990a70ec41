----------------------------- MODULE FsmProofs -----------------------------
(***************************************************************************)
(* Lemmas about a ProtocolFSM's table: what fire_step returns, and where a *)
(* sequence of events leads.  Reach is recursive over the events; what it  *)
(* computes is proved from the well-foundedness of the natural numbers.    *)
(***************************************************************************)
EXTENDS ProtocolFSM, SequenceTheorems, WellFoundedInduction, TLAPS

\* A set of numbers has a least one.
LEMMA Least ==
    ASSUME NEW T, T \subseteq Nat, T # {}
    PROVE  \E n \in T: \A m \in T: n <= m
<1>1. PICK n \in T: \A m \in T: <<m, n>> \notin OpToRel(<, Nat)
  BY NatLessThanWellFounded, WFMin
<1>2. \A m \in T: ~(m < n)
  BY <1>1 DEF OpToRel
<1>3. QED
  BY <1>2

-----------------------------------------------------------------------------
(* One event                                                                *)

\* fire_step never leaves the table, and adds the event to the trace.
LEMMA FireStepIs ==
    ASSUME NEW state \in FsmState, NEW trace, NEW ev, NEW f \in fire_step(state, trace, ev)
    PROVE  /\ f.state \in FsmState
           /\ f.trace = Append(trace, ev)
           /\ \E s \in step(state, ev), raising \in Raising:
                 f.state = s.state /\ (f.raises <=> ~s.ok /\ raising)
<1>1. PICK s \in step(state, ev), raising \in Raising:
         f = [state |-> s.state, trace |-> Append(trace, ev), raises |-> ~s.ok /\ raising]
  BY DEF fire_step
<1>2. s.state \in FsmState
  BY TableAssumption DEF step
<1>3. QED
  BY <1>1, <1>2

\* And can do with each step what on_violation may do.
LEMMA FireCan ==
    ASSUME NEW state, NEW trace, NEW ev, NEW s \in step(state, ev), NEW raising \in Raising
    PROVE  [state |-> s.state, trace |-> Append(trace, ev), raises |-> ~s.ok /\ raising]
             \in fire_step(state, trace, ev)
  BY DEF fire_step

\* What a step can return, one way or the other.
LEMMA StepIs ==
    ASSUME NEW state \in FsmState, NEW ev, NEW s \in step(state, ev)
    PROVE  /\ s.state \in FsmState /\ s.ok \in BOOLEAN
           /\ s.ok => \E t \in Transitions: t.source = state /\ event(t) = ev /\ s.state = t.target
           /\ ~s.ok => s.state = state
<1> DEFINE found == {t \in Transitions: t.source = state /\ event(t) = ev}
<1>1. CASE \E t \in found: s = [state |-> t.target, ok |-> TRUE]
  BY <1>1, TableAssumption
<1>2. CASE s = [state |-> state, ok |-> FALSE]
  BY <1>2
<1>3. QED
  BY <1>1, <1>2 DEF step

\* A call that does not raise lands where the table allows.
LEMMA FireLands ==
    ASSUME NEW states, NEW state \in states, NEW trace, NEW ev,
           NEW f \in fire_step(state, trace, ev), ~f.raises
    PROVE  f.state \in Landing(states, ev)
<1>1. PICK s \in step(state, ev), raising \in Raising:
         f = [state |-> s.state, trace |-> Append(trace, ev), raises |-> ~s.ok /\ raising]
  BY DEF fire_step
<1> DEFINE g == [state |-> s.state, trace |-> Append(<<>>, ev), raises |-> ~s.ok /\ raising]
<1>2. g \in fire_step(state, <<>>, ev) /\ ~g.raises
  BY <1>1 DEF fire_step
<1>3. g \in {h \in UNION {fire_step(q, <<>>, ev) : q \in states}: ~h.raises}
  BY <1>2
<1>4. g.state \in Landing(states, ev) /\ f.state = g.state
  BY <1>1, <1>3 DEF Landing
<1>5. QED
  BY <1>4

-----------------------------------------------------------------------------
(* A sequence of events                                                     *)

\* The equation of the function that Reach defines.
IsReach(r, state, evs, n) ==
    r = [k \in 0..n |-> IF k = 0 THEN {state} ELSE Landing(r[k - 1], evs[k])]

\* The recursive definition in Reach has a function that satisfies it, to any length.
LEMMA ReachExists ==
    ASSUME NEW state, NEW evs, NEW n \in Nat
    PROVE  \E r: IsReach(r, state, evs, n)
<1> DEFINE T == {m \in Nat: ~\E r: IsReach(r, state, evs, m)}
<1>1. SUFFICES ASSUME T # {} PROVE FALSE
  OBVIOUS
<1>2. PICK m \in T: \A k \in T: m <= k
  <2>1. T \subseteq Nat
    OBVIOUS
  <2>2. QED
    BY <1>1, <2>1, Least
<1>3. m # 0
  <2>1. IsReach([k \in 0..0 |-> {state}], state, evs, 0)
    BY DEF IsReach
  <2>2. QED
    BY <2>1
<1>4. m - 1 \in Nat /\ m - 1 \notin T
  BY <1>2, <1>3
<1>5. PICK r: IsReach(r, state, evs, m - 1)
  BY <1>4
<1> DEFINE q == [k \in 0..m |-> IF k = m THEN Landing(r[m - 1], evs[m]) ELSE r[k]]
<1>6. \A k \in 0..(m - 1): q[k] = r[k]
  BY <1>4
<1>7. \A k \in 0..(m - 1): r[k] = IF k = 0 THEN {state} ELSE Landing(r[k - 1], evs[k])
  BY <1>5, <1>4 DEF IsReach
<1>8. ASSUME NEW k \in 0..m
      PROVE  q[k] = IF k = 0 THEN {state} ELSE Landing(q[k - 1], evs[k])
  <2>1. CASE k = m
    BY <2>1, <1>3, <1>4, <1>6
  <2>2. CASE k # m
    <3>1. k \in 0..(m - 1) /\ (k # 0 => k - 1 \in 0..(m - 1))
      BY <2>2, <1>4
    <3>2. QED
      BY <3>1, <1>6, <1>7
  <2>3. QED
    BY <2>1, <2>2
<1>9. IsReach(q, state, evs, m)
  BY <1>8 DEF IsReach
<1>10. QED
  BY <1>2, <1>9

\* As long as two sequences agree, so do their functions.
LEMMA ReachAgrees ==
    ASSUME NEW state, NEW d, NEW e, NEW m \in Nat, NEW n \in Nat, m <= n,
           \A k \in 1..m: d[k] = e[k],
           NEW r, IsReach(r, state, d, m), NEW q, IsReach(q, state, e, n)
    PROVE  \A k \in 0..m: r[k] = q[k]
<1> DEFINE T == {k \in 0..m: r[k] # q[k]}
<1>1. SUFFICES ASSUME T # {} PROVE FALSE
  OBVIOUS
<1>2. PICK k \in T: \A j \in T: k <= j
  <2>1. T \subseteq Nat
    OBVIOUS
  <2>2. QED
    BY <1>1, <2>1, Least
<1>3. /\ r[k] = IF k = 0 THEN {state} ELSE Landing(r[k - 1], d[k])
      /\ q[k] = IF k = 0 THEN {state} ELSE Landing(q[k - 1], e[k])
  <2>1. k \in 0..m /\ k \in 0..n
    OBVIOUS
  <2>2. QED
    BY <2>1 DEF IsReach
<1>4. k # 0
  BY <1>3
<1>5. k - 1 \in 0..m /\ k - 1 \notin T /\ d[k] = e[k]
  BY <1>2, <1>4
<1>6. QED
  BY <1>3, <1>4, <1>5

\* Reach is the last value of any such function.
LEMMA ReachIs ==
    ASSUME NEW state, NEW evs, Len(evs) \in Nat, NEW r, IsReach(r, state, evs, Len(evs))
    PROVE  Reach(state, evs) = r[Len(evs)]
<1> DEFINE n == Len(evs)
           q == CHOOSE q: IsReach(q, state, evs, n)
<1>1. IsReach(q, state, evs, n)
  OBVIOUS
<1>2. Reach(state, evs) = q[n]
  BY DEF Reach, IsReach
<1> HIDE DEF q
<1>3. q[n] = r[n]
  BY <1>1, ReachAgrees
<1>4. QED
  BY <1>2, <1>3

\* Without events the table goes nowhere.
LEMMA ReachEmpty == ASSUME NEW state PROVE Reach(state, <<>>) = {state}
<1>1. PICK r: IsReach(r, state, <<>>, 0)
  BY ReachExists
<1>2. r[0] = {state}
  BY <1>1 DEF IsReach
<1>3. QED
  BY <1>1, <1>2, ReachIs

\* One more event is one more step of the table (ProtocolFSM.step).
LEMMA ReachAppend ==
    ASSUME NEW state, NEW S, NEW evs \in Seq(S), NEW ev \in S
    PROVE  Reach(state, Append(evs, ev)) = Landing(Reach(state, evs), ev)
<1>1. PICK n \in Nat, l \in Nat: n = Len(evs) /\ l = n + 1 /\ n <= l /\ l # 0 /\ l - 1 = n
  OBVIOUS
<1>2. PICK more: more = Append(evs, ev)
  OBVIOUS
<1>3. Len(more) = l /\ more[l] = ev
  BY <1>1, <1>2
<1>4. \A k \in 1..n: evs[k] = more[k]
  BY <1>1, <1>2
<1>5. PICK r: IsReach(r, state, evs, n)
  BY ReachExists
<1>6. PICK q: IsReach(q, state, more, l)
  BY ReachExists
<1>7. Reach(state, evs) = r[n] /\ Reach(state, more) = q[l]
  BY <1>1, <1>3, <1>5, <1>6, ReachIs
<1>8. r[n] = q[n]
  <2>1. \A k \in 0..n: r[k] = q[k]
    <3>1. n <= l /\ IsReach(r, state, evs, n) /\ IsReach(q, state, more, l)
      BY <1>1, <1>5, <1>6
    <3>2. \A k \in 1..n: evs[k] = more[k]
      BY <1>4
    <3>3. QED
      BY <3>1, <3>2, ReachAgrees
  <2>2. QED
    BY <2>1
<1>9. q[l] = Landing(q[l - 1], more[l])
  <2>1. l \in 0..l /\ l # 0
    BY <1>1
  <2>2. QED
    BY <1>6, <2>1 DEF IsReach
<1>10. QED
  BY <1>1, <1>2, <1>3, <1>7, <1>8, <1>9

-----------------------------------------------------------------------------
(* What one event, and two, add to a trace                                  *)

\* A longer sequence with the same beginning has it as a prefix.
LEMMA Extended ==
    ASSUME NEW S, NEW s \in Seq(S), NEW t \in Seq(S), Len(s) <= Len(t),
           \A k \in 1..Len(s): t[k] = s[k]
    PROVE  IsPrefix(s, t)
<1> DEFINE n == Len(s)
           u == SubSeq(s, 1, n)
           v == SubSeq(t, 1, n)
<1>1. n \in Nat /\ \A k \in 1..n: s[k] \in S /\ t[k] \in S /\ t[k] = s[k]
  OBVIOUS
<1>2. u \in Seq(S) /\ Len(u) = n /\ \A k \in 1..n: u[k] = s[k]
  BY <1>1, SubSeqProperties
<1>3. v \in Seq(S) /\ Len(v) = n /\ \A k \in 1..n: v[k] = t[k]
  BY <1>1, SubSeqProperties
<1> HIDE DEF n, u, v
<1>4. u = v
  BY <1>1, <1>2, <1>3, SeqEqual
<1>5. QED
  BY <1>4 DEF IsPrefix, n, u, v

\* What a sequence that is longer by one event, or by two, is longer by.
LEMMA Piece ==
    ASSUME NEW S, NEW t \in Seq(S), NEW m \in Nat \ {0}, NEW n \in Nat, m <= n, n <= Len(t)
    PROVE  LET u == SubSeq(t, m, n)
           IN  /\ u \in Seq(S) /\ Len(u) = n - m + 1
               /\ \A i \in 1..(n - m + 1): u[i] = t[m + i - 1]
<1>1. m \in Int /\ n \in Int /\ \A i \in m..n: t[i] \in S
  OBVIOUS
<1>2. QED
  BY <1>1, SubSeqProperties

\* What an Append adds is its event.
LEMMA OneMore ==
    ASSUME NEW S, NEW s \in Seq(S), NEW a \in S, NEW t, t = Append(s, a)
    PROVE  IsPrefix(s, t) /\ SubSeq(t, Len(s) + 1, Len(t)) = <<a>>
<1>0. PICK n \in Nat: n = Len(s)
  OBVIOUS
<1>1. /\ n = Len(s) /\ t \in Seq(S) /\ Len(t) = n + 1
      /\ t[n + 1] = a /\ \A k \in 1..n: t[k] = s[k]
  BY <1>0, AppendProperties
<1>2. IsPrefix(s, t)
  <2>1. Len(s) <= Len(t)
    BY <1>1
  <2>2. QED
    BY <1>1, <2>1, Extended
<1> DEFINE u == SubSeq(t, n + 1, n + 1)
<1>3. u \in Seq(S) /\ Len(u) = 1 /\ u[1] = a
  <2>1. PICK m \in Nat \ {0}: m = n + 1 /\ m <= Len(t)
    BY <1>1
  <2>2. LET v == SubSeq(t, m, m)
        IN  /\ v \in Seq(S) /\ Len(v) = m - m + 1
            /\ \A i \in 1..(m - m + 1): v[i] = t[m + i - 1]
    BY <1>1, <2>1, Piece
  <2>3. u \in Seq(S) /\ Len(u) = 1 /\ u[1] = t[m + 1 - 1]
    BY <2>1, <2>2
  <2>4. QED
    BY <1>1, <2>1, <2>3
<1> HIDE DEF u
<1>4. u = <<a>>
  BY <1>3, SeqEqual
<1>5. QED
  BY <1>1, <1>2, <1>4 DEF u

\* What two Appends add is their two events.
LEMMA TwoMore ==
    ASSUME NEW S, NEW s \in Seq(S), NEW a \in S, NEW b \in S,
           NEW t, t = Append(Append(s, a), b)
    PROVE  IsPrefix(s, t) /\ SubSeq(t, Len(s) + 1, Len(t)) = <<a, b>>
<1>0. PICK n \in Nat: n = Len(s)
  OBVIOUS
<1> DEFINE r == Append(s, a)
<1>1. /\ n = Len(s) /\ t \in Seq(S) /\ Len(t) = n + 2
      /\ t[n + 1] = a /\ t[n + 2] = b /\ \A k \in 1..n: t[k] = s[k]
  <2>1. /\ r \in Seq(S) /\ Len(r) = n + 1 /\ r[n + 1] = a
        /\ \A k \in 1..n: r[k] = s[k]
    BY <1>0, AppendProperties
  <2> HIDE DEF r
  <2>2. /\ t \in Seq(S) /\ Len(t) = n + 2 /\ t[n + 2] = b
        /\ \A k \in 1..(n + 1): t[k] = r[k]
    BY <1>0, <2>1, AppendProperties
  <2>3. QED
    BY <1>0, <2>1, <2>2
<1> HIDE DEF r
<1>2. IsPrefix(s, t)
  <2>1. Len(s) <= Len(t)
    BY <1>1
  <2>2. QED
    BY <1>1, <2>1, Extended
<1> DEFINE u == SubSeq(t, n + 1, n + 2)
<1>3. u \in Seq(S) /\ Len(u) = 2 /\ u[1] = a /\ u[2] = b
  <2>1. PICK m \in Nat \ {0}: m = n + 1 /\ m <= m + 1 /\ m + 1 <= Len(t)
    BY <1>1
  <2>2. LET v == SubSeq(t, m, m + 1)
        IN  /\ v \in Seq(S) /\ Len(v) = (m + 1) - m + 1
            /\ \A i \in 1..((m + 1) - m + 1): v[i] = t[m + i - 1]
    BY <1>1, <2>1, Piece
  <2>3. u \in Seq(S) /\ Len(u) = 2 /\ u[1] = t[m + 1 - 1] /\ u[2] = t[m + 2 - 1]
    <3>1. n + 2 = m + 1
      BY <2>1
    <3>2. QED
      BY <2>1, <2>2, <3>1
  <2>4. QED
    BY <1>1, <2>1, <2>3
<1> HIDE DEF u
<1>4. u = <<a, b>>
  BY <1>3, SeqEqual
<1>5. QED
  BY <1>1, <1>2, <1>4 DEF u

\* One event is one step of the table.
LEMMA ReachOne == ASSUME NEW state, NEW a PROVE Reach(state, <<a>>) = Landing({state}, a)
<1>1. PICK S: S = {a}
  OBVIOUS
<1>2. PICK e: e = <<>>
  OBVIOUS
<1>3. a \in S /\ e \in Seq(S)
  BY <1>1, <1>2
<1>4. Reach(state, Append(e, a)) = Landing(Reach(state, e), a)
  BY <1>3, ReachAppend
<1>5. Append(e, a) = <<a>>
  BY <1>2
<1>6. QED
  BY <1>2, <1>4, <1>5, ReachEmpty

\* A pair, event by event.
LEMMA AppendTwo == ASSUME NEW a, NEW b PROVE Append(<<a>>, b) = <<a, b>>
<1>1. PICK S: S = {a, b}
  OBVIOUS
<1>2. PICK d: d = <<a>>
  OBVIOUS
<1>3. PICK e: e = <<a, b>>
  OBVIOUS
<1>4. /\ b \in S /\ d \in Seq(S) /\ Len(d) = 1 /\ d[1] = a
      /\ e \in Seq(S) /\ Len(e) = 2 /\ e[1] = a /\ e[2] = b
  BY <1>1, <1>2, <1>3
<1>5. PICK f: f = Append(d, b)
  OBVIOUS
<1>6. f \in Seq(S) /\ Len(f) = 2 /\ f[1] = a /\ f[2] = b
  <2>1. f \in Seq(S) /\ Len(f) = Len(d) + 1 /\ f[Len(d) + 1] = b /\ \A i \in 1..Len(d): f[i] = d[i]
    BY <1>4, <1>5, AppendProperties
  <2>2. QED
    BY <1>4, <2>1
<1>7. f = e
  BY <1>4, <1>6, SeqEqual
<1>8. QED
  BY <1>2, <1>3, <1>5, <1>7

\* Two events are two steps of the table.
LEMMA ReachTwo ==
    ASSUME NEW state, NEW a, NEW b
    PROVE  Reach(state, <<a, b>>) = Landing(Landing({state}, a), b)
<1>1. PICK S: S = {a, b}
  OBVIOUS
<1>2. PICK d: d = <<a>>
  OBVIOUS
<1>3. b \in S /\ d \in Seq(S)
  BY <1>1, <1>2
<1>4. Reach(state, Append(d, b)) = Landing(Reach(state, d), b)
  BY <1>3, ReachAppend
<1>5. Append(d, b) = <<a, b>>
  BY <1>2, AppendTwo
<1>6. QED
  BY <1>2, <1>4, <1>5, ReachOne

-----------------------------------------------------------------------------
(* Paths of events, one behind the other                                    *)

\* From more states an event leads to more.
LEMMA LandingGrows ==
    ASSUME NEW p, NEW q, p \subseteq q, NEW ev
    PROVE  Landing(p, ev) \subseteq Landing(q, ev)
  BY DEF Landing

\* The sets a sequence leads through from one of the states another sequence has led to
\* are among the sets their concatenation leads through.
LEMMA ReachGoesOn ==
    ASSUME NEW m \in Nat, NEW n \in Nat, NEW l \in Nat, l = n + m,
           NEW first, NEW state, NEW whole, NEW rest, \A k \in 1..m: rest[k] = whole[n + k],
           NEW r, IsReach(r, first, whole, l), state \in r[n],
           NEW q, IsReach(q, state, rest, m)
    PROVE  q[m] \subseteq r[l]
<1> DEFINE T == {k \in 0..m: ~(q[k] \subseteq r[n + k])}
<1>1. SUFFICES T = {}
  <2>1. m \in 0..m
    OBVIOUS
  <2>2. QED
    BY <2>1
<1>2. SUFFICES ASSUME T # {} PROVE FALSE
  OBVIOUS
<1>3. PICK k \in T: \A j \in T: k <= j
  <2>1. T \subseteq Nat
    OBVIOUS
  <2>2. QED
    BY <1>2, <2>1, Least
<1>4. k # 0
  <2>1. 0 \in 0..m
    OBVIOUS
  <2>2. q[0] = {state}
    BY <2>1 DEF IsReach
  <2>3. QED
    BY <2>2
<1>5. /\ k \in 0..m /\ k - 1 \in 0..m /\ k \in 1..m
      /\ n + k \in 0..l /\ n + k # 0 /\ (n + k) - 1 = n + (k - 1)
  BY <1>4
<1>6. q[k] = Landing(q[k - 1], rest[k])
  BY <1>4, <1>5 DEF IsReach
<1>7. r[n + k] = Landing(r[n + (k - 1)], whole[n + k])
  <2>1. r[n + k] = Landing(r[(n + k) - 1], whole[n + k])
    BY <1>5 DEF IsReach
  <2>2. QED
    BY <1>5, <2>1
<1>8. q[k - 1] \subseteq r[n + (k - 1)]
  <2>1. k - 1 \notin T
    BY <1>3, <1>5
  <2>2. QED
    BY <1>5, <2>1
<1>9. rest[k] = whole[n + k]
  BY <1>5
<1>10. q[k] \subseteq r[n + k]
  BY <1>6, <1>7, <1>8, <1>9, LandingGrows
<1>11. QED
  BY <1>10

\* What an extension of a sequence is: its events are the prefix's and then the rest's.
LEMMA Extension ==
    ASSUME NEW S, NEW old \in Seq(S), NEW new \in Seq(S), IsPrefix(old, new)
    PROVE  /\ Len(old) <= Len(new)
           /\ \A k \in 1..Len(old): new[k] = old[k]
           /\ LET rest == SubSeq(new, Len(old) + 1, Len(new))
              IN  /\ rest \in Seq(S) /\ Len(rest) = Len(new) - Len(old)
                  /\ \A k \in 1..(Len(new) - Len(old)): rest[k] = new[Len(old) + k]
<1>1. PICK n \in Nat, l \in Nat: n = Len(old) /\ l = Len(new)
  OBVIOUS
<1>2. n <= l /\ SubSeq(old, 1, n) = SubSeq(new, 1, n)
  BY <1>1 DEF IsPrefix
<1>3. ASSUME NEW k \in 1..n PROVE new[k] = old[k]
  <2>1. \A i \in 1..n: old[i] \in S /\ new[i] \in S
    BY <1>1, <1>2
  <2>2. SubSeq(old, 1, n)[k] = old[k] /\ SubSeq(new, 1, n)[k] = new[k]
    BY <1>1, <1>2, <2>1
  <2>3. QED
    BY <1>2, <2>2
<1> DEFINE rest == SubSeq(new, n + 1, l)
<1>4. /\ rest \in Seq(S) /\ Len(rest) = l - n
      /\ \A k \in 1..(l - n): rest[k] = new[n + k]
  <2>1. \A i \in (n + 1)..l: new[i] \in S
    BY <1>1
  <2>2. PICK a \in Nat: a = n + 1
    OBVIOUS
  <2>3. /\ SubSeq(new, a, l) \in Seq(S)
        /\ Len(SubSeq(new, a, l)) = IF a <= l THEN l - a + 1 ELSE 0
        /\ \A i \in 1..(l - a + 1): SubSeq(new, a, l)[i] = new[a + i - 1]
    BY <1>1, <2>1, <2>2, SubSeqProperties
  <2>4. QED
    BY <1>2, <2>2, <2>3
<1>5. QED
  BY <1>1, <1>2, <1>3, <1>4

\* A path that is continued by a path is a path: what a run of a ProtocolFSM does to its
\* state and its trace (ProtocolRun!Advance) keeps them together.
LEMMA ReachExtends ==
    ASSUME NEW first, NEW S, NEW old \in Seq(S), NEW new \in Seq(S), IsPrefix(old, new),
           NEW state \in Reach(first, old),
           NEW next \in Reach(state, SubSeq(new, Len(old) + 1, Len(new)))
    PROVE  next \in Reach(first, new)
<1>0. PICK rest: rest = SubSeq(new, Len(old) + 1, Len(new))
  OBVIOUS
<1>1. PICK n \in Nat, l \in Nat: n = Len(old) /\ l = Len(new)
  OBVIOUS
<1>2. /\ n <= l /\ \A k \in 1..n: new[k] = old[k]
      /\ Len(rest) = l - n /\ \A k \in 1..(l - n): rest[k] = new[n + k]
  BY <1>0, <1>1, Extension
<1>3. PICK m \in Nat: m = l - n /\ l = n + m
  BY <1>2
<1>4. PICK p: IsReach(p, first, old, n)
  BY ReachExists
<1>5. PICK r: IsReach(r, first, new, l)
  BY ReachExists
<1>6. PICK q: IsReach(q, state, rest, m)
  BY ReachExists
<1>7. Reach(first, old) = p[n]
  BY <1>1, <1>4, ReachIs
<1>8. Reach(first, new) = r[l]
  BY <1>1, <1>5, ReachIs
<1>9. Len(rest) \in Nat /\ Len(rest) = m
  BY <1>2, <1>3
<1>10. Reach(state, rest) = q[m]
  BY <1>6, <1>9, ReachIs
<1>11. p[n] = r[n]
  <2>1. \A k \in 0..n: p[k] = r[k]
    <3>1. \A k \in 1..n: old[k] = new[k]
      BY <1>2
    <3>2. QED
      BY <1>2, <1>4, <1>5, <3>1, ReachAgrees
  <2>2. QED
    BY <2>1
<1>12. state \in r[n] /\ \A k \in 1..m: rest[k] = new[n + k]
  BY <1>2, <1>3, <1>7, <1>11
<1>13. q[m] \subseteq r[l]
  BY <1>3, <1>5, <1>6, <1>12, ReachGoesOn
<1>14. QED
  BY <1>0, <1>8, <1>10, <1>13

-----------------------------------------------------------------------------
(* Replay                                                                   *)

\* No edge asks a guard.
Unguarded == \A t \in Transitions: ~t.guarded

\* Then an event leads from one state to one state (the duplicate check of add_transition).
LEMMA OneLanding ==
    ASSUME Unguarded, NEW states, NEW state, states \subseteq {state}, NEW ev
    PROVE  \A p, q \in Landing(states, ev): p = q
<1> DEFINE found == {t \in Transitions: t.source = state /\ event(t) = ev}
<1>1. \A s, u \in step(state, ev): s.state = u.state
  <2>1. \A t, u \in found: t = u
    BY TableAssumption DEF Deterministic
  <2>2. CASE found = {}
    BY <2>2 DEF step
  <2>3. CASE found # {}
    <3>1. \E t \in found: ~t.guarded
      BY <2>3 DEF Unguarded
    <3>2. step(state, ev) = {[state |-> t.target, ok |-> TRUE] : t \in found}
      BY <3>1 DEF step
    <3>3. QED
      BY <2>1, <3>2
  <2>4. QED
    BY <2>2, <2>3
<1>2. \A p \in Landing(states, ev): \E s \in step(state, ev): p = s.state
  BY DEF Landing, fire_step
<1>3. QED
  BY <1>1, <1>2

\* So the state is a function of the events: a trace can be replayed without the context
\* its events came with.
LEMMA OneReached ==
    ASSUME Unguarded, NEW first, NEW evs, Len(evs) \in Nat
    PROVE  \A p, q \in Reach(first, evs): p = q
<1>1. PICK n \in Nat: n = Len(evs)
  OBVIOUS
<1>2. PICK r: IsReach(r, first, evs, n)
  BY ReachExists
<1>3. Reach(first, evs) = r[n]
  BY <1>1, <1>2, ReachIs
<1> DEFINE One(set) == \A p, q \in set: p = q
           T == {k \in 0..n: ~One(r[k])}
<1>4. SUFFICES T = {}
  <2>1. n \in 0..n
    OBVIOUS
  <2>2. QED
    BY <1>3, <2>1
<1>5. SUFFICES ASSUME T # {} PROVE FALSE
  OBVIOUS
<1>6. PICK k \in T: \A j \in T: k <= j
  <2>1. T \subseteq Nat
    OBVIOUS
  <2>2. QED
    BY <1>5, <2>1, Least
<1>7. k # 0
  <2>1. r[0] = {first}
    BY <1>2 DEF IsReach
  <2>2. QED
    BY <2>1
<1>8. k \in 0..n /\ k - 1 \in 0..n
  BY <1>7
<1>9. r[k] = Landing(r[k - 1], evs[k])
  BY <1>2, <1>7, <1>8 DEF IsReach
<1>10. PICK state: r[k - 1] \subseteq {state}
  <2>1. One(r[k - 1])
    BY <1>6, <1>8
  <2>2. QED
    BY <2>1
<1>11. One(r[k])
  <2>1. PICK before: before = r[k - 1]
    OBVIOUS
  <2>2. \A p, q \in Landing(before, evs[k]): p = q
    BY <1>10, <2>1, OneLanding
  <2>3. QED
    BY <1>9, <2>1, <2>2
<1>12. QED
  BY <1>11

=============================================================================
