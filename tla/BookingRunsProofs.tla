------------------------- MODULE BookingRunsProofs -------------------------
(***************************************************************************)
(* The booking runs, for every list of keys, every limit on turns, calls   *)
(* and replies, and every kill and exception: what a file says is what the *)
(* run did, and nothing is booked that was not approved.                   *)
(***************************************************************************)
EXTENDS BookingRuns, SequenceTheorems, TLAPS

-----------------------------------------------------------------------------
(* The inductive invariant, in parts                                        *)

Answer == {"Ok", "Violation", "Blocked", "Unrecognized"}

Entry == Event \X Answer

File == [exists : BOOLEAN, events : Seq(Entry), outcome : Outcome, torn : BOOLEAN]

Monitors == [state : BookingState, halted : BOOLEAN, result : Answer \cup {"none"}]

Run == [monitor : Monitors,
        turn    : Nat,
        calls   : Seq(Tool),
        replies : Int,
        outcome : Outcome]

Running == {"ask_llm", "call", "tool", "ask_user"}

Typed ==
    /\ TypeOK
    /\ files \in [Key -> File] /\ returned \in [Key -> Outcome] /\ run \in Run
    /\ pc \in Running \cup {"begin", "finish"} => at \in 1..Len(Keys)

Now == files[Keys[at]]

\* The file of a run that goes on holds the events its monitor has accepted, one for
\* each position up to the one it stands at.
InStep ==
    /\ pc \in Running =>
          /\ Faithful(Now.events) /\ Len(Now.events) = run.monitor.state
          /\ ~run.monitor.halted
    /\ pc = "tool" => Now.events # <<>> /\ Last(Now.events)[1] = Sent
    /\ pc \in Running \cup {"finish"} => Now.outcome = "none"
    /\ pc = "finish" => run.outcome # "none"

\* A file without an outcome is that of a killed run or of the one that goes on.
Told ==
    \A k \in Key:
        files[k].exists =>
            IF files[k].outcome # "none" THEN returned[k] = files[k].outcome
            ELSE k \in killed \/ (pc \in Running \cup {"finish"} /\ k = Keys[at])

RunsInv == Typed /\ InStep /\ Told /\ BookedAsApproved

\* What an outcome says of the events beside it.
Explains(outcome, events) ==
    /\ outcome = "ok" => Faithful(events) /\ Len(events) = Final
    /\ outcome = "incomplete" => Faithful(events)
    /\ outcome \in {"violated", "unrecognized"} => events # <<>> /\ Faithful(Front(events))
    /\ outcome = "violated" => Last(events)[2] = "Violation"
    /\ outcome = "unrecognized" => Last(events) = <<<<"receive", UNRECOGNIZED>>, "Unrecognized">>

Explained ==
    /\ \A k \in Key: Explains(files[k].outcome, files[k].events)
    /\ pc = "finish" => Explains(run.outcome, Now.events)

-----------------------------------------------------------------------------
(* The protocol and the events of a file                                    *)

\* The protocol of the booking agent, event by event (linear_protocol).
LEMMA PositionsAre ==
    /\ Final = 6
    /\ Positions[1] = <<"send", "SearchFlights">> /\ Positions[2] = <<"receive", "FlightResults">>
    /\ Positions[3] = <<"send", "PresentOptions">> /\ Positions[4] = <<"receive", "UserApproval">>
    /\ Positions[5] = <<"send", "BookFlight">> /\ Positions[6] = <<"receive", "BookingConfirmation">>
<1>1. /\ Labels("search_flights") = <<"SearchFlights", "FlightResults">>
      /\ Labels("book_flight") = <<"BookFlight", "BookingConfirmation">>
  BY DEF Labels, TOOL_LABELS
<1>2. Positions = <<<<"send", "SearchFlights">>, <<"receive", "FlightResults">>>>
                    \o <<<<"send", "PresentOptions">>, <<"receive", "UserApproval">>>>
                    \o <<<<"send", "BookFlight">>, <<"receive", "BookingConfirmation">>>>
  BY <1>1 DEF Positions, ToolEvents, PresentOptions, UserApproval
<1>3. QED
  BY <1>2 DEF Final

\* The monitor of a run accepts the event of its position and nothing else (_step of
\* monitor.py on the automaton of the protocol).
LEMMA SteppedIs ==
    ASSUME NEW m \in Monitors, ~m.halted, NEW event \in Event
    PROVE  /\ Stepped(m, event) \in Monitors /\ Stepped(m, event).result \in Answer
           /\ Stepped(m, event).result = "Ok" =>
                 /\ m.state < Final /\ event = Positions[m.state + 1]
                 /\ Stepped(m, event).state = m.state + 1 /\ ~Stepped(m, event).halted
           /\ Stepped(m, event).result \in {"Ok", "Violation", "Unrecognized"}
           /\ Stepped(m, event).result # "Ok" =>
                 Stepped(m, event).result
                    = IF event[2] = UNRECOGNIZED THEN "Unrecognized" ELSE "Violation"
<1>1. /\ m.state \in 0..Final /\ Final = 6
      /\ m.state \in BookingState /\ m.halted = FALSE
  BY PositionsAre DEF Monitors, BookingState
<1>2. Transitions("now", m.state)
        = [e \in (IF m.state = Final THEN {} ELSE {Positions[m.state + 1]}) |-> m.state + 1]
  BY <1>1, BookingAssumption DEF Transitions, Automata, BookingAutomaton
<1>3. event \in DOMAIN Transitions("now", m.state)
        <=> m.state < Final /\ event = Positions[m.state + 1]
  BY <1>1, <1>2
<1>4. CASE event \in DOMAIN Transitions("now", m.state)
  <2>1. Verdict("now", m.state, m.halted, event) = "Ok"
    BY <1>1, <1>4 DEF Verdict
  <2>2. Transitions("now", m.state)[event] = m.state + 1
    BY <1>2, <1>4
  <2>3. Stepped(m, event) = [state |-> m.state + 1, halted |-> FALSE, result |-> "Ok"]
    BY <1>1, <2>1, <2>2 DEF Stepped, After
  <2>4. m.state + 1 \in BookingState
    BY <1>1, <1>3, <1>4 DEF BookingState
  <2>5. QED
    BY <1>3, <1>4, <2>3, <2>4 DEF Monitors, Answer
<1>5. CASE event \notin DOMAIN Transitions("now", m.state)
  <2> DEFINE v == IF event[2] = UNRECOGNIZED THEN "Unrecognized" ELSE "Violation"
  <2>1. Verdict("now", m.state, m.halted, event) = v
    BY <1>1, <1>5 DEF Verdict
  <2>2. Stepped(m, event) = [state |-> m.state, halted |-> v = "Violation", result |-> v]
    BY <1>1, <2>1 DEF Stepped, After
  <2>3. QED
    BY <1>1, <2>2 DEF Monitors, Answer
<1>6. QED
  BY <1>4, <1>5

\* The next event of the protocol, accepted, keeps a file faithful.
LEMMA FaithfulAppend ==
    ASSUME NEW events \in Seq(Entry), Faithful(events), Len(events) < Final
    PROVE  Faithful(Append(events, <<Positions[Len(events) + 1], "Ok">>))
<1> DEFINE more == Append(events, <<Positions[Len(events) + 1], "Ok">>)
<1>1. /\ Len(events) \in Nat /\ Final = 6 /\ Len(more) = Len(events) + 1
      /\ DOMAIN more = 1..(Len(events) + 1) /\ DOMAIN events = 1..Len(events)
      /\ \A i \in 1..Len(events): more[i] = events[i]
      /\ more[Len(events) + 1] = <<Positions[Len(events) + 1], "Ok">>
  BY PositionsAre
<1> HIDE DEF more
<1>2. ASSUME NEW i \in DOMAIN more PROVE more[i] = <<Positions[i], "Ok">>
  BY <1>1 DEF Faithful
<1>3. QED
  BY <1>1, <1>2 DEF Faithful, more

\* What an event leaves in front of it.
LEMMA AppendParts ==
    ASSUME NEW events \in Seq(Entry), NEW entry \in Entry
    PROVE  /\ Append(events, entry) \in Seq(Entry) /\ Append(events, entry) # <<>>
           /\ Front(Append(events, entry)) = events
           /\ Last(Append(events, entry)) = entry
           /\ Len(Append(events, entry)) = Len(events) + 1
<1> DEFINE more == Append(events, entry)
<1>1. /\ more \in Seq(Entry) /\ Len(more) = Len(events) + 1 /\ Len(events) \in Nat
      /\ \A i \in 1..Len(events): more[i] = events[i]
      /\ more[Len(events) + 1] = entry
  OBVIOUS
<1> HIDE DEF more
<1>2. Front(more) = events
  <2>1. /\ Front(more) \in Seq(Entry) /\ Len(Front(more)) = Len(events)
        /\ \A i \in 1..Len(events): Front(more)[i] = more[i]
    BY <1>1 DEF Front
  <2>2. QED
    BY <1>1, <2>1, SeqEqual
<1>3. Last(more) = entry /\ more # <<>>
  BY <1>1 DEF Last
<1>4. QED
  BY <1>1, <1>2, <1>3 DEF more

-----------------------------------------------------------------------------
(* What an event does to the file and the run                               *)

\* The events run_real_agent reports are events of the protocol's labels.
LEMMA Reported ==
    /\ PresentOptions \in Event
    /\ \A message \in Reply: <<"receive", project_user_message(message)>> \in Event
    /\ <<"receive", UNRECOGNIZED>> \in Event
    /\ \A name \in Tool: /\ <<"send", Labels(name)[1]>> \in Event
                         /\ <<"receive", Labels(name)[2]>> \in Event
<1>1. "PresentOptions" \in Label /\ "UserApproval" \in Label /\ UNRECOGNIZED \in Label
  BY BookingAssumption DEF BookingLabel
<1>2. \A name \in Tool: Labels(name)[1] \in Label /\ Labels(name)[2] \in Label
  BY BookingAssumption DEF BookingLabel
<1>3. QED
  BY <1>1, <1>2 DEF Event, Direction, PresentOptions, project_user_message

\* A new run stands at the start of the protocol (Monitor.__init__).
LEMMA NewRunIs ==
    ASSUME NEW n \in Int
    PROVE  NewRun(n) \in Run /\ NewRun(n).monitor.state = 0 /\ ~NewRun(n).monitor.halted
           /\ NewRun(n).outcome = "none"
<1>1. NewMonitor = [state |-> 0, halted |-> FALSE, result |-> "none"]
  BY BookingAssumption DEF NewMonitor, Fresh, Automata, BookingAutomaton
<1>2. NewMonitor \in Monitors
  BY <1>1, PositionsAre DEF Monitors, BookingState
<1>3. <<>> \in Seq(Tool) /\ "none" \in Outcome
  BY DEF Outcome
<1>4. NewRun(n) \in Run
  BY <1>2, <1>3 DEF NewRun, Run
<1>5. QED
  BY <1>1, <1>4 DEF NewRun

\* The file of the run, wherever the process is in it.
LEMMA NowIs ==
    ASSUME Typed, at \in 1..Len(Keys)
    PROVE  Keys[at] \in Key /\ Now \in File
<1>1. at \in DOMAIN Keys
  BY KeysAssumption
<1>2. Keys[at] \in Key
  BY <1>1 DEF Key
<1>3. QED
  BY <1>2 DEF Typed, Now

\* The record of an event goes behind the others of the run's file; nothing else in the
\* files changes (EventLog.emit).
LEMMA Recorded ==
    ASSUME RunsInv, pc \in Running, NEW event \in Event, _step(event),
           at' = at, UNCHANGED <<returned, killed>>
    PROVE  /\ files' \in [Key -> File]
           /\ \A k \in Key \ {Keys[at]}: files'[k] = files[k]
           /\ \A k \in Key: files'[k].exists = files[k].exists /\ files'[k].outcome = files[k].outcome
           /\ Now'.events = Append(Now.events, <<event, Stepped(run.monitor, event).result>>)
           /\ Now'.outcome = "none"
           /\ run.monitor \in Monitors /\ ~run.monitor.halted
           /\ <<event, Stepped(run.monitor, event).result>> \in Entry
           /\ Now.events \in Seq(Entry) /\ Faithful(Now.events) /\ Len(Now.events) = run.monitor.state
<1>1. /\ at \in 1..Len(Keys) /\ Keys[at] \in Key /\ Now \in File /\ files \in [Key -> File]
  BY NowIs DEF RunsInv, Typed
<1>2. /\ run.monitor \in Monitors /\ ~run.monitor.halted /\ Now.events \in Seq(Entry)
      /\ Faithful(Now.events) /\ Len(Now.events) = run.monitor.state /\ Now.outcome = "none"
  BY <1>1 DEF RunsInv, Typed, Run, InStep, File
<1> DEFINE entry == <<event, Stepped(run.monitor, event).result>>
<1>3. entry \in Entry
  BY <1>2, SteppedIs DEF Entry
<1>4. files' = [files EXCEPT ![Keys[at]].events = Append(@, entry)]
  BY DEF _step
<1> DEFINE file == [Now EXCEPT !.events = Append(Now.events, entry)]
<1>5. file \in File
  <2>1. Append(Now.events, entry) \in Seq(Entry)
    BY <1>2, <1>3
  <2>2. QED
    BY <1>1, <2>1 DEF File
<1>6. /\ file.exists = Now.exists /\ file.outcome = Now.outcome
      /\ file.events = Append(Now.events, entry)
  BY <1>1 DEF File
<1>7. files' = [files EXCEPT ![Keys[at]] = file]
  BY <1>1, <1>4 DEF Now
<1> HIDE DEF file, entry
<1>8. /\ files' \in [Key -> File] /\ files'[Keys[at]] = file
      /\ \A k \in Key \ {Keys[at]}: files'[k] = files[k]
  BY <1>1, <1>5, <1>7
<1>9. Now' = file
  BY <1>8 DEF Now
<1>10. \A k \in Key: files'[k].exists = files[k].exists /\ files'[k].outcome = files[k].outcome
  BY <1>1, <1>6, <1>8 DEF Now
<1>11. QED
  BY <1>2, <1>3, <1>6, <1>8, <1>9, <1>10 DEF entry

\* An accepted event: the file follows the monitor to the next position.
LEMMA Accepted ==
    ASSUME RunsInv, pc \in Running, NEW event \in Event, _step(event), Passes(event),
           at' = at, UNCHANGED <<returned, killed>>
    PROVE  /\ Faithful(Now'.events) /\ Len(Now'.events) = Following(event).state
           /\ Following(event) \in Monitors /\ ~Following(event).halted
           /\ Now'.events # <<>> /\ Last(Now'.events)[1] = event
           /\ event = Positions[Len(Now.events) + 1] /\ Len(Now.events) < Final
<1>1. /\ Now'.events = Append(Now.events, <<event, Stepped(run.monitor, event).result>>)
      /\ run.monitor \in Monitors /\ ~run.monitor.halted
      /\ <<event, Stepped(run.monitor, event).result>> \in Entry
      /\ Now.events \in Seq(Entry) /\ Faithful(Now.events) /\ Len(Now.events) = run.monitor.state
  BY Recorded
<1>2. Stepped(run.monitor, event).result = "Ok"
  BY DEF Passes
<1>3. /\ Following(event) \in Monitors /\ ~Following(event).halted
      /\ run.monitor.state < Final /\ event = Positions[run.monitor.state + 1]
      /\ Following(event).state = run.monitor.state + 1
  BY <1>1, <1>2, SteppedIs DEF Following
<1>4. Now'.events = Append(Now.events, <<Positions[Len(Now.events) + 1], "Ok">>)
  BY <1>1, <1>2, <1>3
<1>5. Faithful(Now'.events)
  BY <1>1, <1>3, <1>4, FaithfulAppend
<1>6. Now'.events # <<>> /\ Len(Now'.events) = Len(Now.events) + 1 /\ Last(Now'.events)[1] = event
  BY <1>1, <1>2, AppendParts
<1>7. QED
  BY <1>1, <1>3, <1>5, <1>6

\* A refused one is the last of the file, behind the accepted ones.
LEMMA Rejected ==
    ASSUME RunsInv, pc \in Running, NEW event \in Event, _step(event),
           at' = at, UNCHANGED <<returned, killed>>
    PROVE  /\ Now'.events # <<>> /\ Faithful(Front(Now'.events))
           /\ Last(Now'.events) = <<event, Stepped(run.monitor, event).result>>
<1>1. /\ Now'.events = Append(Now.events, <<event, Stepped(run.monitor, event).result>>)
      /\ <<event, Stepped(run.monitor, event).result>> \in Entry
      /\ Now.events \in Seq(Entry) /\ Faithful(Now.events)
  BY Recorded
<1>2. QED
  BY <1>1, AppendParts

-----------------------------------------------------------------------------
(* The invariant is inductive                                               *)

\* The first batch finds no file.
LEMMA InitRunsInv == Init => RunsInv
<1> SUFFICES ASSUME Init PROVE RunsInv
  OBVIOUS
<1>1. /\ files = [k \in Key |-> NoFile] /\ failed_files = {} /\ pc = "down" /\ at = 1
      /\ max_turns = 0 /\ status = 0
      /\ run = NewRun(0) /\ killed = {} /\ returned = [k \in Key |-> "none"] /\ booked = {}
  BY DEF Init
<1>2. NoFile \in File
  <2>1. <<>> \in Seq(Entry) /\ "none" \in Outcome
    BY DEF Outcome
  <2>2. QED
    BY <2>1 DEF NoFile, File
<1>3. /\ files \in [Key -> File] /\ \A k \in Key: files[k] = NoFile /\ returned[k] = "none"
      /\ returned \in [Key -> Outcome]
  BY <1>1, <1>2 DEF Outcome
<1>4. run \in Run
  BY <1>1, NewRunIs
<1>5. at \in 1..(Len(Keys) + 1)
  BY <1>1, KeysAssumption
<1>6. TypeOK
  BY <1>1, <1>3, <1>5 DEF TypeOK, NoFile, Outcome
<1>7. Typed /\ InStep /\ Told /\ BookedAsApproved
  BY <1>1, <1>3, <1>4, <1>6 DEF Typed, InStep, Running, Told, NoFile, BookedAsApproved
<1>8. QED
  BY <1>7 DEF RunsInv

\* A step of run_real_agent writes events to its own file alone, and no outcome.
LEMMA RunStep ==
    ASSUME RunsInv, pc \in Running, pc' \in Running \cup {"finish"}, run' \in Run,
           files' \in [Key -> File],
           \A k \in Key \ {Keys[at]}: files'[k] = files[k],
           \A k \in Key: files'[k].exists = files[k].exists /\ files'[k].outcome = files[k].outcome,
           pc' \in {"call", "tool"} => run'.calls # <<>>,
           pc' = "tool" => ~run'.monitor.halted,
           pc' \in Running => run'.outcome = "none",
           UNCHANGED <<failed_files, batch, returned>>
    PROVE  Typed' /\ Told'
<1>1. /\ at \in 1..Len(Keys) /\ Keys[at] \in Key /\ Typed /\ TypeOK /\ Told
      /\ files[Keys[at]].exists
  BY NowIs DEF RunsInv, Typed, TypeOK, Running
<1>2. UNCHANGED <<at, max_turns, status, killed, returned, failed_files>>
  BY DEF batch
<1>3. \A k \in Key: ~files'[k].exists => files'[k] = NoFile
  BY <1>1 DEF TypeOK
<1>4. \A k \in Key: files'[k].outcome \in Outcome /\ returned'[k] \in Outcome
  BY <1>1, <1>2 DEF TypeOK
<1>5. TypeOK'
  <2>1. /\ pc' \in {"down", "next_key", "begin", "ask_llm", "call", "tool", "ask_user", "finish"}
        /\ pc' \notin {"begin", "down", "next_key"}
        /\ pc' \in {"ask_llm", "call", "tool", "ask_user"} => run'.outcome = "none"
    BY DEF Running
  <2>2. files'[Keys[at']].exists
    BY <1>1, <1>2
  <2>3. /\ at' \in 1..(Len(Keys) + 1)
        /\ max_turns' \in TurnLimits \cup {0} /\ status' \in {0, 2}
    BY <1>1, <1>2 DEF TypeOK
  <2>4. QED
    BY <1>3, <1>4, <2>1, <2>2, <2>3 DEF TypeOK
<1>6. Typed'
  BY <1>1, <1>2, <1>5 DEF Typed
<1>7. Told'
  BY <1>1, <1>2 DEF Told, Running
<1>8. QED
  BY <1>6, <1>7

\* After an accepted event the run goes on, or it ends with an outcome.
LEMMA GoesOn ==
    ASSUME RunsInv, pc \in Running, NEW event \in Event, _step(event), Passes(event),
           run' \in Run, run'.monitor = Following(event),
           \/ pc' \in Running /\ run'.outcome = "none"
           \/ pc' = "finish" /\ run'.outcome # "none",
           pc' \in {"call", "tool"} => run'.calls # <<>>,
           pc' = "tool" => Sent' = event,
           UNCHANGED <<failed_files, batch, returned>>
    PROVE  Typed' /\ InStep' /\ Told' /\ Faithful(Now'.events)
<1>1. at' = at /\ UNCHANGED <<returned, killed>>
  BY DEF batch
<1>2. /\ files' \in [Key -> File]
      /\ \A k \in Key \ {Keys[at]}: files'[k] = files[k]
      /\ \A k \in Key: files'[k].exists = files[k].exists /\ files'[k].outcome = files[k].outcome
      /\ Now'.outcome = "none"
  BY <1>1, Recorded
<1>3. /\ Faithful(Now'.events) /\ Len(Now'.events) = Following(event).state
      /\ ~Following(event).halted
      /\ Now'.events # <<>> /\ Last(Now'.events)[1] = event
  BY <1>1, Accepted
<1>4. Typed' /\ Told'
  BY <1>2, <1>3, RunStep DEF Running
<1>5. InStep'
  BY <1>2, <1>3 DEF InStep, Running
<1>6. QED
  BY <1>3, <1>4, <1>5

\* The run ends with an outcome, with or without an event (the returns of
\* run_real_agent).
LEMMA Ends ==
    ASSUME RunsInv, pc \in Running, run' \in Run, run'.outcome # "none", pc' = "finish",
           files' = files \/ \E event \in Event: _step(event),
           UNCHANGED <<failed_files, batch, returned>>
    PROVE  Typed' /\ InStep' /\ Told'
<1>1. at' = at /\ UNCHANGED <<returned, killed>>
  BY DEF batch
<1>2. /\ files' \in [Key -> File]
      /\ \A k \in Key \ {Keys[at]}: files'[k] = files[k]
      /\ \A k \in Key: files'[k].exists = files[k].exists /\ files'[k].outcome = files[k].outcome
      /\ Now'.outcome = "none"
  <2>1. CASE files' = files
    BY <1>1, <2>1 DEF RunsInv, Typed, InStep, Now
  <2>2. CASE \E event \in Event: _step(event)
    BY <1>1, <2>2, Recorded
  <2>3. QED
    BY <2>1, <2>2
<1>3. Typed' /\ Told'
  BY <1>2, RunStep DEF Running
<1>4. InStep'
  BY <1>2 DEF InStep, Running
<1>5. QED
  BY <1>3, <1>4

\* An outcome is written to the run.
LEMMA Finished ==
    ASSUME RunsInv, NEW o \in Outcome, Finish(o)
    PROVE  run' \in Run /\ run'.outcome = o /\ run'.monitor = run.monitor /\ pc' = "finish"
  BY DEF RunsInv, Typed, Finish, Run

\* The next turn keeps what the event left, or ends the run as incomplete.
LEMMA Continued ==
    ASSUME NEW next \in Run, next.outcome = "none", Continue(next)
    PROVE  /\ run' \in Run /\ run'.monitor = next.monitor
           /\ \/ pc' = "ask_llm" /\ run'.outcome = "none"
              \/ pc' = "finish" /\ run'.outcome = "incomplete"
<1>1. "incomplete" \in Outcome
  BY DEF Outcome
<1>2. QED
  BY <1>1 DEF Continue, Run

\* What a run has been told by its file.
LEMMA InRun ==
    ASSUME RunsInv, pc \in Running
    PROVE  /\ run \in Run /\ run.outcome = "none" /\ run.monitor \in Monitors
           /\ run.calls \in Seq(Tool) /\ at \in 1..Len(Keys)
           /\ pc \in {"call", "tool"} =>
                 run.calls # <<>> /\ Head(run.calls) \in Tool /\ Sent \in Event /\ Received \in Event
<1>1. /\ run \in Run /\ run.outcome = "none" /\ at \in 1..Len(Keys)
      /\ pc \in {"call", "tool"} => run.calls # <<>>
  BY DEF RunsInv, Typed, TypeOK, Running
<1>2. run.monitor \in Monitors /\ run.calls \in Seq(Tool)
  BY <1>1 DEF Run
<1>3. run.calls # <<>> => Head(run.calls) \in Tool
  BY <1>2
<1>4. QED
  BY <1>1, <1>2, <1>3, Reported DEF Sent, Received

\* run_real_agent keeps the invariant up to what has been booked.
LEMMA AgentKeeps ==
    ASSUME RunsInv,
           \/ \E n \in 1..MaxCalls: \E names \in [1..n -> Tool]: llm_calls(names)
           \/ call \/ tool_returns \/ llm_is_silent \/ llm_writes \/ user_is_silent
           \/ \E message \in Reply: user_replies(message)
    PROVE  Typed' /\ InStep' /\ Told'
<1> "ok" \in Outcome /\ "violated" \in Outcome /\ "unrecognized" \in Outcome /\ "incomplete" \in Outcome
  BY DEF Outcome
<1>1. ASSUME NEW n \in 1..MaxCalls, NEW names \in [1..n -> Tool], llm_calls(names)
      PROVE  Typed' /\ InStep' /\ Told'
  <2>1. /\ pc = "ask_llm" /\ run' = [run EXCEPT !.calls = names] /\ pc' = "call"
        /\ UNCHANGED <<files, failed_files, batch, returned>>
    BY <1>1 DEF llm_calls
  <2>2. names \in Seq(Tool) /\ names # <<>>
    OBVIOUS
  <2>3. /\ run' \in Run /\ run'.calls # <<>> /\ run'.outcome = "none" /\ run'.monitor = run.monitor
    BY <2>1, <2>2, InRun DEF Running, Run
  <2>4. Typed' /\ Told'
    BY <2>1, <2>3, RunStep DEF Running, RunsInv, Typed
  <2>5. InStep'
    BY <2>1, <2>3 DEF RunsInv, InStep, Running, Now, batch
  <2>6. QED
    BY <2>4, <2>5
<1>2. CASE call
  <2>1. /\ pc = "call" /\ _step(Sent) /\ UNCHANGED <<failed_files, batch, returned>>
        /\ run \in Run /\ run.outcome = "none" /\ run.calls # <<>> /\ Sent \in Event
    BY <1>2, InRun DEF call, Running
  <2>2. PICK event \in Event: event = Sent
    BY <2>1
  <2>3. CASE Passes(Sent)
    <3>1. run' = [run EXCEPT !.monitor = Following(event)] /\ pc' = "tool"
      BY <1>2, <2>2, <2>3 DEF call
    <3>2. Following(event) \in Monitors
      BY <2>1, <2>2, <2>3, Accepted DEF Running, batch
    <3>3. /\ run' \in Run /\ run'.monitor = Following(event) /\ run'.outcome = "none"
          /\ run'.calls = run.calls
      BY <2>1, <3>1, <3>2 DEF Run
    <3>4. Sent' = event
      BY <2>2, <3>3 DEF Sent
    <3>5. QED
      BY <2>1, <2>2, <2>3, <3>1, <3>3, <3>4, GoesOn DEF Running
  <2>4. CASE ~Passes(Sent)
    <3>1. Finish("violated")
      BY <1>2, <2>4 DEF call
    <3>2. QED
      BY <2>1, <3>1, Finished, Ends DEF Running
  <2>5. QED
    BY <2>3, <2>4
<1>3. CASE tool_returns
  <2> DEFINE next == [run EXCEPT !.monitor = Following(Received), !.calls = Tail(@)]
  <2>1. /\ pc = "tool" /\ _step(Received) /\ UNCHANGED <<failed_files, batch, returned>>
        /\ run \in Run /\ run.outcome = "none" /\ run.calls # <<>> /\ Received \in Event
        /\ run.calls \in Seq(Tool)
    BY <1>3, InRun DEF tool_returns, Running
  <2>2. PICK event \in Event: event = Received
    BY <2>1
  <2>3. CASE Passes(Received)
    <3>1. Following(event) \in Monitors /\ Tail(run.calls) \in Seq(Tool)
      BY <2>1, <2>2, <2>3, Accepted DEF Running, batch
    <3>2. /\ next \in Run /\ next.monitor = Following(event) /\ next.outcome = "none"
      BY <2>1, <2>2, <3>1 DEF Run
    <3>3. CASE next.calls # <<>>
      <4>1. run' = next /\ pc' = "call"
        BY <1>3, <2>3, <3>3 DEF tool_returns
      <4>2. QED
        BY <2>1, <2>2, <2>3, <3>2, <3>3, <4>1, GoesOn DEF Running
    <3>4. CASE next.calls = <<>>
      <4>1. Continue(next)
        BY <1>3, <2>3, <3>4 DEF tool_returns
      <4> HIDE DEF next
      <4>2. /\ run' \in Run /\ run'.monitor = next.monitor
            /\ \/ pc' = "ask_llm" /\ run'.outcome = "none"
               \/ pc' = "finish" /\ run'.outcome = "incomplete"
        BY <3>2, <4>1, Continued
      <4>3. QED
        BY <2>1, <2>2, <2>3, <3>2, <4>2, GoesOn DEF Running
    <3>5. QED
      BY <3>3, <3>4
  <2>4. CASE ~Passes(Received)
    <3>1. Finish("violated")
      BY <1>3, <2>4 DEF tool_returns
    <3>2. QED
      BY <2>1, <3>1, Finished, Ends DEF Running
  <2>5. QED
    BY <2>3, <2>4
<1>4. CASE llm_is_silent \/ user_is_silent
  <2>1. /\ pc \in Running /\ Finish("incomplete")
        /\ UNCHANGED <<files, failed_files, batch, returned>>
    BY <1>4 DEF llm_is_silent, user_is_silent, Running
  <2>2. QED
    BY <2>1, Finished, Ends
<1>5. CASE llm_writes
  <2>1. /\ pc = "ask_llm" /\ UNCHANGED <<failed_files, batch, returned>>
        /\ run \in Run /\ run.outcome = "none" /\ PresentOptions \in Event
    BY <1>5, InRun, Reported DEF llm_writes, Running
  <2>2. CASE is_terminal(run.monitor.state)
    <3>1. Finish("ok") /\ UNCHANGED files
      BY <1>5, <2>2 DEF llm_writes
    <3>2. QED
      BY <2>1, <3>1, Finished, Ends DEF Running
  <2>3. CASE ~is_terminal(run.monitor.state) /\ ~Passes(PresentOptions)
    <3>1. Finish("violated") /\ _step(PresentOptions)
      BY <1>5, <2>3 DEF llm_writes
    <3>2. QED
      BY <2>1, <3>1, Finished, Ends DEF Running
  <2>4. CASE ~is_terminal(run.monitor.state) /\ Passes(PresentOptions)
    <3>1. /\ run' = [run EXCEPT !.monitor = Following(PresentOptions)] /\ pc' = "ask_user"
          /\ _step(PresentOptions)
      BY <1>5, <2>4 DEF llm_writes
    <3>2. Following(PresentOptions) \in Monitors
      BY <2>1, <2>4, <3>1, Accepted DEF Running, batch
    <3>3. run' \in Run /\ run'.monitor = Following(PresentOptions) /\ run'.outcome = "none"
      BY <2>1, <3>1, <3>2 DEF Run
    <3>4. QED
      BY <2>1, <2>4, <3>1, <3>3, GoesOn DEF Running
  <2>5. QED
    BY <2>2, <2>3, <2>4
<1>6. ASSUME NEW message \in Reply, user_replies(message)
      PROVE  Typed' /\ InStep' /\ Told'
  <2>1. PICK event \in Event: event = <<"receive", project_user_message(message)>>
    BY Reported
  <2>2. /\ pc = "ask_user" /\ UNCHANGED <<failed_files, batch, returned>> /\ _step(event)
        /\ run \in Run /\ run.outcome = "none"
    BY <1>6, <2>1, InRun DEF user_replies, Running
  <2>3. CASE event[2] = UNRECOGNIZED
    <3>1. Finish("unrecognized")
      BY <1>6, <2>1, <2>3 DEF user_replies
    <3>2. QED
      BY <2>2, <3>1, Finished, Ends DEF Running
  <2>4. CASE event[2] # UNRECOGNIZED /\ ~Passes(event)
    <3>1. Finish("violated")
      BY <1>6, <2>1, <2>4 DEF user_replies
    <3>2. QED
      BY <2>2, <3>1, Finished, Ends DEF Running
  <2>5. CASE event[2] # UNRECOGNIZED /\ Passes(event)
    <3> DEFINE next == [run EXCEPT !.monitor = Following(event), !.replies = @ - 1]
    <3>1. Continue(next)
      BY <1>6, <2>1, <2>5 DEF user_replies
    <3>2. Following(event) \in Monitors
      BY <2>2, <2>5, Accepted DEF Running, batch
    <3>3. next \in Run /\ next.monitor = Following(event) /\ next.outcome = "none"
      <4>1. PICK m \in Monitors: m = Following(event)
        BY <3>2
      <4>2. PICK n \in Int: n = run.replies - 1
        BY <2>2 DEF Run
      <4>3. next = [run EXCEPT !.monitor = m, !.replies = n]
        BY <4>1, <4>2
      <4>4. [run EXCEPT !.monitor = m, !.replies = n] \in Run
        BY <2>2 DEF Run
      <4>5. next.monitor = m /\ next.outcome = "none"
        BY <2>2, <4>3 DEF Run
      <4>6. QED
        BY <4>1, <4>3, <4>4, <4>5
    <3> HIDE DEF next
    <3>4. /\ run' \in Run /\ run'.monitor = next.monitor
          /\ \/ pc' = "ask_llm" /\ run'.outcome = "none"
             \/ pc' = "finish" /\ run'.outcome = "incomplete"
      BY <3>1, <3>3, Continued
    <3>5. QED
      BY <2>2, <2>5, <3>3, <3>4, GoesOn DEF Running
  <2>6. QED
    BY <2>3, <2>4, <2>5
<1>7. QED
  BY <1>1, <1>2, <1>3, <1>4, <1>5, <1>6

\* book_flight runs between the acceptance of its call and that of its result, so the
\* file it finds is the protocol up to the booking (tool_returns).
LEMMA BookedKeeps == RunsInv /\ [Next]_vars => BookedAsApproved'
<1> SUFFICES ASSUME RunsInv, [Next]_vars PROVE BookedAsApproved'
  OBVIOUS
<1>1. CASE UNCHANGED booked
  BY <1>1 DEF RunsInv, BookedAsApproved
<1>2. CASE tool_returns
  <2>1. /\ Now.events # <<>> /\ Last(Now.events)[1] = Sent /\ Faithful(Now.events)
        /\ Len(Now.events) <= 6 /\ Now.events \in Seq(Entry)
        /\ booked' = IF Head(run.calls) = "book_flight" THEN booked \cup {Now.events} ELSE booked
    <3>1. pc = "tool" /\ pc \in Running
      BY <1>2 DEF tool_returns, Running
    <3>2. Now \in File
      BY <3>1, InRun, NowIs DEF RunsInv
    <3>3. Now.events \in Seq(Entry)
      BY <3>2 DEF File
    <3>4. Now.events # <<>> /\ Last(Now.events)[1] = Sent /\ Faithful(Now.events)
      BY <3>1 DEF RunsInv, InStep
    <3>5. Len(Now.events) <= 6
      BY <3>4, PositionsAre DEF Faithful
    <3>6. booked' = IF Head(run.calls) = "book_flight" THEN booked \cup {Now.events} ELSE booked
      BY <1>2 DEF tool_returns, Now
    <3>7. QED
      BY <3>3, <3>4, <3>5, <3>6
  <2>2. ASSUME Head(run.calls) = "book_flight" PROVE Len(Now.events) = Final - 1
    <3>1. Sent = <<"send", "BookFlight">>
      BY <2>2 DEF Sent, Labels, TOOL_LABELS
    <3>2. PICK n \in 1..6: n = Len(Now.events)
      <4>1. PICK events \in Seq(Entry): events = Now.events
        BY <2>1
      <4>2. Len(events) \in 1..6
        <5>1. events # <<>> /\ Len(events) <= 6
          BY <2>1, <4>1
        <5>2. PICK m \in Nat: m = Len(events)
          OBVIOUS
        <5>3. m # 0 /\ m <= 6
          BY <5>1, <5>2, EmptySeq
        <5>4. QED
          BY <5>2, <5>3
      <4>3. QED
        BY <4>1, <4>2
    <3>3. Now.events[n] = <<Positions[n], "Ok">>
      BY <2>1, <3>2 DEF Faithful
    <3>4. Positions[n] = <<"send", "BookFlight">>
      BY <2>1, <3>1, <3>2, <3>3 DEF Last
    <3>5. n = 5
      BY <3>4, PositionsAre
    <3>6. QED
      BY <3>2, <3>5, PositionsAre
  <2>3. QED
    BY <2>1, <2>2 DEF RunsInv, BookedAsApproved
<1>3. QED
  BY <1>1, <1>2
  DEF Next, Step, start_batch, kill, kill_between, end_batch, skip, raise, start_run, first_record,
      llm_calls, call, llm_is_silent, llm_writes, user_is_silent, finish, user_replies, vars

\* Outside a run nothing has to be known of it.
LEMMA Between ==
    ASSUME RunsInv, TypeOK', files' \in [Key -> File], run' \in Run,
           returned' \in [Key -> Outcome], pc' \in {"down", "next_key"}
    PROVE  Typed' /\ InStep'
  BY DEF Typed, InStep, Running

\* A batch with its skips, failures and kills keeps the invariant up to what has been
\* booked (run_all.py).
LEMMA BatchKeeps ==
    ASSUME RunsInv,
           \/ start_batch \/ end_batch \/ skip \/ start_run \/ raise \/ kill \/ kill_between
           \/ finish \/ \E n \in 0..MaxReplies: first_record(n)
    PROVE  Typed' /\ InStep' /\ Told'
<1>0. /\ TypeOK /\ files \in [Key -> File] /\ returned \in [Key -> Outcome] /\ run \in Run /\ Told
      /\ Len(Keys) \in Nat /\ at \in 1..(Len(Keys) + 1)
  BY KeysAssumption DEF RunsInv, Typed, TypeOK
<1>1. CASE start_batch
  <2>1. /\ pc = "down" /\ pc' = "next_key" /\ at' = 1 /\ max_turns' \in TurnLimits /\ status' = 0
        /\ UNCHANGED <<files, failed_files, run, killed, returned>>
    BY <1>1 DEF start_batch
  <2>2. at' \in 1..(Len(Keys) + 1)
    BY <1>0, <2>1
  <2>3. TypeOK'
    BY <1>0, <2>1, <2>2 DEF TypeOK
  <2>4. Told'
    BY <1>0, <2>1 DEF Told, Running
  <2>5. QED
    BY <1>0, <2>1, <2>3, <2>4, Between
<1>2. CASE end_batch \/ kill_between
  <2>1. /\ pc = "next_key" /\ pc' = "down"
        /\ UNCHANGED <<files, failed_files, run, at, max_turns, status, killed, returned>>
    BY <1>2 DEF end_batch, kill_between, batch
  <2>2. TypeOK'
    BY <1>0, <2>1 DEF TypeOK
  <2>3. Told'
    BY <1>0, <2>1 DEF Told, Running
  <2>4. QED
    BY <1>0, <2>1, <2>2, <2>3, Between
<1>3. CASE skip
  <2>1. /\ pc = "next_key" /\ pc' = pc /\ at <= Len(Keys) /\ at' = at + 1
        /\ UNCHANGED <<files, failed_files, run, max_turns, status, killed, returned>>
    BY <1>3 DEF skip
  <2>2. at' \in 1..(Len(Keys) + 1)
    BY <1>0, <2>1
  <2>3. TypeOK'
    BY <1>0, <2>1, <2>2 DEF TypeOK
  <2>4. Told'
    BY <1>0, <2>1 DEF Told, Running
  <2>5. QED
    BY <1>0, <2>1, <2>3, <2>4, Between
<1>4. CASE start_run
  <2>1. /\ pc = "next_key" /\ pc' = "begin" /\ at <= Len(Keys) /\ ~files[Keys[at]].exists
        /\ UNCHANGED <<files, failed_files, run, at, max_turns, status, killed, returned>>
    BY <1>4 DEF start_run, batch
  <2>2. at \in 1..Len(Keys)
    BY <1>0, <2>1
  <2>3. TypeOK'
    BY <1>0, <2>1, <2>2 DEF TypeOK
  <2>4. Typed' /\ InStep'
    BY <1>0, <2>1, <2>2, <2>3 DEF Typed, InStep, Running
  <2>5. Told'
    BY <1>0, <2>1 DEF Told, Running
  <2>6. QED
    BY <2>4, <2>5
<1>5. ASSUME NEW n \in 0..MaxReplies, first_record(n) PROVE Typed' /\ InStep' /\ Told'
  <2>1. /\ pc = "begin" /\ pc' = "ask_llm"
        /\ files' = [files EXCEPT ![Keys[at]] = [NoFile EXCEPT !.exists = TRUE]]
        /\ run' = NewRun(n)
        /\ UNCHANGED <<failed_files, at, max_turns, status, killed, returned>>
    BY <1>5 DEF first_record, batch
  <2>2. at \in 1..Len(Keys) /\ Keys[at] \in Key
    BY <1>0, <2>1, NowIs DEF RunsInv, Typed
  <2> DEFINE new == [NoFile EXCEPT !.exists = TRUE]
  <2>3. NoFile \in File
    <3>1. <<>> \in Seq(Entry) /\ "none" \in Outcome
      BY DEF Outcome
    <3>2. QED
      BY <3>1 DEF NoFile, File
  <2>4. new \in File /\ new.exists
    BY <2>3 DEF File
  <2>5. new.events = <<>> /\ new.outcome = "none"
    BY DEF NoFile
  <2> HIDE DEF new
  <2>6. /\ files' \in [Key -> File] /\ files'[Keys[at]] = new
        /\ \A k \in Key \ {Keys[at]}: files'[k] = files[k]
    BY <1>0, <2>1, <2>2, <2>4 DEF new
  <2>7. /\ run' \in Run /\ run'.monitor.state = 0 /\ ~run'.monitor.halted /\ run'.outcome = "none"
    BY <2>1, NewRunIs
  <2>8. \A k \in Key: /\ files'[k].outcome \in Outcome
                      /\ ~files'[k].exists => files'[k] = NoFile
    BY <1>0, <2>4, <2>5, <2>6 DEF TypeOK, File
  <2>9. TypeOK'
    BY <1>0, <2>1, <2>2, <2>5, <2>6, <2>7, <2>8 DEF TypeOK
  <2>10. Typed'
    BY <1>0, <2>1, <2>2, <2>6, <2>7, <2>9 DEF Typed
  <2>11. Now' = new /\ Faithful(<<>>)
    BY <2>1, <2>6, PositionsAre DEF Now, Faithful
  <2>12. InStep'
    BY <2>1, <2>5, <2>7, <2>11 DEF InStep, Running
  <2>13. Told'
    BY <1>0, <2>1, <2>5, <2>6 DEF Told, Running
  <2>14. QED
    BY <2>10, <2>12, <2>13
<1>6. CASE raise
  <2>1. /\ pc \in Running \cup {"begin", "finish"} /\ pc' = "next_key" /\ status' = 2 /\ at' = at + 1
        /\ files' = [files EXCEPT ![Keys[at]] = NoFile] /\ run' = NewRun(0)
        /\ UNCHANGED <<max_turns, killed, returned>>
    BY <1>0, <1>6 DEF raise, TypeOK, Running
  <2>2. at \in 1..Len(Keys) /\ Keys[at] \in Key
    BY <2>1, NowIs DEF RunsInv, Typed, Running
  <2>3. NoFile \in File
    <3>1. <<>> \in Seq(Entry) /\ "none" \in Outcome
      BY DEF Outcome
    <3>2. QED
      BY <3>1 DEF File, NoFile
  <2>4. /\ files' \in [Key -> File] /\ files'[Keys[at]] = NoFile
        /\ \A k \in Key \ {Keys[at]}: files'[k] = files[k]
    BY <1>0, <2>1, <2>2, <2>3
  <2>5. run' \in Run
    BY <2>1, NewRunIs
  <2>6. at' \in 1..(Len(Keys) + 1)
    BY <1>0, <2>1, <2>2
  <2>7. TypeOK'
    BY <1>0, <2>1, <2>3, <2>4, <2>6 DEF TypeOK, File
  <2>8. Told'
    BY <1>0, <2>1, <2>4 DEF Told, NoFile
  <2>9. QED
    BY <1>0, <2>1, <2>4, <2>5, <2>7, <2>8, Between
<1>7. CASE kill
  <2>1. /\ pc \in Running \cup {"begin", "finish"} /\ pc' = "down" /\ run' = NewRun(0)
        /\ UNCHANGED <<failed_files, at, max_turns, status, returned>>
    BY <1>0, <1>7 DEF kill, TypeOK, Running
  <2>2. at \in 1..Len(Keys) /\ Keys[at] \in Key /\ Now \in File
    BY <1>0, <2>1, NowIs DEF RunsInv, Typed
  <2>3. run' \in Run
    BY <2>1, NewRunIs
  <2>4. CASE UNCHANGED <<files, killed>> /\ ~Now.exists
    <3>1. TypeOK'
      BY <1>0, <2>1, <2>4 DEF TypeOK
    <3>2. Told'
      BY <1>0, <2>1, <2>4 DEF Told, Now
    <3>3. QED
      BY <1>0, <2>1, <2>3, <2>4, <3>1, <3>2, Between
  <2>5. ASSUME NEW t \in BOOLEAN, files' = [files EXCEPT ![Keys[at]].torn = t],
               killed' = killed \cup {Keys[at]}, Now.exists
        PROVE  Typed' /\ InStep' /\ Told'
    <3> DEFINE file == [Now EXCEPT !.torn = t]
    <3>1. file \in File /\ file.exists /\ file.outcome = Now.outcome
      BY <2>2, <2>5 DEF File
    <3>2. files' = [files EXCEPT ![Keys[at]] = file]
      BY <1>0, <2>2, <2>5 DEF Now
    <3> HIDE DEF file
    <3>3. /\ files' \in [Key -> File] /\ files'[Keys[at]] = file
          /\ \A k \in Key \ {Keys[at]}: files'[k] = files[k]
      BY <1>0, <2>2, <3>1, <3>2
    <3>4. \A k \in Key: /\ files'[k].outcome \in Outcome
                        /\ ~files'[k].exists => files'[k] = NoFile
      BY <1>0, <3>1, <3>3 DEF TypeOK, File
    <3>5. TypeOK'
      BY <1>0, <2>1, <3>4 DEF TypeOK
    <3>6. Told'
      BY <1>0, <2>1, <2>2, <2>5, <3>1, <3>3 DEF Told, Now
    <3>7. QED
      BY <1>0, <2>1, <2>3, <3>3, <3>5, <3>6, Between
  <2>6. QED
    BY <1>7, <2>4, <2>5 DEF kill, Now
<1>8. CASE finish
  <2>1. /\ pc = "finish" /\ pc' = "next_key" /\ at' = at + 1 /\ run' = NewRun(0)
        /\ files' = [files EXCEPT ![Keys[at]].outcome = run.outcome]
        /\ returned' = [returned EXCEPT ![Keys[at]] = run.outcome]
        /\ UNCHANGED <<failed_files, max_turns, status, killed>>
    BY <1>8 DEF finish
  <2>2. /\ at \in 1..Len(Keys) /\ Keys[at] \in Key /\ Now \in File /\ Now.exists
        /\ run.outcome # "none" /\ run.outcome \in Outcome
    BY <1>0, <2>1, NowIs DEF RunsInv, Typed, TypeOK, Now, InStep, Run
  <2> DEFINE file == [Now EXCEPT !.outcome = run.outcome]
  <2>3. file \in File /\ file.exists /\ file.outcome = run.outcome
    BY <2>2 DEF File
  <2>4. files' = [files EXCEPT ![Keys[at]] = file]
    BY <1>0, <2>1, <2>2 DEF Now
  <2> HIDE DEF file
  <2>5. /\ files' \in [Key -> File] /\ files'[Keys[at]] = file
        /\ \A k \in Key \ {Keys[at]}: files'[k] = files[k]
        /\ returned' \in [Key -> Outcome] /\ returned'[Keys[at]] = run.outcome
        /\ \A k \in Key \ {Keys[at]}: returned'[k] = returned[k]
    BY <1>0, <2>1, <2>2, <2>3, <2>4
  <2>6. run' \in Run
    BY <2>1, NewRunIs
  <2>7. at' \in 1..(Len(Keys) + 1)
    BY <1>0, <2>1, <2>2
  <2>8. \A k \in Key: /\ files'[k].outcome \in Outcome /\ returned'[k] \in Outcome
                      /\ ~files'[k].exists => files'[k] = NoFile
    BY <1>0, <2>3, <2>5 DEF TypeOK, File
  <2>9. TypeOK'
    BY <1>0, <2>1, <2>7, <2>8 DEF TypeOK
  <2>10. Told'
    BY <1>0, <2>1, <2>2, <2>3, <2>5 DEF Told, Running
  <2>11. QED
    BY <1>0, <2>1, <2>5, <2>6, <2>9, <2>10, Between
<1>9. QED
  BY <1>1, <1>2, <1>3, <1>4, <1>5, <1>6, <1>7, <1>8

\* The inductive invariant of the runs and batches.
THEOREM RunsInvariant == Spec => []RunsInv
<1>1. RunsInv /\ UNCHANGED vars => Typed' /\ InStep' /\ Told'
  <2> SUFFICES ASSUME RunsInv, UNCHANGED vars PROVE Typed' /\ InStep' /\ Told'
    OBVIOUS
  <2>1. /\ files' = files /\ failed_files' = failed_files /\ pc' = pc /\ at' = at
        /\ max_turns' = max_turns /\ status' = status /\ run' = run /\ killed' = killed /\ returned' = returned
    BY DEF vars
  <2>2. Typed'
    BY <2>1 DEF RunsInv, Typed, TypeOK
  <2>3. InStep'
    BY <2>1 DEF RunsInv, InStep, Now, Sent
  <2>4. Told'
    BY <2>1 DEF RunsInv, Told
  <2>5. QED
    BY <2>2, <2>3, <2>4
<1>2. RunsInv /\ [Next]_vars => RunsInv'
  BY <1>1, AgentKeeps, BatchKeeps, BookedKeeps DEF Next, Step, RunsInv
<1>3. QED
  BY <1>2, InitRunsInv, PTL DEF Spec

\* The types, and what the places of a process say of each other, for every batch.
THEOREM RunTypes == Spec => []TypeOK
<1>1. RunsInv => TypeOK
  BY DEF RunsInv, Typed
<1>2. QED
  BY <1>1, RunsInvariant, PTL

\* Whatever raised, was skipped, killed or run again, sweep.py reports of a readable file
\* what the run returned, or that it was not finished.
THEOREM SweepReportsTheRun == Spec => []SweepTellsTheRun
<1>1. RunsInv => SweepTellsTheRun
  <2> SUFFICES ASSUME RunsInv, NEW k \in Key, Readable(files[k])
               PROVE  \/ load_trajectory(files[k]).outcome = returned[k]
                      \/ /\ files[k].outcome = "none"
                         /\ k \in killed \/ (pc \notin {"down", "next_key"} /\ k = Keys[at])
    BY DEF SweepTellsTheRun
  <2>1. files[k].exists /\ Told
    BY DEF Readable, RunsInv
  <2>2. CASE files[k].outcome # "none"
    BY <2>1, <2>2 DEF Told, load_trajectory
  <2>3. CASE files[k].outcome = "none"
    BY <2>1, <2>3 DEF Told, Running
  <2>4. QED
    BY <2>2, <2>3
<1>2. QED
  BY <1>1, RunsInvariant, PTL

\* Nothing is booked but after the search, the offer and the user's approval, for a call
\* the monitor has accepted.
THEOREM NothingBookedUnapproved == Spec => []BookedAsApproved
<1>1. RunsInv => BookedAsApproved
  BY DEF RunsInv
<1>2. QED
  BY <1>1, RunsInvariant, PTL

-----------------------------------------------------------------------------
(* The outcomes are explained                                               *)

\* No event of the protocol has the sentinel for its label.
LEMMA ProtocolApart ==
    ASSUME SentinelApart
    PROVE  /\ PresentOptions[2] # UNRECOGNIZED
           /\ \A i \in 1..6: Positions[i] # <<"receive", UNRECOGNIZED>>
<1>1. \A i \in 1..6: Positions[i][2] # UNRECOGNIZED
  BY PositionsAre DEF SentinelApart
<1>2. PresentOptions = Positions[3] /\ 3 \in 1..6
  BY PositionsAre DEF PresentOptions
<1>3. QED
  BY <1>1, <1>2

\* A step of a run explains the others' outcomes as before, and its own if it has one.
LEMMA OwnOutcome ==
    ASSUME Explained, at' = at, Keys[at] \in Key,
           \A k \in Key \ {Keys[at]}: files'[k] = files[k],
           Now'.outcome = "none",
           pc' = "finish" => Explains(run'.outcome, Now'.events)
    PROVE  Explained'
<1>1. \A k \in Key \ {Keys[at]}: Explains(files'[k].outcome, files'[k].events)
  BY DEF Explained
<1>2. Explains(files'[Keys[at]].outcome, files'[Keys[at]].events)
  BY DEF Now, Explains
<1>3. \A k \in Key: Explains(files'[k].outcome, files'[k].events)
  BY <1>1, <1>2
<1>4. QED
  BY <1>3 DEF Explained

\* A step that reports an event ends its run for one of three reasons (run_real_agent).
LEMMA EventExplained ==
    ASSUME SentinelApart, RunsInv, Explained, pc \in Running, NEW event \in Event, _step(event),
           UNCHANGED <<batch, returned>>,
           pc' = "finish" =>
              \/ run'.outcome = "violated" /\ ~Passes(event) /\ event[2] # UNRECOGNIZED
              \/ run'.outcome = "unrecognized" /\ event = <<"receive", UNRECOGNIZED>>
              \/ run'.outcome = "incomplete" /\ Passes(event)
    PROVE  Explained'
<1>1. at' = at /\ UNCHANGED <<returned, killed>>
  BY DEF batch
<1>2. /\ \A k \in Key \ {Keys[at]}: files'[k] = files[k]
      /\ Now'.outcome = "none"
      /\ run.monitor \in Monitors /\ ~run.monitor.halted
      /\ Len(Now.events) = run.monitor.state
  BY <1>1, Recorded
<1>3. /\ Now'.events # <<>> /\ Faithful(Front(Now'.events))
      /\ Last(Now'.events) = <<event, Stepped(run.monitor, event).result>>
  BY <1>1, Rejected
<1>4. Keys[at] \in Key
  BY NowIs DEF RunsInv, Typed
<1>5. CASE run'.outcome = "violated" /\ ~Passes(event) /\ event[2] # UNRECOGNIZED
  <2>1. Last(Now'.events)[2] = "Violation"
    BY <1>2, <1>3, <1>5, SteppedIs DEF Passes
  <2>2. QED
    BY <1>1, <1>2, <1>3, <1>4, <1>5, <2>1, OwnOutcome DEF Explains
<1>6. CASE run'.outcome = "unrecognized" /\ event = <<"receive", UNRECOGNIZED>>
  <2>1. ~Passes(event)
    <3> SUFFICES ASSUME Passes(event) PROVE FALSE
      OBVIOUS
    <3>1. event = Positions[Len(Now.events) + 1] /\ Len(Now.events) < Final
      BY <1>1, Accepted
    <3>2. PICK n \in Nat: n = Len(Now.events)
      BY <1>2 DEF Monitors, BookingState
    <3>3. n + 1 \in 1..6
      BY <3>1, <3>2, PositionsAre
    <3>4. QED
      BY <1>6, <3>1, <3>2, <3>3, ProtocolApart
  <2>2. Last(Now'.events) = <<<<"receive", UNRECOGNIZED>>, "Unrecognized">>
    BY <1>2, <1>3, <1>6, <2>1, SteppedIs DEF Passes
  <2>3. QED
    BY <1>1, <1>2, <1>3, <1>4, <1>6, <2>2, OwnOutcome DEF Explains
<1>7. CASE run'.outcome = "incomplete" /\ Passes(event)
  <2>1. Faithful(Now'.events)
    BY <1>1, <1>7, Accepted
  <2>2. QED
    BY <1>1, <1>2, <1>4, <1>7, <2>1, OwnOutcome DEF Explains
<1>8. CASE pc' # "finish"
  BY <1>1, <1>2, <1>4, <1>8, OwnOutcome
<1>9. QED
  BY <1>5, <1>6, <1>7, <1>8

\* A step without an event ends its run at the end of the protocol or short of it.
LEMMA QuietExplained ==
    ASSUME RunsInv, Explained, pc \in Running, UNCHANGED <<files, batch>>,
           pc' = "finish" => \/ run'.outcome = "incomplete"
                             \/ run'.outcome = "ok" /\ is_terminal(run.monitor.state)
    PROVE  Explained'
<1>1. at' = at /\ Now' = Now /\ files' = files
  BY DEF batch, Now
<1>2. /\ Faithful(Now.events) /\ Len(Now.events) = run.monitor.state /\ Now.outcome = "none"
  BY DEF RunsInv, InStep
<1>3. Keys[at] \in Key
  BY NowIs DEF RunsInv, Typed
<1>4. is_terminal(run.monitor.state) => run.monitor.state = Final
  BY DEF is_terminal, BookingAutomaton
<1>5. QED
  BY <1>1, <1>2, <1>3, <1>4, OwnOutcome DEF Explains

\* run_real_agent gives every run an outcome its events explain.
LEMMA AgentExplains ==
    ASSUME SentinelApart, RunsInv, Explained,
           \/ \E n \in 1..MaxCalls: \E names \in [1..n -> Tool]: llm_calls(names)
           \/ call \/ tool_returns \/ llm_is_silent \/ llm_writes \/ user_is_silent
           \/ \E message \in Reply: user_replies(message)
    PROVE  Explained'
<1> "ok" \in Outcome /\ "violated" \in Outcome /\ "unrecognized" \in Outcome /\ "incomplete" \in Outcome
  BY DEF Outcome
<1>1. ASSUME NEW n \in 1..MaxCalls, NEW names \in [1..n -> Tool], llm_calls(names)
      PROVE  Explained'
  <2>1. pc = "ask_llm" /\ pc' = "call" /\ UNCHANGED <<files, batch>>
    BY <1>1 DEF llm_calls
  <2>2. QED
    BY <2>1, QuietExplained DEF Running
<1>2. CASE call
  <2>1. /\ pc = "call" /\ _step(Sent) /\ UNCHANGED <<batch, returned>>
        /\ Sent \in Event /\ Head(run.calls) \in Tool
    BY <1>2, InRun DEF call, Running
  <2>2. Sent[2] # UNRECOGNIZED
    BY <2>1 DEF Sent, SentinelApart
  <2>3. pc' = "finish" => run'.outcome = "violated" /\ ~Passes(Sent)
    BY <1>2, Finished DEF call
  <2>4. PICK event \in Event: event = Sent
    BY <2>1
  <2>5. QED
    BY <2>1, <2>2, <2>3, <2>4, EventExplained DEF Running
<1>3. CASE tool_returns
  <2>1. /\ pc = "tool" /\ _step(Received) /\ UNCHANGED <<batch, returned>>
        /\ Received \in Event /\ Head(run.calls) \in Tool
        /\ run \in Run /\ run.outcome = "none" /\ run.calls \in Seq(Tool) /\ run.calls # <<>>
    BY <1>3, InRun DEF tool_returns, Running
  <2>2. Received[2] # UNRECOGNIZED
    BY <2>1 DEF Received, SentinelApart
  <2>3. PICK event \in Event: event = Received
    BY <2>1
  <2> DEFINE next == [run EXCEPT !.monitor = Following(Received), !.calls = Tail(@)]
  <2>4. CASE ~Passes(Received)
    <3>1. pc' = "finish" => run'.outcome = "violated"
      BY <1>3, <2>4, Finished DEF tool_returns
    <3>2. QED
      BY <2>1, <2>2, <2>3, <2>4, <3>1, EventExplained DEF Running
  <2>5. CASE Passes(Received) /\ next.calls # <<>>
    <3>1. pc' = "call"
      BY <1>3, <2>5 DEF tool_returns
    <3>2. QED
      BY <2>1, <2>3, <3>1, EventExplained DEF Running
  <2>6. CASE Passes(Received) /\ next.calls = <<>>
    <3>1. Continue(next)
      BY <1>3, <2>6 DEF tool_returns
    <3>2. Following(event) \in Monitors /\ Tail(run.calls) \in Seq(Tool)
      BY <2>1, <2>3, <2>6, Accepted DEF Running, batch
    <3>3. next \in Run /\ next.outcome = "none"
      BY <2>1, <2>3, <3>2 DEF Run
    <3> HIDE DEF next
    <3>4. pc' = "finish" => run'.outcome = "incomplete"
      BY <3>1, <3>3, Continued
    <3>5. QED
      BY <2>1, <2>3, <2>6, <3>4, EventExplained DEF Running
  <2>7. QED
    BY <2>4, <2>5, <2>6
<1>4. CASE llm_is_silent \/ user_is_silent
  <2>1. pc \in Running /\ Finish("incomplete") /\ UNCHANGED <<files, batch>>
    BY <1>4 DEF llm_is_silent, user_is_silent, Running
  <2>2. QED
    BY <2>1, Finished, QuietExplained
<1>5. CASE llm_writes
  <2>1. pc = "ask_llm" /\ UNCHANGED <<batch, returned>>
    BY <1>5 DEF llm_writes
  <2>2. CASE is_terminal(run.monitor.state)
    <3>1. Finish("ok") /\ UNCHANGED files
      BY <1>5, <2>2 DEF llm_writes
    <3>2. QED
      BY <2>1, <2>2, <3>1, Finished, QuietExplained DEF Running
  <2>3. CASE ~is_terminal(run.monitor.state)
    <3>1. _step(PresentOptions) /\ (pc' = "finish" => run'.outcome = "violated" /\ ~Passes(PresentOptions))
      BY <1>5, <2>3, Finished DEF llm_writes
    <3>2. PICK event \in Event: event = PresentOptions
      BY Reported
    <3>3. QED
      BY <2>1, <3>1, <3>2, ProtocolApart, EventExplained DEF Running
  <2>4. QED
    BY <2>2, <2>3
<1>6. ASSUME NEW message \in Reply, user_replies(message) PROVE Explained'
  <2>1. PICK event \in Event: event = <<"receive", project_user_message(message)>>
    BY Reported
  <2>2. /\ pc = "ask_user" /\ UNCHANGED <<batch, returned>> /\ _step(event)
        /\ run \in Run /\ run.outcome = "none"
    BY <1>6, <2>1, InRun DEF user_replies, Running
  <2>3. CASE event[2] = UNRECOGNIZED
    <3>1. Finish("unrecognized") /\ event = <<"receive", UNRECOGNIZED>>
      BY <1>6, <2>1, <2>3 DEF user_replies
    <3>2. QED
      BY <2>2, <3>1, Finished, EventExplained DEF Running
  <2>4. CASE event[2] # UNRECOGNIZED /\ ~Passes(event)
    <3>1. Finish("violated")
      BY <1>6, <2>1, <2>4 DEF user_replies
    <3>2. QED
      BY <2>2, <2>4, <3>1, Finished, EventExplained DEF Running
  <2>5. CASE event[2] # UNRECOGNIZED /\ Passes(event)
    <3> DEFINE next == [run EXCEPT !.monitor = Following(event), !.replies = @ - 1]
    <3>1. Continue(next)
      BY <1>6, <2>1, <2>5 DEF user_replies
    <3>2. PICK m \in Monitors: m = Following(event)
      BY <2>2, <2>5, Accepted DEF Running, batch
    <3>3. PICK n \in Int: n = run.replies - 1
      BY <2>2 DEF Run
    <3>4. next = [run EXCEPT !.monitor = m, !.replies = n]
      BY <3>2, <3>3
    <3>5. next \in Run /\ next.outcome = "none"
      BY <2>2, <3>4 DEF Run
    <3> HIDE DEF next
    <3>6. pc' = "finish" => run'.outcome = "incomplete"
      BY <3>1, <3>5, Continued
    <3>7. QED
      BY <2>2, <2>5, <3>6, EventExplained DEF Running
  <2>6. QED
    BY <2>3, <2>4, <2>5
<1>7. QED
  BY <1>1, <1>2, <1>3, <1>4, <1>5, <1>6

\* A batch writes the outcome the run ended with, and keeps or drops the other files as
\* they are (run_all.py).
LEMMA BatchExplains ==
    ASSUME RunsInv, Explained,
           \/ start_batch \/ end_batch \/ skip \/ start_run \/ raise \/ kill \/ kill_between
           \/ finish \/ \E n \in 0..MaxReplies: first_record(n)
    PROVE  Explained'
<1>0. /\ files \in [Key -> File]
      /\ pc \notin {"down", "next_key"} => Keys[at] \in Key
      /\ \A k \in Key: files[k] \in File /\ Explains(files[k].outcome, files[k].events)
  BY NowIs DEF RunsInv, Typed, TypeOK, Running, Explained
<1>1. CASE start_batch \/ end_batch \/ skip \/ start_run \/ kill_between
  <2>1. files' = files /\ pc' # "finish"
    BY <1>1 DEF start_batch, end_batch, skip, start_run, kill_between
  <2>2. QED
    BY <1>0, <2>1 DEF Explained
<1>2. Explains("none", <<>>)
  BY DEF Explains
<1>3. ASSUME NEW n \in 0..MaxReplies, first_record(n) PROVE Explained'
  <2> DEFINE new == [NoFile EXCEPT !.exists = TRUE]
  <2>1. pc' = "ask_llm" /\ files' = [files EXCEPT ![Keys[at]] = new]
    BY <1>3 DEF first_record
  <2>2. new.outcome = "none" /\ new.events = <<>>
    BY DEF NoFile
  <2> HIDE DEF new
  <2>3. ASSUME NEW k \in Key PROVE files'[k] = files[k] \/ files'[k] = new
    BY <1>0, <2>1
  <2>4. QED
    BY <1>0, <1>2, <2>1, <2>2, <2>3 DEF Explained
<1>4. CASE raise
  <2>1. pc' = "next_key" /\ files' = [files EXCEPT ![Keys[at]] = NoFile]
    BY <1>4 DEF raise
  <2>2. NoFile.outcome = "none" /\ NoFile.events = <<>>
    BY DEF NoFile
  <2>3. ASSUME NEW k \in Key PROVE files'[k] = files[k] \/ files'[k] = NoFile
    BY <1>0, <2>1
  <2>4. QED
    BY <1>0, <1>2, <2>1, <2>2, <2>3 DEF Explained
<1>5. CASE kill
  <2>1. pc' = "down" /\ pc # "down" /\ pc # "next_key"
    BY <1>5 DEF kill
  <2>2. files' = files \/ \E t: files' = [files EXCEPT ![Keys[at]].torn = t]
    BY <1>5 DEF kill
  <2>3. ASSUME NEW k \in Key PROVE files'[k].outcome = files[k].outcome /\ files'[k].events = files[k].events
    <3>1. CASE files' = files
      BY <3>1
    <3>2. ASSUME NEW t, files' = [files EXCEPT ![Keys[at]].torn = t]
          PROVE  files'[k].outcome = files[k].outcome /\ files'[k].events = files[k].events
      BY <1>0, <3>2 DEF File
    <3>3. QED
      BY <2>2, <3>1, <3>2
  <2>4. QED
    BY <1>0, <2>1, <2>3 DEF Explained
<1>6. CASE finish
  <2>1. /\ pc = "finish" /\ pc' = "next_key"
        /\ files' = [files EXCEPT ![Keys[at]].outcome = run.outcome]
    BY <1>6 DEF finish
  <2>2. Explains(run.outcome, files[Keys[at]].events) /\ Keys[at] \in Key
    BY <1>0, <2>1 DEF Explained, Now
  <2>3. ASSUME NEW k \in Key \ {Keys[at]} PROVE files'[k] = files[k]
    BY <1>0, <2>1
  <2>4. /\ files'[Keys[at]].outcome = run.outcome
        /\ files'[Keys[at]].events = files[Keys[at]].events
    BY <1>0, <2>1, <2>2 DEF File
  <2>5. ASSUME NEW k \in Key PROVE Explains(files'[k].outcome, files'[k].events)
    BY <1>0, <2>2, <2>3, <2>4
  <2>6. QED
    BY <2>1, <2>5 DEF Explained
<1>7. QED
  BY <1>1, <1>3, <1>4, <1>5, <1>6

\* The first violation of a run that was stopped by one is its last event
\* (load_trajectory).
LEMMA FirstIsLast ==
    ASSUME NEW file \in File, file.events # <<>>, Faithful(Front(file.events)),
           Last(file.events)[2] = "Violation"
    PROVE  load_trajectory(file).first_violation = Last(file.events)
<1>1. PICK events \in Seq(Entry): events = file.events
  BY DEF File
<1>2. PICK n \in Nat: n = Len(events) /\ n # 0
  BY <1>1, EmptySeq
<1>3. /\ DOMAIN Front(events) = 1..(n - 1)
      /\ \A i \in 1..(n - 1): Front(events)[i] = events[i]
  BY <1>2 DEF Front
<1>4. \A i \in 1..(n - 1): events[i][2] = "Ok"
  BY <1>1, <1>3 DEF Faithful
<1>5. DOMAIN events = 1..n /\ events[n][2] = "Violation"
  BY <1>1, <1>2 DEF Last
<1>6. Violations(file) = {n}
  BY <1>1, <1>2, <1>4, <1>5 DEF Violations
<1>7. Min(Violations(file)) = n
  BY <1>6 DEF Min
<1>8. QED
  BY <1>1, <1>2, <1>6, <1>7 DEF load_trajectory, Last

\* A recorded outcome has its reason in the recorded verdicts, in every run of every
\* batch, unless a label is the monitor's sentinel: "ok" on the whole protocol only, a
\* violation or an unclear reply at the end, and nothing refused where it is "incomplete".
THEOREM OutcomesAreExplained == ASSUME SentinelApart PROVE Spec => []OutcomeExplained
<1>1. Init => Explained
  BY DEF Init, NoFile, Explained, Explains
<1>2. RunsInv /\ Explained /\ [Next]_vars => Explained'
  <2> SUFFICES ASSUME RunsInv, Explained, [Next]_vars PROVE Explained'
    OBVIOUS
  <2>1. CASE UNCHANGED vars
    <3>1. files' = files /\ pc' = pc /\ at' = at /\ run' = run
      BY <2>1 DEF vars
    <3>2. Now' = Now
      BY <3>1 DEF Now
    <3>3. pc' = "finish" => Explains(run'.outcome, Now'.events)
      BY <3>1, <3>2 DEF Explained, Explains
    <3>4. QED
      BY <3>1, <3>3 DEF Explained
  <2>2. CASE Next
    BY <2>2, AgentExplains, BatchExplains DEF Next, Step
  <2>3. QED
    BY <2>1, <2>2
<1>3. RunsInv /\ Explained => OutcomeExplained
  <2> SUFFICES ASSUME RunsInv, Explained, NEW k \in Key
               PROVE  LET events == files[k].events
                      IN  CASE files[k].outcome = "ok" -> Faithful(events) /\ Len(events) = Final
                            [] files[k].outcome = "incomplete" -> Faithful(events)
                            [] files[k].outcome = "violated" ->
                                  /\ Faithful(Front(events))
                                  /\ load_trajectory(files[k]).first_violation = Last(events)
                            [] files[k].outcome = "unrecognized" ->
                                  /\ Faithful(Front(events))
                                  /\ Last(events) = <<<<"receive", UNRECOGNIZED>>, "Unrecognized">>
                            [] OTHER -> TRUE
    BY DEF OutcomeExplained
  <2>1. files[k] \in File /\ Explains(files[k].outcome, files[k].events)
    BY DEF RunsInv, Typed, Explained
  <2>2. files[k].outcome = "violated" => load_trajectory(files[k]).first_violation = Last(files[k].events)
    BY <2>1, FirstIsLast DEF Explains
  <2>3. files[k].outcome \in Outcome
    BY <2>1 DEF File
  <2>4. QED
    BY <2>1, <2>2, <2>3 DEF Explains, Outcome
<1>4. QED
  BY <1>1, <1>2, <1>3, RunsInvariant, PTL DEF Spec

-----------------------------------------------------------------------------
(* A batch comes to its end                                                 *)

\* The keys a batch has before it, the turns a run has, the tool calls a turn has, and
\* whether the first of them is still to be made.
KeysLeft == IF pc = "down" THEN 0 ELSE Len(Keys) + 2 - at

TurnsLeft ==
    CASE pc = "next_key" -> max_turns + 3
      [] pc = "begin" -> max_turns + 2
      [] pc \in Running -> max_turns + 1 - run.turn
      [] OTHER -> 0

CallsLeft ==
    CASE pc = "ask_llm" -> MaxCalls + 1
      [] pc \in {"call", "tool"} -> Len(run.calls)
      [] OTHER -> 0

Unmade == IF pc = "call" THEN 1 ELSE 0

\* All of it as one number.
StepsLeft ==
    ((KeysLeft * (max_turns + 4) + TurnsLeft) * (MaxCalls + 2) + CallsLeft) * 2 + Unmade

\* The turns are counted (range(max_turns)), and a response has its calls.
Counted ==
    /\ batches \in Nat /\ max_turns \in Nat
    /\ pc \in Running => run.turn <= max_turns
    /\ pc \in {"call", "tool"} => Len(run.calls) <= MaxCalls

\* The four are numbers, each below its bound.
Bounded ==
    /\ KeysLeft \in Nat
    /\ TurnsLeft \in Nat /\ TurnsLeft < max_turns + 4
    /\ CallsLeft \in Nat /\ CallsLeft < MaxCalls + 2
    /\ Unmade \in Nat /\ Unmade < 2

\* One of the four has become less, and none before it more.
Drops ==
    \/ KeysLeft' < KeysLeft
    \/ KeysLeft' = KeysLeft /\ TurnsLeft' < TurnsLeft
    \/ KeysLeft' = KeysLeft /\ TurnsLeft' = TurnsLeft /\ CallsLeft' < CallsLeft
    \/ /\ KeysLeft' = KeysLeft /\ TurnsLeft' = TurnsLeft /\ CallsLeft' = CallsLeft
       /\ Unmade' < Unmade

\* A digit less outweighs whatever follows it.
LEMMA Outweighs ==
    ASSUME NEW a \in Nat, NEW b \in Nat, NEW c \in Nat, NEW d \in Nat, NEW n \in Nat,
           d < n, c < a \/ (c = a /\ d < b)
    PROVE  c * n + d < a * n + b
<1>1. CASE c = a /\ d < b
  <2>1. PICK m \in Nat: m = a * n
    OBVIOUS
  <2>2. QED
    BY <1>1, <2>1
<1>2. CASE c < a
  <2>1. PICK e \in Nat: a = c + 1 + e
    <3>1. a - c - 1 \in Nat /\ a = c + 1 + (a - c - 1)
      BY <1>2
    <3>2. QED
      BY <3>1
  <2>2. a * n = c * n + n + e * n
    BY <2>1
  <2>3. c * n \in Nat /\ e * n \in Nat
    OBVIOUS
  <2>4. PICK p \in Nat, q \in Nat: p = c * n /\ q = e * n
    BY <2>3
  <2>5. QED
    BY <2>2, <2>4
<1>3. QED
  BY <1>1, <1>2

\* They are, as the turns and the calls are counted.
LEMMA LeftIs == ASSUME RunsInv, Counted, MaxCalls \in Nat PROVE Bounded
<1>1. /\ at \in 1..(Len(Keys) + 1) /\ Len(Keys) \in Nat /\ run \in Run
  BY KeysAssumption DEF RunsInv, Typed, TypeOK
<1>2. run.turn \in Nat /\ run.calls \in Seq(Tool)
  BY <1>1 DEF Run
<1>3. KeysLeft \in Nat
  BY <1>1 DEF KeysLeft
<1>4. TurnsLeft \in Nat /\ TurnsLeft < max_turns + 4
  BY <1>2 DEF Counted, TurnsLeft, Running
<1>5. CallsLeft \in Nat /\ CallsLeft < MaxCalls + 2
  <2>1. PICK n \in Nat: n = Len(run.calls)
    BY <1>2
  <2>2. QED
    BY <2>1 DEF Counted, CallsLeft
<1>6. QED
  BY <1>3, <1>4, <1>5 DEF Unmade, Bounded

\* What drops weighs less.
LEMMA Weighs ==
    ASSUME NEW k \in Nat, NEW t \in Nat, NEW c \in Nat, NEW u \in Nat,
           NEW k1 \in Nat, NEW t1 \in Nat, NEW c1 \in Nat, NEW u1 \in Nat,
           NEW T \in Nat, NEW C \in Nat, t1 < T, c1 < C, u1 < 2,
           \/ k1 < k
           \/ k1 = k /\ t1 < t
           \/ k1 = k /\ t1 = t /\ c1 < c
           \/ k1 = k /\ t1 = t /\ c1 = c /\ u1 < u
    PROVE  ((k1 * T + t1) * C + c1) * 2 + u1 < ((k * T + t) * C + c) * 2 + u
<1>1. PICK x \in Nat, x1 \in Nat: x = k * T + t /\ x1 = k1 * T + t1
  OBVIOUS
<1>2. k1 < k \/ (k1 = k /\ t1 < t) => x1 < x
  BY <1>1, Outweighs
<1>3. k1 = k /\ t1 = t => x1 = x
  BY <1>1
<1>4. x1 < x \/ (x1 = x /\ c1 < c) \/ (x1 = x /\ c1 = c /\ u1 < u)
  BY <1>2, <1>3
<1>5. PICK y \in Nat, y1 \in Nat: y = x * C + c /\ y1 = x1 * C + c1
  OBVIOUS
<1>6. x1 < x \/ (x1 = x /\ c1 < c) => y1 < y
  BY <1>5, Outweighs
<1>7. x1 = x /\ c1 = c => y1 = y
  BY <1>5
<1>8. y1 < y \/ (y1 = y /\ u1 < u)
  BY <1>4, <1>6, <1>7
<1>9. y1 * 2 + u1 < y * 2 + u
  BY <1>8
<1>10. QED
  BY <1>1, <1>5, <1>9

\* The next turn, if there is one, or the end.
LEMMA TurnGoesOn ==
    ASSUME max_turns \in Nat, NEW next \in Run, run \in Run, next.turn = run.turn, Continue(next)
    PROVE  /\ pc' \in {"ask_llm", "finish"}
           /\ pc' = "ask_llm" => run'.turn = run.turn + 1 /\ run'.turn <= max_turns
<1>1. CASE run.turn + 1 < max_turns
  <2>1. run' = [next EXCEPT !.turn = @ + 1] /\ pc' = "ask_llm"
    BY <1>1 DEF Continue
  <2>2. run'.turn = run.turn + 1 /\ run.turn \in Nat
    BY <2>1 DEF Run
  <2>3. QED
    BY <1>1, <2>1, <2>2
<1>2. CASE ~(run.turn + 1 < max_turns)
  BY <1>2 DEF Continue
<1>3. QED
  BY <1>1, <1>2

\* Every step of a run drops and keeps the count (run_real_agent).
LEMMA AgentDrops ==
    ASSUME RunsInv, Counted, MaxCalls \in Nat,
           \/ \E n \in 1..MaxCalls: \E names \in [1..n -> Tool]: llm_calls(names)
           \/ call \/ tool_returns \/ llm_is_silent \/ llm_writes \/ user_is_silent
           \/ \E message \in Reply: user_replies(message)
    PROVE  Drops /\ Counted'
<1>1. /\ batches' \in Nat /\ max_turns \in Nat /\ max_turns' = max_turns /\ pc \in Running /\ at' = at /\ pc # "down" /\ Len(Keys) \in Nat /\ at \in 1..(Len(Keys) + 1)
      /\ run \in Run /\ run.turn \in Nat /\ run.turn <= max_turns /\ run.calls \in Seq(Tool)
  <2>1. pc \in Running /\ at' = at /\ batches' = batches /\ max_turns' = max_turns
    BY DEF llm_calls, call, tool_returns, llm_is_silent, llm_writes, user_is_silent,
           user_replies, Running, batch
  <2>2. run \in Run /\ at \in 1..(Len(Keys) + 1)
    BY DEF RunsInv, Typed, TypeOK
  <2>3. QED
    BY <2>1, <2>2, KeysAssumption DEF Running, Run, Counted
<1>2. pc' # "down" => KeysLeft' = KeysLeft
  BY <1>1 DEF KeysLeft
<1>3. ASSUME pc' = "finish" PROVE Drops /\ Counted'
  BY <1>1, <1>2, <1>3 DEF Drops, Counted, TurnsLeft, Running
<1>4. ASSUME pc' = "ask_llm", run'.turn = run.turn + 1, run'.turn <= max_turns
      PROVE  Drops /\ Counted'
  BY <1>1, <1>2, <1>4 DEF Drops, Counted, TurnsLeft, Running
<1>5. ASSUME pc' \in Running, run'.turn = run.turn
      PROVE  KeysLeft' = KeysLeft /\ TurnsLeft' = TurnsLeft /\ run'.turn <= max_turns
  BY <1>1, <1>2, <1>5 DEF TurnsLeft, Running
<1>6. ASSUME NEW n \in 1..MaxCalls, NEW names \in [1..n -> Tool], llm_calls(names)
      PROVE  Drops /\ Counted'
  <2>1. pc = "ask_llm" /\ pc' = "call" /\ run' = [run EXCEPT !.calls = names]
    BY <1>6 DEF llm_calls
  <2>2. run'.turn = run.turn /\ run'.calls = names
    BY <1>1, <2>1 DEF Run
  <2>3. Len(names) = n /\ n \in Nat /\ n <= MaxCalls
    OBVIOUS
  <2>4. CallsLeft' = n /\ CallsLeft = MaxCalls + 1
    BY <2>1, <2>2, <2>3 DEF CallsLeft
  <2>5. QED
    BY <1>1, <1>5, <2>1, <2>2, <2>3, <2>4 DEF Drops, Counted, Running
<1>7. CASE call
  <2>1. CASE Passes(Sent)
    <3>1. pc = "call" /\ pc' = "tool" /\ run' = [run EXCEPT !.monitor = Following(Sent)]
      BY <1>7, <2>1 DEF call
    <3>2. run'.turn = run.turn /\ run'.calls = run.calls
      BY <1>1, <3>1 DEF Run
    <3>3. CallsLeft' = CallsLeft /\ Unmade' = 0 /\ Unmade = 1
      BY <3>1, <3>2 DEF CallsLeft, Unmade
    <3>4. QED
      BY <1>1, <1>5, <3>1, <3>2, <3>3 DEF Drops, Counted, Running
  <2>2. CASE ~Passes(Sent)
    BY <1>3, <1>7, <2>2 DEF call, Finish
  <2>3. QED
    BY <2>1, <2>2
<1>8. CASE tool_returns
  <2>1. PICK next: /\ next = [run EXCEPT !.monitor = Following(Received), !.calls = Tail(@)]
                   /\ IF ~Passes(Received) THEN Finish("violated")
                      ELSE IF next.calls # <<>> THEN run' = next /\ pc' = "call"
                      ELSE Continue(next)
    BY <1>8 DEF tool_returns
  <2>2. next.turn = run.turn /\ next.calls = Tail(run.calls) /\ pc = "tool"
    BY <1>1, <1>8, <2>1 DEF Run, tool_returns
  <2>3. CASE ~Passes(Received)
    BY <1>3, <2>1, <2>3 DEF Finish
  <2>4. CASE Passes(Received) /\ next.calls # <<>>
    <3>1. run' = next /\ pc' = "call"
      BY <2>1, <2>4
    <3>2. Len(run'.calls) = Len(run.calls) - 1 /\ Len(run.calls) \in Nat
      <4>1. run.calls # <<>>
        BY <2>2 DEF RunsInv, Typed, TypeOK
      <4>2. PICK names \in Seq(Tool): names = run.calls /\ names # <<>>
        BY <1>1, <4>1
      <4>3. Len(Tail(names)) = Len(names) - 1 /\ Len(names) \in Nat
        BY <4>2
      <4>4. QED
        BY <2>2, <3>1, <4>2, <4>3
    <3>3. PICK n \in Nat: n = Len(run.calls) /\ n <= MaxCalls /\ Len(run'.calls) = n - 1
      BY <2>2, <3>2 DEF Counted
    <3>4. CallsLeft' = n - 1 /\ CallsLeft = n
      BY <2>2, <3>1, <3>3 DEF CallsLeft
    <3>5. QED
      BY <1>1, <1>5, <2>2, <3>1, <3>3, <3>4 DEF Drops, Counted, Running
  <2>5. CASE Passes(Received) /\ next.calls = <<>>
    <3>1. Continue(next)
      BY <2>1, <2>5
    <3>2. next \in Run
      <4>1. Following(Received) \in Monitors
        <5>1. Received \in Event /\ _step(Received) /\ UNCHANGED <<returned, killed>>
          BY <1>1, <1>8, <2>2, InRun DEF tool_returns, batch
        <5>2. QED
          BY <1>1, <2>5, <5>1, Accepted
      <4>2. Tail(run.calls) \in Seq(Tool)
        <5>1. run.calls # <<>>
          BY <2>2 DEF RunsInv, Typed, TypeOK
        <5>2. QED
          BY <1>1, <5>1
      <4>3. QED
        BY <1>1, <2>1, <4>1, <4>2 DEF Run
    <3>3. QED
      BY <1>1, <1>3, <1>4, <2>2, <3>1, <3>2, TurnGoesOn
  <2>6. QED
    BY <2>3, <2>4, <2>5
<1>9. CASE llm_is_silent \/ user_is_silent
  BY <1>3, <1>9 DEF llm_is_silent, user_is_silent, Finish
<1>10. CASE llm_writes
  <2>1. CASE pc' = "finish"
    BY <1>3, <2>1
  <2>2. CASE pc' # "finish"
    <3>1. /\ run' = [run EXCEPT !.monitor = Following(PresentOptions)]
          /\ pc = "ask_llm" /\ pc' = "ask_user"
      BY <1>10, <2>2 DEF llm_writes, Finish
    <3>2. run'.turn = run.turn
      BY <1>1, <3>1 DEF Run
    <3>3. CallsLeft' = 0 /\ CallsLeft = MaxCalls + 1
      BY <3>1 DEF CallsLeft
    <3>4. QED
      BY <1>1, <1>5, <3>1, <3>2, <3>3 DEF Drops, Counted, Running
  <2>3. QED
    BY <2>1, <2>2
<1>11. ASSUME NEW message \in Reply, user_replies(message) PROVE Drops /\ Counted'
  <2>1. CASE pc' = "finish"
    BY <1>3, <2>1
  <2>2. CASE pc' # "finish"
    <3>1. PICK event \in Event: event = <<"receive", project_user_message(message)>>
      BY Reported
    <3>2. /\ Passes(event) /\ _step(event) /\ UNCHANGED <<returned, killed>>
          /\ Continue([run EXCEPT !.monitor = Following(event), !.replies = @ - 1])
      BY <1>11, <2>2, <3>1 DEF user_replies, Finish, batch
    <3>3. PICK m \in Monitors: m = Following(event)
      BY <1>1, <3>2, Accepted
    <3>4. PICK n \in Int: n = run.replies - 1
      BY <1>1 DEF Run
    <3>5. PICK next \in Run: next = [run EXCEPT !.monitor = m, !.replies = n]
      BY <1>1 DEF Run
    <3>6. Continue(next) /\ next.turn = run.turn
      BY <1>1, <3>2, <3>3, <3>4, <3>5 DEF Run
    <3>7. QED
      BY <1>1, <1>4, <2>2, <3>6, TurnGoesOn
  <2>3. QED
    BY <2>1, <2>2
<1>12. QED
  BY <1>6, <1>7, <1>8, <1>9, <1>10, <1>11

\* Between runs every step leaves a key behind or begins its run, and a kill leaves
\* nothing (run_all.py).
LEMMA BatchDrops ==
    ASSUME RunsInv, Counted, MaxCalls \in Nat,
           \/ end_batch \/ skip \/ start_run \/ raise \/ kill \/ kill_between \/ finish
           \/ \E n \in 0..MaxReplies: first_record(n)
    PROVE  Drops /\ Counted'
<1>1. /\ Len(Keys) \in Nat /\ at \in 1..(Len(Keys) + 1) /\ batches' \in Nat
      /\ max_turns \in Nat /\ max_turns' = max_turns
  <2>1. batches' = batches /\ max_turns' = max_turns
    BY DEF end_batch, skip, raise, kill, kill_between, finish, start_run, first_record, batch
  <2>2. QED
    BY <2>1, KeysAssumption DEF RunsInv, Typed, TypeOK, Counted
<1>2. CASE end_batch \/ kill \/ kill_between
  <2>1. pc # "down" /\ pc' = "down"
    BY <1>2 DEF end_batch, kill, kill_between
  <2>2. KeysLeft' = 0 /\ KeysLeft > 0
    BY <1>1, <2>1 DEF KeysLeft
  <2>3. QED
    BY <1>1, <2>1, <2>2 DEF Drops, Counted, Running
<1>3. CASE skip \/ raise \/ finish
  <2>1. pc # "down" /\ pc' = "next_key" /\ at' = at + 1
    BY <1>3 DEF skip, raise, finish
  <2>2. KeysLeft' < KeysLeft
    BY <1>1, <2>1 DEF KeysLeft
  <2>3. QED
    BY <1>1, <2>1, <2>2 DEF Drops, Counted, Running
<1>4. CASE start_run
  <2>1. pc = "next_key" /\ pc' = "begin" /\ at' = at
    BY <1>4 DEF start_run, batch
  <2>2. KeysLeft' = KeysLeft /\ TurnsLeft' = max_turns + 2 /\ TurnsLeft = max_turns + 3
    BY <1>1, <2>1 DEF KeysLeft, TurnsLeft, Running
  <2>3. QED
    BY <1>1, <2>1, <2>2 DEF Drops, Counted, Running
<1>5. ASSUME NEW n \in 0..MaxReplies, first_record(n) PROVE Drops /\ Counted'
  <2>1. pc = "begin" /\ pc' = "ask_llm" /\ at' = at /\ run' = NewRun(n)
    BY <1>5 DEF first_record, batch
  <2>2. run'.turn = 0
    BY <2>1 DEF NewRun
  <2>3. KeysLeft' = KeysLeft
    BY <2>1 DEF KeysLeft
  <2>4. TurnsLeft' = max_turns + 1 /\ TurnsLeft = max_turns + 2
    BY <1>1, <2>1, <2>2 DEF TurnsLeft, Running
  <2>5. QED
    BY <1>1, <2>1, <2>2, <2>3, <2>4 DEF Drops, Counted
<1>6. QED
  BY <1>2, <1>3, <1>4, <1>5

\* The turns stay counted, whatever the next step is.
LEMMA CountedStep ==
    ASSUME RunsInv, Counted, MaxCalls \in Nat, [Next]_vars
    PROVE  Counted' /\ (UNCHANGED vars \/ start_batch \/ (Drops /\ max_turns' = max_turns))
<1>1. CASE start_batch
  BY <1>1, TurnsAssumption DEF start_batch, Counted, Running
<1>2. CASE UNCHANGED vars
  BY <1>2 DEF vars, Counted
<1>3. CASE ~start_batch /\ Next
  <2>1. Drops /\ Counted'
    BY <1>3, AgentDrops, BatchDrops DEF Next, Step
  <2>2. max_turns' = max_turns
    BY <1>3
    DEF Next, Step, kill, kill_between, end_batch, skip, raise, start_run, first_record,
        llm_calls, call, tool_returns, llm_is_silent, llm_writes, user_is_silent,
        user_replies, finish, batch
  <2>3. QED
    BY <2>1, <2>2
<1>4. QED
  BY <1>1, <1>2, <1>3

\* Until the next batch is started, every step leaves fewer, whatever the model, the user
\* and the tools do, whatever is skipped, raises or is killed: what BatchEnds needs besides
\* that the process runs on.  A batch has no more steps than StepsLeft at its start.
THEOREM BatchShrinks ==
    ASSUME MaxCalls \in Nat
    PROVE  Spec => [][batches' = batches => StepsLeft' \in Nat /\ StepsLeft' < StepsLeft]_vars
<1>1. Init => Counted
  BY DEF Init, Counted, Running
<1>2. RunsInv /\ Counted /\ [Next]_vars => Counted'
  BY CountedStep
<1>3. ASSUME RunsInv, Counted, Bounded, Bounded', [Next]_vars
      PROVE  [batches' = batches => StepsLeft' \in Nat /\ StepsLeft' < StepsLeft]_vars
  <2> SUFFICES ASSUME batches' = batches, ~UNCHANGED vars
               PROVE  StepsLeft' \in Nat /\ StepsLeft' < StepsLeft
    OBVIOUS
  <2>1. Drops /\ max_turns' = max_turns /\ max_turns \in Nat
    <3>1. ~start_batch
      BY <1>3 DEF start_batch, Counted
    <3>2. QED
      BY <1>3, <3>1, CountedStep DEF Counted
  <2>2. PICK k \in Nat, t \in Nat, c \in Nat, u \in Nat:
           k = KeysLeft /\ t = TurnsLeft /\ c = CallsLeft /\ u = Unmade
    BY <1>3 DEF Bounded
  <2>3. PICK k1 \in Nat, t1 \in Nat, c1 \in Nat, u1 \in Nat:
           /\ k1 = KeysLeft' /\ t1 = TurnsLeft' /\ c1 = CallsLeft' /\ u1 = Unmade'
           /\ t1 < max_turns + 4 /\ c1 < MaxCalls + 2 /\ u1 < 2
    BY <1>3, <2>1 DEF Bounded
  <2>4. PICK T \in Nat, C \in Nat: T = max_turns + 4 /\ C = MaxCalls + 2
    BY <2>1
  <2>5. \/ k1 < k
        \/ k1 = k /\ t1 < t
        \/ k1 = k /\ t1 = t /\ c1 < c
        \/ k1 = k /\ t1 = t /\ c1 = c /\ u1 < u
    BY <2>1, <2>2, <2>3 DEF Drops
  <2>6. ((k1 * T + t1) * C + c1) * 2 + u1 < ((k * T + t) * C + c) * 2 + u
    <3>1. t1 < T /\ c1 < C /\ u1 < 2
      BY <2>3, <2>4
    <3>2. QED
      BY <2>5, <3>1, Weighs
  <2>7. /\ StepsLeft = ((k * T + t) * C + c) * 2 + u
        /\ StepsLeft' = ((k1 * T + t1) * C + c1) * 2 + u1
    BY <2>1, <2>2, <2>3, <2>4 DEF StepsLeft
  <2>8. QED
    BY <2>6, <2>7
<1>4. RunsInv /\ Counted => Bounded
  BY LeftIs
<1>5. QED
  BY <1>1, <1>2, <1>3, <1>4, RunsInvariant, PTL DEF Spec

=============================================================================
