---------------------------- MODULE BookingRuns ----------------------------
(***************************************************************************)
(* The booking case study (examples/langchain_booking): run_all.py runs    *)
(* one monitored agent (run_real_agent of booking_agent.py) per key, a     *)
(* task with a model and a trial, and keeps a JSONL file of each run;      *)
(* sweep.py reads the files.                                               *)
(*                                                                         *)
(* A batch skips a key whose file exists, renames the file of a run that   *)
(* raises, and can be killed at any point and started again.  Of a file    *)
(* only what sweep.py reads of it is kept: the monitor records, the        *)
(* outcome, and whether a line is torn.                                    *)
(***************************************************************************)
EXTENDS BookingProtocol, SequencesExt

CONSTANTS
    Keys,           \* the keys, in the order of the three loops
    TurnLimits,     \* what --max-turns may be
    MaxCalls,       \* bound: tool calls in a response
    MaxReplies,     \* bound: user replies of a task
    MaxBatches,     \* bound: batches
    MaxRaises       \* bound: exceptions out of run_real_agent

ASSUME KeysAssumption == Len(Keys) \in Nat /\ DOMAIN Keys = 1..Len(Keys)

ASSUME TurnsAssumption == TurnLimits \subseteq Nat \ {0}

Key == {Keys[k] : k \in DOMAIN Keys}

VARIABLES
    files,          \* <key>.jsonl
    failed_files,   \* the keys with a <key>.jsonl.failed
    pc,             \* where the process is, "down" when there is none
    at,             \* the number of the key
    max_turns,      \* args.max_turns of the batch
    status,         \* the exit status, so far
    run,            \* run_real_agent: its monitor, turn, tool calls, replies and outcome
    batches,        \* batches so far
    raises,         \* exceptions so far
    killed,         \* history: the keys whose file a killed process left behind
    returned,       \* history: what finish was last called with, per key
    booked          \* history: the events of each file when book_flight ran

vars ==
    <<files, failed_files, pc, at, max_turns, status, run, batches, raises, killed, returned, booked>>
batch == <<at, max_turns, status, batches, raises, killed>>

NoFile == [exists |-> FALSE, events |-> <<>>, outcome |-> "none", torn |-> FALSE]

NewRun(replies) ==
    [monitor |-> NewMonitor, turn |-> 0, calls |-> <<>>, replies |-> replies, outcome |-> "none"]

Init ==
    /\ files = [k \in Key |-> NoFile]
    /\ failed_files = {}
    /\ pc = "down"
    /\ at = 1
    /\ max_turns = 0
    /\ status = 0
    /\ run = NewRun(0)
    /\ batches = 0
    /\ raises = 0
    /\ killed = {}
    /\ returned = [k \in Key |-> "none"]
    /\ booked = {}

-----------------------------------------------------------------------------
(* run_all.py                                                               *)

start_batch ==
    /\ pc = "down"
    /\ batches < MaxBatches
    /\ batches' = batches + 1
    /\ pc' = "next_key"
    /\ at' = 1
    /\ max_turns' \in TurnLimits
    /\ status' = 0
    /\ UNCHANGED <<files, failed_files, run, raises, killed, returned, booked>>

end_batch ==
    /\ pc = "next_key"
    /\ at > Len(Keys)
    /\ pc' = "down"
    /\ UNCHANGED <<files, failed_files, run, batch, returned, booked>>

\* if out_path.exists(): continue
skip ==
    /\ pc = "next_key"
    /\ at <= Len(Keys)
    /\ files[Keys[at]].exists
    /\ at' = at + 1
    /\ UNCHANGED <<files, failed_files, pc, max_turns, status, run, batches, raises, killed,
                   returned, booked>>

start_run ==
    /\ pc = "next_key"
    /\ at <= Len(Keys)
    /\ ~files[Keys[at]].exists
    /\ pc' = "begin"
    /\ UNCHANGED <<files, failed_files, run, batch, returned, booked>>

\* Mutant: the file of a run that raised stays.
raise_keeps_file ==
    /\ pc \notin {"down", "next_key"}
    /\ raises < MaxRaises
    /\ raises' = raises + 1
    /\ status' = 2
    /\ at' = at + 1
    /\ pc' = "next_key"
    /\ run' = NewRun(0)
    /\ UNCHANGED <<files, failed_files, max_turns, batches, killed, returned, booked>>

\* run_real_agent raises: its import, the LLM, a tool, or writing to the file.  The
\* file is renamed if there is one; before the first record there is none.
raise ==
    /\ pc \notin {"down", "next_key"}
    /\ raises < MaxRaises
    /\ raises' = raises + 1
    /\ status' = 2
    /\ files' = [files EXCEPT ![Keys[at]] = NoFile]
    /\ failed_files' = IF files[Keys[at]].exists THEN failed_files \cup {Keys[at]} ELSE failed_files
    /\ at' = at + 1
    /\ pc' = "next_key"
    /\ run' = NewRun(0)
    /\ UNCHANGED <<max_turns, batches, killed, returned, booked>>

\* The process is killed, or interrupted, within a run; the line it was writing may
\* be torn, if there is a file yet.
kill ==
    /\ pc \notin {"down", "next_key"}
    /\ \/ /\ files[Keys[at]].exists
          /\ \E torn \in BOOLEAN: files' = [files EXCEPT ![Keys[at]].torn = torn]
          /\ killed' = killed \cup {Keys[at]}
       \/ ~files[Keys[at]].exists /\ UNCHANGED <<files, killed>>
    /\ pc' = "down"
    /\ run' = NewRun(0)
    /\ UNCHANGED <<failed_files, at, max_turns, status, batches, raises, returned, booked>>

\* It is killed between two runs.
kill_between ==
    /\ pc = "next_key"
    /\ pc' = "down"
    /\ UNCHANGED <<files, failed_files, run, batch, returned, booked>>

-----------------------------------------------------------------------------
(* run_real_agent                                                           *)

\* Mutant: a run begins without its first record.
first_record_missing(replies) ==
    /\ pc = "begin"
    /\ run' = NewRun(replies)
    /\ pc' = "ask_llm"
    /\ UNCHANGED <<files, failed_files, batch, returned, booked>>

\* The first record, of type meta, makes the file.
first_record(replies) ==
    /\ pc = "begin"
    /\ files' = [files EXCEPT ![Keys[at]] = [NoFile EXCEPT !.exists = TRUE]]
    /\ run' = NewRun(replies)
    /\ pc' = "ask_llm"
    /\ UNCHANGED <<failed_files, batch, returned, booked>>

\* _step of booking_agent.py: the monitor's answer is written to the file.
_step(event) ==
    LET answer == Stepped(run.monitor, event)
    IN  files' = [files EXCEPT ![Keys[at]].events = Append(@, <<event, answer.result>>)]

Passes(event) == Stepped(run.monitor, event).result = "Ok"

Following(event) == Stepped(run.monitor, event)

Finish(outcome) == run' = [run EXCEPT !.outcome = outcome] /\ pc' = "finish"

\* The next turn, if there is one.
Continue(next) ==
    IF run.turn + 1 < max_turns
    THEN run' = [next EXCEPT !.turn = @ + 1] /\ pc' = "ask_llm"
    ELSE run' = [next EXCEPT !.outcome = "incomplete"] /\ pc' = "finish"

llm_calls(names) ==
    /\ pc = "ask_llm"
    /\ run' = [run EXCEPT !.calls = names]
    /\ pc' = "call"
    /\ UNCHANGED <<files, failed_files, batch, returned, booked>>

Sent == <<"send", Labels(Head(run.calls))[1]>>
Received == <<"receive", Labels(Head(run.calls))[2]>>

\* Mutant: a violation is recorded and the tool runs (fail_on_violation = False).
call_goes_on ==
    /\ pc = "call"
    /\ _step(Sent)
    /\ run' = [run EXCEPT !.monitor = Following(Sent)]
    /\ pc' = "tool"
    /\ UNCHANGED <<failed_files, batch, returned, booked>>

call ==
    /\ pc = "call"
    /\ _step(Sent)
    /\ IF Passes(Sent) THEN run' = [run EXCEPT !.monitor = Following(Sent)] /\ pc' = "tool"
       ELSE Finish("violated")
    /\ UNCHANGED <<failed_files, batch, returned, booked>>

\* The tool has run; its result is reported, and the next call or turn follows.
tool_returns ==
    /\ pc = "tool"
    /\ booked' = IF Head(run.calls) = "book_flight"
                 THEN booked \cup {files[Keys[at]].events} ELSE booked
    /\ _step(Received)
    /\ LET next == [run EXCEPT !.monitor = Following(Received), !.calls = Tail(@)]
       IN  IF ~Passes(Received) THEN Finish("violated")
           ELSE IF next.calls # <<>> THEN run' = next /\ pc' = "call"
           ELSE Continue(next)
    /\ UNCHANGED <<failed_files, batch, returned>>

llm_is_silent ==
    /\ pc = "ask_llm"
    /\ Finish("incomplete")
    /\ UNCHANGED <<files, failed_files, batch, returned, booked>>

\* Mutant: a text ends the run once the user has approved.
llm_writes_early ==
    /\ pc = "ask_llm"
    /\ IF run.monitor.state >= 4 THEN Finish("ok") /\ UNCHANGED files
       ELSE /\ _step(PresentOptions)
            /\ IF ~Passes(PresentOptions) THEN Finish("violated")
               ELSE run' = [run EXCEPT !.monitor = Following(PresentOptions)] /\ pc' = "ask_user"
    /\ UNCHANGED <<failed_files, batch, returned, booked>>

llm_writes ==
    /\ pc = "ask_llm"
    /\ IF is_terminal(run.monitor.state) THEN Finish("ok") /\ UNCHANGED files
       ELSE /\ _step(PresentOptions)
            /\ IF ~Passes(PresentOptions) THEN Finish("violated")
               ELSE run' = [run EXCEPT !.monitor = Following(PresentOptions)] /\ pc' = "ask_user"
    /\ UNCHANGED <<failed_files, batch, returned, booked>>

\* Mutant: the agent waits for a reply that does not come.
user_is_awaited ==
    /\ pc = "ask_user"
    /\ run.replies = 0
    /\ UNCHANGED vars

user_is_silent ==
    /\ pc = "ask_user"
    /\ run.replies = 0
    /\ Finish("incomplete")
    /\ UNCHANGED <<files, failed_files, batch, returned, booked>>

user_replies(message) ==
    /\ pc = "ask_user"
    /\ run.replies > 0
    /\ LET event == <<"receive", project_user_message(message)>>
       IN  /\ _step(event)
           /\ IF event[2] = UNRECOGNIZED THEN Finish("unrecognized")
              ELSE IF ~Passes(event) THEN Finish("violated")
              ELSE Continue([run EXCEPT !.monitor = Following(event), !.replies = @ - 1])
    /\ UNCHANGED <<failed_files, batch, returned, booked>>

\* The last record and the return of its outcome; the next key.
finish ==
    /\ pc = "finish"
    /\ files' = [files EXCEPT ![Keys[at]].outcome = run.outcome]
    /\ returned' = [returned EXCEPT ![Keys[at]] = run.outcome]
    /\ at' = at + 1
    /\ pc' = "next_key"
    /\ run' = NewRun(0)
    /\ UNCHANGED <<failed_files, max_turns, status, batches, raises, killed, booked>>

Step ==
    \/ end_batch \/ skip \/ start_run \/ raise
    \/ \E n \in 0..MaxReplies: first_record(n)
    \/ \E n \in 1..MaxCalls: \E names \in [1..n -> Tool]: llm_calls(names)
    \/ call \/ tool_returns \/ llm_is_silent \/ llm_writes \/ user_is_silent \/ finish
    \/ \E message \in Reply: user_replies(message)

Next == start_batch \/ kill \/ kill_between \/ Step

\* A process that runs goes on: the LLM answers or its client raises, and the
\* tools return.
Spec == Init /\ [][Next]_vars /\ WF_vars(Step)

-----------------------------------------------------------------------------
(* sweep.py                                                                 *)

\* load_trajectory raises on a torn line.
Readable(file) == file.exists /\ ~file.torn

Violations(file) == {i \in DOMAIN file.events: file.events[i][2] = "Violation"}

load_trajectory(file) ==
    [outcome         |-> IF file.outcome = "none" THEN "incomplete" ELSE file.outcome,
     first_violation |-> IF Violations(file) = {} THEN <<>> ELSE file.events[Min(Violations(file))]]

-----------------------------------------------------------------------------
(* Properties                                                               *)

\* No label of the protocol is the monitor's sentinel, and the model calls no tool by
\* its name: such a call would be answered Unrecognized and the run filed under
\* "violated" without a violation.
SentinelApart ==
    /\ \A i \in 1..Final: Positions[i][2] # UNRECOGNIZED
    /\ \A name \in Tool: UNRECOGNIZED \notin {Labels(name)[1], Labels(name)[2]}

Outcome == {"none", "ok", "violated", "unrecognized", "incomplete"}

\* The types of the variables, and what the places of the process say of each
\* other: a run has a file from its first record on, a call to be made is there, a
\* tool has its accepted call, and an outcome is kept for the last record
\* (run_all.py and run_real_agent).
TypeOK ==
    /\ pc \in {"down", "next_key", "begin", "ask_llm", "call", "tool", "ask_user", "finish"}
    /\ at \in 1..Len(Keys) + 1
    /\ max_turns \in TurnLimits \cup {0} /\ status \in {0, 2}
    /\ pc \notin {"down", "next_key"} => (files[Keys[at]].exists <=> pc # "begin")
    /\ pc \in {"call", "tool"} => run.calls # <<>>
    /\ pc = "tool" => ~run.monitor.halted
    /\ pc \in {"ask_llm", "call", "tool", "ask_user"} => run.outcome = "none"
    /\ \A k \in Key:
          /\ files[k].outcome \in Outcome /\ returned[k] \in Outcome
          /\ ~files[k].exists => files[k] = NoFile

\* The events of a file are the protocol so far, each accepted.
Faithful(events) ==
    /\ Len(events) <= Final
    /\ \A i \in DOMAIN events: events[i] = <<Positions[i], "Ok">>

\* A recorded outcome has its reason in the recorded verdicts (run_real_agent): "ok"
\* stands only on the whole protocol, accepted; "violated" on one violation and
\* "unrecognized" on one unclear reply, at the end, behind accepted events.
\* "incomplete" says no more than that nothing was refused: it may stand on the whole
\* protocol too, when the model is silent or the turns are used up behind the booking.
\* sweep.py takes outcome and verdicts from the file without comparing them.
OutcomeExplained ==
    \A k \in Key:
        LET events == files[k].events
        IN  CASE files[k].outcome = "ok" -> Faithful(events) /\ Len(events) = Final
              [] files[k].outcome = "incomplete" -> Faithful(events)
              [] files[k].outcome = "violated" ->
                    /\ Faithful(Front(events))
                    /\ load_trajectory(files[k]).first_violation = Last(events)
              [] files[k].outcome = "unrecognized" ->
                    /\ Faithful(Front(events))
                    /\ Last(events) = <<<<"receive", UNRECOGNIZED>>, "Unrecognized">>
              [] OTHER -> TRUE

\* What sweep.py reports of a readable file is what the run finished with, whatever
\* raised, was skipped or was run again, unless the run goes on or the process was
\* killed in it: then the file counts as "incomplete", and every later batch skips it
\* (run_all.py's out_path.exists()).
SweepTellsTheRun ==
    \A k \in Key:
        Readable(files[k]) =>
            \/ load_trajectory(files[k]).outcome = returned[k]
            \/ /\ files[k].outcome = "none"
               /\ k \in killed \/ (pc \notin {"down", "next_key"} /\ k = Keys[at])

\* book_flight runs only after the search, the offer and the user's approval, and for
\* a call the monitor has accepted, in the run that books (run_real_agent stops at
\* the first event that is not Ok).
BookedAsApproved ==
    \A events \in booked: Faithful(events) /\ Len(events) = Final - 1

\* A batch comes to its end, however the runs go: the turns of a run are counted,
\* and the user's replies need not suffice.
BatchEnds == (pc # "down") ~> (pc = "down")

=============================================================================
