# llmcontract in TLA+

Models, model checks and proofs of the protocol monitors of `llmcontract`: the
session-type monitor (`llmcontract/monitor`, `llmcontract/dsl`), the wrappers
that put it into an agent's loop (`llmcontract/integration`), the table-driven
protocol for LangChain agents (`llmcontract/langchain`), and the booking agents
built on them (`examples/langchain_booking`). Paths
below are relative to the repository.

1. [The system](#1-the-system)
2. [Modules and how they correspond to the code](#2-modules-and-how-they-correspond-to-the-code)
3. [Runs](#3-runs)
4. [Bounds, fairness, deadlock](#4-bounds-fairness-deadlock)
5. [What is proved](#5-what-is-proved)
6. [Where code and documentation disagree](#6-where-code-and-documentation-disagree)
7. [What is not modelled](#7-what-is-not-modelled)
8. [Plan](#8-plan)

## 1. The system

| Component | State it keeps | Operations | Makes it correct |
|---|---|---|---|
| `dsl/parser.py`, `dsl/ast.py` | none | text to syntax tree | the tree the text says |
| `monitor/automaton.py` | the `Automaton` under construction: table, terminal marks, aliases, id counter | `compile_ast`, `_compile`, `_collect_leaf_states`, `_resolve_aliases` | the automaton offers an event exactly where the protocol does |
| `monitor/monitor.py` | `_current_state`, `_halted`, `_trace` | `send`, `receive`, `reset`, `to_dict`, `from_dict` | one violation halts for good, everything later is `Blocked`; a saved session is restored as it was |
| `integration/client.py`, `middleware.py` | none of their own, they share a `Monitor` | `call`, `process`, `execute`, `register` | no verdict is hidden, nothing is begun under a halted monitor |
| `integration/langfuse.py` | `_step_count`, the observations in Langfuse | `send`, `receive`, `_record` | it changes nothing for the caller, and the audit is complete |
| `langchain/fsm.py` | a table of `Transition`s | `add_transition`, `step`, queries | deterministic; refuses what it does not list |
| `langchain/monitor.py` | `_state`, `_trace` | `transition`, `transition_event`, `reset`; user code in `guard`, `action`, `on_violation` | state and trace agree, whatever the user code does |
| `langchain/middleware.py` | `fsm_state`, `fsm_trace` in the thread's checkpoint | `before_agent`, `before_model`, `after_model`, `wrap_tool_call` | the checkpoint follows the table over parallel tools, interrupts, failures, retries |
| `langchain/tool_ref.py`, the two `exceptions.py` | none | a tool's label; error classes | - |
| `examples/langchain_booking/booking_agent.py`, `run_all.py`, `sweep.py` | a monitor and a JSONL file per run | `run_real_agent`, a resumable batch, `load_trajectory` | the files say what the runs did; nothing is booked unapproved |
| `examples/langchain_booking/booking_agent_middleware.py` | a monitor shared by tool threads, un-halted from outside | `wrap_tool_call`, `run_with_middleware` | only accepted tools run; a refusal does not end the monitoring |
| `skills/protocol-builder/scripts/validate.py` | none | `Monitor` on a text | passes exactly the closed protocols |
| `docs`, the rest of `skills` | - | web pages, prompts | - |

How they interact. `Monitor(protocol)` calls `parse` and `compile_ast` once and
then only looks transitions up. `MonitoredClient`, `ToolMiddleware` and
`LangfuseMonitor` hold a reference to a monitor and call its `send` and
`receive`; several of them, and the agent's loop itself, may hold the same one,
so that the order of their calls decides the verdicts. `ProtocolMonitor` and
`CheckpointedProtocolMiddleware` are two users of `fire_step`, which asks
`ProtocolFSM.step` and calls back into user code. The first keeps the protocol
in memory; the second keeps nothing, reads two channels of a LangGraph
checkpoint and returns updates of them, while LangGraph decides which nodes run,
which tool calls run in parallel, and what is kept when something raises.

What is hard, and where the properties aim:

* a long mixed sequence of accepted, unclassified, refused and blocked events,
  saved at any point, restored by replay in another process and perhaps another
  release, after a crash in the middle of an earlier restore, from a file that
  may be damaged (`monitor.py:131-145`);
* recursion inside choices inside sequences: a back edge is compiled before the
  branches it must offer, a terminal mark is set before the sequence goes on
  (`automaton.py:124-147`);
* two wrappers on one monitor, with exceptions of the LLM and of tools between
  the two halves of a call (`client.py:62-75`, `middleware.py:65-98`);
* an audit that is written in three calls, each of which may raise after the
  monitor has stepped (`langfuse.py:115-139`);
* tool calls of one message in parallel, each on the checkpoint from before the
  step; a step that fails as a whole; a retry that runs finished tools again or
  keeps them; suspended runs that are resumed, invoked anew, or crash
  (`langchain/middleware.py:132-401`);
* user code that runs while a step is half done and uses the monitor
  (`langchain/monitor.py:66-80`);
* threads that share a monitor without a lock, one of which halts it while
  another is judged, and a flag that is cleared behind the monitor's back
  (`booking_agent_middleware.py:107-155`, `monitor.py:157-184`);
* words that are labels, keywords or variables depending on where they stand
  (`parser.py:98-170`);
* batches that skip what exists, put aside what raised, and are killed anywhere
  (`run_all.py:52-83`, `booking_agent.py:293-417`).

## 2. Modules and how they correspond to the code

```
 MonitorStep
   <- Monitor  <- MonitorReleases  <- MonitorProofs         MonitorReleases implements Session
               <- AgentLoop        <- AgentLoopProofs
               <- LangfuseMonitor  <- LangfuseProofs        LangfuseMonitor implements Monitor
   <- BookingProtocol  <- EnforcingMiddleware  <- EnforcingProofs
                       <- BookingRuns          <- BookingRunsProofs
                       <- BookingText

 SessionType  <- Parser    <- Automaton, BookingText
              <- Compiler  <- Automaton, BookingText

 ProtocolFSM  <- ProtocolRun
              <- ProtocolMonitor         <- ProtocolMonitorProofs   implements ProtocolRun
              <- CheckpointedMiddleware  <- MiddlewareProofs        implements ProtocolRun
              <- FsmProofs               <- ProtocolMonitorProofs, MiddlewareProofs
```

`<-` is EXTENDS, from the right. `AgentLoopProofs` and `LangfuseProofs` extend
`MonitorProofs` as well: what is proved of a monitor is proved of one behind wrappers.

**`Session`** is what a monitor promises, with no automaton, trace or file: a
position that an allowed event moves, a flag that any other event sets for good,
an exception for the `UNRECOGNIZED` label, and a saved copy to go on from.

**`Monitor`** is `monitor.py` in a process. `current_state`, `halted`, `trace`
are the three fields; an event is a pair (direction, label), which is both the
transition key and the trace entry, since `"!l"` and `(send, l)` determine each
other. `Verdict` and `After`, in **`MonitorStep`** since other modules use them
without the process around them, are the branches of `_step` in their order; `send`,
`receive`, `reset`, `to_dict` are the methods. `from_dict` is a loop during
which the process can die, so it is taken apart: `StartRestore`, one `Replay`
per saved entry through the same `_step`, `ReplayRaises` where `_parse_event`
raises, `Restored`. The automaton is a constant, one for every release of the
program that may run, hence any automaton. `Crash`, `Damage` and `StartNew` are
the caller's process, its file and its choice; they are external. The history
`past` is the monitor after each event; it is read by no action.

**`MonitorReleases`** says when releases agree (their automata number the same
positions, several states for one position allowed), and that a `Monitor` of
agreeing releases implements `Session`. It also holds the inductive invariant.

**`Parser`** is the recursive descent of `parser.py` over a sequence of tokens,
one operator per method, each returning a node and the tokens left, or a
`ParseError`. Characters are abstracted to the six signs and words;
`_read_ident` takes the longest run and white space only separates, so that this
loses nothing but positions. The second half of the module is the grammar of the
comment at `parser.py:64-74`, read as what it derives by trying every split: the
reference `Readings`.

**`SessionType`** gives the trees of `ast.py` a meaning without states: what is
left of a protocol after some events. It is the reference for **`Compiler`**,
which is `compile_ast` with its recursive helpers, the automaton threaded
through them as a record; `BackEdge` notes the `KeyError` of an unbound
variable, and `rebound` is a history of the states whose alias was replaced. **`Automaton`** is the way from text to runs: `Monitor(parsed)` is the
constructor with its two errors, `validate` what `validate.py` exits with, and
`Accept` walks the compiled automaton and the residual side by side. A run
starts from every text of a set.

**`AgentLoop`** is `MonitoredClient.call` and `ToolMiddleware.process` on one
monitor. `call` is cut where the LLM answers (`call`, `llm_call_returns`,
`llm_call_raises`), `process` where a tool runs (`process`, `execute`,
`tool_returns`, `tool_raises`, `process_returns`). `Checked` is the test every
one of them makes: anything but `Ok` raises `ProtocolViolationError`. The labels
the configured functions can give are constants; the registered tools are those
of the constructor and what `register` adds while the user's code runs. The loop calls the wrappers in
any order, reports events itself and drops the verdict as the README's loop
does (`report`), and resets (`start_over`).

**`LangfuseMonitor`** is the wrapper of the same name: `Delegate` steps the
wrapped monitor, then `open`, `update` and `score` are the three Langfuse calls
of `_record`, before any of which `langfuse_raises` may end it. `_step_count`
counts before the observation is opened.

**`ProtocolFSM`** has the table, its validation as an assumption, `step` and
`fire_step`. A guard is a user's function of a context the model does not have:
a guarded edge may fire or not. `Raising` holds what `on_violation` may do, raise,
return, or either at each call.
`Reach` is the set of states a sequence of events can lead to, by one `Landing`
after the other.

**`ProtocolRun`** is what the two holders of a table promise whoever reads their
state and trace, with no agent, callback or checkpointer: the trace grows by
events that lead from the old state to the new one, and none is taken back unless
all are. `CheckpointedMiddleware` implements it step by step; `ProtocolMonitor`
does, with `reset` as `Restart`, as long as user code leaves the monitor alone.

**`ProtocolMonitor`** is the in-process monitor. `fire_step` calls user code
after a refusal and for an edge with a guard or an action, before `_step` writes the state.
`transition` stops there and pushes what it will write onto `frames`; the user
code may call `transition` and `reset` itself; `callback_returns` writes,
`callback_raises` does not. The assumption is `Raising = {FALSE}`: an `on_violation` that
raises is a callback that raises, so `fire_step` must not raise a second time.

**`CheckpointedMiddleware`** is the middleware in LangChain's loop.

| Model | Code |
|---|---|
| `before_agent`, `before_model`, `after_model` | the hooks; `Suspend`, `Selected`, `Fire`, `Fail` are the branches of `_maybe_interrupt` |
| `dispatch_send`, `tool_returns`, `tool_raises`, `dispatch_recv` | `_dispatch_sync` cut at `handler(request)`; `calls[i].state` and `.trace` are its local variables |
| `Writers`, `join` | the `Command` of `_wrap_with_state_update`, applied by LangGraph |
| `invoke`, `invoke_again`, `model`, `start_tools`, `finish`, `Crash` | LangChain, LangGraph, the caller: external |

What is assumed of LangChain and LangGraph, from how the code uses them: a node
works on a copy of the checkpoint; its update is committed when the whole step
has succeeded and dropped when it raises; the tool calls of a message are one
step and run in parallel; a channel without a reducer takes one value per step,
two are an error; `structured_response` stays in its channel; a failed step that
is run again runs all its tool calls or keeps the results of the finished ones;
a resume value reaches the suspended node only. `_dispatch_async` does what
`_dispatch_sync` does, with `await` for the handler, and is the same actions.

**`BookingProtocol`** is what the booking examples share: the labels derived from
the tools, the protocol as the list `Positions` of its events with the automaton
that numbers them, `project_user_message` on three kinds of replies. The
automaton is written out, because the compiler's definitions are recursive;
**`BookingText`** assumes, and TLC evaluates in `enforcing_middleware`, that it is
what `Compiler` and `Parser` make of the text `linear_protocol` writes.

**`EnforcingMiddleware`** is `wrap_tool_call` in the threads of a message's tool
calls, and `run_with_middleware` around them.

| Model | Code |
|---|---|
| `append`, `test`, `look_up`, `assign` | the four accesses of `Monitor._step` to the shared fields; what is assigned is decided at `look_up` |
| `refuse`, `run_tool`, `tool_returns`, `finish_call` | the branches of `wrap_tool_call`; only `refuse` clears `halted` |
| `model_answers`, `empty_answer`, `finished`, `present`, `user_replies` | a turn of the orchestrator; no thread runs then, so its `_step` is one action |
| `model_calls`, `join` | the agent: external |

`trace` is kept as the monitor a replay of it gives, which is what its contents
are for. `furthest` is the history of where the accepted events lead when they
are taken one by one.

**`BookingRuns`** is `run_all.py` over keys (`start_batch`, `skip`, `start_run`,
`raise`, `end_batch`), `run_real_agent` in it (`first_record`, `llm_calls`, `call`,
`tool_returns`, `llm_writes`, `user_replies`, `finish` and the two ways to fall
silent), and `sweep.py`'s `load_trajectory`. Of a file it keeps the monitor
records, the outcome, and whether a line is torn. `kill` ends the process
anywhere in a run: Ctrl-C is not an `Exception`, so the file stays. Both `raise` and
`kill` may come before the first record, when there is no file yet. The outcome
record and the return of `run_real_agent` are one step (`finish`): a kill between
them would leave the same file, and only the history `returned` would differ.

## 3. Runs

| Run | Shows | States |
|---|---|---|
| `monitor_restart` | A monitor that is used, saved, crashes, is damaged on disk and is restored by either of two releases with different state numbers is a `Session` (`ImplementsSession`); the restored session is the saved one (`RestoredAsSaved`); a halt is explained by the trace (`HaltExplained`) and lasts (`HaltIsFinal`). | 838,578 |
| `monitor_upgrade` | *violation*: a release that drops a branch restores without halting a session it does not fit (`MisfitHalts`). | - |
| `automaton` | Some ten thousand protocols as texts, all token sequences up to five, and all texts one token away from two longer ones: a text is read as the grammar derives it or refused when it does not (`ReadAsGrammar`); the validator passes exactly the closed ones (`ValidIffClosed`); in texts in which no back edge is replaced, the automaton offers the events of the protocol at every point of every run (`OffersTheSame`) and ends where it ends (`EndsTheSame`). | 178,218 |
| `automaton_rebound` | *violation*: where a branch goes back to one recursion and another variable follows the choice, the automaton offers what the protocol does not (`OffersEverywhere`). | - |
| `agentloop` | The wrappers hide no verdict and invent none (`NothingSwallowed`), begin nothing under a halted monitor (`HaltStopsWork`), and `process` returns only results whose request and result were both accepted (`ResultsWereAccepted`), with tools registered at any time. | 453,232 |
| `agentloop_readme` | *violation*: as the README sets it up, `process` is refused for the response `call` has just accepted (`ResponseCanBeProcessed`). | - |
| `langfuse` | Whatever Langfuse fails to take, observation k is about event k, no accepted event is recorded as failed and no refused one as passed (`ObservationsFitTrace`), each failure costs one record (`AuditIsComplete`), and the wrapped monitor behaves as one without a wrapper (`BehavesAsMonitor`, a refinement). | 59,193 |
| `middleware` | Up to two tool calls per message, tools without a ref among them, guards, ambiguous responses, a gate with one way on and one with two, a handler that raises or only logs: the checkpoint is a `ProtocolRun` (`ImplementsRun`): its trace only grows, by paths of the table from old state to new; it lacks a result only for a failure (`WorkIsRecorded`); the model is not called at a gate (`ModelNeverRunsAtGate`). | 1,857,839 |
| `protocol_monitor` | State and trace of a `ProtocolMonitor` agree with the table whatever user code does in the middle of a step (`StateFitsTrace`); without such use the trace is what was answered (`TraceIsAnswers`) and the monitor a `ProtocolRun` with restarts (`RunsAsRun`). | 250,730 |
| `enforcing_middleware` | With one tool call per message, whatever was refused before, only accepted tools run and the monitor stands where the accepted events lead (`EnforcedOneByOne`). With two in threads, it stands nowhere it has not earned (`StateIsEarned`); no refusal leaves it halted (`HaltHasReason`); every message ends (`ToolsEnd`). | 302,330 |
| `enforcing_parallel` | *violation*: with two calls in a message, a tool runs whose call was answered `Blocked` (`ToolsRunOnlyIfAccepted`). | - |
| `booking_runs` | Two keys in three batches with an exception and kills: "ok" stands only on the whole protocol, "violated" and "unrecognized" on their one reason, and under "incomplete" nothing was refused (`OutcomeExplained`), the sweep reports what the run returned, except that a killed run counts as incomplete for ever (`SweepTellsTheRun`), `book_flight` runs only after search, offer and approval (`BookedAsApproved`), and a batch ends (`BatchEnds`). | 699,745 |

For every property of a passing run a mutated definition stands beside the
definition it mutates (comment `Mutant:`); put in its place, the property fails.

## 4. Bounds, fairness, deadlock

*Monitor.* `MaxTrace = 3`, `MaxCrash = 1`, three labels in two directions, two
releases. Three events are enough for accepted, offending and blocked, with the
sentinel before or after; `from_dict` can be interrupted and repeated within one
crash, since a restore that raises goes down without one. The theorems of
section 5 need neither bound. `monitor_upgrade` takes the smallest two releases
that disagree.

*Automaton.* The left part of a sequence is never a sequence or a `rec` and
there are two labels and two variables: two labels make a choice whose branches
differ, two variables a nested recursion, a back edge from the first and from
the last branch, chains and circles of aliases (`rec X.X`, `rec X.rec Y.X`). The texts of
`Nested` have a choice whose branches go back to either of two recursions, with
either variable behind it: there the compiler replaces a back edge, the two
properties of `automaton` exempt the text, and `automaton_rebound` shows why. The
state space of each protocol is finite and explored completely.

To these trees, written as texts, come all token sequences of up to five tokens
and the two longer texts with a token left out, put in or replaced: five tokens
hold every production but a choice of two branches, which the longer ones hold.

*AgentLoop.* `MaxTrace = 7`: a round with a response of two tool calls is six
events, the seventh is the request of the next round.
A response whose second tool is registered late or never, labels that are
`Unrecognized`, and a loop that reports one event are there.

*Langfuse.* `MaxTrace = 3`; records do not depend on each other except through
the step number.

*Middleware.* The table of the run is made for it: a loop by a tool, two tools
that end in different states, so that mixing their updates would show, two typed
responses that both claim one type, a gate with two ways on and one with a single
one. `MaxTrace = 5` is a tool call, another, and the response in front of a gate;
afterwards the model falls silent, and the gate is still passed. `MaxInvoke = 4`
admits suspension, resume, a failure and a retry. `MaxCalls = 2`: two calls are the
fewest that can conflict, and the updates of more than two fail in the same way.
Whether a refusal raises is free at each one.

*ProtocolMonitor.* `MaxTrace = 4`, `MaxFrames = 2`: user code called from user
code.

*Booking.* `MaxCalls = 2` is the fewest that race. `MaxTurns = 4` is the code's
`range(4)`. In `BookingRuns` each batch has a number of turns of its own, as with
`--max-turns`: with 3 a run books with its last turn, with 4 it has one for the
closing text, and either can run out of turns before. A tool the protocol does not name is
among the tools. The user may have no reply, one, or one more than
the protocol takes. Three
batches: one that is killed, one that raises and retries, one that skips.

*Fairness.* `CheckpointedMiddleware` has none: who runs the steps is LangGraph, and
nothing in the middleware waits. `EnforcingMiddleware`: weak fairness of
`ToolsStep`, some thread or the join runs on, because the example's tools are
lookups that return. `BookingRuns`: weak fairness of `Step`, the process runs on,
because its LLM client answers or raises and its tools return; no batch has to be
started, and a kill is never owed.

*Deadlock* is checked for `Monitor`. Elsewhere the system may stop: a bounded
model has used its trace or its invocations, an automaton has reached the end of
its protocol.

## 5. What is proved

With TLAPS, for all values of the constants that satisfy the named assumptions:
for every automaton or table, every set of labels, tools and responses, every
length of a trace and every number of calls, threads, keys and failures. All the
invariants of the passing runs are proved except those of `Automaton`, and so are all
their action properties and the refinements. Every inductive invariant below
was checked by TLC on the instance of its run before it was proved.

**`MonitorProofs`**, from `AutomatonAssumption` (the table is well formed),
`ReleasesAgree` and `MalformedAssumption`:

* `TypeCorrect`: `Spec => []TypeOK`.
* `InvariantHolds`: `Spec => []IInv` with
  `IInv == TypeOK /\ Recorded /\ Agreement /\ Replayed /\ Quiet`.
  `RestoredAsSaved` speaks of two final states, and no step says how they came
  about; the invariant therefore carries the histories. `Recorded`: each
  monitor configuration in a history is what `_step` makes of the one before it.
  `Agreement`: as far as the trace and the snapshot hold the same events, the
  monitor and the saved one went through the same positions, by `StepAgrees`: two
  releases at one position give one verdict and move to one position.
  `Replayed`: during `from_dict` the trace is a prefix of the snapshot. `Quiet`:
  a process without a session has no answer. A damaged entry is exempted in
  `Recorded`, and can never be equal to an event of a trace.
* `RestoreIsFaithful` (`RestoredAsSaved`): from `Agreement` at the last position.
* `HaltIsExplained` (`HaltExplained`): by `HaltInv`, which adds what holds before
  the halt.
* `HaltedStaysHalted` (`HaltIsFinal`).
* `MonitorImplementsSession` (`ImplementsSession`): the mapping takes the
  monitor's state to its position, hides `from_dict` until it returns, and reads
  the saved session off the history; `Restored` is `GoOn` by `Agreement`.

The next two modules first show that a wrapped monitor takes steps of `Monitor`
only, and then cite the theorems above, with their assumptions. A loop and a
wrapper have one release; with the states as positions it agrees with itself.

**`AgentLoopProofs`**, from `AutomatonAssumption` and `LoopAssumption`:

* `NoWorkAfterHalt` (`HaltStopsWork`), from the lemma that an event offered to a
  halted monitor is `Blocked` and leaves it halted.
* `LoopInvariant`: `LoopSpec => []LoopInv` with
  `LoopInv == Looping /\ NothingSwallowed /\ Accounted`. `ResultsWereAccepted`
  speaks of the end of `process`, when the calls are gone from the state;
  `Accounted` says while it runs that the last `2n` entries of the trace are the
  accepted pairs of the `n` results, and under a tool one more, its call.
* `LoopTypes`, `NoVerdictIsLost` (`NothingSwallowed`, inductive with `Looping`),
  `ReturnedResultsWereAccepted` (`ResultsWereAccepted`, an action property).
* `LoopIsMonitor`: the monitor the wrappers share is a `Monitor`, whatever the LLM
  and the tools raise. Hence `LoopIsSession` and `LoopHaltIsExplained`.
* `NoSilentHalt`: a halted monitor has raised an error out of a wrapper since the
  last reset, or the loop's own call was answered and it did not look. It
  composes `HaltExplained`, which finds the offending event in the trace, with
  `NothingSwallowed`, which says who heard of it.

**`LangfuseProofs`**, from `AutomatonAssumption` and `MissingAssumption` (the mark
of an absent field is no score):

* `WrapperIsMonitor` (`BehavesAsMonitor`, a refinement).
* `RecordInvariant`: `LangfuseSpec => []RecordInv` with `Kept` (the histories end
  with the monitor as it is), `Recording` (the last observation is of the last
  event and unscored while `_record` is at it), `Counted` and `Tells` for each
  observation. `ObservationsKeepTheirPlace`, `AuditMissesNothing`.
* `WrapperIsSession`: with `MonitorImplementsSession`.
* `AuditTurnsOnce`: behind an observation that did not pass no later one passes,
  even if the violation's own was never written. `HaltInv` of the wrapped
  monitor, carried over by the refinement, and `Tells`.

**`FsmProofs`**: the lemmas about `fire_step` and `Reach` the next two use.
`ReachAppend`, that one more event is one more step of the table, needs an
induction over the length. The library's induction theorems take an operator as
a parameter; here the induction is done by hand, as a least counterexample in a
set of numbers (`Least`, from `WFMin`). So is `ReachExtends`: a path continued by a
path is a path, which turns `ProtocolRun`'s steps into a statement on whole traces,
and `OneReached`: in a table none of whose edges has a guard (`Unguarded`), a
sequence of events leads to one state at most. The tables of the examples are such;
with a guard the same events may or may not have moved the state.

**`ProtocolMonitorProofs`**, from `TableAssumption` and `MonitorAssumption`:
`MonitorTypes`, `StateAlwaysFits` (`StateFitsTrace`), `TraceIsWhatWasAnswered`
(`TraceIsAnswers`). The properties speak of what is written; the invariant adds
what the suspended calls on `frames` will write when their callback returns: a
state and a trace that fit each other whatever has become of the monitor in
between, and, if nothing was nested, one event more than the trace.

* `MonitorIsRun` (`RunsAsRun`): a write extends the trace by a path from the state
  that is overwritten. `Pending` says so beforehand of the one write on `frames`.
* `TraceTellsState`: in an `Unguarded` table the trace alone determines the state,
  `Reach(initial, _trace) = {_state}`, also with nested calls.

**`MiddlewareProofs`**, from `TableAssumption` and `MiddlewareAssumption`. The
invariant `IInv` adds `CallsFit` to the types: the copy of each parallel call is
what one or two steps of the table make of the checkpoint its step started from,
and that checkpoint does not move while calls are in flight.

* `CheckpointTypes` (`TypeOK`), `CheckpointIsRun` (`ImplementsRun`, a refinement):
  no hypothesis more. `RunStep` maps a commit of any hook or of any one call, one
  event or two, to `Advance`, and every other step to a stutter.
* `CheckpointFitsTrace`: after any crash, retry or resume `fsm_state` is a state
  the whole of `fsm_trace` leads to from the initial one (`ReachExtends` along the
  run). `TraceTellsState`: the only one, in an `Unguarded` table.
* `OnlyWholeCalls` assumes `HooksApart("send")`: no interrupt or typed response
  fires a send under the label of a registered tool, which the code does not ask
  for. It says of the checkpoint the contrary of a comment (section 6), and no run
  checks its `CallsAreWhole`.
* `NoModelAtGate` (`ModelNeverRunsAtGate`) assumes `GatesOpen`: no gate behind a
  gate, and no guard that refuses a resume while violations are only logged.
  With either of them the model runs at a gate, as TLC finds when a gate of the
  run's table is changed so (section 6 has the first).
* `NoWorkInvented` (`WorkIsRecorded`) assumes `HooksApart("recv")`; with a gate
  under a tool's label it fails. Its `WorkInv`
  counts what a call in flight holds as recorded, and makes a failure pay for the
  calls of its step: the property alone does not say that a step that
  has stopped has been paid for already.
* `ToolsStepShrinks`, `ToolsStepIsShort`: while a tools step goes on, each of its
  steps takes an element from `Left`, the places its calls have still before them,
  of which there are at most four for each call.

**`EnforcingProofs`**, from `BookingAssumption` and `BoundsAssumption`, for any
number of tool calls in a message and any tools:

* `InvariantHolds`: `Spec => []IInv` with
  `IInv == TypeOK /\ (phase = "presented" => replies > 0) /\ StateIsEarned /\ PendingEarned`.
  `StateIsEarned` says nothing of a thread between its look-up and its
  assignment, whose write may come after others have moved the state;
  `PendingEarned` says that the target it carries is one the history has reached.
  By `OneStep`, the offered event leads from a position to the next one, so that
  what was looked up in an earned state and answered `Ok` is earned
  (`AnsweredGoesOn`), and the histories only grow.
* `EnforcingTypeCorrect` (`TypeOK`) and `RacesEarnNothing` (`StateIsEarned`).
* `OnlyOthersHalt` (`HaltHasReason`), for racing threads too: `HaltInv` names for
  every halt a thread that will clear the flag, or an answer nobody clears it for.
* `OneByOneEnforces` (`EnforcedOneByOne`) and `SnapshotsKeepRefusals` (what a
  replay of the trace gives, against a comment: section 6), with `AloneInv`: what a call alone has written at
  each of its places. Both assume `NamesApart`: no tool outside the table
  is named like an event of the protocol or like the sentinel. The middleware
  makes the labels of such a tool from its name, so that a tool called
  `SearchFlights` passes for the search; when TLC is given one,
  `EnforcedOneByOne` fails. The example's tools are apart, and the
  instance of the run assumes it.
* `ToolsStepShrinks`, `ToolsStepIsShort`: every step of a thread of a message's calls
  leaves fewer places in `Left`, at most eleven for each call; no thread can be
  sent back by what another writes to the monitor. `RunsAsSent` is the invariant it
  needs: a tool runs only under the call's own send, not under its receive, so that
  a thread that goes from the tool back to `append` is at its second half.

**`BookingRunsProofs`**, from `BookingAssumption` and `KeysAssumption` (`Keys` is a
sequence) and `TurnsAssumption`, for any keys, turns, calls, replies, batches, kills and exceptions:

* `RunsInvariant`: `Spec => []RunsInv` with
  `RunsInv == Typed /\ InStep /\ Told /\ BookedAsApproved`. The file and the
  monitor of a run are two records of it; `InStep` keeps them together: the file
  holds the protocol up to the monitor's position, and under a tool ends with the
  accepted call. `Told`: a file without an outcome is that of a killed run or of
  the one that goes on.
* `RunTypes` (`TypeOK`), `SweepReportsTheRun` (`SweepTellsTheRun`),
  `NothingBookedUnapproved` (`BookedAsApproved`).
* `OutcomesAreExplained` (`OutcomeExplained`; of "incomplete" it says only that
  nothing was refused) by `Explained`, which says of the outcome a run is about
  to write what the property says of one that is written.
  It assumes `SentinelApart`: a call of a tool named `Unrecognized` would be
  answered `Unrecognized` and the run filed as violated without a violation
  (with such a tool TLC finds that run).
* `BatchShrinks`, if `MaxCalls` is a number (a response has finitely many
  calls): every step of a batch lowers `StepsLeft`, a number whose digits are the
  keys, turns and calls left, each in a base that its successors cannot fill. A
  batch has no more steps than that.

Each hypothesis (`HooksApart`, `GatesOpen`, `NamesApart`, `SentinelApart`)
is a definition beside the properties it is about, and the MC modules assume it of
their instances, so that TLC evaluates it.

Only model-checked:

* the liveness properties `ToolsEnd` and `BatchEnds`: the prover
  has no rules for fairness and `ENABLED`. Of the argument for each, a measure that
  every step lowers is proved (`ToolsStepShrinks`, `BatchShrinks`), so that
  no livelock and no endless retry remains; that some step is always enabled until
  the end, and hence by fairness taken, is TLC's;
* `TypeOK`, `ReadAsGrammar`, `ValidIffClosed`, `OffersTheSame` and `EndsTheSame`
  of `Automaton`: parser, compiler and meaning recurse over trees with RECURSIVE
  operators, which the prover's SMT backend does not take.

The four runs that show a disagreement have no theorems: what they refute is
false.

## 6. Where code and documentation disagree

With a run:

* `from_dict` does not halt on every event that no longer fits: a saved
  `?Unrecognized` whose branch is gone is answered `Unrecognized` and dropped
  (`monitor.py:181` against `monitor.py:124-126`; `monitor_upgrade`).
* The README's combined loop: `call` consumes `?ToolCall`, and `execute` asks for
  a `?receive` of the same tool call again (`integration/middleware.py:77`
  against `README.md:180-182`; `agentloop_readme`).
* The enforcing example refuses on `Violation` only. While a parallel call is
  between its `Violation` and the line that clears the flag, another is `Blocked`
  and its tool runs (`booking_agent_middleware.py:142` against the comment before
  it and `:9`; `enforcing_parallel`).

* A sequence goes on from every leaf of its left part, also from one that a
  recursion variable has already aliased; if the right part begins with another
  variable, the alias is replaced (`automaton.py:146-147` against
  `automaton.py:56`, "A state X marked as an alias of T behaves like T for all
  observers"; `automaton_rebound`). `rec X.!a.rec Y.!{b.X, c}.Y` offers `b` and `c`
  after `!a !b` instead of `a`; `rec X.!{stop, go.?{a.rec Y.!b.Y, d}.X}` comes to an
  end inside the endless `rec Y`.

Seen while modelling, without a run of their own. The models do what the code does,
and no property of a passing run asserts either side:

* `CheckpointedProtocolMiddleware` judges the tool calls of a message from one
  checkpoint, so that two that exclude each other both run
  (`langchain/middleware.py:270` against `README.md:332`): in `middleware` the calls
  `web` and `files` of one message both get to `tool_returns`, and only then does
  `join` fail for their two updates.
* A tool's exception leaves the checkpoint before the send, not after it
  (`langchain/middleware.py:291` against the comment at 286-290, "The protocol
  stays in the post-send state"): `tool_raises` is `Fail`, which writes nothing to
  the protocol channels, and `OnlyWholeCalls` is the theorem.
* A second gate behind a first one is not waited at
  (`langchain/middleware.py:215` against `CHANGELOG.md:54-56`): `Fire` goes to
  `model`, and with two gates in a row `ModelNeverRunsAtGate` fails.
* A run that reaches the terminal state with its last turn, or after which the
  model is silent, is `incomplete`, not `ok` (`booking_agent.py:417` against
  "ok (terminal state reached)" at 307): in `booking_runs` TLC refutes that a file
  with the outcome "incomplete" holds fewer than the protocol's events.
* A snapshot of the enforcing example's un-halted monitor would restore a halted one,
  at another place, which `monitor.py:75-79` ("sufficient to reconstruct the
  monitor's state by replay") does not foresee: `RefusalSurvivesSnapshot` says what
  a replay gives, and `SnapshotsKeepRefusals` proves it. The example takes none.
* `LangfuseMonitor` writes `state_before` after the monitor has stepped
  (`langfuse.py:123-124`) and `passed: True` for `Unrecognized`, whose score is 0
  (`langfuse.py:94-111`): `Observation` and `passed` have them so, and
  `ObservationsFitTrace` speaks of neither.
* `call` raises `ProtocolViolationError` for `Unrecognized`, which is no violation
  (`client.py:72`, `exceptions.py:9`); the monitor is not halted then.
* A typed response of an earlier message can fire an edge again, because the
  channel keeps it (`langchain/middleware.py:221`, `fsm.py:111-113`).
* With an `on_violation` that raises, the refused event is not in
  `ProtocolMonitor.trace` (`langchain/monitor.py:183`, comment at 47-49).

## 7. What is not modelled

* `ToolRef`, the exception classes: no state; a tool is its label, an exception is
  modelled where it is raised.
* `ProtocolFSM.add_transition`, `mark_terminal`: the table is a constant, as it is
  built before the monitors run; what they refuse is `TableAssumption`.
* A `Monitor` shared by threads outside the booking example: the library describes
  one loop per monitor.
* `reset`, `to_dict` and `from_dict` in the booking examples, which do not use them.
* `run_skipping_agent` and the `main` functions of the examples: a fixed path of
  calls, and printing. `booking_agent_submodule.py`: a table (105-116) of six states,
  two tools and one gate, without guards and typed responses, given to the
  middleware, and a caller that resumes the agent; the theorems hold for its table,
  but no run has it.
* What the regular expression of `project_user_message` takes for consent.
* A `LangfuseMonitor` around a monitor that has already seen events.
* Two invocations of one LangGraph thread at a time.
* The tables `sweep.py` prints, `tasks.py`, `docs`, the prompts of
  `skills/protocol-builder`: output, data and static pages.
* Text: labels, messages and trace entries are values; that `"!l"` and `"?l"` are
  read back as what was written is part of the pair (direction, label).

## 8. Plan

In the order of importance; the first nine are done.

1. `Session`, `Monitor`, `MonitorReleases` and their proofs: everything else
   rests on the monitor.
2. `SessionType`, `Automaton`: what the monitor follows is what was written.
3. `CheckpointedMiddleware` on `ProtocolFSM`: the most concurrent part.
4. `AgentLoop`, `LangfuseMonitor`: the wrappers, composed with `Monitor`.
5. `ProtocolMonitor`: re-entrant user code.
6. `Parser` over tokens, against the grammar, composed with `Compiler`.
7. `EnforcingMiddleware` and its proof, `BookingRuns`.
8. The proofs of `AgentLoop`, `LangfuseMonitor`, `ProtocolMonitor`,
   `CheckpointedMiddleware`, `EnforcingMiddleware` and `BookingRuns`.
9. `ProtocolRun` (state and trace of a table), which `ProtocolMonitor` and
   `CheckpointedMiddleware` implement, with the proofs that they do.

Left:

10. Two threads of invocations on one checkpoint.
11. That the agent's files (`BookingRuns`) say what a `Session` of the protocol
    would: the composition of `RunsInvariant` with `MonitorImplementsSession`.
