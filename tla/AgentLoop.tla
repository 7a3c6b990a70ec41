----------------------------- MODULE AgentLoop -----------------------------
(***************************************************************************)
(* MonitoredClient and ToolMiddleware (llmcontract/integration) sharing    *)
(* one Monitor in an agent's loop.                                         *)
(*                                                                         *)
(* The LLM, the tools and the loop itself are the user's: a call of the    *)
(* LLM or of a tool returns anything or raises, and the loop may call the  *)
(* two wrappers in any order, report an event to the monitor itself, as    *)
(* the README does with "ToolResult", and reset the monitor.  One thread   *)
(* drives the loop.                                                        *)
(***************************************************************************)
EXTENDS Monitor

CONSTANTS
    SendLabel,      \* what send_label can give for a request
    Tool,           \* the names the LLM calls tools by
    given,          \* the ones ToolMiddleware is built with
    Response,       \* the responses of the LLM: [label, tool_calls], where label
                    \*   is what receive_label gives for the response
    recv_label,     \* recv_label[t]: _resolve_receive_label
    result_label,   \* result_label[t]: what _resolve_send_label can give
    Reported,       \* labels the loop sends to the monitor itself
    None            \* no response yet

ASSUME LoopAssumption ==
    /\ SendLabel \subseteq Label /\ Reported \subseteq Label /\ given \subseteq Tool
    /\ \A r \in Response: r.label \in Label /\ r.tool_calls \in Seq(Tool)
    /\ recv_label \in [Tool -> Label] /\ result_label \in [Tool -> SUBSET Label]
    /\ None \notin Response

VARIABLES
    pc,         \* "idle", in "llm_call", in "process", or in a "tool"
    response,   \* the last response client.call returned
    tools,      \* the registered names
    batch,      \* the tool calls process was given
    results,    \* the results it has so far
    outcome,    \* how the last call of a wrapper ended
    objected,   \* history: a ProtocolViolationError was raised since the last reset
    ignored,    \* history: the loop dropped a verdict that was not Ok
    worked      \* history: LLM calls and tool runs begun since the last reset

monitor == <<mode, release, object, result, disk, crashes>>
progress == <<pc, response, tools, batch, results>>
loopVars == <<progress, outcome, objected, ignored, worked>>
allVars == <<monitor, loopVars>>

LoopInit ==
    /\ Init
    /\ pc = "idle" /\ response = None /\ tools = given /\ batch = <<>> /\ results = <<>>
    /\ outcome = "none"
    /\ objected = FALSE /\ ignored = FALSE
    /\ worked = 0

\* The event goes to the monitor; anything but Ok raises ProtocolViolationError.
Checked(direction, label, next) ==
    /\ Observe(direction, label)
    /\ \/ result' = "Ok" /\ next
       \/ /\ result' # "Ok"
          /\ pc' = "idle" /\ batch' = <<>> /\ results' = <<>>
          /\ outcome' = "ProtocolViolationError"
          /\ objected' = TRUE
          /\ UNCHANGED <<tools, response, ignored, worked>>

Raise(error) ==
    /\ pc' = "idle" /\ batch' = <<>> /\ results' = <<>>
    /\ outcome' = error
    /\ UNCHANGED <<tools, monitor, response, objected, ignored, worked>>

-----------------------------------------------------------------------------
(* MonitoredClient.call                                                     *)

Ask ==
    /\ pc' = "llm_call"
    /\ worked' = worked + 1
    /\ UNCHANGED <<tools, response, batch, results, outcome, objected, ignored>>

\* Mutant: only a violation is an error, a blocked event is not.
call_lets_blocked_through(label) ==
    /\ pc = "idle"
    /\ Observe("send", label)
    /\ \/ result' \in {"Ok", "Blocked"} /\ Ask
       \/ /\ result' \notin {"Ok", "Blocked"}
          /\ outcome' = "ProtocolViolationError"
          /\ objected' = TRUE
          /\ UNCHANGED <<progress, ignored, worked>>

\* Its first half: the request is checked and llm_call begins.
call(label) == pc = "idle" /\ Checked("send", label, Ask)

\* Mutant: the verdict on the response is not looked at.
llm_call_unchecked(r) ==
    /\ pc = "llm_call"
    /\ Observe("receive", r.label)
    /\ pc' = "idle" /\ response' = r /\ outcome' = "returned"
    /\ UNCHANGED <<tools, batch, results, objected, ignored, worked>>

\* Its second half: llm_call has returned r, which is checked and returned.
llm_call_returns(r) ==
    /\ pc = "llm_call"
    /\ Checked("receive", r.label,
               /\ pc' = "idle" /\ response' = r /\ outcome' = "returned"
               /\ UNCHANGED <<tools, batch, results, objected, ignored, worked>>)

\* llm_call or response_adapter raises.
llm_call_raises == pc = "llm_call" /\ Raise("LlmError")

-----------------------------------------------------------------------------
(* ToolMiddleware.register, process and execute                             *)

\* A tool may be registered at any time the user's code runs.
register(name) ==
    /\ pc \in {"idle", "llm_call", "tool"}
    /\ tools' = tools \cup {name}
    /\ UNCHANGED <<monitor, pc, response, batch, results, outcome, objected, ignored, worked>>

\* Mutant: the list of results is not a new one.
process_keeps_results ==
    /\ pc = "idle" /\ response # None
    /\ pc' = "process" /\ batch' = response.tool_calls
    /\ UNCHANGED <<tools, monitor, response, results, outcome, objected, ignored, worked>>

process ==
    /\ pc = "idle" /\ response # None
    /\ pc' = "process" /\ batch' = response.tool_calls /\ results' = <<>>
    /\ UNCHANGED <<tools, monitor, response, outcome, objected, ignored, worked>>

Current == batch[Len(results) + 1]

\* execute up to the tool: an unknown one raises before the monitor is asked.
execute ==
    /\ pc = "process" /\ Len(results) < Len(batch)
    /\ \/ Current \notin tools /\ Raise("ValueError")
       \/ /\ Current \in tools
          /\ Checked("receive", recv_label[Current],
                     /\ pc' = "tool"
                     /\ worked' = worked + 1
                     /\ UNCHANGED <<tools, response, batch, results, outcome, objected, ignored>>)

\* Mutant: the result is kept without asking the monitor.
tool_returns_unreported ==
    /\ pc = "tool"
    /\ pc' = "process" /\ results' = Append(results, Current)
    /\ UNCHANGED <<tools, monitor, response, batch, outcome, objected, ignored, worked>>

\* The rest of execute: the tool has returned and its result is checked.
tool_returns ==
    /\ pc = "tool"
    /\ \E label \in result_label[Current]:
          Checked("send", label,
                  /\ pc' = "process" /\ results' = Append(results, Current)
                  /\ UNCHANGED <<tools, response, batch, outcome, objected, ignored, worked>>)

tool_raises == pc = "tool" /\ Raise("ToolError")

process_returns ==
    /\ pc = "process" /\ Len(results) = Len(batch)
    /\ pc' = "idle" /\ outcome' = "returned"
    /\ UNCHANGED <<tools, monitor, response, batch, results, objected, ignored, worked>>

-----------------------------------------------------------------------------
(* The loop                                                                 *)

\* monitor.send(label) with the verdict dropped.
report(label) ==
    /\ pc = "idle"
    /\ send(label)
    /\ ignored' = (ignored \/ result' # "Ok")
    /\ UNCHANGED <<progress, outcome, objected, worked>>

start_over ==
    /\ pc = "idle"
    /\ reset
    /\ objected' = FALSE /\ ignored' = FALSE /\ worked' = 0
    /\ UNCHANGED <<progress, outcome>>

LoopNext ==
    \/ \E label \in SendLabel: call(label)
    \/ \E r \in Response: llm_call_returns(r)
    \/ llm_call_raises
    \/ \E name \in Tool: register(name)
    \/ process \/ execute \/ tool_returns \/ tool_raises \/ process_returns
    \/ \E label \in Reported: report(label)
    \/ start_over

LoopSpec == LoopInit /\ [][LoopNext]_allVars

-----------------------------------------------------------------------------
(* Properties                                                               *)

\* The loop is at a step it has, and the results are those of the first calls.
LoopTypeOK ==
    /\ TypeOK
    /\ pc \in {"idle", "llm_call", "process", "tool"}
    /\ response \in Response \cup {None}
    /\ batch \in Seq(Tool) /\ tools \subseteq Tool
    /\ Len(results) <= Len(batch) /\ results = SubSeq(batch, 1, Len(results))
    /\ pc = "tool" => Current \in tools
    /\ outcome \in {"none", "returned", "ProtocolViolationError", "ValueError", "ToolError", "LlmError"}
    /\ objected \in BOOLEAN /\ ignored \in BOOLEAN /\ worked \in 0..Len(trace)

\* Over any number of calls, retries and exceptions the wrappers neither hide a
\* verdict nor invent one: an event of the trace was not accepted exactly if a
\* ProtocolViolationError said so or the loop itself dropped the verdict.
NothingSwallowed ==
    (objected \/ ignored) <=> \E i \in DOMAIN trace: past[i + 1].result # "Ok"

\* From the event that halts the monitor to the reset no LLM call and no tool is
\* begun, whichever wrapper the loop turns to.
HaltStopsWork == [][halted /\ halted' => worked' = worked]_allVars

\* When process returns, the monitor has accepted the request and the result of every
\* tool call of the response, in its order and with nothing between them.
ResultsWereAccepted ==
    [][pc = "process" /\ pc' = "idle" /\ outcome' = "returned" =>
          LET n == Len(trace) - 2 * Len(batch)
          IN  /\ n >= 0
              /\ \A k \in DOMAIN batch:
                    /\ trace[n + 2 * k - 1] = <<"receive", recv_label[batch[k]]>>
                    /\ trace[n + 2 * k][1] = "send" /\ trace[n + 2 * k][2] \in result_label[batch[k]]
                    /\ past[n + 2 * k].result = "Ok" /\ past[n + 2 * k + 1].result = "Ok"]_allVars

\* What the README shows: with the client's monitor given to the middleware, process
\* can be called on the response client.call has just returned.
ResponseCanBeProcessed ==
    [][(/\ pc = "process" /\ results = <<>>
        /\ trace[Len(trace)] = <<"receive", response.label>>
        /\ past[Len(past)].result = "Ok")
       => outcome' # "ProtocolViolationError"]_allVars

=============================================================================
