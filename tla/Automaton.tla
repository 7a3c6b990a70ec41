----------------------------- MODULE Automaton -----------------------------
(***************************************************************************)
(* Monitor(text): a text is parsed and compiled, and a monitor walks       *)
(* through the automaton beside the residual of the protocol the text      *)
(* stands for.                                                             *)
(*                                                                         *)
(* A text that is no protocol raises a ParseError, and one with a variable *)
(* that no rec binds a KeyError; the skill's validate.py calls Monitor for *)
(* just that.                                                              *)
(***************************************************************************)
EXTENDS Parser, Compiler

CONSTANT Texts          \* what Monitor is called with

VARIABLES
    text,           \* the text
    outcome,        \* of Monitor(text): "OK", "ParseError" or "KeyError"
    protocol,       \* what parse returned
    automaton,      \* Monitor._automaton
    current_state,  \* Monitor._current_state
    residual        \* history: what is left of the protocol

vars == <<text, outcome, protocol, automaton, current_state, residual>>

\* transitions.get(state, {})
Transitions(s) ==
    IF s \in DOMAIN automaton.transitions THEN automaton.transitions[s] ELSE <<>>

is_terminal(s) == s \in automaton.terminal_states

\* Monitor(text), parsed as given.
Monitor(parsed) ==
    LET compiled == IF parsed.ok THEN compile_ast(parsed.node) ELSE Empty
    IN  /\ outcome = IF ~parsed.ok THEN "ParseError"
                     ELSE IF compiled.key_error THEN "KeyError" ELSE "OK"
        /\ protocol = IF parsed.ok THEN parsed.node ELSE End
        /\ automaton = IF outcome = "OK" THEN compiled ELSE Empty
        /\ current_state = automaton.initial_state
        /\ residual = IF outcome = "OK" THEN Residual(<<protocol>>) ELSE Stuck

Init ==
    /\ text \in Texts
    /\ Monitor(parse(text))

\* The exit status of validate.py.
validate == IF outcome = "OK" THEN 0 ELSE 1

\* An event the automaton accepts.
Accept(key) ==
    /\ key \in DOMAIN Transitions(current_state)
    /\ current_state' = Transitions(current_state)[key]
    /\ residual' = IF key \in Offers(residual) THEN AfterEvent(residual, key) ELSE Stuck
    /\ UNCHANGED <<text, outcome, protocol, automaton>>

Next == \E key \in DOMAIN Transitions(current_state): Accept(key)

Spec == Init /\ [][Next]_vars

-----------------------------------------------------------------------------
(* Properties                                                               *)

States == DOMAIN automaton.transitions

\* The automaton is well formed: ids come from the counter, no alias is left in
\* the table, and a transition leads to a state of the table or to one whose
\* aliases only lead around in a circle.
TypeOK ==
    /\ States \subseteq 0..(automaton.next_id - 1) \ DOMAIN automaton.aliases
    /\ automaton.terminal_states \subseteq States
    /\ \A s \in States: \A key \in DOMAIN automaton.transitions[s]:
          LET target == automaton.transitions[s][key]
          IN  target \in States \/ target \in DOMAIN automaton.aliases

\* A text is read as the grammar in the comment of _Parser derives it, in the one
\* way in which every rec reaches as far as it can, and is a ParseError exactly
\* when there is none: no label is overwritten in the dict of a choice, nothing is
\* left over, rec and end are keywords where an atom begins and nowhere else.
ReadAsGrammar ==
    Readings(text) = IF outcome = "ParseError" THEN {} ELSE {protocol}

\* The variables no rec around them binds.
RECURSIVE FreeVariables(_)
FreeVariables(node) ==
    CASE node.kind = "var" -> {node.var}
      [] node.kind = "rec" -> FreeVariables(node.body) \ {node.var}
      [] node.kind = "sequence" -> FreeVariables(node.left) \cup FreeVariables(node.right)
      [] node.kind = "choice" ->
            UNION {FreeVariables(node.branches[i].body) : i \in DOMAIN node.branches}
      [] OTHER -> {}

\* What validate.py passes is a protocol without free variables, and every such
\* text passes: a misspelt event that parses as a variable is found (rec_env in
\* _compile), also where a rec of that name stands elsewhere in the text.
ValidIffClosed == validate = 0 <=> \E tree \in Readings(text): FreeVariables(tree) = {}

\* Wherever a monitor has come to, the automaton offers the events the protocol
\* offers there, no more and no fewer.  It is what the docstring of _resolve_aliases
\* promises ("A state X marked as an alias of T behaves like T for all observers"),
\* and false of the compiler: a sequence goes on from every leaf of its left part,
\* also from one that is a back edge already, and where its right part begins with
\* another variable the state is made to stand for that one instead.
OffersEverywhere == outcome = "OK" => DOMAIN Transitions(current_state) = Offers(residual)

\* The same of every text in which no back edge is replaced: a back edge sees all
\* branches of the choice it leads to, also those compiled after it (_resolve_aliases,
\* "the bug where a recursion back-edge inside a choice only saw the branches that
\* were compiled before it"), and a sequence goes on from every leaf of its left part,
\* with dead transitions where the leaf is a back edge.
OffersTheSame == automaton.rebound = {} => OffersEverywhere

\* In such a text a monitor is terminal exactly where nothing of the protocol is
\* left: terminal marks given while the left part of a sequence is compiled do not
\* survive where the sequence goes on (_compile, the Sequence case).
EndsTheSame ==
    outcome = "OK" /\ automaton.rebound = {}
        => (is_terminal(current_state) <=> Complete(residual))

=============================================================================
