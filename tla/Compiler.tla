------------------------------ MODULE Compiler ------------------------------
(***************************************************************************)
(* compile_ast (llmcontract/monitor/automaton.py): the tree of a protocol  *)
(* compiled to the finite automaton a Monitor follows.                     *)
(*                                                                         *)
(* The compiler threads one automaton through a recursion over the tree.   *)
(* It gives a state id to the target of every action, marks states         *)
(* terminal and unmarks them when a sequence goes on, and records a        *)
(* recursion variable as an alias of the state of its rec; the aliases are *)
(* resolved at the end.  A variable that no rec binds is a KeyError, which *)
(* ends the compilation.                                                   *)
(***************************************************************************)
EXTENDS SessionType, TLC

\* Automaton(): the dataclass with its defaults; rebound is history, the states that
\* stood for one target and were then made to stand for another.
Empty == [transitions     |-> <<>>,
          terminal_states |-> {},
          initial_state   |-> 0,
          next_id         |-> 0,
          aliases         |-> <<>>,
          key_error       |-> FALSE,
          rebound         |-> {}]

_new_state(aut) ==
    [aut EXCEPT !.next_id = @ + 1,
                !.transitions = (aut.next_id :> <<>>) @@ @]

\* aut.transitions[from][key] = a new state, which is aut.next_id.
Connect(aut, from, key) ==
    [_new_state(aut) EXCEPT !.transitions[from] = (key :> aut.next_id) @@ @]

MarkTerminal(aut, state) == [aut EXCEPT !.terminal_states = @ \cup {state}]

\* Mutant: the mark of a state where a sequence goes on is left.
KeepMark(aut, state) == aut

Unmark(aut, state) == [aut EXCEPT !.terminal_states = @ \ {state}]

\* Mutant: a back edge copies the transitions its target has by then.
CopyTransitions(aut, state, target) ==
    [aut EXCEPT !.transitions[state] = aut.transitions[target]]

\* A back edge: state stands for target, also where it stood for another.
Alias(aut, state, target) ==
    [aut EXCEPT !.aliases = (state :> target) @@ @,
                !.rebound = @ \cup {s \in DOMAIN aut.aliases \cap {state} :
                                        aut.aliases[s] # target}]

\* Mutant: a variable that no rec binds stands for where it is.
BackEdge_defaults(aut, state, var, rec_env) ==
    IF var \in DOMAIN rec_env THEN Alias(aut, state, rec_env[var]) ELSE Alias(aut, state, state)

\* rec_env[var] raises, or the state becomes a back edge to it.
BackEdge(aut, state, var, rec_env) ==
    IF var \in DOMAIN rec_env THEN Alias(aut, state, rec_env[var])
    ELSE [aut EXCEPT !.key_error = TRUE]

\* The states a compiled node ends in; the sequence may hold a state twice.
RECURSIVE _collect_leaf_states(_, _, _)
_collect_leaf_states(node, current, aut) ==
    LET target(key) == IF key \in DOMAIN aut.transitions[current]
                       THEN <<aut.transitions[current][key]>> ELSE <<>>
        leaves(n, states) ==
            FlattenSeq([i \in DOMAIN states |-> _collect_leaf_states(n, states[i], aut)])
    IN  CASE node.kind \in {"send", "receive"} -> target(<<node.kind, node.label>>)
          [] node.kind = "choice" ->
                FlattenSeq([i \in DOMAIN node.branches |->
                    leaves(node.branches[i].body,
                           target(<<node.direction, node.branches[i].label>>))])
          [] node.kind = "sequence" ->
                leaves(node.right, _collect_leaf_states(node.left, current, aut))
          [] node.kind = "rec" -> _collect_leaf_states(node.body, current, aut)
          [] node.kind \in {"end", "var"} -> <<current>>

RECURSIVE _compile(_, _, _, _)
_compile(node, current, aut, rec_env) ==
    CASE node.kind = "end" -> MarkTerminal(aut, current)
      [] node.kind \in {"send", "receive"} ->
            MarkTerminal(Connect(aut, current, <<node.kind, node.label>>), aut.next_id)
      [] node.kind = "choice" ->
            FoldLeft(LAMBDA a, branch:
                         _compile(branch.body, a.next_id,
                                  Connect(a, current, <<node.direction, branch.label>>),
                                  rec_env),
                     aut, node.branches)
      [] node.kind = "sequence" ->
            LET left == _compile(node.left, current, aut, rec_env)
            IN  FoldLeft(LAMBDA a, leaf:
                             _compile(node.right, leaf, Unmark(a, leaf), rec_env),
                         left, _collect_leaf_states(node.left, current, left))
      [] node.kind = "rec" ->
            _compile(node.body, current, aut, (node.var :> current) @@ rec_env)
      [] node.kind = "var" -> BackEdge(aut, current, node.var, rec_env)

\* The state at the end of a chain of aliases, or the first one seen twice.
RECURSIVE Canonical(_, _, _)
Canonical(aut, state, seen) ==
    IF state \in DOMAIN aut.aliases \ seen
    THEN Canonical(aut, aut.aliases[state], seen \cup {state})
    ELSE state

\* Mutant: the terminal marks of aliased states are left.
_resolve_transitions_only(aut) ==
    LET aliased == DOMAIN aut.aliases
        canonical(s) == Canonical(aut, s, {})
        kept == DOMAIN aut.transitions \ aliased
    IN  [aut EXCEPT
            !.transitions = [s \in kept |->
                [key \in DOMAIN aut.transitions[s] |-> canonical(aut.transitions[s][key])]],
            !.initial_state = IF @ \in aliased THEN canonical(@) ELSE @]

_resolve_aliases(aut) ==
    LET aliased == DOMAIN aut.aliases
        canonical(s) == Canonical(aut, s, {})
        kept == DOMAIN aut.transitions \ aliased
    IN  [aut EXCEPT
            !.transitions = [s \in kept |->
                [key \in DOMAIN aut.transitions[s] |-> canonical(aut.transitions[s][key])]],
            !.terminal_states = @ \ aliased,
            !.initial_state = IF @ \in aliased THEN canonical(@) ELSE @]

compile_ast(node) == _resolve_aliases(_compile(node, 0, _new_state(Empty), <<>>))

=============================================================================
