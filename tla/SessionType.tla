---------------------------- MODULE SessionType ----------------------------
(***************************************************************************)
(* The protocols of the DSL (llmcontract/dsl/ast.py) and what they mean.   *)
(*                                                                         *)
(* A protocol is a syntax tree.  Its meaning is given here without states: *)
(* what is left of a protocol after some events is a residual, a list of   *)
(* trees to go through in order.  end goes on with the next tree, a        *)
(* sequence puts its parts on the list, and a recursion variable drops     *)
(* what is left and goes back to what was left at its rec.  Module         *)
(* Automaton compiles the same trees to states.                            *)
(***************************************************************************)
EXTENDS Naturals, Sequences, FiniteSets, SequencesExt

\* The node classes of ast.py.
Send(label) == [kind |-> "send", label |-> label]
Receive(label) == [kind |-> "receive", label |-> label]
InternalChoice(branches) == [kind |-> "choice", direction |-> "send", branches |-> branches]
ExternalChoice(branches) == [kind |-> "choice", direction |-> "receive", branches |-> branches]
SequenceOf(left, right) == [kind |-> "sequence", left |-> left, right |-> right]
Recursion(var, body) == [kind |-> "rec", var |-> var, body |-> body]
RecVar(var) == [kind |-> "var", var |-> var]
End == [kind |-> "end"]

\* A branch of a choice; branches are a sequence, as a dict keeps their order.
Branch(label, body) == [label |-> label, body |-> body]

-----------------------------------------------------------------------------
(* Residuals                                                                *)

\* A recursion variable whose rec has been passed: go back to the residual there.
GoBack(residual) == [kind |-> "back", to |-> residual]

\* node with var bound to the residual at its rec; an inner rec of the same name
\* binds anew.
RECURSIVE Bind(_, _, _)
Bind(node, var, residual) ==
    CASE node.kind = "var" /\ node.var = var -> GoBack(residual)
      [] node.kind = "sequence" ->
            SequenceOf(Bind(node.left, var, residual), Bind(node.right, var, residual))
      [] node.kind = "choice" ->
            [node EXCEPT !.branches = [i \in DOMAIN node.branches |->
                [node.branches[i] EXCEPT !.body = Bind(@, var, residual)]]]
      [] node.kind = "rec" /\ node.var # var ->
            Recursion(node.var, Bind(node.body, var, residual))
      [] OTHER -> node

\* The residual brought to an action, or to <<>> when nothing is left.  seen
\* holds the residuals gone back to on the way: going back to one of them again
\* passes no event, so that nothing can ever happen.
Stuck == <<[kind |-> "stuck"]>>

RECURSIVE Unfold(_, _)
Unfold(residual, seen) ==
    IF residual = <<>> THEN <<>>
    ELSE LET node == Head(residual)
             rest == Tail(residual)
         IN  CASE node.kind = "end" -> Unfold(rest, seen)
               [] node.kind = "sequence" -> Unfold(<<node.left, node.right>> \o rest, seen)
               [] node.kind = "rec" ->
                     Unfold(<<Bind(node.body, node.var, residual)>> \o rest, seen)
               [] node.kind = "back" ->
                     IF node.to \in seen THEN Stuck ELSE Unfold(node.to, seen \cup {node.to})
               [] OTHER -> residual

Residual(trees) == Unfold(trees, {})

\* The events a residual allows: (direction, label) pairs.
Offers(residual) ==
    IF residual = <<>> THEN {}
    ELSE LET node == Head(residual)
         IN  CASE node.kind \in {"send", "receive"} -> {<<node.kind, node.label>>}
               [] node.kind = "choice" ->
                     {<<node.direction, node.branches[i].label>> : i \in DOMAIN node.branches}
               [] OTHER -> {}

\* What is left after one of them.
AfterEvent(residual, event) ==
    LET node == Head(residual)
        rest == Tail(residual)
    IN  IF node.kind = "choice"
        THEN LET i == CHOOSE j \in DOMAIN node.branches: node.branches[j].label = event[2]
             IN  Residual(<<node.branches[i].body>> \o rest)
        ELSE Residual(rest)

Complete(residual) == residual = <<>>

=============================================================================
