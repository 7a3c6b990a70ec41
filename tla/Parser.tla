------------------------------- MODULE Parser -------------------------------
(***************************************************************************)
(* parse (llmcontract/dsl/parser.py): the text of a protocol to its tree.  *)
(*                                                                         *)
(* A text is a sequence of tokens: the six signs of the grammar, and words *)
(* (_read_ident takes the longest run of identifier characters, and white  *)
(* space only separates).  rec and end are words too: they are keywords    *)
(* where an atom begins, and labels or variables elsewhere.  A parser      *)
(* takes tokens from the front and gives the node with the tokens that are *)
(* left; the position of a ParseError is left out.                         *)
(***************************************************************************)
EXTENDS SessionType

Signs == {"!", "?", "{", "}", ",", "."}

\* _peek() == token
At(tokens, token) == tokens # <<>> /\ Head(tokens) = token

\* _read_ident does not raise.
AtIdent(tokens) == tokens # <<>> /\ Head(tokens) \notin Signs

Parsed(node, rest) == [ok |-> TRUE, node |-> node, rest |-> rest]

ParseError == [ok |-> FALSE]

RECURSIVE _parse_protocol(_), _parse_atom(_), _parse_branches(_, _)

_parse_branch(tokens) ==
    IF ~AtIdent(tokens) THEN ParseError
    ELSE LET label == Head(tokens)
             rest == Tail(tokens)
             body == IF At(rest, ".") THEN _parse_protocol(Tail(rest)) ELSE Parsed(End, rest)
         IN  IF body.ok THEN Parsed(Branch(label, body.node), body.rest) ELSE ParseError

\* Mutant: a repeated label overwrites the branch, as a dict does.
_parse_branches_overwriting(tokens, branches) ==
    LET branch == _parse_branch(tokens)
        others == SelectSeq(branches, LAMBDA b: b.label # branch.node.label)
    IN  IF ~branch.ok THEN ParseError
        ELSE IF At(branch.rest, ",")
        THEN _parse_branches(Tail(branch.rest), Append(others, branch.node))
        ELSE Parsed(Append(others, branch.node), branch.rest)

\* branches holds the branches before tokens.
_parse_branches(tokens, branches) ==
    LET branch == _parse_branch(tokens)
    IN  IF ~branch.ok \/ \E i \in DOMAIN branches: branches[i].label = branch.node.label
        THEN ParseError
        ELSE IF At(branch.rest, ",")
        THEN _parse_branches(Tail(branch.rest), Append(branches, branch.node))
        ELSE Parsed(Append(branches, branch.node), branch.rest)

\* _parse_internal_choice and _parse_external_choice; tokens begin with "{".
_parse_choice(sign, tokens) ==
    LET branches == _parse_branches(Tail(tokens), <<>>)
    IN  IF branches.ok /\ At(branches.rest, "}")
        THEN Parsed(IF sign = "!" THEN InternalChoice(branches.node)
                    ELSE ExternalChoice(branches.node),
                    Tail(branches.rest))
        ELSE ParseError

\* _parse_send and _parse_receive.
_parse_action(sign, tokens) ==
    IF At(tokens, "{") THEN _parse_choice(sign, tokens)
    ELSE IF AtIdent(tokens)
    THEN Parsed(IF sign = "!" THEN Send(Head(tokens)) ELSE Receive(Head(tokens)), Tail(tokens))
    ELSE ParseError

_parse_rec(tokens) ==
    IF ~AtIdent(tokens) \/ ~At(Tail(tokens), ".") THEN ParseError
    ELSE LET body == _parse_protocol(Tail(Tail(tokens)))
         IN  IF body.ok THEN Parsed(Recursion(Head(tokens), body.node), body.rest)
             ELSE ParseError

_parse_atom(tokens) ==
    CASE At(tokens, "!") \/ At(tokens, "?") -> _parse_action(Head(tokens), Tail(tokens))
      [] At(tokens, "rec") -> _parse_rec(Tail(tokens))
      [] At(tokens, "end") -> Parsed(End, Tail(tokens))
      [] OTHER -> IF AtIdent(tokens) THEN Parsed(RecVar(Head(tokens)), Tail(tokens))
                  ELSE ParseError

_parse_protocol(tokens) ==
    LET left == _parse_atom(tokens)
    IN  IF ~left.ok \/ ~At(left.rest, ".") THEN left
        ELSE LET right == _parse_protocol(Tail(left.rest))
             IN  IF right.ok THEN Parsed(SequenceOf(left.node, right.node), right.rest)
                 ELSE ParseError

parse(tokens) ==
    LET protocol == _parse_protocol(tokens)
    IN  IF protocol.ok /\ protocol.rest = <<>> THEN protocol ELSE ParseError

-----------------------------------------------------------------------------
(* The grammar                                                              *)

\* The trees that the grammar in the comment of _Parser derives for a text, by
\* trying every way to split it.  A rec derives its body as far as any "." allows,
\* so that one text may have several trees.
RECURSIVE ProtocolTrees(_), AtomTrees(_), BranchLists(_)

BranchTrees(text) ==
    IF ~AtIdent(text) THEN {}
    ELSE IF Len(text) = 1 THEN {Branch(text[1], End)}
    ELSE IF text[2] = "."
    THEN {Branch(text[1], body) : body \in ProtocolTrees(SubSeq(text, 3, Len(text)))}
    ELSE {}

\* The places where text may be split at a sign.
Splits(text, sign) == {k \in 2..(Len(text) - 1): text[k] = sign}

Before(text, k) == SubSeq(text, 1, k - 1)
Behind(text, k) == SubSeq(text, k + 1, Len(text))

BranchLists(text) ==
    {<<b>> : b \in BranchTrees(text)}
        \cup UNION {{<<b>> \o bs : b \in BranchTrees(Before(text, k)),
                                   bs \in BranchLists(Behind(text, k))}
                     : k \in Splits(text, ",")}

AtomTrees(text) ==
    LET n == Len(text)
        action == n = 2 /\ text[1] \in {"!", "?"} /\ text[2] \notin Signs
        choice == n > 3 /\ text[1] \in {"!", "?"} /\ text[2] = "{" /\ text[n] = "}"
        recursion == n > 3 /\ text[1] = "rec" /\ text[2] \notin Signs /\ text[3] = "."
    IN  CASE action -> {IF text[1] = "!" THEN Send(text[2]) ELSE Receive(text[2])}
          [] choice -> {IF text[1] = "!" THEN InternalChoice(bs) ELSE ExternalChoice(bs)
                         : bs \in BranchLists(SubSeq(text, 3, n - 1))}
          [] recursion -> {Recursion(text[2], body) : body \in ProtocolTrees(Behind(text, 3))}
          [] n = 1 -> IF text[1] = "end" THEN {End}
                      ELSE IF text[1] \in Signs \cup {"rec"} THEN {} ELSE {RecVar(text[1])}
          [] OTHER -> {}

ProtocolTrees(text) ==
    AtomTrees(text)
        \cup UNION {{SequenceOf(l, r) : l \in AtomTrees(Before(text, k)),
                                        r \in ProtocolTrees(Behind(text, k))}
                     : k \in Splits(text, ".")}

\* No choice has two branches of one label, and no sequence goes on after a rec.
RECURSIVE WellRead(_)
WellRead(node) ==
    CASE node.kind = "sequence" ->
            node.left.kind # "rec" /\ WellRead(node.left) /\ WellRead(node.right)
      [] node.kind = "rec" -> WellRead(node.body)
      [] node.kind = "choice" ->
            /\ \A i, j \in DOMAIN node.branches:
                  node.branches[i].label = node.branches[j].label => i = j
            /\ \A i \in DOMAIN node.branches: WellRead(node.branches[i].body)
      [] OTHER -> TRUE

\* What a text means: its trees in which every rec reaches as far as it can.
Readings(text) == {tree \in ProtocolTrees(text): WellRead(tree)}

=============================================================================
