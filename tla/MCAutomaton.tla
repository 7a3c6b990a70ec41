---------------------------- MODULE MCAutomaton ----------------------------
(* The texts of all small protocols the parser can produce (the left part   *)
(* of a sequence is never a sequence or a rec, a rec reaches as far right   *)
(* as it can), all short sequences of tokens, and all texts one token away  *)
(* from two longer ones.                                                    *)
EXTENDS Automaton

CONSTANTS Labels, MaxShort

Actions == {Send(l) : l \in Labels} \cup {Receive(l) : l \in Labels}

\* Choices whose first branch goes on in one set and whose second in another.
ChoicesOf(First, Second) ==
    LET one(l, x) == <<Branch(l, x)>>
        two(l, x, m, y) == <<Branch(l, x), Branch(m, y)>>
        all == {one(l, x) : l \in Labels, x \in First}
                 \cup UNION {{two(l, x, m, y) : x \in First, y \in Second, m \in Labels \ {l}}
                              : l \in Labels}
    IN  {InternalChoice(b) : b \in all} \cup {ExternalChoice(b) : b \in all}

Then(First, Second) == First \cup {SequenceOf(x, y) : x \in First, y \in Second}

Vars(names) == {RecVar(x) : x \in names}

\* Without choices, one variable bound or not.
Simple(names) == Actions \cup {End} \cup Vars(names)

Recs(x, bodies) == {Recursion(x, b) : b \in bodies}

\* One choice, or a sequence of one and something simple, in a loop.
Middle(names) == Then(ChoicesOf(Simple(names), Simple(names)), Simple(names))

\* A loop in a loop that goes back to either one, from a branch of a choice and from
\* behind the choice; and a loop whose choice has a loop of its own in one branch.
Nested ==
    LET either == Simple({"X", "Y"})
        own == Recs("Y", Then(Actions, either))
    IN  Recs("X", Then({Send("a")}, Recs("Y", Then(ChoicesOf(either, either), either))))
          \cup Recs("X", ChoicesOf({End}, Then(ChoicesOf(own, {End}), Simple({"X"}))))

MCProtocols ==
    LET inner == Recs("Y", Simple({"X", "Y"})) \cup Simple({"X"})
    IN  Recs("X", Middle({"X"}))
          \cup Recs("X", Then(Actions, Middle({"X"})))
          \cup Recs("X", ChoicesOf(inner, Simple({"X"})))
          \cup Then(ChoicesOf(Recs("X", Then(Actions, Simple({"X"}))), Simple({})), Simple({}))
          \cup Recs("X", Simple({"X"}))
          \cup Nested

\* A tree as it is written; end is left out behind a label.
RECURSIVE Written(_)
Written(node) ==
    LET body(branch) == IF branch.body = End THEN <<>> ELSE <<".">> \o Written(branch.body)
        branches(seq) == FlattenSeq([i \in DOMAIN seq |->
            (IF i = 1 THEN <<>> ELSE <<",">>) \o <<seq[i].label>> \o body(seq[i])])
        sign(direction) == IF direction = "send" THEN "!" ELSE "?"
    IN  CASE node.kind \in {"send", "receive"} -> <<sign(node.kind), node.label>>
          [] node.kind = "choice" ->
                <<sign(node.direction), "{">> \o branches(node.branches) \o <<"}">>
          [] node.kind = "sequence" -> Written(node.left) \o <<".">> \o Written(node.right)
          [] node.kind = "rec" -> <<"rec", node.var, ".">> \o Written(node.body)
          [] node.kind = "var" -> <<node.var>>
          [] node.kind = "end" -> <<"end">>

Tokens == Signs \cup {"a", "b", "X", "rec", "end"}

Short == UNION {[1..n -> Tokens \ {"?", "b"}] : n \in 0..MaxShort}

\* A variable bound in one branch and used in the other, a shadowed variable, and
\* a label and a variable that are keywords.
Long == {
    <<"!", "{", "a", ".", "rec", "X", ".", "?", "b", ".", "X", ",", "b", ".", "X", "}">>,
    <<"rec", "X", ".", "!", "a", ".", "?", "{", "a", ".", "rec", "X", ".", "!", "b", ".", "X",
      ",", "end", ".", "X", "}", ".", "!", "rec", ".", "rec", "end", ".", "end">>}

OneAway(seq) ==
    {seq} \cup {RemoveAt(seq, i) : i \in DOMAIN seq}
          \cup {[seq EXCEPT ![i] = t] : i \in DOMAIN seq, t \in Tokens}
          \cup {InsertAt(seq, i, t) : i \in 1..(Len(seq) + 1), t \in Tokens}

\* The texts in which a back edge may be replaced.
NestedTexts == {Written(p) : p \in Nested}

MCTexts == {Written(p) : p \in MCProtocols} \cup Short \cup UNION {OneAway(seq) : seq \in Long}

=============================================================================
