----------------------------- MODULE MCEmitter -----------------------------
(* Emitter on trees of depth three, with the meaning of what it writes. *)
EXTENDS SqlMeaning

VARIABLE root  \* the tree Emit was called with

Col(c) == [kind |-> "Col", name |-> c]
Lit(v, c) == [kind |-> "Lit", v |-> v, cast |-> c]
Bin(l, op, r) == [kind |-> "Bin", op |-> op, l |-> l, r |-> r]
Call(f, as, ns) == [kind |-> "Call", fn |-> f, args |-> as, named |-> ns]
Named(e) == [kind |-> "Named", val |-> e]
CastTo(e) == [kind |-> "Cast", e |-> e]
And(ps) == [kind |-> "And", parts |-> ps]
Or(ps) == [kind |-> "Or", parts |-> ps]
Not(e) == [kind |-> "Not", e |-> e]
Raw(s, as) == [kind |-> "Raw", sql |-> s, args |-> as]

MCValue == {"v1", "v2"}
MCWord == Punctuation \cup {"a", "b", "c", "f", "=", "+", "IN", "IS NULL", "?"}

\* Operands and the predicates generated code builds from them.
Operands == {Col("a"), Lit("v1", FALSE), Lit("v2", FALSE), Lit("v2", TRUE), Lit("nil", FALSE), Lit("nil", TRUE)}
Casts == {CastTo(Lit("v1", FALSE)), CastTo(Lit("v2", FALSE))}
Calls == {Call("f", <<Lit("v1", FALSE), CastTo(Lit("v2", FALSE))>>, <<>>),
          Call("f", <<Lit("v1", FALSE)>>, <<Named(Lit("v2", FALSE)), Named(Lit("v1", FALSE))>>),
          Call("f", <<>>, <<Named(Lit("v1", FALSE))>>),
          Call("f", <<>>, <<>>)}
Predicates ==
  {Bin(Col("a"), "=", r) : r \in (Operands \ {Col("a")}) \cup Casts \cup Calls}
BalancedRaws == {Raw(<<"b", "IN", "(", "?", ",", "?", ")">>, <<"v2", "nil">>),
                 Raw(<<"c", "IS NULL">>, <<>>)}

Leaf == {Bin(Col("a"), "=", Lit("v1", FALSE)), Bin(Col("a"), "=", Call("f", <<>>, <<Named(Lit("v1", FALSE))>>))}
        \cup BalancedRaws
Tuples(S) == {<<x>> : x \in S} \cup (S \X S)
Combine(S) == {And(t) : t \in Tuples(S)} \cup {Or(t) : t \in Tuples(S)} \cup {Not(x) : x \in S}
Level1 == Combine(Leaf)
Small1 == Combine({Bin(Col("a"), "=", Lit("v1", FALSE)), Raw(<<"b", "IN", "(", "?", ",", "?", ")">>, <<"v2", "nil">>)})
Level2 == Combine(Small1 \cup BalancedRaws)
Level3 == {Not(x) : x \in Level2} \cup {And(<<x, y>>) : x \in {Not(z) : z \in Small1}, y \in Small1}

MCExpr == Operands \cup Casts \cup Calls \cup Predicates \cup BalancedRaws \cup Leaf
          \cup Level1 \cup Small1 \cup Level2 \cup Level3
          \cup {And(<<>>), Or(<<>>)}

\* A Raw with a connective of its own, and the combinators around it.
OrRaw == Raw(<<"b", "IS NULL", "OR", "c", "IS NULL">>, <<>>)
RawExpr == Operands \cup Casts \cup Calls \cup Predicates \cup BalancedRaws \cup {OrRaw}
           \cup Combine(BalancedRaws \cup {Bin(Col("a"), "=", Lit("v1", FALSE)), OrRaw})

\* The trees keep what ConnectivesApartInvariant of EmitterProofs asks of them.
ASSUME TreesEnclose == OrRaw \notin Expr => Encloses({"AND", "OR"}) /\ RawsUnmixed

MCInit == Init /\ root = todo[1]
MCNext == Next /\ UNCHANGED root
MCSpec == MCInit /\ [][MCNext]_<<vars, root>>

\* Emit has returned.
Rendered == todo = <<>>

\* Postgres reads the finished text as the tree that was rendered: parentheses
\* are where precedence needs them, whatever And, Or and Not enclose, and the
\* placeholders resolve to the values of the tree (expr.go:84-123).
MeaningPreserved ==
  Rendered /\ root \notin {And(<<>>), Or(<<>>)} => SameMeaning(sb, args, root)
=============================================================================
