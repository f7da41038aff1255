----------------------------- MODULE SqlMeaning -----------------------------
(***************************************************************************)
(* What Postgres understands when it reads the text of a predicate, and    *)
(* what the tree the text was made from means.  The connectives bind as in *)
(* SQL: NOT, then AND, then OR, weakest last; parentheses override.  Any   *)
(* text without a connective outside parentheses is an atom.  An atom is   *)
(* identified by its text with every placeholder replaced by the argument  *)
(* it refers to, and a valuation is the set of the atoms that are true.    *)
(***************************************************************************)
EXTENDS Emitter, SequencesExt

\* Resolve the placeholders of the tokens ts with the arguments vs.
Resolve(ts, vs) ==
  [i \in DOMAIN ts |->
     IF ts[i].kind = "sym" THEN <<"sym", ts[i].s>>
     ELSE IF ts[i].n \in DOMAIN vs THEN <<"arg", vs[ts[i].n]>>
     ELSE <<"unbound", ts[i].n>>]

LOCAL Is(w, s) == w[1] = "sym" /\ w[2] = s

\* Nesting depth just before position i.
Depth(ws, i) == Cardinality({j \in 1 .. (i - 1) : Is(ws[j], "(")})
                - Cardinality({j \in 1 .. (i - 1) : Is(ws[j], ")")})

TopLevel(ws, s) == {i \in DOMAIN ws : Is(ws[i], s) /\ Depth(ws, i) = 0}
First(S) == CHOOSE i \in S : \A j \in S : i <= j

\* The whole text is one parenthesised group.
Wrapped(ws) == /\ Len(ws) >= 2 /\ Is(ws[1], "(") /\ Is(Last(ws), ")")
               /\ \A i \in 2 .. Len(ws) : Depth(ws, i) > 0

\* The truth of a text when exactly the atoms in T are true.
RECURSIVE Truth(_, _)
Truth(ws, T) ==
  LET Split(s) == LET p == First(TopLevel(ws, s)) IN
                  <<Truth(SubSeq(ws, 1, p - 1), T), Truth(SubSeq(ws, p + 1, Len(ws)), T)>>
  IN CASE TopLevel(ws, "OR") # {}  -> LET v == Split("OR") IN v[1] \/ v[2]
       [] TopLevel(ws, "OR") = {} /\ TopLevel(ws, "AND") # {} ->
            LET v == Split("AND") IN v[1] /\ v[2]
       [] OTHER -> IF ws # <<>> /\ Is(ws[1], "NOT") THEN ~Truth(Tail(ws), T)
                   ELSE IF Wrapped(ws) THEN Truth(SubSeq(ws, 2, Len(ws) - 1), T)
                   ELSE ws \in T

\* The atoms of a text: those Truth would look up.
RECURSIVE AtomsOf(_)
AtomsOf(ws) ==
  LET At(s) == LET p == First(TopLevel(ws, s)) IN
               AtomsOf(SubSeq(ws, 1, p - 1)) \cup AtomsOf(SubSeq(ws, p + 1, Len(ws)))
  IN IF TopLevel(ws, "OR") # {} THEN At("OR")
     ELSE IF TopLevel(ws, "AND") # {} THEN At("AND")
     ELSE IF ws # <<>> /\ Is(ws[1], "NOT") THEN AtomsOf(Tail(ws))
     ELSE IF Wrapped(ws) THEN AtomsOf(SubSeq(ws, 2, Len(ws) - 1))
     ELSE {ws}

\* The words of a tree that is no combinator, read off the tree itself.
RECURSIVE Words(_)
Words(e) ==
  LET List(es) == FlattenSeq([i \in DOMAIN es |->
                     (IF i > 1 THEN <<<<"sym", ",">>>> ELSE <<>>) \o Words(es[i])])
      Given(i) == Cardinality({j \in 1 .. i : e.sql[j] = "?"})
  IN CASE e.kind = "Col"   -> <<<<"sym", e.name>>>>
       [] e.kind = "Lit"   -> <<IF e.v = Nil THEN <<"sym", "NULL">> ELSE <<"arg", e.v>>>>
                              \o (IF e.cast THEN <<<<"sym", "::">>>> ELSE <<>>)
       [] e.kind = "Bin"   -> Words(e.l) \o <<<<"sym", e.op>>>> \o Words(e.r)
       [] e.kind = "Cast"  -> Words(e.e) \o <<<<"sym", "::">>>>
       [] e.kind = "Named" -> <<<<"sym", "=>">>>> \o Words(e.val)
       [] e.kind = "Call"  -> <<<<"sym", e.fn>>, <<"sym", "(">>>>
                              \o List(e.args \o e.named) \o <<<<"sym", ")">>>>
       [] e.kind = "Raw"   -> [i \in DOMAIN e.sql |->
                                 IF e.sql[i] = "?" THEN <<"arg", e.args[Given(i)]>>
                                 ELSE <<"sym", e.sql[i]>>]

\* The truth of a tree: combinators by their definition, a Raw by its own text.
RECURSIVE Holds(_, _)
Holds(e, T) ==
  CASE e.kind = "And" -> \A i \in DOMAIN e.parts : Holds(e.parts[i], T)
    [] e.kind = "Or"  -> \E i \in DOMAIN e.parts : Holds(e.parts[i], T)
    [] e.kind = "Not" -> ~Holds(e.e, T)
    [] OTHER -> Truth(Words(e), T)

RECURSIVE TreeAtoms(_)
TreeAtoms(e) ==
  CASE e.kind \in {"And", "Or"} -> UNION {TreeAtoms(e.parts[i]) : i \in DOMAIN e.parts}
    [] e.kind = "Not" -> TreeAtoms(e.e)
    [] OTHER -> AtomsOf(Words(e))

\* The text ts with arguments vs says what the tree e says.
SameMeaning(ts, vs, e) ==
  LET ws == Resolve(ts, vs) IN
  \A T \in SUBSET (TreeAtoms(e) \cup AtomsOf(ws)) : Truth(ws, T) = Holds(e, T)
=============================================================================
