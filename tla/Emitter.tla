------------------------------ MODULE Emitter ------------------------------
(***************************************************************************)
(* The expression emitter of pgb's runtime: core/emit.go and core/expr.go. *)
(*                                                                         *)
(* An expression is a tree whose nodes render themselves by calling emit   *)
(* on their children in the middle of writing text.  The recursion of the  *)
(* Go methods is flattened into a stack, todo, of what is still to be      *)
(* written; one action is one node's emit method up to its first call on a *)
(* child.  The three fields of the Go struct emitter keep their names.     *)
(*                                                                         *)
(* Text is a sequence of tokens.  A placeholder token carries, besides the *)
(* number that is printed, the value v the tree had at that place: v is a  *)
(* history field, no action reads it.                                      *)
(***************************************************************************)
EXTENDS Integers, Sequences, FiniteSets

CONSTANTS
  Value,    \* what a caller binds: the non-nil values
  Nil,      \* Go's nil
  NoValue,  \* history value of a Raw placeholder no argument was given for
  Word,     \* the pieces of SQL text: names, operators, types, keywords
  Expr      \* the expression trees, closed under sub-expressions

Sym(s) == [kind |-> "sym", s |-> s]
Placeholder(k, v) == [kind |-> "ph", n |-> k, v |-> v]
IsPlaceholder(t) == t.kind = "ph"

Bound == Value \cup {Nil}
Text  == [kind : {"sym"}, s : Word]
Token == Text \cup [kind : {"ph"}, n : Int, v : Bound \cup {NoValue}]

\* A named argument of a Call: its emission is "name => " and the value's.
NamedArg == [kind : {"Named"}, val : Expr]

\* The shapes an Expr may have; its children are Exprs again.
ExprShape(e) ==
  \/ e.kind = "Col"  /\ e.name \in Word
  \/ e.kind = "Lit"  /\ e.v \in Bound /\ e.cast \in BOOLEAN
  \/ e.kind = "Bin"  /\ e.op \in Word /\ e.l \in Expr /\ e.r \in Expr
  \/ e.kind = "Call" /\ e.fn \in Word /\ e.args \in Seq(Expr) /\ e.named \in Seq(NamedArg)
  \/ e.kind = "Cast" /\ e.e \in Expr
  \/ e.kind \in {"And", "Or"} /\ e.parts \in Seq(Expr)
  \/ e.kind = "Not"  /\ e.e \in Expr
  \/ e.kind = "Raw"  /\ e.sql \in Seq(Word) /\ e.args \in Seq(Bound)

\* What the emit methods of expr.go and emitter.param write themselves.
Punctuation == {"(", ")", ",", "AND", "OR", "NOT", "NULL", "::", "=>"}

ASSUME WordAssumption == Punctuation \subseteq Word
ASSUME ExprAssumption == \A e \in Expr : ExprShape(e)
ASSUME NilAssumption == Nil \notin Value /\ NoValue \notin Value \cup {Nil}

VARIABLES
  todo,  \* what the pending emit calls have still to write, in order
  sb,    \* emitter.sb: the text written
  args,  \* emitter.args: the bound arguments
  n      \* emitter.n: the number of the last placeholder
vars == <<todo, sb, args, n>>

Item == Expr \cup NamedArg \cup Text

\* What is to write is items, what is written tokens, and emitter's args and n
\* are what emit.go declares.
TypeOK ==
  /\ todo \in Seq(Item)
  /\ sb \in Seq(Token)
  /\ args \in Seq(Bound)
  /\ n \in Nat
-----------------------------------------------------------------------------
(* Helpers *)

\* items[1], sep, items[2], sep, ... : the comma and AND loops.
Joined(items, sep) ==
  [i \in 1 .. (2 * Len(items) - 1) |->
     IF i % 2 = 1 THEN items[(i + 1) \div 2] ELSE sep]

\* emitJoined: nothing for no part, the bare part for one, else a list that
\* is parenthesised on request.
emitJoined(parts, sep, parens) ==
  IF Len(parts) <= 1 \/ ~parens
    THEN Joined(parts, Sym(sep))
    ELSE <<Sym("(")>> \o Joined(parts, Sym(sep)) \o <<Sym(")")>>

\* The ?s of a Raw text, and how many there are up to position i.
Marks(sql) == {i \in DOMAIN sql : sql[i] = "?"}
Ordinal(sql, i) == Cardinality({j \in Marks(sql) : j <= i})

\* replaceQs: every ? becomes a placeholder, numbered from start on.
replaceQs(sql, start, vs) ==
  [i \in DOMAIN sql |->
     IF sql[i] = "?"
       THEN LET k == Ordinal(sql, i) IN
            Placeholder(start + k - 1, IF k \in DOMAIN vs THEN vs[k] ELSE NoValue)
       ELSE Sym(sql[i])]

\* "::type" after a value, when the literal has a cast hint.
CastSuffix(cast) == IF cast THEN <<Sym("::")>> ELSE <<>>
-----------------------------------------------------------------------------
(* The steps.  Now(kind) says that the next thing to write is of that kind; *)
(* Push replaces it by the items its emit method goes through.              *)

Now(kind) == todo # <<>> /\ Head(todo).kind = kind
Push(items) == /\ todo' = items \o Tail(todo)
               /\ UNCHANGED <<sb, args, n>>
Write(tokens) == /\ sb' = sb \o tokens
                 /\ todo' = Tail(todo)

\* emitter.str
Str == Now("sym") /\ Write(<<Head(todo)>>) /\ UNCHANGED <<args, n>>

\* Col.emit
EmitCol == Now("Col") /\ Write(<<Sym(Head(todo).name)>>) /\ UNCHANGED <<args, n>>

\* Lit.emit, that is emitter.param: a nil value is the text NULL ...
ParamNull ==
  /\ Now("Lit")
  /\ Head(todo).v = Nil
  /\ Write(<<Sym("NULL")>> \o CastSuffix(Head(todo).cast))
  /\ UNCHANGED <<args, n>>

\* Mutant: the placeholder is numbered before the argument is counted.
ParamZeroBased ==
  /\ Now("Lit")
  /\ Head(todo).v # Nil
  /\ n' = n + 1
  /\ args' = Append(args, Head(todo).v)
  /\ Write(<<Placeholder(n, Head(todo).v)>> \o CastSuffix(Head(todo).cast))

\* ... any other value is bound and its placeholder written.
Param ==
  /\ Now("Lit")
  /\ Head(todo).v # Nil
  /\ n' = n + 1
  /\ args' = Append(args, Head(todo).v)
  /\ Write(<<Placeholder(n', Head(todo).v)>> \o CastSuffix(Head(todo).cast))

EmitBin ==
  Now("Bin") /\ LET e == Head(todo) IN Push(<<e.l, Sym(e.op), e.r>>)

EmitCall ==
  /\ Now("Call")
  /\ LET e == Head(todo) IN
     Push(<<Sym(e.fn), Sym("(")>> \o Joined(e.args \o e.named, Sym(",")) \o <<Sym(")")>>)

EmitNamed == Now("Named") /\ Push(<<Sym("=>"), Head(todo).val>>)

EmitCast == Now("Cast") /\ Push(<<Head(todo).e, Sym("::")>>)

EmitAnd == Now("And") /\ Push(emitJoined(Head(todo).parts, "AND", TRUE))

\* Mutant: a disjunction relies on the node around it for parentheses.
EmitOrBare == Now("Or") /\ Push(emitJoined(Head(todo).parts, "OR", FALSE))
EmitOr  == Now("Or")  /\ Push(emitJoined(Head(todo).parts, "OR", TRUE))

\* Mutant: NOT copies its operand unrendered.
EmitNotUnrendered == Now("Not") /\ Write(<<Sym("NOT"), Head(todo).e>>) /\ UNCHANGED <<args, n>>

\* NOT parenthesises the combinators and nothing else.
EmitNot ==
  /\ Now("Not")
  /\ LET e == Head(todo).e IN
     Push(IF e.kind \in {"And", "Or", "Not"}
            THEN <<Sym("NOT"), Sym("("), e, Sym(")")>>
            ELSE <<Sym("NOT"), e>>)

\* Mutant: the start number is taken after binding.
EmitRawLateStart ==
  /\ Now("Raw")
  /\ LET r == Head(todo) IN
     /\ n' = n + Len(r.args)
     /\ args' = args \o r.args
     /\ Write(replaceQs(r.sql, n' + 1, r.args))

\* Raw.emit: the start number is taken first, all arguments are bound (nil
\* ones too), then the renumbered text is written.
EmitRaw ==
  /\ Now("Raw")
  /\ LET r == Head(todo) IN
     /\ n' = n + Len(r.args)
     /\ args' = args \o r.args
     /\ Write(replaceQs(r.sql, n + 1, r.args))

Next == \/ Str \/ EmitCol \/ ParamNull \/ Param \/ EmitBin \/ EmitCall \/ EmitNamed
        \/ EmitCast \/ EmitAnd \/ EmitOr \/ EmitNot \/ EmitRaw

\* Emit: a fresh emitter for each tree.
Init == /\ todo \in {<<e>> : e \in Expr}
        /\ sb = <<>> /\ args = <<>> /\ n = 0

Spec == Init /\ [][Next]_vars
-----------------------------------------------------------------------------
(* Properties *)

\* The contract Raw leaves to its callers: as many ?s as arguments.
RawBalanced ==
  \A e \in Expr : e.kind = "Raw" => Cardinality(Marks(e.sql)) = Len(e.args)

\* How many parentheses are open after position i of a text, and what a Raw
\* writes besides its placeholders.
Level(ts, i) == Cardinality({j \in 1 .. i : ts[j] = Sym("(")}) - Cardinality({j \in 1 .. i : ts[j] = Sym(")")})
RawText(e) == [i \in DOMAIN e.sql |-> Sym(e.sql[i])]

\* Two places are in one group: nothing between them lies outside of it.
OneGroup(ts, i, j) ==
  /\ Level(ts, i) = Level(ts, j)
  /\ \A k \in (i .. j) \cup (j .. i) : Level(ts, k) >= Level(ts, i)
Unmixed(ts) ==
  \A i, j \in DOMAIN ts : ts[i] = Sym("AND") /\ ts[j] = Sym("OR") => ~OneGroup(ts, i, j)

\* What a text that is a part of another one must not do: write the words W
\* outside parentheses, or leave parentheses open.  Column names are quoted, and
\* operators and functions are single words, so it is a Raw that could.
Encloses(W) ==
  \A e \in Expr :
    /\ e.kind = "Col" => e.name \notin W \cup {"(", ")"}
    /\ e.kind = "Bin" => e.op \notin W \cup {"(", ")"}
    /\ e.kind = "Call" => e.fn \notin W \cup {"(", ")"}
    /\ e.kind = "Raw" =>
         /\ \A i \in DOMAIN e.sql : /\ Level(RawText(e), i) >= 0
                                    /\ Level(RawText(e), i) = 0 => e.sql[i] \notin W
         /\ Level(RawText(e), Len(e.sql)) = 0

\* Every tree renders to something: combinators have parts and Raws a text.
NoBlank ==
  \A e \in Expr : /\ e.kind \in {"And", "Or"} => e.parts # <<>>
                  /\ e.kind = "Raw" => e.sql # <<>>

\* No Raw mixes the connectives itself.
RawsUnmixed == \A e \in Expr : e.kind = "Raw" => Unmixed(RawText(e))

\* The placeholders in the tokens ts are $(a+1) .. $b, in this order, each once.
Consecutive(ts, a, b) ==
  /\ \A i \in DOMAIN ts : IsPlaceholder(ts[i]) => ts[i].n \in (a + 1) .. b
  /\ \A i, j \in DOMAIN ts :
        i < j /\ IsPlaceholder(ts[i]) /\ IsPlaceholder(ts[j]) => ts[i].n < ts[j].n
  /\ \A k \in (a + 1) .. b : \E i \in DOMAIN ts : IsPlaceholder(ts[i]) /\ ts[i].n = k

\* Whatever is written, the placeholders in the text are exactly $1 .. $n, and
\* there is one argument for each: no argument is unused (the server refuses
\* such a statement) and none is shared by two places.
Numbering == n = Len(args) /\ Consecutive(sb, 0, n)

\* The placeholders in the tokens ts refer to the values they were written for.
Resolves(ts, vs) ==
  \A i \in DOMAIN ts :
     IsPlaceholder(ts[i]) /\ ts[i].v # NoValue =>
        ts[i].n \in DOMAIN vs /\ vs[ts[i].n] = ts[i].v

\* A placeholder stands for the value the tree had at its place.  It needs no
\* contract: a Raw with too many or too few ?s never shifts the values of the
\* literals and of the other Raws around it.
Binding == n = Len(args) /\ Resolves(sb, args)

\* expr.go:84-123: And and Or parenthesise themselves, so an AND and an OR never
\* stand in one group, where precedence would decide which binds first, however
\* the combinators are nested and whatever encloses them.
ConnectivesApart == Unmixed(sb)
=============================================================================
