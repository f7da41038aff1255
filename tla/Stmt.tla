-------------------------------- MODULE Stmt --------------------------------
(***************************************************************************)
(* The statement builders of core/stmt.go and core/listopt.go, over the    *)
(* emitter.  A program owns a few builder objects, calls their fluent      *)
(* setters in any order, renders them with SQL() as often as it likes and  *)
(* goes on changing them afterwards.  A builder is a pointer: a Select     *)
(* used as a CTE is the same object as the one the caller still holds.     *)
(*                                                                         *)
(* SQL() starts a fresh emitter and is then one step per node, by the      *)
(* actions of Emitter and those below for the statement level.             *)
(***************************************************************************)
EXTENDS Emitter, SequencesExt

CONSTANTS
  Builder,    \* the builder objects, numbered
  None,       \* no statement, no builder
  Table,      \* the word a table reference renders to
  Column,     \* the words that the names of columns render to
  Predicates, \* what callers pass to Where, Nil aside
  ListExprs,  \* what callers pass as columns, group, order and SET expressions
  Limits,     \* the integers callers pass to Limit, Offset and ListOpt
  MaxCalls    \* bound on the number of calls

\* What the emit methods of stmt.go write themselves.
StatementWords ==
  {"WITH", "cte", "AS", "SELECT", "DISTINCT ON", "*", "FROM", "WHERE", "GROUP BY", "HAVING",
   "ORDER BY", "ASC", "DESC", "LIMIT", "OFFSET", "FOR UPDATE", "INSERT INTO", "VALUES",
   "DEFAULT VALUES", "ON CONFLICT", "DO NOTHING", "DO UPDATE SET", "UPDATE", "SET", "=",
   "DELETE FROM", "RETURNING"}

\* The integers that become a LIMIT or an OFFSET, each bound as a literal is.
Page == {i \in Limits : i > 0}
PageLit(i) == [kind |-> "Lit", v |-> i, cast |-> FALSE]

ASSUME StmtAssumption ==
  /\ Builder \subseteq Nat /\ Limits \subseteq Int /\ MaxCalls \in Nat
  /\ Predicates \subseteq Expr /\ ListExprs \subseteq Expr
  /\ Page \subseteq Value /\ \A i \in Page : PageLit(i) \in Expr
  /\ StatementWords \cup {Table} \cup Column \subseteq Word

VARIABLES
  stmt,   \* the builder objects
  cur,    \* the builder whose SQL() is running, or None
  out,    \* the last result of SQL(), per builder: what Run and Exec send
  asked,  \* history: the predicates and the page the caller asked for
  calls   \* number of calls made
stmtVars == <<stmt, cur, out, asked, calls>>
allVars == <<vars, stmtVars>>

\* The Go structs: one ORDER BY term, one assignment, OnConflict and ListOpt ...
SortTerm == [e : ListExprs \cup {Nil}, desc : BOOLEAN]
Assignment == [col : Column, e : ListExprs \cup {Nil}]
ConflictClause == [target : Seq(Column), doNothing : BOOLEAN, sets : Seq(Assignment),
                   where : Predicates \cup {Nil}]
ListOption == [limit : Limits, offset : Limits, order : Seq(SortTerm)]

\* ... and the statements, a Select with CTEs among the builders B.
SelectOver(B) ==
  [kind : {"Select"}, cols : Seq(Expr), where : Seq(Expr), group : Seq(Expr),
   having : Predicates \cup {Nil}, order : Seq(SortTerm), limit : Page \cup {Nil},
   offset : Page \cup {Nil}, distinctOn : Seq(Expr), lock : BOOLEAN, ctes : Seq(B)]
UpdateShape == [kind : {"Update"}, sets : Seq(Assignment), where : Seq(Expr), returning : Seq(Expr)]
DeleteShape == [kind : {"Delete"}, where : Seq(Expr), returning : Seq(Expr)]
InsertShape == [kind : {"Insert"}, cols : Seq(Column), rows : Seq(Seq(Expr)),
                onConflict : ConflictClause \cup {Nil}, returning : Seq(Expr)]
StatementOver(B) == SelectOver(B) \cup UpdateShape \cup DeleteShape \cup InsertShape

ASSUME NoneAssumption == None \notin Builder /\ None \notin StatementOver(Builder)

\* What the caller asked of a builder, and what one SQL() returned for it.
Ask == [preds : SUBSET Predicates, limit : Page \cup {0}, offset : Page \cup {0}]
Result == [err : {"nil", "ErrNoWhere"}, sql : Seq(Token), args : Seq(Bound), asked : Ask]

EmptySelect(cols) ==
  [kind |-> "Select", cols |-> cols, where |-> <<>>, group |-> <<>>, having |-> Nil,
   order |-> <<>>, limit |-> Nil, offset |-> Nil, distinctOn |-> <<>>, lock |-> FALSE,
   ctes |-> <<>>]
EmptyUpdate == [kind |-> "Update", sets |-> <<>>, where |-> <<>>, returning |-> <<>>]
EmptyDelete == [kind |-> "Delete", where |-> <<>>, returning |-> <<>>]
EmptyInsert(cols, rows) ==
  [kind |-> "Insert", cols |-> cols, rows |-> rows, onConflict |-> Nil, returning |-> <<>>]

Nothing == [preds |-> {}, limit |-> 0, offset |-> 0]
-----------------------------------------------------------------------------
(* What the emit methods go through *)

ExprList(es) == Joined(es, Sym(","))
IdentList(cols) == Joined([i \in DOMAIN cols |-> Sym(cols[i])], Sym(","))

\* A clause is left out when it has nothing to say.
Clause(word, items) == IF items = <<>> THEN <<>> ELSE <<Sym(word)>> \o items
InParens(items) == <<Sym("(")>> \o items \o <<Sym(")")>>

\* Mutant: the keyword is written for an empty list, too.
WhereClauseUnguarded(conjuncts) == <<Sym("WHERE")>> \o Joined(conjuncts, Sym("AND"))

\* "if len(where) > 0": it is the list that counts, not what it renders to.
WhereClause(conjuncts) ==
  IF conjuncts = <<>> THEN <<>> ELSE <<Sym("WHERE")>> \o emitJoined(conjuncts, "AND", FALSE)

\* emitSets: a nil expression is NULL.
Assign(set) ==
  <<Sym(set.col), Sym("=")>> \o (IF set.e = Nil THEN <<Sym("NULL")>> ELSE <<set.e>>)
emitSets(sets) ==
  FlattenSeq([i \in DOMAIN sets |-> (IF i > 1 THEN <<Sym(",")>> ELSE <<>>) \o Assign(sets[i])])

\* One ORDER BY term; a nil expression is skipped after its comma.
Term(o) == IF o.e = Nil THEN <<>> ELSE <<o.e, Sym(IF o.desc THEN "DESC" ELSE "ASC")>>
OrderTerms(os) ==
  FlattenSeq([i \in DOMAIN os |-> (IF i > 1 THEN <<Sym(",")>> ELSE <<>>) \o Term(os[i])])

Sub(b) == [kind |-> "Stmt", b |-> b]
Bounded(word, i) == IF i = Nil THEN <<>>
                    ELSE <<Sym(word), PageLit(i)>>

\* One CTE: the Select it holds is emitted in its place.
Cte(b) == <<Sym("cte"), Sym("AS")>> \o InParens(<<Sub(b)>>)
CTEs(bs) ==
  IF bs = <<>> THEN <<>>
  ELSE <<Sym("WITH")>>
       \o FlattenSeq([i \in DOMAIN bs |-> (IF i > 1 THEN <<Sym(",")>> ELSE <<>>) \o Cte(bs[i])])

SelectItems(s) ==
  CTEs(s.ctes)
  \o <<Sym("SELECT")>>
  \o (IF s.distinctOn = <<>> THEN <<>> ELSE <<Sym("DISTINCT ON")>> \o InParens(ExprList(s.distinctOn)))
  \o (IF s.cols = <<>> THEN <<Sym("*")>> ELSE ExprList(s.cols))
  \o <<Sym("FROM"), Sym(Table)>>
  \o WhereClause(s.where)
  \o Clause("GROUP BY", ExprList(s.group))
  \o (IF s.having = Nil THEN <<>> ELSE <<Sym("HAVING"), s.having>>)
  \o (IF s.order = <<>> THEN <<>> ELSE <<Sym("ORDER BY")>> \o OrderTerms(s.order))
  \o Bounded("LIMIT", s.limit)
  \o Bounded("OFFSET", s.offset)
  \o (IF s.lock THEN <<Sym("FOR UPDATE")>> ELSE <<>>)

Conflict(oc) ==
  <<Sym("ON CONFLICT")>>
  \o (IF oc.target = <<>> THEN <<>> ELSE InParens(IdentList(oc.target)))
  \o CASE oc.doNothing -> <<Sym("DO NOTHING")>>
       [] ~oc.doNothing /\ oc.sets # <<>> ->
            <<Sym("DO UPDATE SET")>> \o emitSets(oc.sets)
            \o (IF oc.where = Nil THEN <<>> ELSE <<Sym("WHERE"), oc.where>>)
       [] OTHER -> <<>>

InsertItems(s) ==
  <<Sym("INSERT INTO"), Sym(Table)>>
  \o (IF s.cols = <<>> THEN <<>> ELSE InParens(IdentList(s.cols)))
  \o (IF s.rows = <<>> THEN <<Sym("DEFAULT VALUES")>>
      ELSE <<Sym("VALUES")>>
           \o FlattenSeq([i \in DOMAIN s.rows |-> (IF i > 1 THEN <<Sym(",")>> ELSE <<>>)
                                                  \o InParens(ExprList(s.rows[i]))]))
  \o (IF s.onConflict = Nil THEN <<>> ELSE Conflict(s.onConflict))
  \o Clause("RETURNING", ExprList(s.returning))

UpdateItems(s) ==
  <<Sym("UPDATE"), Sym(Table)>>
  \o Clause("SET", emitSets(s.sets))
  \o WhereClause(s.where)
  \o Clause("RETURNING", ExprList(s.returning))

DeleteItems(s) ==
  <<Sym("DELETE FROM"), Sym(Table)>>
  \o WhereClause(s.where)
  \o Clause("RETURNING", ExprList(s.returning))

Items(s) == CASE s.kind = "Select" -> SelectItems(s)
              [] s.kind = "Insert" -> InsertItems(s)
              [] s.kind = "Update" -> UpdateItems(s)
              [] s.kind = "Delete" -> DeleteItems(s)
-----------------------------------------------------------------------------
(* Constructors and setters *)

Call(b) == /\ cur = None /\ calls < MaxCalls
           /\ calls' = calls + 1
           /\ UNCHANGED <<vars, cur, out>>
Is(b, kinds) == stmt[b] # None /\ stmt[b].kind \in kinds
Change(b, s) == stmt' = [stmt EXCEPT ![b] = s]
SameAsk == UNCHANGED asked

New(b, s) ==
  /\ stmt[b] = None
  /\ Call(b)
  /\ Change(b, s)
  /\ SameAsk

NewSelect(b, cols) == New(b, EmptySelect(cols))
NewUpdate(b) == New(b, EmptyUpdate)
NewDelete(b) == New(b, EmptyDelete)
NewInsert(b, cols, rows) == New(b, EmptyInsert(cols, rows))

\* appendWhere: nil parts are dropped.
NonNil(parts) == FlattenSeq([i \in DOMAIN parts |-> IF parts[i] = Nil THEN <<>> ELSE <<parts[i]>>])

\* Mutant: a second Where forgets the first.
WhereReplaces(b, parts) ==
  /\ Is(b, {"Select", "Update", "Delete"})
  /\ Call(b)
  /\ Change(b, [stmt[b] EXCEPT !.where = NonNil(parts)])
  /\ asked' = [asked EXCEPT ![b].preds = @ \cup (ToSet(parts) \ {Nil})]

\* Where and WhereExpr, of all three statements that have one.
Where(b, parts) ==
  /\ Is(b, {"Select", "Update", "Delete"})
  /\ Call(b)
  /\ Change(b, [stmt[b] EXCEPT !.where = @ \o NonNil(parts)])
  /\ asked' = [asked EXCEPT ![b].preds = @ \cup (ToSet(parts) \ {Nil})]

\* OrderBy, GroupBy, DistinctOn, Having, Lock, Returning, Set.
OrderBy(b, o) ==
  /\ Is(b, {"Select"}) /\ Call(b) /\ SameAsk
  /\ Change(b, [stmt[b] EXCEPT !.order = Append(@, o)])
GroupBy(b, e) ==
  /\ Is(b, {"Select"}) /\ Call(b) /\ SameAsk
  /\ Change(b, [stmt[b] EXCEPT !.group = Append(@, e)])
Having(b, e) ==
  /\ Is(b, {"Select"}) /\ Call(b) /\ SameAsk
  /\ Change(b, [stmt[b] EXCEPT !.having = e])
DistinctOn(b, e) ==
  /\ Is(b, {"Select"}) /\ Call(b) /\ SameAsk
  /\ Change(b, [stmt[b] EXCEPT !.distinctOn = Append(@, e)])
Lock(b) ==
  /\ Is(b, {"Select"}) /\ Call(b) /\ SameAsk
  /\ Change(b, [stmt[b] EXCEPT !.lock = TRUE])
Returning(b, e) ==
  /\ Is(b, {"Insert", "Update", "Delete"}) /\ Call(b) /\ SameAsk
  /\ Change(b, [stmt[b] EXCEPT !.returning = Append(@, e)])
Set(b, col, e) ==
  /\ Is(b, {"Update"}) /\ Call(b) /\ SameAsk
  /\ Change(b, [stmt[b] EXCEPT !.sets = Append(@, [col |-> col, e |-> e])])
OnConflict(b, oc) ==
  /\ Is(b, {"Insert"}) /\ Call(b) /\ SameAsk
  /\ Change(b, [stmt[b] EXCEPT !.onConflict = oc])

\* With keeps the pointer c: later calls on c show in b as well.  Callers are
\* assumed not to make a Select its own CTE (SQL() would not return).
With(b, c) ==
  /\ Is(b, {"Select"}) /\ Is(c, {"Select"}) /\ c < b
  /\ Call(b) /\ SameAsk
  /\ Change(b, [stmt[b] EXCEPT !.ctes = Append(@, c)])

\* Limit and Offset: i <= 0 is a no-op, also after an earlier call.
SetLimitZero(s, i) == IF i >= 0 THEN [s EXCEPT !.limit = i] ELSE s  \* mutant: 0 resets
SetLimit(s, i) == IF i > 0 THEN [s EXCEPT !.limit = i] ELSE s
SetOffset(s, i) == IF i > 0 THEN [s EXCEPT !.offset = i] ELSE s
Limit(b, i) ==
  /\ Is(b, {"Select"}) /\ Call(b)
  /\ Change(b, SetLimit(stmt[b], i))
  /\ asked' = IF i > 0 THEN [asked EXCEPT ![b].limit = i] ELSE asked
Offset(b, i) ==
  /\ Is(b, {"Select"}) /\ Call(b)
  /\ Change(b, SetOffset(stmt[b], i))
  /\ asked' = IF i > 0 THEN [asked EXCEPT ![b].offset = i] ELSE asked

\* ApplyList: the options in order, each through the setters.
ApplyOpt(s, o) == SetOffset(SetLimit([s EXCEPT !.order = @ \o o.order], o.limit), o.offset)
ApplyOpts(s, opts) == FoldLeft(ApplyOpt, s, opts)
LastPositive(is, old) ==
  LET S == {k \in DOMAIN is : is[k] > 0}
  IN IF S = {} THEN old ELSE is[CHOOSE k \in S : \A l \in S : l <= k]
ApplyList(b, opts) ==
  /\ Is(b, {"Select"}) /\ Call(b)
  /\ Change(b, ApplyOpts(stmt[b], opts))
  /\ asked' = [asked EXCEPT
       ![b].limit = LastPositive([k \in DOMAIN opts |-> opts[k].limit], @),
       ![b].offset = LastPositive([k \in DOMAIN opts |-> opts[k].offset], @)]
-----------------------------------------------------------------------------
(* Rendering *)

\* SQL() of an Update or a Delete without conjuncts: no text at all.
SQLRefused(b) ==
  /\ cur = None /\ calls < MaxCalls
  /\ Is(b, {"Update", "Delete"})
  /\ stmt[b].where = <<>>
  /\ calls' = calls + 1
  /\ out' = [out EXCEPT ![b] = [err |-> "ErrNoWhere", sql |-> <<>>, args |-> <<>>, asked |-> asked[b]]]
  /\ UNCHANGED <<vars, stmt, cur, asked>>

\* Mutant: Delete.SQL without its guard.
SQLStartUnguarded(b) ==
  /\ cur = None /\ calls < MaxCalls
  /\ stmt[b] # None
  /\ Is(b, {"Update"}) => stmt[b].where # <<>>
  /\ calls' = calls + 1
  /\ cur' = b
  /\ todo' = <<Sub(b)>> /\ sb' = <<>> /\ args' = <<>> /\ n' = 0
  /\ UNCHANGED <<stmt, out, asked>>

\* SQL() otherwise: a fresh emitter, and emit is called.
SQLStart(b) ==
  /\ cur = None /\ calls < MaxCalls
  /\ stmt[b] # None
  /\ Is(b, {"Update", "Delete"}) => stmt[b].where # <<>>
  /\ calls' = calls + 1
  /\ cur' = b
  /\ todo' = <<Sub(b)>> /\ sb' = <<>> /\ args' = <<>> /\ n' = 0
  /\ UNCHANGED <<stmt, out, asked>>

\* Mutant: a CTE counts its placeholders from 1.
EmitStmtRestarts ==
  /\ cur # None
  /\ Now("Stmt")
  /\ todo' = Items(stmt[Head(todo).b]) \o Tail(todo)
  /\ n' = 0
  /\ UNCHANGED <<sb, args, stmtVars>>

\* emit of a statement, the rendered one's or a CTE's: the same emitter.
EmitStmt ==
  /\ cur # None
  /\ Now("Stmt")
  /\ Push(Items(stmt[Head(todo).b]))
  /\ UNCHANGED stmtVars

EmitNode == cur # None /\ Next /\ UNCHANGED stmtVars

\* Mutant: the emitter is kept for the next statement.
SQLReturnKeepsEmitter ==
  /\ cur # None
  /\ todo = <<>>
  /\ out' = [out EXCEPT ![cur] = [err |-> "nil", sql |-> sb, args |-> args, asked |-> asked[cur]]]
  /\ cur' = None
  /\ UNCHANGED <<vars, stmt, asked, calls>>

\* SQL() returns; Run and Exec hand the result to the database.
SQLReturn ==
  /\ cur # None
  /\ todo = <<>>
  /\ out' = [out EXCEPT ![cur] = [err |-> "nil", sql |-> sb, args |-> args, asked |-> asked[cur]]]
  /\ cur' = None
  /\ sb' = <<>> /\ args' = <<>> /\ n' = 0
  /\ UNCHANGED <<todo, stmt, asked, calls>>

StmtInit ==
  /\ todo = <<>> /\ sb = <<>> /\ args = <<>> /\ n = 0
  /\ stmt = [b \in Builder |-> None]
  /\ out = [b \in Builder |-> None]
  /\ asked = [b \in Builder |-> Nothing]
  /\ cur = None
  /\ calls = 0

Rendering ==
  \/ \E b \in Builder : SQLRefused(b) \/ SQLStart(b)
  \/ EmitStmt
  \/ EmitNode
  \/ SQLReturn
\* A call of a constructor or a setter, with any argument.
Calling(b) ==
  \/ \E cols \in Seq(ListExprs) : NewSelect(b, cols)
  \/ NewUpdate(b) \/ NewDelete(b)
  \/ \E cols \in Seq(Column), rows \in Seq(Seq(Expr)) : NewInsert(b, cols, rows)
  \/ \E ps \in Seq(Predicates \cup {Nil}) : Where(b, ps)
  \/ \E o \in SortTerm : OrderBy(b, o)
  \/ \E e \in ListExprs : GroupBy(b, e) \/ DistinctOn(b, e) \/ Returning(b, e)
  \/ \E e \in Predicates \cup {Nil} : Having(b, e)
  \/ Lock(b)
  \/ \E col \in Column, e \in ListExprs \cup {Nil} : Set(b, col, e)
  \/ \E oc \in ConflictClause : OnConflict(b, oc)
  \/ \E c \in Builder : With(b, c)
  \/ \E i \in Limits : Limit(b, i) \/ Offset(b, i)
  \/ \E opts \in Seq(ListOption) : ApplyList(b, opts)

StmtNext == (\E b \in Builder : Calling(b)) \/ Rendering
Statements == StmtInit /\ [][StmtNext]_allVars
-----------------------------------------------------------------------------
(* Properties *)

\* Builders are statements of their kind, what is left to write is items and
\* CTEs, and between two calls of SQL() no emitter is alive: nothing of one
\* rendering can reach the next (stmt.go:183-187).
StmtTypeOK ==
  /\ stmt \in [Builder -> StatementOver(Builder) \cup {None}]
  /\ out \in [Builder -> Result \cup {None}]
  /\ asked \in [Builder -> Ask]
  /\ cur \in Builder \cup {None}
  /\ calls \in 0 .. MaxCalls
  /\ todo \in Seq(Item \cup {Sub(b) : b \in Builder})
  /\ sb \in Seq(Token) /\ args \in Seq(Bound) /\ n \in Nat
  /\ cur = None => todo = <<>> /\ sb = <<>> /\ args = <<>> /\ n = 0
  /\ \A b \in Builder : out[b] # None => stmt[b] # None

\* Rendered statements: the results that carry a text.
Sent == {b \in Builder : out[b] # None /\ out[b].err = "nil"}

TopWord(ts, w) == {i \in DOMAIN ts : ts[i] = Sym(w) /\ Level(ts, i) = 0}

ClauseWords == {"GROUP BY", "HAVING", "ORDER BY", "LIMIT", "OFFSET", "FOR UPDATE", "RETURNING"}
PageWords == {"LIMIT", "OFFSET"}

\* The names of tables and columns are quoted: none reads as one of these words.
NamesApart == (Column \cup {Table}) \cap ({"(", ")", "OR", "WHERE"} \cup PageWords) = {}

\* The tokens after the top-level WHERE, up to the next clause.
WhereText(ts) ==
  LET W == TopWord(ts, "WHERE")
      start == CHOOSE i \in W : TRUE
      ends == {i \in UNION {TopWord(ts, w) : w \in ClauseWords} : i > start} \cup {Len(ts) + 1}
      end == CHOOSE i \in ends : \A j \in ends : i <= j
  IN IF W = {} THEN <<>> ELSE SubSeq(ts, start + 1, end - 1)

\* stmt.go:415-416, 494-495: a mutation of the whole table is refused, before
\* any SQL exists, exactly when the caller asked for no row in particular,
\* however the calls came and however often SQL() was called in between.
NoFullTableMutation ==
  \A b \in Builder :
    out[b] # None /\ Is(b, {"Update", "Delete"}) =>
      (out[b].err = "ErrNoWhere" <=> out[b].asked.preds = {})

\* expr.go:82-83 says the WHERE layer omits what renders to nothing: a WHERE is
\* never left without a condition.
WhereIsNeverBlank ==
  \A b \in Sent : TopWord(out[b].sql, "WHERE") # {} => WhereText(out[b].sql) # <<>>

\* The value a LIMIT or OFFSET of the text is bound to; 0 without one.
PageValue(o, word) ==
  LET W == TopWord(o.sql, word)
  IN IF W = {} THEN 0 ELSE o.args[o.sql[(CHOOSE i \in W : TRUE) + 1].n]

\* listopt.go:3-4: the page sent is the last positive one asked for, through
\* whichever of Limit, Offset and ApplyList; zero and negative values never
\* reset it.
LastPageWins ==
  \A b \in Sent :
    Is(b, {"Select"}) =>
      /\ PageValue(out[b], "LIMIT") = out[b].asked.limit
      /\ PageValue(out[b], "OFFSET") = out[b].asked.offset
=============================================================================
