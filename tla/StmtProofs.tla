----------------------------- MODULE StmtProofs -----------------------------
(***************************************************************************)
(* What the statement builders keep for any number of builders, predicates *)
(* and calls with any arguments: their types, one numbering of the          *)
(* placeholders through every clause and CTE, no mutation without a         *)
(* condition, and the last page asked for.                                  *)
(***************************************************************************)
EXTENDS Stmt, EmitterProofs

-----------------------------------------------------------------------------
(* What a statement goes through is items and CTEs *)

\* What may wait to be written while the Selects in B can be CTEs.
Pending(B) == Item \cup {Sub(b) : b \in B}

\* What a clause is made of, parentheses, conditions, pages and CTEs aside.
PlainWords == (StatementWords \ ({"WHERE"} \cup PageWords)) \cup Column \cup {Table, ",", "NULL"}
Plain == Expr \cup {Sym(w) : w \in PlainWords}

LEMMA StatementWord ==
  ASSUME NEW w \in StatementWords \cup Punctuation \cup {Table} \cup Column
  PROVE  Sym(w) \in Item
<1>1. w \in Word
  BY StmtAssumption, WordAssumption
<1> QED BY <1>1, WordItem

LEMMA EmptyType == ASSUME NEW S PROVE <<>> \in Seq(S)
OBVIOUS

LEMMA PlainFacts ==
  /\ Plain \subseteq Item /\ Expr \subseteq Plain /\ \A w \in PlainWords : Sym(w) \in Plain
  /\ StatementWords \ ({"WHERE"} \cup PageWords) \subseteq PlainWords /\ Column \subseteq PlainWords
  /\ Table \in PlainWords /\ "," \in PlainWords /\ "NULL" \in PlainWords
<1>1. \A w \in PlainWords : Sym(w) \in Item
  <2>1. "," \in Punctuation /\ "NULL" \in Punctuation
    BY DEF Punctuation
  <2> QED BY <2>1, StatementWord DEF PlainWords
<1> QED BY <1>1 DEF Plain, PlainWords, Item

\* The words of a statement that are plain, one by one.
LEMMA PlainStatementWords ==
  \A w \in {"WITH", "cte", "AS", "SELECT", "DISTINCT ON", "*", "FROM", "GROUP BY", "HAVING",
            "ORDER BY", "ASC", "DESC", "FOR UPDATE", "INSERT INTO", "VALUES",
            "DEFAULT VALUES", "ON CONFLICT", "DO NOTHING", "DO UPDATE SET", "UPDATE", "SET", "=",
            "DELETE FROM", "RETURNING"} : w \in PlainWords /\ Sym(w) \in Plain
BY PlainFacts DEF StatementWords, PageWords

LEMMA ExprListType ==
  ASSUME NEW es \in Seq(Expr)
  PROVE  ExprList(es) \in Seq(Plain)
<1>1. es \in Seq(Plain) /\ Sym(",") \in Plain
  BY PlainFacts, SeqMonotonic
<1> QED BY <1>1, JoinedType DEF ExprList

LEMMA IdentListType ==
  ASSUME NEW cols \in Seq(Column)
  PROVE  IdentList(cols) \in Seq(Plain)
<1> DEFINE syms == [i \in DOMAIN cols |-> Sym(cols[i])]
<1>1. \A i \in DOMAIN cols : Sym(cols[i]) \in Plain
  <2>1. \A i \in DOMAIN cols : cols[i] \in Column
    OBVIOUS
  <2> QED BY <2>1, PlainFacts
<1>2. syms \in Seq(Plain)
  BY <1>1
<1>3. Sym(",") \in Plain
  BY PlainFacts
<1> HIDE DEF syms
<1>4. Joined(syms, Sym(",")) \in Seq(Plain)
  BY <1>2, <1>3, JoinedType
<1> QED BY <1>4 DEF IdentList, syms

LEMMA ClauseType ==
  ASSUME NEW w \in PlainWords, NEW items \in Seq(Plain)
  PROVE  Clause(w, items) \in Seq(Plain)
<1>1. <<Sym(w)>> \in Seq(Plain)
  BY PlainFacts, Tuples
<1> QED BY <1>1, ConcatType DEF Clause

\* A list of clauses, each after a comma but the first.
LEMMA CommaType ==
  ASSUME NEW S, NEW P, P \subseteq Seq(S), <<>> \in P, <<Sym(",")>> \in P, \A s, t \in P : s \o t \in P,
         NEW f, NEW m \in Nat, \A i \in 1 .. m : f[i] \in P
  PROVE  FlattenSeq([i \in 1 .. m |-> (IF i > 1 THEN <<Sym(",")>> ELSE <<>>) \o f[i]]) \in P
<1> DEFINE parts == [i \in 1 .. m |-> (IF i > 1 THEN <<Sym(",")>> ELSE <<>>) \o f[i]]
<1>1. \A i \in 1 .. m : (IF i > 1 THEN <<Sym(",")>> ELSE <<>>) \o f[i] \in P
  OBVIOUS
<1>2. parts \in [1 .. m -> P]
  BY <1>1
<1> HIDE DEF parts
<1> QED BY <1>2, FlattenClosed DEF parts

LEMMA PlainCommas ==
  ASSUME NEW f, NEW m \in Nat, \A i \in 1 .. m : f[i] \in Seq(Plain)
  PROVE  FlattenSeq([i \in 1 .. m |-> (IF i > 1 THEN <<Sym(",")>> ELSE <<>>) \o f[i]]) \in Seq(Plain)
<1> DEFINE P == Seq(Plain)
<1>1. P \subseteq Seq(Plain) /\ <<>> \in P /\ <<Sym(",")>> \in P
  BY PlainFacts, Tuples, EmptyType
<1>2. \A s, t \in P : s \o t \in P
  BY ConcatType
<1>3. \A i \in 1 .. m : f[i] \in P
  OBVIOUS
<1> HIDE DEF P
<1>4. FlattenSeq([i \in 1 .. m |-> (IF i > 1 THEN <<Sym(",")>> ELSE <<>>) \o f[i]]) \in P
  BY <1>1, <1>2, <1>3, CommaType
<1> QED BY <1>4 DEF P

LEMMA SetsType ==
  ASSUME NEW sets \in Seq(Assignment)
  PROVE  emitSets(sets) \in Seq(Plain)
<1> DEFINE m == Len(sets)
           f == [i \in 1 .. m |-> Assign(sets[i])]
<1>1. m \in Nat /\ DOMAIN sets = 1 .. m /\ \A i \in 1 .. m : sets[i] \in Assignment
  OBVIOUS
<1>2. ASSUME NEW i \in 1 .. m
      PROVE  Assign(sets[i]) \in Seq(Plain)
  <2> DEFINE a == sets[i]
  <2>1. a.col \in Column /\ (a.e = Nil \/ a.e \in Expr)
    BY <1>1, StmtAssumption DEF Assignment
  <2>2. <<Sym(a.col), Sym("=")>> \in Seq(Plain)
    <3>1. Sym(a.col) \in Plain /\ Sym("=") \in Plain
      BY <2>1, PlainFacts, PlainStatementWords
    <3> QED BY <3>1, Tuples
  <2>3. (IF a.e = Nil THEN <<Sym("NULL")>> ELSE <<a.e>>) \in Seq(Plain)
    <3>1. Sym("NULL") \in Plain /\ (a.e # Nil => a.e \in Plain)
      BY <2>1, PlainFacts
    <3> QED BY <3>1, Tuples
  <2> HIDE DEF a
  <2> QED BY <2>2, <2>3, ConcatType DEF Assign, a
<1>3. \A i \in 1 .. m : f[i] \in Seq(Plain)
  BY <1>2
<1>4. emitSets(sets) = FlattenSeq([i \in 1 .. m |-> (IF i > 1 THEN <<Sym(",")>> ELSE <<>>) \o f[i]])
  <2>1. [i \in DOMAIN sets |-> (IF i > 1 THEN <<Sym(",")>> ELSE <<>>) \o Assign(sets[i])]
        = [i \in 1 .. m |-> (IF i > 1 THEN <<Sym(",")>> ELSE <<>>) \o f[i]]
    BY <1>1
  <2> QED BY <2>1 DEF emitSets
<1> HIDE DEF f, m
<1> QED BY <1>1, <1>3, <1>4, PlainCommas

LEMMA TermsType ==
  ASSUME NEW os \in Seq(SortTerm)
  PROVE  OrderTerms(os) \in Seq(Plain)
<1> DEFINE m == Len(os)
           f == [i \in 1 .. m |-> Term(os[i])]
<1>1. m \in Nat /\ DOMAIN os = 1 .. m /\ \A i \in 1 .. m : os[i] \in SortTerm
  OBVIOUS
<1>2. ASSUME NEW i \in 1 .. m
      PROVE  Term(os[i]) \in Seq(Plain)
  <2> DEFINE o == os[i]
  <2>1. o.e = Nil \/ o.e \in Plain
    BY <1>1, StmtAssumption, PlainFacts DEF SortTerm
  <2>2. Sym(IF o.desc THEN "DESC" ELSE "ASC") \in Plain
    BY PlainStatementWords
  <2> HIDE DEF o
  <2> QED BY <2>1, <2>2, Tuples DEF Term, o
<1>3. \A i \in 1 .. m : f[i] \in Seq(Plain)
  BY <1>2
<1>4. OrderTerms(os) = FlattenSeq([i \in 1 .. m |-> (IF i > 1 THEN <<Sym(",")>> ELSE <<>>) \o f[i]])
  <2>1. [i \in DOMAIN os |-> (IF i > 1 THEN <<Sym(",")>> ELSE <<>>) \o Term(os[i])]
        = [i \in 1 .. m |-> (IF i > 1 THEN <<Sym(",")>> ELSE <<>>) \o f[i]]
    BY <1>1
  <2> QED BY <2>1 DEF OrderTerms
<1> HIDE DEF f, m
<1> QED BY <1>1, <1>3, <1>4, PlainCommas

-----------------------------------------------------------------------------
(* Any set P of texts that holds the parts of a statement holds the whole:   *)
(* once the set of the well-typed texts, once a set of well-formed ones.     *)

Composes(P, B) ==
  /\ P \subseteq Seq(Pending(B)) /\ Seq(Plain) \subseteq P
  /\ \A s, t \in P : s \o t \in P
  /\ \A s \in P : InParens(s) \in P
  /\ \A b \in B : InParens(<<Sub(b)>>) \in P
  /\ \A es \in Seq(Expr) : es # <<>> => <<Sym("WHERE")>> \o Joined(es, Sym("AND")) \in P

LEMMA Composed ==
  ASSUME NEW P, NEW B, Composes(P, B)
  PROVE  /\ <<>> \in P /\ Seq(Plain) \subseteq P
         /\ \A s, t \in P : s \o t \in P
         /\ \A s \in P : InParens(s) \in P
         /\ \A f : \A m \in Nat : (\A i \in 1 .. m : f[i] \in P) =>
              FlattenSeq([i \in 1 .. m |-> (IF i > 1 THEN <<Sym(",")>> ELSE <<>>) \o f[i]]) \in P
<1> DEFINE S == Pending(B)
<1>1. P \subseteq Seq(S) /\ Seq(Plain) \subseteq P /\ \A s, t \in P : s \o t \in P
  BY DEF Composes
<1>2. <<>> \in P /\ <<Sym(",")>> \in P
  <2>1. <<>> \in Seq(Plain) /\ <<Sym(",")>> \in Seq(Plain)
    BY PlainFacts, Tuples, EmptyType
  <2> QED BY <1>1, <2>1
<1>3. ASSUME NEW f, NEW m \in Nat, \A i \in 1 .. m : f[i] \in P
      PROVE  FlattenSeq([i \in 1 .. m |-> (IF i > 1 THEN <<Sym(",")>> ELSE <<>>) \o f[i]]) \in P
  <2> HIDE DEF S
  <2> QED BY <1>1, <1>2, <1>3, CommaType
<1> QED BY <1>1, <1>2, <1>3 DEF Composes

LEMMA WhereClauseComposes ==
  ASSUME NEW P, NEW B, Composes(P, B), NEW es \in Seq(Expr)
  PROVE  WhereClause(es) \in P
<1>1. es # <<>> => <<Sym("WHERE")>> \o Joined(es, Sym("AND")) \in P
  BY DEF Composes
<1>2. emitJoined(es, "AND", FALSE) = Joined(es, Sym("AND"))
  BY DEF emitJoined
<1>3. <<>> \in P
  BY Composed
<1> QED BY <1>1, <1>2, <1>3 DEF WhereClause

LEMMA CTEsCompose ==
  ASSUME NEW P, NEW B, Composes(P, B), NEW bs \in Seq(B)
  PROVE  CTEs(bs) \in P
<1> DEFINE m == Len(bs)
           f == [i \in 1 .. m |-> Cte(bs[i])]
           parts == FlattenSeq([i \in 1 .. m |-> (IF i > 1 THEN <<Sym(",")>> ELSE <<>>) \o f[i]])
<1>1. m \in Nat /\ DOMAIN bs = 1 .. m /\ \A i \in 1 .. m : bs[i] \in B
  OBVIOUS
<1>2. <<Sym("WITH")>> \in P /\ <<Sym("cte"), Sym("AS")>> \in P
  <2>1. <<Sym("WITH")>> \in Seq(Plain) /\ <<Sym("cte"), Sym("AS")>> \in Seq(Plain)
    <3>1. Sym("WITH") \in Plain /\ Sym("cte") \in Plain /\ Sym("AS") \in Plain
      BY PlainStatementWords
    <3> QED BY <3>1, Tuples
  <2> QED BY <2>1, Composed
<1>3. ASSUME NEW i \in 1 .. m
      PROVE  Cte(bs[i]) \in P
  <2>1. InParens(<<Sub(bs[i])>>) \in P
    BY <1>1 DEF Composes
  <2> QED BY <2>1, <1>2, Composed DEF Cte
<1>4. \A i \in 1 .. m : f[i] \in P
  BY <1>3
<1>5. bs # <<>> => CTEs(bs) = <<Sym("WITH")>> \o parts
  <2>1. [i \in DOMAIN bs |-> (IF i > 1 THEN <<Sym(",")>> ELSE <<>>) \o Cte(bs[i])]
        = [i \in 1 .. m |-> (IF i > 1 THEN <<Sym(",")>> ELSE <<>>) \o f[i]]
    BY <1>1
  <2> QED BY <2>1 DEF CTEs
<1>6. parts \in P
  <2> HIDE DEF f, m
  <2> QED BY <1>1, <1>4, Composed
<1> HIDE DEF parts
<1>7. <<Sym("WITH")>> \o parts \in P /\ <<>> \in P
  BY <1>2, <1>6, Composed
<1> QED BY <1>5, <1>7 DEF CTEs

\* A Select up to its page.
SelectHead(s) ==
  CTEs(s.ctes)
  \o <<Sym("SELECT")>>
  \o (IF s.distinctOn = <<>> THEN <<>> ELSE <<Sym("DISTINCT ON")>> \o InParens(ExprList(s.distinctOn)))
  \o (IF s.cols = <<>> THEN <<Sym("*")>> ELSE ExprList(s.cols))
  \o <<Sym("FROM"), Sym(Table)>>
  \o WhereClause(s.where)
  \o Clause("GROUP BY", ExprList(s.group))
  \o (IF s.having = Nil THEN <<>> ELSE <<Sym("HAVING"), s.having>>)
  \o (IF s.order = <<>> THEN <<>> ELSE <<Sym("ORDER BY")>> \o OrderTerms(s.order))
SelectLock(s) == IF s.lock THEN <<Sym("FOR UPDATE")>> ELSE <<>>

LEMMA SelectComposes ==
  ASSUME NEW P, NEW B, Composes(P, B), NEW s \in SelectOver(B)
  PROVE  /\ SelectHead(s) \in P /\ SelectLock(s) \in P
         /\ SelectItems(s) = SelectHead(s) \o Bounded("LIMIT", s.limit) \o Bounded("OFFSET", s.offset)
                             \o SelectLock(s)
<1>1. /\ s.cols \in Seq(Expr) /\ s.where \in Seq(Expr) /\ s.group \in Seq(Expr)
      /\ s.distinctOn \in Seq(Expr) /\ s.order \in Seq(SortTerm) /\ s.ctes \in Seq(B)
      /\ s.having \in Predicates \cup {Nil}
  BY DEF SelectOver
<1>2. \A t \in Seq(Plain) : t \in P
  BY Composed
<1>3. <<>> \in P /\ \A x, y \in P : x \o y \in P
  BY Composed
<1>4. s.having # Nil => s.having \in Plain
  BY <1>1, StmtAssumption, PlainFacts
<1>5. CTEs(s.ctes) \in P
  BY <1>1, CTEsCompose
<1>6. ExprList(s.cols) \in P /\ ExprList(s.distinctOn) \in P
  BY <1>1, <1>2, ExprListType
<1>7. WhereClause(s.where) \in P
  BY <1>1, WhereClauseComposes
<1>8. Clause("GROUP BY", ExprList(s.group)) \in P
  <2>1. ExprList(s.group) \in Seq(Plain) /\ "GROUP BY" \in PlainWords
    BY <1>1, ExprListType, PlainStatementWords
  <2> QED BY <2>1, <1>2, ClauseType
<1>9. OrderTerms(s.order) \in P
  BY <1>1, <1>2, TermsType
<1>10. /\ <<Sym("SELECT")>> \in P /\ <<Sym("DISTINCT ON")>> \in P /\ <<Sym("*")>> \in P
       /\ <<Sym("ORDER BY")>> \in P /\ <<Sym("FOR UPDATE")>> \in P /\ <<Sym("FROM"), Sym(Table)>> \in P
  <2>1. /\ <<Sym("SELECT")>> \in Seq(Plain) /\ <<Sym("DISTINCT ON")>> \in Seq(Plain)
        /\ <<Sym("*")>> \in Seq(Plain) /\ <<Sym("ORDER BY")>> \in Seq(Plain)
        /\ <<Sym("FOR UPDATE")>> \in Seq(Plain)
    <3>1. /\ Sym("SELECT") \in Plain /\ Sym("DISTINCT ON") \in Plain /\ Sym("*") \in Plain
          /\ Sym("ORDER BY") \in Plain /\ Sym("FOR UPDATE") \in Plain
      BY PlainStatementWords
    <3> QED BY <3>1, Tuples
  <2>2. <<Sym("FROM"), Sym(Table)>> \in Seq(Plain)
    <3>1. Sym("FROM") \in Plain /\ Sym(Table) \in Plain
      BY PlainStatementWords, PlainFacts
    <3> QED BY <3>1, Tuples
  <2> QED BY <2>1, <2>2, <1>2
<1> DEFINE distinct == IF s.distinctOn = <<>> THEN <<>>
                       ELSE <<Sym("DISTINCT ON")>> \o InParens(ExprList(s.distinctOn))
           cols == IF s.cols = <<>> THEN <<Sym("*")>> ELSE ExprList(s.cols)
           having == IF s.having = Nil THEN <<>> ELSE <<Sym("HAVING"), s.having>>
           order == IF s.order = <<>> THEN <<>> ELSE <<Sym("ORDER BY")>> \o OrderTerms(s.order)
<1>11. distinct \in P
  <2>1. InParens(ExprList(s.distinctOn)) \in P
    BY <1>6, Composed
  <2>2. <<Sym("DISTINCT ON")>> \o InParens(ExprList(s.distinctOn)) \in P
    BY <2>1, <1>3, <1>10
  <2> QED BY <2>2, <1>3
<1>12. cols \in P
  BY <1>6, <1>10
<1>13. having \in P
  <2>1. s.having # Nil => <<Sym("HAVING"), s.having>> \in Seq(Plain)
    <3>1. Sym("HAVING") \in Plain /\ (s.having # Nil => s.having \in Plain)
      BY <1>4, PlainStatementWords
    <3> QED BY <3>1, Tuples
  <2> QED BY <2>1, <1>2, <1>3
<1>14. order \in P
  <2>1. <<Sym("ORDER BY")>> \o OrderTerms(s.order) \in P
    BY <1>3, <1>9, <1>10
  <2> QED BY <2>1, <1>3
<1>15. SelectHead(s) = CTEs(s.ctes) \o <<Sym("SELECT")>> \o distinct \o cols \o <<Sym("FROM"), Sym(Table)>>
                      \o WhereClause(s.where) \o Clause("GROUP BY", ExprList(s.group)) \o having \o order
  BY DEF SelectHead
<1> HIDE DEF distinct, cols, having, order
<1>16. CTEs(s.ctes) \o <<Sym("SELECT")>> \o distinct \o cols \in P
  BY <1>3, <1>5, <1>10, <1>11, <1>12
<1> DEFINE start == CTEs(s.ctes) \o <<Sym("SELECT")>> \o distinct \o cols
<1> HIDE DEF start
<1>17. start \o <<Sym("FROM"), Sym(Table)>> \o WhereClause(s.where)
       \o Clause("GROUP BY", ExprList(s.group)) \o having \o order \in P
  BY <1>3, <1>7, <1>8, <1>10, <1>13, <1>14, <1>16 DEF start
<1>18. SelectHead(s) \in P
  BY <1>15, <1>17 DEF start
<1>19. SelectLock(s) \in P
  BY <1>3, <1>10 DEF SelectLock
<1> QED BY <1>18, <1>19 DEF SelectItems, SelectHead, SelectLock

LEMMA ReturningType ==
  ASSUME NEW es \in Seq(Expr)
  PROVE  Clause("RETURNING", ExprList(es)) \in Seq(Plain)
<1>1. ExprList(es) \in Seq(Plain) /\ "RETURNING" \in PlainWords
  BY ExprListType, PlainStatementWords
<1> QED BY <1>1, ClauseType

LEMMA ConflictComposes ==
  ASSUME NEW P, NEW B, Composes(P, B), NEW oc \in ConflictClause
  PROVE  Conflict(oc) \in P
<1>1. /\ oc.target \in Seq(Column) /\ oc.sets \in Seq(Assignment) /\ oc.doNothing \in BOOLEAN
      /\ oc.where = Nil \/ oc.where \in Expr
  BY StmtAssumption DEF ConflictClause
<1>2. <<>> \in P /\ \A x, y \in P : x \o y \in P
  BY Composed
<1>3. \A t \in Seq(Plain) : t \in P
  BY Composed
<1>4. <<Sym("ON CONFLICT")>> \in P /\ <<Sym("DO NOTHING")>> \in P /\ <<Sym("DO UPDATE SET")>> \in P
  <2>1. /\ <<Sym("ON CONFLICT")>> \in Seq(Plain) /\ <<Sym("DO NOTHING")>> \in Seq(Plain)
        /\ <<Sym("DO UPDATE SET")>> \in Seq(Plain)
    <3>1. Sym("ON CONFLICT") \in Plain /\ Sym("DO NOTHING") \in Plain /\ Sym("DO UPDATE SET") \in Plain
      BY PlainStatementWords
    <3> QED BY <3>1, Tuples
  <2> QED BY <2>1, <1>3
<1> DEFINE target == IF oc.target = <<>> THEN <<>> ELSE InParens(IdentList(oc.target))
           where == IF oc.where = Nil THEN <<>> ELSE <<Sym("WHERE"), oc.where>>
           update == <<Sym("DO UPDATE SET")>> \o emitSets(oc.sets) \o where
           what == CASE oc.doNothing -> <<Sym("DO NOTHING")>>
                     [] ~oc.doNothing /\ oc.sets # <<>> -> update
                     [] OTHER -> <<>>
<1>5. target \in P
  <2>1. IdentList(oc.target) \in P
    BY <1>1, <1>3, IdentListType
  <2>2. InParens(IdentList(oc.target)) \in P
    BY <2>1, Composed
  <2> QED BY <2>2, <1>2
<1>6. where \in P
  <2>1. ASSUME oc.where # Nil PROVE <<Sym("WHERE"), oc.where>> \in P
    <3> DEFINE es == <<oc.where>>
    <3>1. es \in Seq(Expr) /\ es # <<>> /\ Len(es) <= 1
      BY <1>1, <2>1
    <3>2. <<Sym("WHERE"), oc.where>> = <<Sym("WHERE")>> \o es
      BY Pair
    <3> HIDE DEF es
    <3>3. Joined(es, Sym("AND")) = es
      BY <3>1, JoinedFew
    <3>4. <<Sym("WHERE")>> \o Joined(es, Sym("AND")) \in P
      BY <3>1 DEF Composes
    <3> QED BY <3>2, <3>3, <3>4
  <2> QED BY <2>1, <1>2
<1>7. update \in P
  <2>1. emitSets(oc.sets) \in P
    BY <1>1, <1>3, SetsType
  <2> HIDE DEF where
  <2> QED BY <2>1, <1>2, <1>4, <1>6
<1>8. what \in P
  <2> HIDE DEF update
  <2> QED BY <1>1, <1>2, <1>4, <1>7
<1>9. Conflict(oc) = <<Sym("ON CONFLICT")>> \o target \o what
  BY DEF Conflict
<1> HIDE DEF target, what
<1>10. <<Sym("ON CONFLICT")>> \o target \in P
  BY <1>2, <1>4, <1>5
<1> DEFINE start == <<Sym("ON CONFLICT")>> \o target
<1> HIDE DEF start
<1>11. start \o what \in P
  BY <1>2, <1>8, <1>10 DEF start
<1> QED BY <1>9, <1>11 DEF start

LEMMA InsertComposes ==
  ASSUME NEW P, NEW B, Composes(P, B), NEW s \in InsertShape
  PROVE  InsertItems(s) \in P
<1>1. /\ s.cols \in Seq(Column) /\ s.rows \in Seq(Seq(Expr)) /\ s.returning \in Seq(Expr)
      /\ s.onConflict \in ConflictClause \cup {Nil}
  BY DEF InsertShape
<1>2. <<>> \in P /\ \A x, y \in P : x \o y \in P
  BY Composed
<1>3. \A t \in Seq(Plain) : t \in P
  BY Composed
<1>4. <<Sym("VALUES")>> \in P /\ <<Sym("DEFAULT VALUES")>> \in P /\ <<Sym("INSERT INTO"), Sym(Table)>> \in P
  <2>1. <<Sym("VALUES")>> \in Seq(Plain) /\ <<Sym("DEFAULT VALUES")>> \in Seq(Plain)
    <3>1. Sym("VALUES") \in Plain /\ Sym("DEFAULT VALUES") \in Plain
      BY PlainStatementWords
    <3> QED BY <3>1, Tuples
  <2>2. <<Sym("INSERT INTO"), Sym(Table)>> \in Seq(Plain)
    <3>1. Sym("INSERT INTO") \in Plain /\ Sym(Table) \in Plain
      BY PlainStatementWords, PlainFacts
    <3> QED BY <3>1, Tuples
  <2> QED BY <2>1, <2>2, <1>3
<1> DEFINE m == Len(s.rows)
           f == [i \in 1 .. m |-> InParens(ExprList(s.rows[i]))]
           rows == FlattenSeq([i \in 1 .. m |-> (IF i > 1 THEN <<Sym(",")>> ELSE <<>>) \o f[i]])
           cols == IF s.cols = <<>> THEN <<>> ELSE InParens(IdentList(s.cols))
           values == IF s.rows = <<>> THEN <<Sym("DEFAULT VALUES")>> ELSE <<Sym("VALUES")>> \o rows
           conflict == IF s.onConflict = Nil THEN <<>> ELSE Conflict(s.onConflict)
<1>5. m \in Nat /\ DOMAIN s.rows = 1 .. m /\ \A i \in 1 .. m : s.rows[i] \in Seq(Expr)
  BY <1>1
<1>6. ASSUME NEW i \in 1 .. m
      PROVE  InParens(ExprList(s.rows[i])) \in P
  <2>1. ExprList(s.rows[i]) \in P
    BY <1>3, <1>5, ExprListType
  <2> QED BY <2>1, Composed
<1>7. \A i \in 1 .. m : f[i] \in P
  BY <1>6
<1>8. rows \in P
  <2> HIDE DEF f, m
  <2> QED BY <1>5, <1>7, Composed
<1>9. rows = FlattenSeq([i \in DOMAIN s.rows |-> (IF i > 1 THEN <<Sym(",")>> ELSE <<>>)
                                                 \o InParens(ExprList(s.rows[i]))])
  <2>1. [i \in DOMAIN s.rows |-> (IF i > 1 THEN <<Sym(",")>> ELSE <<>>) \o InParens(ExprList(s.rows[i]))]
        = [i \in 1 .. m |-> (IF i > 1 THEN <<Sym(",")>> ELSE <<>>) \o f[i]]
    BY <1>5
  <2> QED BY <2>1
<1>10. values \in P
  <2> HIDE DEF rows
  <2>1. <<Sym("VALUES")>> \o rows \in P
    BY <1>2, <1>4, <1>8
  <2> QED BY <2>1, <1>4
<1>11. cols \in P
  <2>1. IdentList(s.cols) \in P
    BY <1>1, <1>3, IdentListType
  <2>2. InParens(IdentList(s.cols)) \in P
    BY <2>1, Composed
  <2> QED BY <2>2, <1>2
<1>12. conflict \in P
  <2>1. s.onConflict # Nil => Conflict(s.onConflict) \in P
    BY <1>1, ConflictComposes
  <2> QED BY <2>1, <1>2
<1>13. Clause("RETURNING", ExprList(s.returning)) \in P
  BY <1>1, <1>3, ReturningType
<1>14. InsertItems(s) = <<Sym("INSERT INTO"), Sym(Table)>> \o cols \o values \o conflict
                        \o Clause("RETURNING", ExprList(s.returning))
  <2> HIDE DEF rows
  <2> QED BY <1>9 DEF InsertItems
<1> HIDE DEF cols, values, conflict, rows, f, m
<1>15. <<Sym("INSERT INTO"), Sym(Table)>> \o cols \o values \in P
  BY <1>2, <1>4, <1>10, <1>11
<1> DEFINE start == <<Sym("INSERT INTO"), Sym(Table)>> \o cols \o values
<1> HIDE DEF start
<1>16. start \o conflict \o Clause("RETURNING", ExprList(s.returning)) \in P
  BY <1>2, <1>12, <1>13, <1>15 DEF start
<1> QED BY <1>14, <1>16 DEF start

LEMMA MutationComposes ==
  ASSUME NEW P, NEW B, Composes(P, B)
  PROVE  /\ \A s \in UpdateShape : UpdateItems(s) \in P
         /\ \A s \in DeleteShape : DeleteItems(s) \in P
<1>1. \A t \in Seq(Plain) : t \in P
  BY Composed
<1>2. \A x, y \in P : x \o y \in P
  BY Composed
<1>3. <<Sym("UPDATE"), Sym(Table)>> \in P /\ <<Sym("DELETE FROM"), Sym(Table)>> \in P
  <2>1. <<Sym("UPDATE"), Sym(Table)>> \in Seq(Plain) /\ <<Sym("DELETE FROM"), Sym(Table)>> \in Seq(Plain)
    <3>1. Sym("UPDATE") \in Plain /\ Sym(Table) \in Plain /\ Sym("DELETE FROM") \in Plain
      BY PlainStatementWords, PlainFacts
    <3> QED BY <3>1, Tuples
  <2> QED BY <2>1, <1>1
<1>4. ASSUME NEW s \in UpdateShape
      PROVE  UpdateItems(s) \in P
  <2>1. s.sets \in Seq(Assignment) /\ s.where \in Seq(Expr) /\ s.returning \in Seq(Expr)
    BY DEF UpdateShape
  <2>2. Clause("SET", emitSets(s.sets)) \in P
    <3>1. emitSets(s.sets) \in Seq(Plain) /\ "SET" \in PlainWords
      BY <2>1, SetsType, PlainStatementWords
    <3> QED BY <3>1, <1>1, ClauseType
  <2>3. WhereClause(s.where) \in P /\ Clause("RETURNING", ExprList(s.returning)) \in P
    BY <2>1, <1>1, WhereClauseComposes, ReturningType
  <2> QED BY <1>2, <1>3, <2>2, <2>3 DEF UpdateItems
<1>5. ASSUME NEW s \in DeleteShape
      PROVE  DeleteItems(s) \in P
  <2>1. s.where \in Seq(Expr) /\ s.returning \in Seq(Expr)
    BY DEF DeleteShape
  <2>2. WhereClause(s.where) \in P /\ Clause("RETURNING", ExprList(s.returning)) \in P
    BY <2>1, <1>1, WhereClauseComposes, ReturningType
  <2> QED BY <1>2, <1>3, <2>2 DEF DeleteItems
<1> QED BY <1>4, <1>5

\* Whatever the statement, its emit method goes through texts of P, and through
\* its page when it is a Select.
LEMMA ItemsCompose ==
  ASSUME NEW P, NEW B, Composes(P, B), NEW s \in StatementOver(B)
  PROVE  \/ Items(s) \in P /\ s.kind # "Select"
         \/ /\ s \in SelectOver(B) /\ s.kind = "Select"
            /\ \E x, y \in P : Items(s) = x \o Bounded("LIMIT", s.limit) \o Bounded("OFFSET", s.offset) \o y
<1>1. CASE s \in SelectOver(B)
  <2>1. s.kind = "Select" /\ Items(s) = SelectItems(s)
    BY <1>1 DEF SelectOver, Items
  <2> QED BY <2>1, <1>1, SelectComposes
<1>2. CASE s \in UpdateShape
  <2>1. s.kind = "Update"
    BY <1>2 DEF UpdateShape
  <2> QED BY <2>1, <1>2, MutationComposes DEF Items
<1>3. CASE s \in DeleteShape
  <2>1. s.kind = "Delete"
    BY <1>3 DEF DeleteShape
  <2> QED BY <2>1, <1>3, MutationComposes DEF Items
<1>4. CASE s \in InsertShape
  <2>1. s.kind = "Insert"
    BY <1>4 DEF InsertShape
  <2> QED BY <2>1, <1>4, InsertComposes DEF Items
<1> QED BY <1>1, <1>2, <1>3, <1>4 DEF StatementOver

LEMMA InParensType ==
  ASSUME NEW S, Item \subseteq S, NEW items \in Seq(S)
  PROVE  InParens(items) \in Seq(S)
<1>1. <<Sym("(")>> \in Seq(S) /\ <<Sym(")")>> \in Seq(S)
  BY PunctuationItem, Tuples
<1> QED BY <1>1, ConcatType DEF InParens

\* The parts of a condition, joined.
LEMMA ConditionType ==
  ASSUME NEW es \in Seq(Expr)
  PROVE  Joined(es, Sym("AND")) \in Seq(Expr \cup {Sym("AND")})
<1> DEFINE E == Expr \cup {Sym("AND")}
<1>1. es \in Seq(E) /\ Sym("AND") \in E
  BY SeqMonotonic
<1> HIDE DEF E
<1>2. Joined(es, Sym("AND")) \in Seq(E)
  BY <1>1, JoinedType
<1> QED BY <1>2 DEF E

LEMMA TypedTextsCompose ==
  ASSUME NEW B
  PROVE  Composes(Seq(Pending(B)), B)
<1> DEFINE S == Pending(B)
<1>1. Item \subseteq S /\ Plain \subseteq S /\ \A b \in B : Sub(b) \in S
  BY PlainFacts DEF Pending
<1>2. Sym("WHERE") \in Item /\ Sym("AND") \in Item
  BY StatementWord DEF StatementWords, Punctuation
<1>3. ASSUME NEW es \in Seq(Expr)
      PROVE  <<Sym("WHERE")>> \o Joined(es, Sym("AND")) \in Seq(S)
  <2>1. Expr \cup {Sym("AND")} \subseteq S /\ Sym("WHERE") \in S
    BY <1>1, <1>2 DEF Item
  <2>2. Joined(es, Sym("AND")) \in Seq(S)
    BY <2>1, ConditionType, SeqMonotonic
  <2>3. <<Sym("WHERE")>> \in Seq(S)
    BY <2>1, Tuples
  <2> QED BY <2>2, <2>3, ConcatType
<1> HIDE DEF S
<1>4. Seq(Plain) \subseteq Seq(S)
  BY <1>1, SeqMonotonic
<1>5. \A s, t \in Seq(S) : s \o t \in Seq(S)
  BY ConcatType
<1>6. \A s \in Seq(S) : InParens(s) \in Seq(S)
  BY <1>1, InParensType
<1>7. \A b \in B : InParens(<<Sub(b)>>) \in Seq(S)
  <2> TAKE b \in B
  <2>1. <<Sub(b)>> \in Seq(S)
    BY <1>1, Tuples
  <2> QED BY <2>1, <1>6
<1> QED BY <1>3, <1>4, <1>5, <1>6, <1>7 DEF Composes, S

\* Whatever the statement, its emit method goes through items and its own CTEs.
LEMMA ItemsType ==
  ASSUME NEW B, NEW s \in StatementOver(B)
  PROVE  Items(s) \in Seq(Pending(B))
<1> DEFINE P == Seq(Pending(B))
<1>1. Composes(P, B)
  BY TypedTextsCompose
<1>2. \A t \in Seq(Pending(B)) : t \in P
  OBVIOUS
<1>3. ASSUME NEW w \in PageWords, NEW i \in Page \cup {Nil}
      PROVE  Bounded(w, i) \in Seq(Pending(B))
  <2>1. Sym(w) \in Item
    BY StatementWord DEF PageWords, StatementWords
  <2>2. i # Nil => PageLit(i) \in Item
    BY StmtAssumption DEF Item
  <2>3. Item \subseteq Pending(B)
    BY DEF Pending
  <2>4. i # Nil => <<Sym(w), PageLit(i)>> \in Seq(Pending(B))
    BY <2>1, <2>2, <2>3, Tuples
  <2> QED BY <2>4, EmptyType DEF Bounded
<1>4. s \in SelectOver(B) => Bounded("LIMIT", s.limit) \in P /\ Bounded("OFFSET", s.offset) \in P
  BY <1>3 DEF SelectOver, PageWords
<1>5. \A x, y \in P : x \o y \in P
  BY <1>1 DEF Composes
<1> HIDE DEF P
<1>6. Items(s) \in P
  <2>1. CASE Items(s) \in P
    BY <2>1
  <2>2. CASE ~(Items(s) \in P)
    <3>1. s \in SelectOver(B) /\ \E x, y \in P : Items(s) = x \o Bounded("LIMIT", s.limit)
                                                  \o Bounded("OFFSET", s.offset) \o y
      BY <1>1, <2>2, ItemsCompose
    <3> QED BY <1>4, <1>5, <3>1
  <2> QED BY <2>1, <2>2
<1> QED BY <1>6 DEF P

-----------------------------------------------------------------------------
(* The inductive invariant *)

\* The builders that exist, and the text of a page: none for zero.
Built == {b \in Builder : stmt[b] # None}
PageOf(i) == IF i = 0 THEN Nil ELSE i

\* What a statement holds is what its caller asked for: conjuncts exactly when
\* a predicate was given, and the last positive page.
Agrees(s, a) ==
  /\ s.kind \in {"Select", "Update", "Delete"} => (s.where = <<>> <=> a.preds = {})
  /\ s.kind = "Select" => s.limit = PageOf(a.limit) /\ s.offset = PageOf(a.offset)

\* The CTEs of a statement and of what is left to write are builders that
\* exist; builders hold what was asked; and a mutation that is being rendered
\* has a conjunct.
StmtInv ==
  /\ StmtTypeOK
  /\ \A b \in Built : stmt[b] \in StatementOver(Built) /\ Agrees(stmt[b], asked[b])
  /\ \A b \in Builder \ Built : asked[b] = Nothing
  /\ todo \in Seq(Pending(Built))
  /\ cur # None => cur \in Built /\ (stmt[cur].kind \in {"Update", "Delete"} => stmt[cur].where # <<>>)
  /\ NoFullTableMutation

\* A statement's kind is that of its shape.
LEMMA ShapeOfKind ==
  ASSUME NEW B, NEW s \in StatementOver(B)
  PROVE  /\ s.kind = "Select" => s \in SelectOver(B)
         /\ s.kind = "Update" => s \in UpdateShape
         /\ s.kind = "Delete" => s \in DeleteShape
         /\ s.kind = "Insert" => s \in InsertShape
BY DEF StatementOver, SelectOver, UpdateShape, DeleteShape, InsertShape

\* More builders make more statements and more that may be pending.
LEMMA Wider ==
  ASSUME NEW B, NEW C, B \subseteq C
  PROVE  StatementOver(B) \subseteq StatementOver(C) /\ Seq(Pending(B)) \subseteq Seq(Pending(C))
<1>1. Seq(B) \subseteq Seq(C)
  BY SeqMonotonic
<1>2. SelectOver(B) \subseteq SelectOver(C)
  BY <1>1 DEF SelectOver
<1>3. Pending(B) \subseteq Pending(C)
  BY DEF Pending
<1> QED BY <1>2, <1>3, SeqMonotonic DEF StatementOver

\* No step makes a statement of another kind out of a builder.
KindsKept == \A b \in Builder : stmt[b] # None => stmt'[b] # None /\ stmt'[b].kind = stmt[b].kind
Kept == StmtInv' /\ KindsKept

\* A call changes one builder; it is enough that the new statement has its
\* kind and agrees with what was asked of it.
LEMMA CallKeeps ==
  ASSUME StmtInv, NEW b \in Builder, Call(b), NEW s \in StatementOver(Built), Change(b, s),
         asked' \in [Builder -> Ask], \A c \in Builder \ {b} : asked'[c] = asked[c],
         Agrees(s, asked'[b]), stmt[b] # None => s.kind = stmt[b].kind
  PROVE  Kept
<1>1. /\ StmtTypeOK /\ Built \subseteq Builder
      /\ stmt \in [Builder -> StatementOver(Builder) \cup {None}]
      /\ stmt' = [stmt EXCEPT ![b] = s]
      /\ cur = None /\ UNCHANGED <<vars, cur, out>> /\ calls' = calls + 1 /\ calls < MaxCalls
  BY DEF StmtInv, StmtTypeOK, Built, Change, Call
<1>2. s \in StatementOver(Builder)
  BY <1>1, Wider
<1>3. s # None /\ stmt'[b] = s /\ \A c \in Builder \ {b} : stmt'[c] = stmt[c]
  BY <1>1, <1>2, NoneAssumption
<1>4. Built' = Built \cup {b} /\ Built \subseteq Built'
  BY <1>3 DEF Built
<1>5. StmtTypeOK'
  <2>1. stmt' \in [Builder -> StatementOver(Builder) \cup {None}]
    BY <1>1, <1>2
  <2>2. calls' \in 0 .. MaxCalls
    BY <1>1, StmtAssumption DEF StmtTypeOK
  <2>3. /\ out' \in [Builder -> Result \cup {None}] /\ cur' \in Builder \cup {None}
        /\ todo' \in Seq(Item \cup {Sub(c) : c \in Builder})
        /\ sb' \in Seq(Token) /\ args' \in Seq(Bound) /\ n' \in Nat
        /\ cur' = None => todo' = <<>> /\ sb' = <<>> /\ args' = <<>> /\ n' = 0
    BY <1>1 DEF StmtTypeOK, vars
  <2>4. \A c \in Builder : out'[c] # None => stmt'[c] # None
    BY <1>1, <1>3 DEF StmtTypeOK
  <2> QED BY <2>1, <2>2, <2>3, <2>4 DEF StmtTypeOK
<1>6. \A c \in Built' : stmt'[c] \in StatementOver(Built') /\ Agrees(stmt'[c], asked'[c])
  <2> TAKE c \in Built'
  <2>1. StatementOver(Built) \subseteq StatementOver(Built')
    BY <1>4, Wider
  <2>2. CASE c = b
    BY <2>1, <2>2, <1>3
  <2>3. CASE c # b
    <3>1. c \in Built /\ c \in Builder \ {b}
      BY <2>3, <1>1, <1>4
    <3>2. stmt[c] \in StatementOver(Built) /\ Agrees(stmt[c], asked[c])
      BY <3>1 DEF StmtInv
    <3> QED BY <2>1, <3>1, <3>2, <1>3
  <2> QED BY <2>2, <2>3
<1>7. \A c \in Builder \ Built' : asked'[c] = Nothing
  <2> TAKE c \in Builder \ Built'
  <2>1. c \in Builder \ Built /\ c \in Builder \ {b}
    BY <1>4
  <2> QED BY <2>1 DEF StmtInv
<1>8. todo' \in Seq(Pending(Built'))
  BY <1>1, <1>4, Wider DEF StmtInv, vars
<1>9. NoFullTableMutation'
  <2> SUFFICES ASSUME NEW c \in Builder, (out[c] # None /\ Is(c, {"Update", "Delete"}))'
               PROVE  (out[c].err = "ErrNoWhere" <=> out[c].asked.preds = {})'
    BY DEF NoFullTableMutation
  <2>1. out' = out /\ stmt[c] # None
    BY <1>1 DEF StmtTypeOK
  <2>2. stmt'[c].kind = stmt[c].kind
    BY <2>1, <1>3
  <2>3. out[c] # None /\ Is(c, {"Update", "Delete"})
    BY <2>1, <2>2 DEF Is
  <2> QED BY <2>1, <2>3 DEF StmtInv, NoFullTableMutation
<1>10. StmtInv'
  BY <1>1, <1>5, <1>6, <1>7, <1>8, <1>9 DEF StmtInv
<1>11. KindsKept
  BY <1>3 DEF KindsKept
<1> QED BY <1>10, <1>11 DEF Kept

\* What a call knows of the builder it is about.
LEMMA CallFacts ==
  ASSUME StmtInv, NEW b \in Builder, NEW K, Is(b, K)
  PROVE  /\ b \in Built /\ stmt[b] # None /\ stmt[b].kind \in K
         /\ stmt[b] \in StatementOver(Built) /\ Agrees(stmt[b], asked[b])
         /\ asked \in [Builder -> Ask] /\ asked[b] \in Ask
BY DEF StmtInv, StmtTypeOK, Is, Built

\* A setter that asks for nothing and changes neither conjuncts nor page.
LEMMA SetterKeeps ==
  ASSUME StmtInv, NEW b \in Builder, Call(b), SameAsk, NEW s \in StatementOver(Built), Change(b, s),
         stmt[b] # None, s.kind = stmt[b].kind,
         s.kind \in {"Select", "Update", "Delete"} => s.where = stmt[b].where,
         s.kind = "Select" => s.limit = stmt[b].limit /\ s.offset = stmt[b].offset
  PROVE  Kept
<1>1. asked' = asked /\ asked \in [Builder -> Ask] /\ Agrees(stmt[b], asked[b])
  BY DEF SameAsk, StmtInv, StmtTypeOK, Built
<1>2. Agrees(s, asked'[b])
  BY <1>1 DEF Agrees
<1> QED BY <1>1, <1>2, CallKeeps

\* The constructors.
LEMMA NewKeeps ==
  ASSUME StmtInv, NEW b \in Builder, NEW s \in StatementOver(Built), New(b, s), Agrees(s, Nothing)
  PROVE  Kept
<1>1. b \in Builder \ Built /\ stmt[b] = None
  BY DEF New, Built
<1>2. asked' = asked /\ asked \in [Builder -> Ask] /\ asked[b] = Nothing
  BY <1>1 DEF New, SameAsk, StmtInv, StmtTypeOK
<1> QED BY <1>1, <1>2, CallKeeps DEF New

LEMMA ConstructorsKeep ==
  ASSUME StmtInv, NEW b \in Builder,
         \/ \E cols \in Seq(ListExprs) : NewSelect(b, cols)
         \/ NewUpdate(b) \/ NewDelete(b)
         \/ \E cols \in Seq(Column), rows \in Seq(Seq(Expr)) : NewInsert(b, cols, rows)
  PROVE  Kept
<1>1. ASSUME NEW cols \in Seq(ListExprs), NewSelect(b, cols)
      PROVE  Kept
  <2> DEFINE s == EmptySelect(cols)
  <2>1. cols \in Seq(Expr)
    BY StmtAssumption, SeqMonotonic
  <2>2. s \in SelectOver(Built)
    BY <2>1, EmptyType DEF EmptySelect, SelectOver
  <2>3. Agrees(s, Nothing)
    BY DEF Agrees, EmptySelect, Nothing, PageOf
  <2>4. New(b, s) /\ s \in StatementOver(Built)
    BY <1>1, <2>2 DEF NewSelect, StatementOver
  <2> HIDE DEF s
  <2> QED BY <2>3, <2>4, NewKeeps
<1>2. ASSUME NewUpdate(b)
      PROVE  Kept
  <2>1. EmptyUpdate \in StatementOver(Built)
    BY EmptyType DEF EmptyUpdate, UpdateShape, StatementOver
  <2>2. Agrees(EmptyUpdate, Nothing)
    BY DEF Agrees, EmptyUpdate, Nothing
  <2> QED BY <1>2, <2>1, <2>2, NewKeeps DEF NewUpdate
<1>3. ASSUME NewDelete(b)
      PROVE  Kept
  <2>1. EmptyDelete \in StatementOver(Built)
    BY EmptyType DEF EmptyDelete, DeleteShape, StatementOver
  <2>2. Agrees(EmptyDelete, Nothing)
    BY DEF Agrees, EmptyDelete, Nothing
  <2> QED BY <1>3, <2>1, <2>2, NewKeeps DEF NewDelete
<1>4. ASSUME NEW cols \in Seq(Column), NEW rows \in Seq(Seq(Expr)), NewInsert(b, cols, rows)
      PROVE  Kept
  <2> DEFINE s == EmptyInsert(cols, rows)
  <2>1. s \in StatementOver(Built)
    BY EmptyType DEF EmptyInsert, InsertShape, StatementOver
  <2>2. Agrees(s, Nothing)
    BY DEF Agrees, EmptyInsert
  <2>3. New(b, s)
    BY <1>4 DEF NewInsert
  <2> HIDE DEF s
  <2> QED BY <2>1, <2>2, <2>3, NewKeeps
<1> QED BY <1>1, <1>2, <1>3, <1>4

\* appendWhere appends conjuncts exactly when a part is not nil.
LEMMA NonNilFacts ==
  ASSUME NEW ps \in Seq(Predicates \cup {Nil})
  PROVE  /\ NonNil(ps) \in Seq(Expr)
         /\ NonNil(ps) = <<>> <=> ToSet(ps) \ {Nil} = {}
         /\ ToSet(ps) \ {Nil} \subseteq Predicates
<1> DEFINE parts == [i \in DOMAIN ps |-> IF ps[i] = Nil THEN <<>> ELSE <<ps[i]>>]
<1>1. DOMAIN ps = 1 .. Len(ps) /\ Len(ps) \in Nat /\ \A i \in DOMAIN ps : ps[i] \in Predicates \cup {Nil}
  OBVIOUS
<1>2. ASSUME NEW S, ToSet(ps) \ {Nil} \subseteq S
      PROVE  parts \in Seq(Seq(S))
  <2>1. ASSUME NEW i \in DOMAIN ps
        PROVE  parts[i] \in Seq(S)
    <3>1. ps[i] # Nil => ps[i] \in S
      BY <1>2 DEF ToSet
    <3> QED BY <3>1, EmptyType
  <2> DEFINE T == Seq(S)
  <2>2. parts \in [1 .. Len(ps) -> T]
    BY <1>1, <2>1
  <2> HIDE DEF T, parts
  <2> QED BY <2>2, <1>1 DEF T
<1>3. NonNil(ps) = FlattenSeq(parts)
  BY DEF NonNil
<1>4. ToSet(ps) \ {Nil} \subseteq Predicates /\ Predicates \subseteq Expr
  BY <1>1, StmtAssumption DEF ToSet
<1>5. NonNil(ps) \in Seq(Expr)
  <2>1. parts \in Seq(Seq(Expr))
    BY <1>2, <1>4
  <2> HIDE DEF parts
  <2> QED BY <1>3, <2>1, FlattenType
<1>6. ASSUME ToSet(ps) \ {Nil} = {}
      PROVE  NonNil(ps) = <<>>
  <2>1. parts \in Seq(Seq({}))
    BY <1>2, <1>6
  <2> HIDE DEF parts
  <2>2. NonNil(ps) \in Seq({})
    BY <1>3, <2>1, FlattenType
  <2> QED BY <2>2
<1>7. ASSUME ToSet(ps) \ {Nil} # {}
      PROVE  NonNil(ps) # <<>>
  <2>1. PICK i \in DOMAIN ps : ps[i] # Nil
    BY <1>7 DEF ToSet
  <2>2. i \in DOMAIN parts /\ Len(parts[i]) = 1
    BY <2>1
  <2>3. parts \in Seq(Seq(Expr))
    BY <1>2, <1>4
  <2> HIDE DEF parts
  <2>4. Len(NonNil(ps)) >= 1
    BY <1>3, <2>2, <2>3, FlattenType
  <2> QED BY <2>4
<1> QED BY <1>4, <1>5, <1>6, <1>7

\* ApplyList goes through the options one by one: FoldLeft's recursion over the
\* positions of the list is defined, whatever the list.
OneByOne(s, opts, m) ==
  \E g : /\ g[0] = s /\ ApplyOpts(s, opts) = g[m]
         /\ \A k \in 0 .. (m - 1) : g[k + 1] = ApplyOpt(g[k], opts[k + 1])
LEMMA ApplySteps ==
  ASSUME NEW s, NEW opts, NEW m \in Nat, DOMAIN opts = 1 .. m
  PROVE  OneByOne(s, opts, m)
<1> DEFINE Body(g, S) == IF S = {} THEN s ELSE ApplyOpt(g[S \ {Max(S)}], opts[Max(S)])
           Defined(k) == \E g : g = [S \in SUBSET (1 .. k) |-> Body(g, S)]
           Reached == {k \in Nat : Defined(k)}
           f == CHOOSE g : g = [S \in SUBSET (1 .. m) |-> Body(g, S)]
<1>1. \A k \in Nat : \A S \in SUBSET (1 .. (k + 1)) : k + 1 \in S => Max(S) = k + 1
  BY LastIsMax
<1>2. 0 \in Reached
  <2> DEFINE g == [S \in SUBSET (1 .. 0) |-> s]
  <2>1. SUBSET (1 .. 0) = {{}}
    OBVIOUS
  <2>2. g = [S \in SUBSET (1 .. 0) |-> Body(g, S)]
    BY <2>1
  <2>3. Defined(0)
    BY <2>2
  <2> HIDE DEF Defined
  <2> QED BY <2>3
<1>3. ASSUME NEW k \in Nat, k \in Reached
      PROVE  k + 1 \in Reached
  <2>1. PICK g : g = [S \in SUBSET (1 .. k) |-> Body(g, S)]
    BY <1>3
  <2>2. \A S \in SUBSET (1 .. k) : g[S] = Body(g, S)
    <3> HIDE DEF Body
    <3> QED BY <2>1
  <2> DEFINE h == [S \in SUBSET (1 .. (k + 1)) |-> IF k + 1 \in S THEN Body(g, S) ELSE g[S]]
  <2>3. \A S \in SUBSET (1 .. k) : S \in SUBSET (1 .. (k + 1)) /\ h[S] = g[S]
    OBVIOUS
  <2>4. ASSUME NEW S \in SUBSET (1 .. (k + 1))
        PROVE  h[S] = Body(h, S)
    <3>1. CASE k + 1 \in S
      <4>1. Max(S) = k + 1 /\ S \ {k + 1} \in SUBSET (1 .. k)
        BY <1>1, <3>1
      <4>2. h[S] = Body(g, S) /\ h[S \ {Max(S)}] = g[S \ {Max(S)}]
        BY <3>1, <4>1, <2>3
      <4> HIDE DEF h
      <4> QED BY <4>2
    <3>2. CASE k + 1 \notin S
      <4>1. S \in SUBSET (1 .. k) /\ S \ {Max(S)} \in SUBSET (1 .. k)
        <5>1. \A y \in S : y \in 1 .. k
          BY <3>2
        <5> QED BY <5>1
      <4>2. h[S] = Body(g, S) /\ h[S \ {Max(S)}] = g[S \ {Max(S)}]
        BY <4>1, <2>2, <2>3
      <4> HIDE DEF h
      <4> QED BY <4>2
    <3> QED BY <3>1, <3>2
  <2>5. h = [S \in SUBSET (1 .. (k + 1)) |-> h[S]]
    OBVIOUS
  <2> HIDE DEF h
  <2>6. Defined(k + 1)
    BY <2>4, <2>5
  <2> HIDE DEF Defined
  <2> QED BY <2>6
<1>4. Nat \subseteq Reached
  <2> HIDE DEF Reached
  <2> QED BY <1>2, <1>3, Counting
<1>5. ApplyOpts(s, opts) = f[1 .. m]
  BY DEF ApplyOpts, FoldLeft, MapThenFoldSet
<1>6. f = [S \in SUBSET (1 .. m) |-> Body(f, S)]
  <2>1. Defined(m)
    BY <1>4
  <2> QED BY <2>1
<1>7. \A S \in SUBSET (1 .. m) : f[S] = Body(f, S)
  <2> HIDE DEF Body, f
  <2> QED BY <1>6
<1> HIDE DEF f
<1> DEFINE g == [k \in 0 .. m |-> f[1 .. k]]
<1>8. g[0] = s /\ g[m] = f[1 .. m]
  <2>1. 1 .. 0 = {} /\ {} \in SUBSET (1 .. m) /\ 0 \in 0 .. m /\ m \in 0 .. m
    OBVIOUS
  <2> QED BY <2>1, <1>7
<1>9. ASSUME NEW k \in 0 .. (m - 1)
      PROVE  g[k + 1] = ApplyOpt(g[k], opts[k + 1])
  <2> DEFINE S == 1 .. (k + 1)
  <2>1. k \in Nat /\ k \in 0 .. m /\ k + 1 \in 0 .. m
    OBVIOUS
  <2>2. S \in SUBSET (1 .. m) /\ k + 1 \in S /\ S # {} /\ S \ {k + 1} = 1 .. k
    OBVIOUS
  <2>3. Max(S) = k + 1
    BY <1>1, <2>1, <2>2
  <2> HIDE DEF S
  <2>4. f[S] = ApplyOpt(f[1 .. k], opts[k + 1])
    BY <1>7, <2>2, <2>3
  <2> QED BY <2>1, <2>4 DEF S
<1> HIDE DEF g
<1> QED BY <1>5, <1>8, <1>9 DEF OneByOne

\* The first k elements of a list.
FirstOf(is, k) == [j \in 1 .. k |-> is[j]]

\* The last positive number of a list is the last one, or that of the rest.
LEMMA LastPositiveSteps ==
  ASSUME NEW is, NEW old, NEW m \in Nat, \A j \in 1 .. m : is[j] \in Int
  PROVE  /\ LastPositive(FirstOf(is, 0), old) = old
         /\ \A k \in 0 .. (m - 1) :
              LastPositive(FirstOf(is, k + 1), old)
              = IF is[k + 1] > 0 THEN is[k + 1] ELSE LastPositive(FirstOf(is, k), old)
<1> DEFINE f(k) == FirstOf(is, k)
           P(k) == {j \in 1 .. k : is[j] > 0}
           Top(S) == CHOOSE x \in S : \A y \in S : y <= x
<1>1. ASSUME NEW k \in 0 .. m
      PROVE  LastPositive(f(k), old) = IF P(k) = {} THEN old ELSE is[Top(P(k))]
  <2>1. {j \in DOMAIN f(k) : f(k)[j] > 0} = P(k)
    BY DEF FirstOf
  <2>2. LastPositive(f(k), old) = IF P(k) = {} THEN old ELSE f(k)[Top(P(k))]
    <3> DEFINE c == f(k)
               S == {j \in DOMAIN c : c[j] > 0}
    <3>1. S = P(k)
      BY <2>1
    <3> HIDE DEF c, P
    <3>2. LastPositive(c, old) = IF S = {} THEN old ELSE c[Top(S)]
      BY DEF LastPositive
    <3> HIDE DEF S, Top
    <3> QED BY <3>1, <3>2 DEF c
  <2>3. P(k) # {} => Top(P(k)) \in P(k)
    <3> DEFINE S == P(k)
    <3>1. S \subseteq 1 .. k /\ k \in Nat
      OBVIOUS
    <3> HIDE DEF S
    <3>2. S # {} => \E x \in S : \A y \in S : y <= x
      BY <3>1, GreatestNatural
    <3> QED BY <3>2 DEF S
  <2>4. \A x \in P(k) : f(k)[x] = is[x]
    BY DEF FirstOf
  <2> HIDE DEF f, P, Top
  <2> QED BY <2>2, <2>3, <2>4
<1>2. LastPositive(f(0), old) = old
  <2>1. P(0) = {} /\ 0 \in 0 .. m
    OBVIOUS
  <2> HIDE DEF f, P, Top
  <2> QED BY <1>1, <2>1
<1>3. ASSUME NEW k \in 0 .. (m - 1)
      PROVE  LastPositive(f(k + 1), old) = IF is[k + 1] > 0 THEN is[k + 1] ELSE LastPositive(f(k), old)
  <2>1. k \in 0 .. m /\ k + 1 \in 0 .. m
    OBVIOUS
  <2>2. CASE is[k + 1] > 0
    <3>1. k + 1 \in P(k + 1) /\ \A y \in P(k + 1) : y <= k + 1 /\ y \in Nat
      BY <2>2
    <3>2. Top(P(k + 1)) = k + 1
      <4> DEFINE S == P(k + 1)
      <4>1. k + 1 \in S /\ \A y \in S : y <= k + 1 /\ y \in Nat
        BY <3>1
      <4> HIDE DEF S
      <4>2. \A x \in S : (\A y \in S : y <= x) => x = k + 1
        BY <4>1
      <4>3. (CHOOSE x \in S : \A y \in S : y <= x) = k + 1
        BY <4>1, <4>2
      <4> QED BY <4>3 DEF S
    <3> HIDE DEF f, P, Top
    <3> QED BY <1>1, <2>1, <2>2, <3>1, <3>2
  <2>3. CASE ~(is[k + 1] > 0)
    <3>1. P(k + 1) = P(k)
      <4>1. \A y \in P(k + 1) : y \in P(k)
        BY <2>3
      <4>2. \A y \in P(k) : y \in P(k + 1)
        OBVIOUS
      <4> HIDE DEF P
      <4>3. P(k + 1) \subseteq P(k) /\ P(k) \subseteq P(k + 1)
        BY <4>1, <4>2
      <4> QED BY <4>3
    <3> HIDE DEF f, P, Top
    <3> QED BY <1>1, <2>1, <2>3, <3>1
  <2> QED BY <2>2, <2>3
<1> QED BY <1>2, <1>3

\* One option: the setters it goes through keep the shape and the conjuncts,
\* and a page that is not positive changes nothing.
LEMMA ApplyOptKeeps ==
  ASSUME NEW B, NEW s \in SelectOver(B), NEW o \in ListOption
  PROVE  LET r == ApplyOpt(s, o) IN
         /\ r \in SelectOver(B) /\ r.where = s.where
         /\ r.limit = IF o.limit > 0 THEN o.limit ELSE s.limit
         /\ r.offset = IF o.offset > 0 THEN o.offset ELSE s.offset
<1>1. o.limit \in Limits /\ o.offset \in Limits /\ o.order \in Seq(SortTerm) /\ Limits \subseteq Int
  BY StmtAssumption DEF ListOption
<1>2. \A i \in Limits : i > 0 => i \in Page
  BY DEF Page
<1> DEFINE u == [s EXCEPT !.order = @ \o o.order]
<1>3. u \in SelectOver(B) /\ u.where = s.where /\ u.limit = s.limit /\ u.offset = s.offset
  <2>1. s.order \o o.order \in Seq(SortTerm)
    BY <1>1, ConcatType DEF SelectOver
  <2> QED BY <2>1 DEF SelectOver
<1> HIDE DEF u
<1> DEFINE v == SetLimit(u, o.limit)
<1>4. /\ v \in SelectOver(B) /\ v.where = s.where /\ v.offset = s.offset
      /\ v.limit = IF o.limit > 0 THEN o.limit ELSE s.limit
  BY <1>1, <1>2, <1>3 DEF SelectOver, SetLimit
<1> HIDE DEF v
<1> DEFINE w == SetOffset(v, o.offset)
<1>5. /\ w \in SelectOver(B) /\ w.where = s.where /\ w.limit = v.limit
      /\ w.offset = IF o.offset > 0 THEN o.offset ELSE s.offset
  BY <1>1, <1>2, <1>4 DEF SelectOver, SetOffset
<1>6. ApplyOpt(s, o) = w
  BY DEF ApplyOpt, u, v
<1> HIDE DEF w
<1> QED BY <1>4, <1>5, <1>6

\* The limits and the offsets of a list of options, and what they leave of a page.
LimitsOf(opts) == [k \in DOMAIN opts |-> opts[k].limit]
OffsetsOf(opts) == [k \in DOMAIN opts |-> opts[k].offset]
LEMMA ApplyListKeeps ==
  ASSUME NEW B, NEW s \in SelectOver(B), NEW opts \in Seq(ListOption),
         NEW l \in Page \cup {0}, NEW o \in Page \cup {0},
         s.limit = PageOf(l), s.offset = PageOf(o)
  PROVE  LET r == ApplyOpts(s, opts)
             lim == LastPositive(LimitsOf(opts), l)
             off == LastPositive(OffsetsOf(opts), o)
         IN /\ r \in SelectOver(B) /\ r.where = s.where
            /\ lim \in Page \cup {0} /\ off \in Page \cup {0}
            /\ r.limit = PageOf(lim) /\ r.offset = PageOf(off)
<1> DEFINE m == Len(opts)
           ls == LimitsOf(opts)
           os == OffsetsOf(opts)
           lim(k) == LastPositive(FirstOf(ls, k), l)
           off(k) == LastPositive(FirstOf(os, k), o)
<1>1. m \in Nat /\ DOMAIN opts = 1 .. m /\ \A k \in 1 .. m : opts[k] \in ListOption
  OBVIOUS
<1>2. /\ Limits \subseteq Int /\ \A i \in Limits : i > 0 => i \in Page /\ i # 0
      /\ \A k \in 1 .. m : opts[k].limit \in Limits /\ opts[k].offset \in Limits
  BY <1>1, StmtAssumption DEF Page, ListOption
<1>3. \A k \in 1 .. m : /\ ls[k] = opts[k].limit /\ os[k] = opts[k].offset
                         /\ ls[k] \in Int /\ os[k] \in Int
  BY <1>1, <1>2 DEF LimitsOf, OffsetsOf
<1>4. PICK g : /\ g[0] = s /\ ApplyOpts(s, opts) = g[m]
               /\ \A k \in 0 .. (m - 1) : g[k + 1] = ApplyOpt(g[k], opts[k + 1])
  <2> HIDE DEF m, ls, os, lim, off
  <2>1. m \in Nat /\ DOMAIN opts = 1 .. m
    BY <1>1
  <2>2. OneByOne(s, opts, m)
    BY <2>1, ApplySteps
  <2> QED BY <2>2 DEF OneByOne
<1>5. /\ lim(0) = l /\ off(0) = o
      /\ \A k \in 0 .. (m - 1) : lim(k + 1) = IF ls[k + 1] > 0 THEN ls[k + 1] ELSE lim(k)
      /\ \A k \in 0 .. (m - 1) : off(k + 1) = IF os[k + 1] > 0 THEN os[k + 1] ELSE off(k)
  <2> HIDE DEF m, ls, os
  <2>1. \A j \in 1 .. m : ls[j] \in Int
    BY <1>3
  <2>2. \A j \in 1 .. m : os[j] \in Int
    BY <1>3
  <2>3. /\ lim(0) = l
        /\ \A k \in 0 .. (m - 1) : lim(k + 1) = IF ls[k + 1] > 0 THEN ls[k + 1] ELSE lim(k)
    BY <1>1, <2>1, LastPositiveSteps
  <2>4. /\ off(0) = o
        /\ \A k \in 0 .. (m - 1) : off(k + 1) = IF os[k + 1] > 0 THEN os[k + 1] ELSE off(k)
    BY <1>1, <2>2, LastPositiveSteps
  <2> HIDE DEF lim, off
  <2> QED BY <2>3, <2>4
<1>6. ls = FirstOf(ls, m) /\ os = FirstOf(os, m)
  BY <1>1 DEF FirstOf, LimitsOf, OffsetsOf
<1>7. LastPositive(ls, l) = lim(m) /\ LastPositive(os, o) = off(m)
  <2> HIDE DEF m, ls, os
  <2> QED BY <1>6
<1> HIDE DEF m, ls, os, lim, off
<1> DEFINE Good(k) == /\ g[k] \in SelectOver(B) /\ g[k].where = s.where
                      /\ lim(k) \in Page \cup {0} /\ off(k) \in Page \cup {0}
                      /\ g[k].limit = PageOf(lim(k)) /\ g[k].offset = PageOf(off(k))
           Upto == {k \in Nat : k <= m => Good(k)}
<1>8. 0 \in Upto
  <2>1. Good(0)
    BY <1>4, <1>5
  <2> HIDE DEF Good
  <2> QED BY <2>1
<1>9. ASSUME NEW k \in Nat, k \in Upto
      PROVE  k + 1 \in Upto
  <2>1. SUFFICES ASSUME k + 1 <= m PROVE Good(k + 1)
    <3> HIDE DEF Good
    <3> QED OBVIOUS
  <2>2. Good(k)
    <3> HIDE DEF Good
    <3> QED BY <1>1, <1>9, <2>1
  <2>3. k \in 0 .. (m - 1) /\ k + 1 \in 1 .. m
    BY <1>1, <2>1
  <2> DEFINE p == opts[k + 1]
             r == ApplyOpt(g[k], p)
  <2>4. p \in ListOption /\ ls[k + 1] = p.limit /\ os[k + 1] = p.offset /\ g[k + 1] = r
    BY <1>1, <1>3, <1>4, <2>3
  <2>5. /\ r \in SelectOver(B) /\ r.where = s.where
        /\ r.limit = IF p.limit > 0 THEN p.limit ELSE g[k].limit
        /\ r.offset = IF p.offset > 0 THEN p.offset ELSE g[k].offset
    BY <2>2, <2>4, ApplyOptKeeps
  <2>6. p.limit \in Limits /\ p.offset \in Limits
    BY <1>2, <2>3
  <2> HIDE DEF p, r
  <2>7. /\ lim(k + 1) = IF p.limit > 0 THEN p.limit ELSE lim(k)
        /\ off(k + 1) = IF p.offset > 0 THEN p.offset ELSE off(k)
    BY <1>5, <2>3, <2>4
  <2> QED BY <1>2, <2>2, <2>4, <2>5, <2>6, <2>7 DEF PageOf
<1>10. Good(m)
  <2>1. Nat \subseteq Upto
    <3> HIDE DEF Upto
    <3> QED BY <1>8, <1>9, Counting
  <2> HIDE DEF Good
  <2> QED BY <1>1, <2>1
<1> QED BY <1>4, <1>7, <1>10 DEF ls, os

\* Where appends the predicates it is given: there are conjuncts afterwards
\* exactly when it, or a call before it, was given one.
LEMMA WhereKeeps ==
  ASSUME StmtInv, NEW b \in Builder, NEW ps \in Seq(Predicates \cup {Nil}), Where(b, ps)
  PROVE  Kept
<1> DEFINE old == stmt[b]
           more == NonNil(ps)
           s == [old EXCEPT !.where = @ \o more]
           given == ToSet(ps) \ {Nil}
           a == [asked[b] EXCEPT !.preds = @ \cup given]
<1>1. /\ Is(b, {"Select", "Update", "Delete"}) /\ Call(b) /\ Change(b, s)
      /\ asked' = [asked EXCEPT ![b].preds = @ \cup given]
  BY DEF Where
<1>2. /\ old # None /\ old.kind \in {"Select", "Update", "Delete"}
      /\ old \in StatementOver(Built) /\ Agrees(old, asked[b])
      /\ asked \in [Builder -> Ask] /\ asked[b] \in Ask
  BY <1>1, CallFacts
<1>3. more \in Seq(Expr) /\ (more = <<>> <=> given = {}) /\ given \subseteq Predicates
  BY NonNilFacts
<1> HIDE DEF more, given, old
<1>4. a \in Ask /\ a.preds = asked[b].preds \cup given /\ a.limit = asked[b].limit /\ a.offset = asked[b].offset
  BY <1>2, <1>3 DEF Ask
<1>5. asked' = [asked EXCEPT ![b] = a]
  BY <1>1
<1> HIDE DEF a
<1>6. asked' \in [Builder -> Ask] /\ asked'[b] = a /\ \A c \in Builder \ {b} : asked'[c] = asked[c]
  BY <1>2, <1>4, <1>5
<1>7. ASSUME old.kind = "Select"
      PROVE  s \in SelectOver(Built) /\ s.kind = old.kind /\ s.where = old.where \o more
             /\ s.limit = old.limit /\ s.offset = old.offset /\ old.where \in Seq(Expr)
  <2>1. old \in SelectOver(Built)
    BY <1>2, <1>7, ShapeOfKind
  <2>2. old.where \in Seq(Expr) /\ old.where \o more \in Seq(Expr)
    BY <2>1, <1>3, ConcatType DEF SelectOver
  <2> QED BY <2>1, <2>2 DEF SelectOver
<1>8. ASSUME old.kind = "Update"
      PROVE  s \in UpdateShape /\ s.kind = old.kind /\ s.where = old.where \o more /\ old.where \in Seq(Expr)
  <2>1. old \in UpdateShape
    BY <1>2, <1>8, ShapeOfKind
  <2>2. old.where \in Seq(Expr) /\ old.where \o more \in Seq(Expr)
    BY <2>1, <1>3, ConcatType DEF UpdateShape
  <2> QED BY <2>1, <2>2 DEF UpdateShape
<1>9. ASSUME old.kind = "Delete"
      PROVE  s \in DeleteShape /\ s.kind = old.kind /\ s.where = old.where \o more /\ old.where \in Seq(Expr)
  <2>1. old \in DeleteShape
    BY <1>2, <1>9, ShapeOfKind
  <2>2. old.where \in Seq(Expr) /\ old.where \o more \in Seq(Expr)
    BY <2>1, <1>3, ConcatType DEF DeleteShape
  <2> QED BY <2>1, <2>2 DEF DeleteShape
<1>10. /\ s \in StatementOver(Built) /\ s.kind = old.kind
       /\ s.where = old.where \o more /\ old.where \in Seq(Expr)
       /\ s.kind = "Select" => s.limit = old.limit /\ s.offset = old.offset
  BY <1>2, <1>7, <1>8, <1>9 DEF StatementOver
<1> HIDE DEF s
<1>11. s.where = <<>> <=> old.where = <<>> /\ more = <<>>
  BY <1>3, <1>10, ConcatEqualIffEmpty
<1>12. Agrees(s, a)
  BY <1>2, <1>3, <1>4, <1>10, <1>11 DEF Agrees
<1> QED BY <1>1, <1>6, <1>10, <1>12, CallKeeps DEF old

\* A list with one element more.
LEMMA AppendType ==
  ASSUME NEW S, NEW s \in Seq(S), NEW e \in S
  PROVE  Append(s, e) \in Seq(S)
OBVIOUS

\* A Select's own setters, of what is neither condition nor page.
LEMMA SelectSettersKeep ==
  ASSUME StmtInv, NEW b \in Builder,
         \/ \E o \in SortTerm : OrderBy(b, o)
         \/ \E e \in ListExprs : GroupBy(b, e) \/ DistinctOn(b, e)
         \/ \E e \in Predicates \cup {Nil} : Having(b, e)
         \/ Lock(b)
         \/ \E c \in Builder : With(b, c)
  PROVE  Kept
<1> DEFINE old == stmt[b]
<1>1. Is(b, {"Select"}) /\ Call(b) /\ SameAsk
  BY DEF OrderBy, GroupBy, DistinctOn, Having, Lock, With
<1>2. old # None /\ old.kind = "Select" /\ old \in StatementOver(Built)
  BY <1>1, CallFacts
<1>3. old \in SelectOver(Built)
  BY <1>2, ShapeOfKind
<1>4. ASSUME NEW s \in SelectOver(Built), Change(b, s),
             s.where = old.where, s.limit = old.limit, s.offset = old.offset
      PROVE  Kept
  <2>1. s \in StatementOver(Built) /\ s.kind = old.kind
    BY <1>2 DEF StatementOver, SelectOver
  <2> QED BY <1>1, <1>2, <1>4, <2>1, SetterKeeps
<1> HIDE DEF old
<1>5. ASSUME NEW o \in SortTerm, OrderBy(b, o)
      PROVE  Kept
  <2> DEFINE s == [old EXCEPT !.order = Append(@, o)]
  <2>1. Append(old.order, o) \in Seq(SortTerm)
    BY <1>3, AppendType DEF SelectOver
  <2>2. s \in SelectOver(Built) /\ s.where = old.where /\ s.limit = old.limit /\ s.offset = old.offset
    BY <1>3, <2>1 DEF SelectOver
  <2>3. Change(b, s)
    BY <1>5 DEF OrderBy, old
  <2> HIDE DEF s
  <2> QED BY <1>4, <2>2, <2>3
<1>6. ASSUME NEW e \in ListExprs, GroupBy(b, e)
      PROVE  Kept
  <2> DEFINE s == [old EXCEPT !.group = Append(@, e)]
  <2>1. Append(old.group, e) \in Seq(Expr)
    BY <1>3, AppendType, StmtAssumption DEF SelectOver
  <2>2. s \in SelectOver(Built) /\ s.where = old.where /\ s.limit = old.limit /\ s.offset = old.offset
    BY <1>3, <2>1 DEF SelectOver
  <2>3. Change(b, s)
    BY <1>6 DEF GroupBy, old
  <2> HIDE DEF s
  <2> QED BY <1>4, <2>2, <2>3
<1>7. ASSUME NEW e \in ListExprs, DistinctOn(b, e)
      PROVE  Kept
  <2> DEFINE s == [old EXCEPT !.distinctOn = Append(@, e)]
  <2>1. Append(old.distinctOn, e) \in Seq(Expr)
    BY <1>3, AppendType, StmtAssumption DEF SelectOver
  <2>2. s \in SelectOver(Built) /\ s.where = old.where /\ s.limit = old.limit /\ s.offset = old.offset
    BY <1>3, <2>1 DEF SelectOver
  <2>3. Change(b, s)
    BY <1>7 DEF DistinctOn, old
  <2> HIDE DEF s
  <2> QED BY <1>4, <2>2, <2>3
<1>8. ASSUME NEW e \in Predicates \cup {Nil}, Having(b, e)
      PROVE  Kept
  <2> DEFINE s == [old EXCEPT !.having = e]
  <2>1. s \in SelectOver(Built) /\ s.where = old.where /\ s.limit = old.limit /\ s.offset = old.offset
    BY <1>3 DEF SelectOver
  <2>2. Change(b, s)
    BY <1>8 DEF Having, old
  <2> HIDE DEF s
  <2> QED BY <1>4, <2>1, <2>2
<1>9. ASSUME Lock(b)
      PROVE  Kept
  <2> DEFINE s == [old EXCEPT !.lock = TRUE]
  <2>1. s \in SelectOver(Built) /\ s.where = old.where /\ s.limit = old.limit /\ s.offset = old.offset
    BY <1>3 DEF SelectOver
  <2>2. Change(b, s)
    BY <1>9 DEF Lock, old
  <2> HIDE DEF s
  <2> QED BY <1>4, <2>1, <2>2
<1>10. ASSUME NEW c \in Builder, With(b, c)
       PROVE  Kept
  <2> DEFINE s == [old EXCEPT !.ctes = Append(@, c)]
  <2>1. c \in Built
    BY <1>10 DEF With, Is, Built
  <2>2. Append(old.ctes, c) \in Seq(Built)
    BY <1>3, <2>1, AppendType DEF SelectOver
  <2>3. s \in SelectOver(Built) /\ s.where = old.where /\ s.limit = old.limit /\ s.offset = old.offset
    BY <1>3, <2>2 DEF SelectOver
  <2>4. Change(b, s)
    BY <1>10 DEF With, old
  <2> HIDE DEF s
  <2> QED BY <1>4, <2>3, <2>4
<1> QED BY <1>5, <1>6, <1>7, <1>8, <1>9, <1>10

\* Returning, Set and OnConflict.
LEMMA MutationSettersKeep ==
  ASSUME StmtInv, NEW b \in Builder,
         \/ \E e \in ListExprs : Returning(b, e)
         \/ \E col \in Column, e \in ListExprs \cup {Nil} : Set(b, col, e)
         \/ \E oc \in ConflictClause : OnConflict(b, oc)
  PROVE  Kept
<1> DEFINE old == stmt[b]
<1>1. ASSUME NEW e \in ListExprs, Returning(b, e)
      PROVE  Kept
  <2> DEFINE s == [old EXCEPT !.returning = Append(@, e)]
  <2>1. Is(b, {"Insert", "Update", "Delete"}) /\ Call(b) /\ SameAsk /\ Change(b, s)
    BY <1>1 DEF Returning
  <2>2. old # None /\ old.kind \in {"Insert", "Update", "Delete"} /\ old \in StatementOver(Built)
    BY <2>1, CallFacts
  <2>3. e \in Expr
    BY StmtAssumption
  <2> HIDE DEF old
  <2>4. old.kind = "Insert" => s \in InsertShape /\ s.kind = old.kind
    <3>1. old.kind = "Insert" => old \in InsertShape
      BY <2>2, ShapeOfKind
    <3>2. old \in InsertShape => Append(old.returning, e) \in Seq(Expr)
      BY <2>3, AppendType DEF InsertShape
    <3> QED BY <3>1, <3>2 DEF InsertShape
  <2>5. old.kind = "Update" => s \in UpdateShape /\ s.kind = old.kind /\ s.where = old.where
    <3>1. old.kind = "Update" => old \in UpdateShape
      BY <2>2, ShapeOfKind
    <3>2. old \in UpdateShape => Append(old.returning, e) \in Seq(Expr)
      BY <2>3, AppendType DEF UpdateShape
    <3> QED BY <3>1, <3>2 DEF UpdateShape
  <2>6. old.kind = "Delete" => s \in DeleteShape /\ s.kind = old.kind /\ s.where = old.where
    <3>1. old.kind = "Delete" => old \in DeleteShape
      BY <2>2, ShapeOfKind
    <3>2. old \in DeleteShape => Append(old.returning, e) \in Seq(Expr)
      BY <2>3, AppendType DEF DeleteShape
    <3> QED BY <3>1, <3>2 DEF DeleteShape
  <2> HIDE DEF s
  <2>7. /\ s \in StatementOver(Built) /\ s.kind = old.kind /\ s.kind # "Select"
        /\ s.kind \in {"Update", "Delete"} => s.where = old.where
    BY <2>2, <2>4, <2>5, <2>6 DEF StatementOver
  <2> QED BY <2>1, <2>2, <2>7, SetterKeeps DEF old
<1>2. ASSUME NEW col \in Column, NEW e \in ListExprs \cup {Nil}, Set(b, col, e)
      PROVE  Kept
  <2> DEFINE s == [old EXCEPT !.sets = Append(@, [col |-> col, e |-> e])]
  <2>1. Is(b, {"Update"}) /\ Call(b) /\ SameAsk /\ Change(b, s)
    BY <1>2 DEF Set
  <2>2. old # None /\ old.kind = "Update" /\ old \in StatementOver(Built)
    BY <2>1, CallFacts
  <2>3. old \in UpdateShape /\ [col |-> col, e |-> e] \in Assignment
    BY <2>2, ShapeOfKind DEF Assignment
  <2> HIDE DEF old
  <2>4. Append(old.sets, [col |-> col, e |-> e]) \in Seq(Assignment)
    BY <2>3, AppendType DEF UpdateShape
  <2>5. s \in UpdateShape /\ s.kind = old.kind /\ s.where = old.where
    BY <2>3, <2>4 DEF UpdateShape
  <2> HIDE DEF s
  <2>6. s \in StatementOver(Built)
    BY <2>5 DEF StatementOver
  <2> QED BY <2>1, <2>2, <2>5, <2>6, SetterKeeps DEF old
<1>3. ASSUME NEW oc \in ConflictClause, OnConflict(b, oc)
      PROVE  Kept
  <2> DEFINE s == [old EXCEPT !.onConflict = oc]
  <2>1. Is(b, {"Insert"}) /\ Call(b) /\ SameAsk /\ Change(b, s)
    BY <1>3 DEF OnConflict
  <2>2. old # None /\ old.kind = "Insert" /\ old \in StatementOver(Built)
    BY <2>1, CallFacts
  <2>3. old \in InsertShape
    BY <2>2, ShapeOfKind
  <2> HIDE DEF old
  <2>4. s \in InsertShape /\ s.kind = old.kind
    BY <2>3 DEF InsertShape
  <2> HIDE DEF s
  <2>5. s \in StatementOver(Built)
    BY <2>4 DEF StatementOver
  <2> QED BY <2>1, <2>2, <2>4, <2>5, SetterKeeps DEF old
<1> QED BY <1>1, <1>2, <1>3

\* Limit, Offset and ApplyList leave the conjuncts alone and hold the last
\* positive number they were given.
LEMMA PageKeeps ==
  ASSUME StmtInv, NEW b \in Builder,
         \/ \E i \in Limits : Limit(b, i) \/ Offset(b, i)
         \/ \E opts \in Seq(ListOption) : ApplyList(b, opts)
  PROVE  Kept
<1> DEFINE old == stmt[b]
           a == asked[b]
<1>1. Is(b, {"Select"}) /\ Call(b)
  BY DEF Limit, Offset, ApplyList
<1>2. /\ old # None /\ old.kind = "Select" /\ old \in StatementOver(Built) /\ Agrees(old, a)
      /\ asked \in [Builder -> Ask] /\ a \in Ask
  BY <1>1, CallFacts
<1>3. old \in SelectOver(Built)
  BY <1>2, ShapeOfKind
<1>4. /\ a.limit \in Page \cup {0} /\ a.offset \in Page \cup {0}
      /\ old.limit = PageOf(a.limit) /\ old.offset = PageOf(a.offset)
      /\ old.where = <<>> <=> a.preds = {}
  BY <1>2 DEF Ask, Agrees
<1>5. ASSUME NEW s \in SelectOver(Built), Change(b, s), s.where = old.where,
             NEW l \in Page \cup {0}, NEW o \in Page \cup {0},
             s.limit = PageOf(l), s.offset = PageOf(o),
             asked' = [asked EXCEPT ![b].limit = l, ![b].offset = o]
      PROVE  Kept
  <2> DEFINE c == [a EXCEPT !.limit = l, !.offset = o]
  <2>1. c \in Ask /\ c.preds = a.preds /\ c.limit = l /\ c.offset = o
    BY <1>2 DEF Ask
  <2>2. asked' = [asked EXCEPT ![b] = c]
    BY <1>2, <1>5
  <2> HIDE DEF c, a
  <2>3. asked' \in [Builder -> Ask] /\ asked'[b] = c /\ \A d \in Builder \ {b} : asked'[d] = asked[d]
    BY <1>2, <2>1, <2>2
  <2>4. s \in StatementOver(Built) /\ s.kind = "Select"
    BY DEF StatementOver, SelectOver
  <2>5. Agrees(s, c)
    BY <1>4, <1>5, <2>1, <2>4 DEF Agrees
  <2> QED BY <1>1, <1>2, <1>5, <2>3, <2>4, <2>5, CallKeeps
<1>6. Limits \subseteq Int /\ \A i \in Limits : i > 0 => i \in Page /\ i # 0
  BY StmtAssumption DEF Page
<1>7. asked = [asked EXCEPT ![b].limit = a.limit, ![b].offset = a.offset]
  BY <1>2 DEF Ask
<1>8. ASSUME NEW i \in Limits, Limit(b, i)
      PROVE  Kept
  <2> DEFINE s == SetLimit(old, i)
             l == IF i > 0 THEN i ELSE a.limit
  <2>1. Change(b, s) /\ asked' = IF i > 0 THEN [asked EXCEPT ![b].limit = i] ELSE asked
    BY <1>8 DEF Limit
  <2>2. asked' = [asked EXCEPT ![b].limit = l, ![b].offset = a.offset]
    <3>1. CASE i > 0
      <4>1. [asked EXCEPT ![b].limit = i] = [asked EXCEPT ![b].limit = i, ![b].offset = a.offset]
        BY <1>2 DEF Ask
      <4> QED BY <2>1, <3>1, <4>1
    <3>2. CASE ~(i > 0)
      BY <2>1, <3>2, <1>7
    <3> QED BY <3>1, <3>2
  <2> HIDE DEF old, a
  <2>3. s \in SelectOver(Built) /\ s.where = old.where /\ s.limit = PageOf(l) /\ s.offset = PageOf(a.offset)
    BY <1>3, <1>4, <1>6 DEF SetLimit, SelectOver, PageOf
  <2>4. l \in Page \cup {0}
    BY <1>4, <1>6
  <2> HIDE DEF s, l
  <2> QED BY <1>4, <1>5, <2>1, <2>2, <2>3, <2>4
<1>9. ASSUME NEW i \in Limits, Offset(b, i)
      PROVE  Kept
  <2> DEFINE s == SetOffset(old, i)
             o == IF i > 0 THEN i ELSE a.offset
  <2>1. Change(b, s) /\ asked' = IF i > 0 THEN [asked EXCEPT ![b].offset = i] ELSE asked
    BY <1>9 DEF Offset
  <2>2. asked' = [asked EXCEPT ![b].limit = a.limit, ![b].offset = o]
    <3>1. CASE i > 0
      <4>1. [asked EXCEPT ![b].offset = i] = [asked EXCEPT ![b].limit = a.limit, ![b].offset = i]
        BY <1>2 DEF Ask
      <4> QED BY <2>1, <3>1, <4>1
    <3>2. CASE ~(i > 0)
      BY <2>1, <3>2, <1>7
    <3> QED BY <3>1, <3>2
  <2> HIDE DEF old, a
  <2>3. s \in SelectOver(Built) /\ s.where = old.where /\ s.limit = PageOf(a.limit) /\ s.offset = PageOf(o)
    BY <1>3, <1>4, <1>6 DEF SetOffset, SelectOver, PageOf
  <2>4. o \in Page \cup {0}
    BY <1>4, <1>6
  <2> HIDE DEF s, o
  <2> QED BY <1>4, <1>5, <2>1, <2>2, <2>3, <2>4
<1>10. ASSUME NEW opts \in Seq(ListOption), ApplyList(b, opts)
       PROVE  Kept
  <2> DEFINE s == ApplyOpts(old, opts)
             l == LastPositive(LimitsOf(opts), a.limit)
             o == LastPositive(OffsetsOf(opts), a.offset)
  <2>1. Change(b, s)
    BY <1>10 DEF ApplyList
  <2>2. asked' = [asked EXCEPT ![b].limit = l, ![b].offset = o]
    BY <1>2, <1>10 DEF ApplyList, Ask, LimitsOf, OffsetsOf
  <2>3. a.limit \in Page \cup {0} /\ a.offset \in Page \cup {0} /\ old \in SelectOver(Built)
    BY <1>3, <1>4
  <2> HIDE DEF old, a
  <2>4. /\ s \in SelectOver(Built) /\ s.where = old.where /\ l \in Page \cup {0} /\ o \in Page \cup {0}
        /\ s.limit = PageOf(l) /\ s.offset = PageOf(o)
    BY <1>3, <1>4, ApplyListKeeps
  <2> HIDE DEF s, l, o
  <2> QED BY <1>5, <2>1, <2>2, <2>4
<1> QED BY <1>8, <1>9, <1>10

\* Whatever a constructor or a setter is called with, the invariant holds.
LEMMA CallingKeeps ==
  ASSUME StmtInv, NEW b \in Builder, Calling(b)
  PROVE  Kept
<1>1. CASE \/ \E cols \in Seq(ListExprs) : NewSelect(b, cols)
           \/ NewUpdate(b) \/ NewDelete(b)
           \/ \E cols \in Seq(Column), rows \in Seq(Seq(Expr)) : NewInsert(b, cols, rows)
  BY <1>1, ConstructorsKeep
<1>2. CASE \E ps \in Seq(Predicates \cup {Nil}) : Where(b, ps)
  BY <1>2, WhereKeeps
<1>3. CASE \/ \E o \in SortTerm : OrderBy(b, o)
           \/ \E e \in ListExprs : GroupBy(b, e) \/ DistinctOn(b, e)
           \/ \E e \in Predicates \cup {Nil} : Having(b, e)
           \/ Lock(b)
           \/ \E c \in Builder : With(b, c)
  BY <1>3, SelectSettersKeep
<1>4. CASE \/ \E e \in ListExprs : Returning(b, e)
           \/ \E col \in Column, e \in ListExprs \cup {Nil} : Set(b, col, e)
           \/ \E oc \in ConflictClause : OnConflict(b, oc)
  BY <1>4, MutationSettersKeep
<1>5. CASE \/ \E i \in Limits : Limit(b, i) \/ Offset(b, i)
           \/ \E opts \in Seq(ListOption) : ApplyList(b, opts)
  BY <1>5, PageKeeps
<1> QED BY <1>1, <1>2, <1>3, <1>4, <1>5 DEF Calling

-----------------------------------------------------------------------------
(* Rendering *)

\* What a rendering step leaves alone: the builders and what was asked of them.
\* Of the results only that of one builder may change.
LEMMA RenderKeeps ==
  ASSUME StmtInv, UNCHANGED <<stmt, asked>>, calls' \in 0 .. MaxCalls,
         out' \in [Builder -> Result \cup {None}],
         cur' # None => cur' \in Built /\ (stmt[cur'].kind \in {"Update", "Delete"} => stmt[cur'].where # <<>>),
         todo' \in Seq(Pending(Built)), Written',
         cur' = None => todo' = <<>> /\ sb' = <<>> /\ args' = <<>> /\ n' = 0,
         \A b \in Builder : out'[b] # out[b] =>
            stmt[b] # None /\ (Is(b, {"Update", "Delete"}) =>
               (out'[b].err = "ErrNoWhere" <=> out'[b].asked.preds = {}))
  PROVE  StmtInv'
<1>1. Built' = Built /\ Built \subseteq Builder
  BY DEF Built
<1>2. StmtTypeOK'
  <2>1. Seq(Pending(Built)) \subseteq Seq(Pending(Builder))
    BY <1>1, Wider
  <2>2. /\ stmt' \in [Builder -> StatementOver(Builder) \cup {None}] /\ asked' \in [Builder -> Ask]
        /\ cur' \in Builder \cup {None}
        /\ todo' \in Seq(Item \cup {Sub(b) : b \in Builder})
        /\ sb' \in Seq(Token) /\ args' \in Seq(Bound) /\ n' \in Nat
    BY <1>1, <2>1 DEF StmtInv, StmtTypeOK, Written, Pending
  <2>3. \A b \in Builder : out'[b] # None => stmt'[b] # None
    BY DEF StmtInv, StmtTypeOK
  <2> QED BY <2>2, <2>3 DEF StmtTypeOK
<1>3. NoFullTableMutation'
  <2> SUFFICES ASSUME NEW b \in Builder, (out[b] # None /\ Is(b, {"Update", "Delete"}))'
               PROVE  (out[b].err = "ErrNoWhere" <=> out[b].asked.preds = {})'
    BY DEF NoFullTableMutation
  <2>1. Is(b, {"Update", "Delete"})
    BY DEF Is
  <2>2. CASE out'[b] = out[b]
    BY <2>1, <2>2 DEF StmtInv, NoFullTableMutation
  <2>3. CASE out'[b] # out[b]
    BY <2>1, <2>3
  <2> QED BY <2>2, <2>3
<1> QED BY <1>1, <1>2, <1>3 DEF StmtInv

\* A statement without conjuncts was asked for no row in particular: SQL()
\* refuses it, and nothing is written.
LEMMA RefusedKeeps ==
  ASSUME StmtInv, NEW b \in Builder, SQLRefused(b)
  PROVE  StmtInv'
<1> DEFINE r == [err |-> "ErrNoWhere", sql |-> <<>>, args |-> <<>>, asked |-> asked[b]]
<1>1. /\ cur = None /\ calls < MaxCalls /\ calls' = calls + 1 /\ stmt[b].where = <<>>
      /\ out' = [out EXCEPT ![b] = r] /\ UNCHANGED <<vars, stmt, cur, asked>>
      /\ Is(b, {"Update", "Delete"})
  BY DEF SQLRefused
<1>2. /\ stmt[b] # None /\ stmt[b].kind \in {"Update", "Delete"} /\ asked[b] \in Ask
      /\ Agrees(stmt[b], asked[b])
  BY <1>1, CallFacts
<1>3. asked[b].preds = {}
  BY <1>1, <1>2 DEF Agrees
<1>4. r \in Result /\ r.err = "ErrNoWhere" /\ r.asked.preds = {}
  BY <1>2, <1>3, EmptyType DEF Result
<1> HIDE DEF r
<1>5. /\ out' \in [Builder -> Result \cup {None}] /\ out'[b] = r
      /\ \A c \in Builder \ {b} : out'[c] = out[c]
  BY <1>1, <1>4 DEF StmtInv, StmtTypeOK
<1>6. calls' \in 0 .. MaxCalls
  BY <1>1, StmtAssumption DEF StmtInv, StmtTypeOK
<1>7. Written' /\ todo' \in Seq(Pending(Built)) /\ todo' = <<>> /\ sb' = <<>> /\ args' = <<>> /\ n' = 0
  BY <1>1 DEF StmtInv, StmtTypeOK, Written, vars
<1>8. \A c \in Builder : out'[c] # out[c] =>
        stmt[c] # None /\ (out'[c].err = "ErrNoWhere" <=> out'[c].asked.preds = {})
  BY <1>2, <1>4, <1>5
<1> QED BY <1>1, <1>5, <1>6, <1>7, <1>8, RenderKeeps

\* A rendering starts on an emitter of its own.
LEMMA StartKeeps ==
  ASSUME StmtInv, NEW b \in Builder, SQLStart(b)
  PROVE  StmtInv'
<1>1. /\ calls < MaxCalls /\ calls' = calls + 1 /\ cur' = b /\ stmt[b] # None
      /\ todo' = <<Sub(b)>> /\ sb' = <<>> /\ args' = <<>> /\ n' = 0
      /\ UNCHANGED <<stmt, out, asked>>
      /\ Is(b, {"Update", "Delete"}) => stmt[b].where # <<>>
  BY DEF SQLStart
<1>2. b \in Built /\ b # None /\ (stmt[b].kind \in {"Update", "Delete"} => stmt[b].where # <<>>)
  BY <1>1, NoneAssumption DEF Built, Is
<1>3. todo' \in Seq(Pending(Built)) /\ Written'
  BY <1>1, <1>2, EmptyType DEF Pending, Written
<1>4. calls' \in 0 .. MaxCalls /\ out' \in [Builder -> Result \cup {None}]
  BY <1>1, StmtAssumption DEF StmtInv, StmtTypeOK
<1> QED BY <1>1, <1>2, <1>3, <1>4, RenderKeeps

\* What is at the head of todo while a statement is rendered.
LEMMA PendingHead ==
  ASSUME StmtInv, todo # <<>>
  PROVE  /\ Tail(todo) \in Seq(Pending(Built))
         /\ Head(todo).kind = "Stmt" => Head(todo).b \in Built
         /\ Head(todo).kind # "Stmt" => Head(todo) \in Item
<1>1. Head(todo) \in Pending(Built) /\ Tail(todo) \in Seq(Pending(Built))
  BY HeadTailProperties DEF StmtInv
<1>2. ASSUME NEW i \in Item PROVE i.kind # "Stmt"
  BY ExprAssumption DEF Item, NamedArg, Text, ExprShape
<1>3. \A b \in Built : Sub(b).kind = "Stmt" /\ Sub(b).b = b
  BY DEF Sub
<1> QED BY <1>1, <1>2, <1>3 DEF Pending

\* A node's step is one of the emitter: it never finds a CTE at the head.
LEMMA NodeHead ==
  ASSUME StmtInv, Next
  PROVE  Head(todo) \in Item /\ Written /\ todo # <<>>
<1>1. todo # <<>> /\ Head(todo).kind # "Stmt"
  BY DEF Next, Now, Str, EmitCol, ParamNull, Param, EmitBin, EmitCall, EmitNamed, EmitCast, EmitAnd,
         EmitOr, EmitNot, EmitRaw
<1>2. Written
  BY DEF StmtInv, StmtTypeOK, Written
<1> QED BY <1>1, <1>2, PendingHead

\* The emission of a statement or of a node replaces the head of todo.
LEMMA EmitKeeps ==
  ASSUME StmtInv, EmitStmt \/ EmitNode
  PROVE  StmtInv'
<1>1. cur # None /\ UNCHANGED stmtVars
  BY DEF EmitStmt, EmitNode
<1>2. ASSUME todo' \in Seq(Pending(Built)), Written'
      PROVE  StmtInv'
  <2>1. /\ stmt' = stmt /\ asked' = asked /\ calls' = calls /\ out' = out /\ cur' = cur
        /\ calls \in 0 .. MaxCalls /\ out \in [Builder -> Result \cup {None}]
        /\ cur \in Built /\ (stmt[cur].kind \in {"Update", "Delete"} => stmt[cur].where # <<>>)
    BY <1>1 DEF stmtVars, StmtInv, StmtTypeOK
  <2> QED BY <1>1, <1>2, <2>1, RenderKeeps
<1>3. CASE EmitStmt
  <2>1. todo # <<>> /\ Head(todo).kind = "Stmt" /\ Push(Items(stmt[Head(todo).b]))
    BY <1>3 DEF EmitStmt, Now
  <2>2. Tail(todo) \in Seq(Pending(Built)) /\ Head(todo).b \in Built
    BY <2>1, PendingHead
  <2>3. stmt[Head(todo).b] \in StatementOver(Built) /\ Built \subseteq Builder
    BY <2>2 DEF StmtInv, Built
  <2>4. Items(stmt[Head(todo).b]) \in Seq(Pending(Built))
    BY <2>3, ItemsType
  <2>5. todo' \in Seq(Pending(Built))
    BY <2>1, <2>2, <2>4, ConcatType DEF Push
  <2>6. Written'
    BY <2>1 DEF Push, Written, StmtInv, StmtTypeOK
  <2> QED BY <1>2, <2>5, <2>6
<1>4. CASE EmitNode
  <2>1. Head(todo) \in Item /\ Written /\ todo # <<>> /\ Next
    BY <1>4, NodeHead DEF EmitNode
  <2>2. Written' /\ Replaced
    BY <2>1, TypeStep
  <2>3. Tail(todo) \in Seq(Pending(Built))
    BY <2>1, PendingHead
  <2>4. Seq(Item) \subseteq Seq(Pending(Built))
    BY SeqMonotonic DEF Pending
  <2>5. todo' \in Seq(Pending(Built))
    BY <2>2, <2>3, <2>4, ConcatType DEF Replaced
  <2> QED BY <1>2, <2>2, <2>5
<1> QED BY <1>3, <1>4

\* A mutation that was rendered had a conjunct, so its caller gave a predicate.
LEMMA ReturnKeeps ==
  ASSUME StmtInv, SQLReturn
  PROVE  StmtInv'
<1> DEFINE r == [err |-> "nil", sql |-> sb, args |-> args, asked |-> asked[cur]]
<1>1. /\ cur # None /\ cur' = None /\ out' = [out EXCEPT ![cur] = r] /\ todo = <<>>
      /\ sb' = <<>> /\ args' = <<>> /\ n' = 0 /\ UNCHANGED <<todo, stmt, asked, calls>>
  BY DEF SQLReturn
<1>2. /\ cur \in Built /\ stmt[cur] # None /\ cur \in Builder
      /\ stmt[cur].kind \in {"Update", "Delete"} => stmt[cur].where # <<>>
      /\ Agrees(stmt[cur], asked[cur]) /\ asked[cur] \in Ask
  BY <1>1 DEF StmtInv, StmtTypeOK, Built
<1>3. r \in Result /\ r.err = "nil" /\ r.asked = asked[cur]
  BY <1>2 DEF Result, StmtInv, StmtTypeOK
<1> HIDE DEF r
<1>4. /\ out' \in [Builder -> Result \cup {None}] /\ out'[cur] = r
      /\ \A c \in Builder \ {cur} : out'[c] = out[c]
  BY <1>1, <1>2, <1>3 DEF StmtInv, StmtTypeOK
<1>5. Is(cur, {"Update", "Delete"}) => asked[cur].preds # {}
  BY <1>2 DEF Is, Agrees
<1>6. Written' /\ todo' \in Seq(Pending(Built)) /\ todo' = <<>> /\ calls' \in 0 .. MaxCalls
  BY <1>1, EmptyType DEF Written, StmtInv, StmtTypeOK
<1>7. \A b \in Builder : out'[b] # out[b] =>
        stmt[b] # None /\ (Is(b, {"Update", "Delete"}) =>
           (out'[b].err = "ErrNoWhere" <=> out'[b].asked.preds = {}))
  BY <1>2, <1>3, <1>4, <1>5
<1> QED BY <1>1, <1>4, <1>6, <1>7, RenderKeeps

LEMMA StmtInvInit ==
  ASSUME StmtInit
  PROVE  StmtInv
<1>1. /\ todo = <<>> /\ sb = <<>> /\ args = <<>> /\ n = 0 /\ cur = None /\ calls = 0
      /\ stmt = [b \in Builder |-> None] /\ out = [b \in Builder |-> None]
      /\ asked = [b \in Builder |-> Nothing]
  BY DEF StmtInit
<1>2. Built = {} /\ \A b \in Builder : out[b] = None
  BY <1>1 DEF Built
<1>3. Nothing \in Ask
  BY DEF Nothing, Ask
<1>4. StmtTypeOK
  BY <1>1, <1>3, EmptyType, StmtAssumption DEF StmtTypeOK
<1>5. NoFullTableMutation
  BY <1>2 DEF NoFullTableMutation
<1> QED BY <1>1, <1>2, <1>4, <1>5, EmptyType DEF StmtInv

LEMMA StmtInvStep ==
  ASSUME StmtInv, [StmtNext]_allVars
  PROVE  StmtInv'
<1>1. ASSUME NEW b \in Builder, Calling(b) PROVE StmtInv'
  BY <1>1, CallingKeeps DEF Kept
<1>2. CASE Rendering
  BY <1>2, RefusedKeeps, StartKeeps, EmitKeeps, ReturnKeeps DEF Rendering
<1>3. CASE UNCHANGED allVars
  <2>1. UNCHANGED <<stmt, cur, out, asked, calls, todo, sb, args, n>>
    BY <1>3 DEF allVars, stmtVars, vars
  <2>2. Built' = Built
    BY <2>1 DEF Built
  <2>3. StmtTypeOK'
    BY <2>1 DEF StmtInv, StmtTypeOK
  <2>4. NoFullTableMutation'
    BY <2>1 DEF StmtInv, NoFullTableMutation, Is
  <2> QED BY <2>1, <2>2, <2>3, <2>4 DEF StmtInv
<1> QED BY <1>1, <1>2, <1>3 DEF StmtNext

-----------------------------------------------------------------------------
(* Theorems *)

\* The invariant of every program that calls builders in any order, with any
\* arguments, and renders them as often as it likes.
THEOREM StatementsInvariant == Statements => []StmtInv
<1>1. StmtInit => StmtInv
  BY StmtInvInit
<1>2. StmtInv /\ [StmtNext]_allVars => StmtInv'
  BY StmtInvStep
<1> QED BY <1>1, <1>2, PTL DEF Statements

\* The builders are statements of their kind, todo holds trees and CTEs of
\* builders that exist, and between two renderings no emitter is alive.
THEOREM StatementsTypeCorrect == Statements => []StmtTypeOK
<1>1. StmtInv => StmtTypeOK
  BY DEF StmtInv
<1> QED BY <1>1, StatementsInvariant, PTL

\* stmt.go:415-416, 494-495: an UPDATE or DELETE is refused exactly when its
\* caller gave no predicate, whatever the order of the calls.
THEOREM NoMutationWithoutCondition == Statements => []NoFullTableMutation
<1>1. StmtInv => NoFullTableMutation
  BY DEF StmtInv
<1> QED BY <1>1, StatementsInvariant, PTL

\* listopt.go:3-4: a Select holds the last positive limit and offset that was
\* asked of it, through whichever setter; none when there was none.
PageAsAsked ==
  \A b \in Builder :
    Is(b, {"Select"}) => stmt[b].limit = PageOf(asked[b].limit) /\ stmt[b].offset = PageOf(asked[b].offset)
THEOREM LastPositivePageIsHeld == Statements => []PageAsAsked
<1>1. StmtInv => PageAsAsked
  BY CallFacts DEF PageAsAsked, Agrees
<1> QED BY <1>1, StatementsInvariant, PTL

\* The texts that were sent: numbered from $1 without a gap, one argument each;
\* and every placeholder stands for the value the tree had there.
SentNumbered == \A b \in Builder : out[b] # None => Consecutive(out[b].sql, 0, Len(out[b].args))
SentResolved == \A b \in Builder : out[b] # None => Resolves(out[b].sql, out[b].args)

\* What the steps do to the emitter and to the results, as far as the numbers
\* and values of placeholders are concerned.
LEMMA EmitterOfStep ==
  ASSUME StmtInv, [StmtNext]_allVars
  PROVE  \/ UNCHANGED <<sb, args, n, out>>
         \/ Next /\ UNCHANGED out
         \/ /\ sb' = <<>> /\ args' = <<>> /\ n' = 0
            /\ (out' = out \/ (cur \in Builder /\ out' = [out EXCEPT ![cur] =
                  [err |-> "nil", sql |-> sb, args |-> args, asked |-> asked[cur]]]))
         \/ /\ UNCHANGED <<sb, args, n>>
            /\ \E b \in Builder : out' = [out EXCEPT ![b] =
                  [err |-> "ErrNoWhere", sql |-> <<>>, args |-> <<>>, asked |-> asked[b]]]
<1>1. ASSUME NEW b \in Builder, Calling(b) PROVE UNCHANGED <<sb, args, n, out>>
  <2>1. Call(b)
    BY <1>1 DEF Calling, NewSelect, NewUpdate, NewDelete, NewInsert, New, Where, OrderBy, GroupBy,
                DistinctOn, Having, Lock, Returning, Set, OnConflict, With, Limit, Offset, ApplyList
  <2> QED BY <2>1 DEF Call, vars
<1>2. ASSUME NEW b \in Builder, SQLRefused(b)
      PROVE  UNCHANGED <<sb, args, n>> /\ out' = [out EXCEPT ![b] =
               [err |-> "ErrNoWhere", sql |-> <<>>, args |-> <<>>, asked |-> asked[b]]]
  BY <1>2 DEF SQLRefused, vars
<1>3. ASSUME NEW b \in Builder, SQLStart(b) PROVE sb' = <<>> /\ args' = <<>> /\ n' = 0 /\ out' = out
  BY <1>3 DEF SQLStart
<1>4. CASE EmitStmt
  BY <1>4 DEF EmitStmt, Push, stmtVars
<1>5. CASE EmitNode
  BY <1>5 DEF EmitNode, stmtVars
<1>6. CASE SQLReturn
  BY <1>6 DEF SQLReturn, StmtInv, StmtTypeOK
<1>7. CASE UNCHANGED allVars
  BY <1>7 DEF allVars, stmtVars, vars
<1> QED BY <1>1, <1>2, <1>3, <1>4, <1>5, <1>6, <1>7 DEF StmtNext, Rendering

\* A statement with its CTEs is numbered as one text, in every state of its
\* rendering and in what is sent.
THEOREM StatementNumbering ==
  RawBalanced => (Statements => [](Numbering /\ SentNumbered))
<1> SUFFICES ASSUME RawBalanced PROVE Statements => [](Numbering /\ SentNumbered)
  OBVIOUS
<1>1. Consecutive(<<>>, 0, Len(<<>>)) /\ Consecutive(<<>>, 0, 0) /\ Len(<<>>) = 0
  BY DEF Consecutive
<1>2. StmtInit => Numbering /\ SentNumbered
  BY <1>1 DEF StmtInit, Numbering, SentNumbered
<1>3. StmtInv /\ Numbering /\ SentNumbered /\ [StmtNext]_allVars => (Numbering /\ SentNumbered)'
  <2> SUFFICES ASSUME StmtInv, Numbering, SentNumbered, [StmtNext]_allVars
               PROVE  (Numbering /\ SentNumbered)'
    OBVIOUS
  <2>1. CASE UNCHANGED <<sb, args, n, out>>
    BY <2>1 DEF Numbering, SentNumbered, Consecutive
  <2>2. CASE Next /\ UNCHANGED out
    <3>1. Numbering'
      BY <2>2, NodeHead, NumberingStep
    <3> QED BY <2>2, <3>1 DEF SentNumbered
  <2>3. CASE sb' = <<>> /\ args' = <<>> /\ n' = 0 /\ (out' = out \/ (cur \in Builder /\ out' = [out EXCEPT ![cur] =
                  [err |-> "nil", sql |-> sb, args |-> args, asked |-> asked[cur]]]))
    <3>1. Numbering'
      BY <2>3, <1>1 DEF Numbering
    <3>2. Consecutive(sb, 0, Len(args))
      BY DEF Numbering
    <3>3. SentNumbered'
      BY <2>3, <3>2 DEF SentNumbered, StmtInv, StmtTypeOK
    <3> QED BY <3>1, <3>3
  <2>4. CASE UNCHANGED <<sb, args, n>> /\ \E b \in Builder : out' = [out EXCEPT ![b] =
                  [err |-> "ErrNoWhere", sql |-> <<>>, args |-> <<>>, asked |-> asked[b]]]
    <3>1. Numbering'
      BY <2>4 DEF Numbering, Consecutive
    <3>2. SentNumbered'
      BY <2>4, <1>1 DEF SentNumbered, StmtInv, StmtTypeOK
    <3> QED BY <3>1, <3>2
  <2> QED BY <2>1, <2>2, <2>3, <2>4, EmitterOfStep
<1> QED BY <1>2, <1>3, StatementsInvariant, PTL DEF Statements

\* A placeholder of a statement or of one of its CTEs stands for the value its
\* tree had there, whatever Raws are around it, while it is rendered and sent.
THEOREM StatementBinding == Statements => [](Binding /\ SentResolved)
<1>1. Resolves(<<>>, <<>>) /\ Len(<<>>) = 0
  BY DEF Resolves
<1>2. StmtInit => Binding /\ SentResolved
  BY <1>1 DEF StmtInit, Binding, SentResolved
<1>3. StmtInv /\ Binding /\ SentResolved /\ [StmtNext]_allVars => (Binding /\ SentResolved)'
  <2> SUFFICES ASSUME StmtInv, Binding, SentResolved, [StmtNext]_allVars
               PROVE  (Binding /\ SentResolved)'
    OBVIOUS
  <2>1. CASE UNCHANGED <<sb, args, n, out>>
    BY <2>1 DEF Binding, SentResolved, Resolves
  <2>2. CASE Next /\ UNCHANGED out
    <3>1. Binding'
      BY <2>2, NodeHead, BindingStep
    <3> QED BY <2>2, <3>1 DEF SentResolved
  <2>3. CASE sb' = <<>> /\ args' = <<>> /\ n' = 0 /\ (out' = out \/ (cur \in Builder /\ out' = [out EXCEPT ![cur] =
                  [err |-> "nil", sql |-> sb, args |-> args, asked |-> asked[cur]]]))
    <3>1. Binding'
      BY <2>3, <1>1 DEF Binding
    <3>2. Resolves(sb, args)
      BY DEF Binding
    <3>3. SentResolved'
      BY <2>3, <3>2 DEF SentResolved, StmtInv, StmtTypeOK
    <3> QED BY <3>1, <3>3
  <2>4. CASE UNCHANGED <<sb, args, n>> /\ \E b \in Builder : out' = [out EXCEPT ![b] =
                  [err |-> "ErrNoWhere", sql |-> <<>>, args |-> <<>>, asked |-> asked[b]]]
    <3>1. Binding'
      BY <2>4 DEF Binding, Resolves
    <3>2. SentResolved'
      BY <2>4, <1>1 DEF SentResolved, StmtInv, StmtTypeOK
    <3> QED BY <3>1, <3>2
  <2> QED BY <2>1, <2>2, <2>3, <2>4, EmitterOfStep
<1> QED BY <1>2, <1>3, StatementsInvariant, PTL DEF Statements
=============================================================================
