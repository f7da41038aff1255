------------------------------- MODULE MCStmt -------------------------------
(* Statement builders on two objects and a few calls. *)
EXTENDS Stmt, SqlMeaning

CONSTANT Sessions  \* what callers do: "filter", "compose"
VARIABLE session

Col(c) == [kind |-> "Col", name |-> c]
Lit(v) == [kind |-> "Lit", v |-> v, cast |-> FALSE]
Eq(c, v) == [kind |-> "Bin", op |-> "=", l |-> Col(c), r |-> Lit(v)]
Or(x, y) == [kind |-> "Or", parts |-> <<x, y>>]
Not(x) == [kind |-> "Not", e |-> x]
EmptyAnd == [kind |-> "And", parts |-> <<>>]
In(c, v, w) == [kind |-> "Raw", sql |-> <<c, "IN", "(", "?", ",", "?", ")">>, args |-> <<v, w>>]

MCValue == {1, 2, 101, 102}
MCLimits == {-1, 0, 1, 2}
MCPredicates == {Eq("a", 101), Or(Eq("a", 102), Eq("b", 101)), Not(Or(Eq("b", 102), In("a", 101, 102)))}
BlankPredicates == MCPredicates \cup {EmptyAnd}
MCListExprs == {Col("c"), Lit(102)}
MCExpr == MCListExprs \cup {Lit(v) : v \in MCValue \cup {Nil}} \cup Predicates
          \cup {Col("a"), Col("b"), In("a", 101, 102), Or(Eq("b", 102), In("a", 101, 102))}
          \cup {Eq(c, v) : c \in {"a", "b"}, v \in {101, 102}}
MCWord == Punctuation \cup ClauseWords \cup
  {"a", "b", "c", "t", "=", "?", "IN", "*", "cte", "WITH", "AS", "SELECT", "DISTINCT ON", "FROM",
   "WHERE", "ASC", "DESC", "INSERT INTO", "VALUES", "DEFAULT VALUES", "ON CONFLICT", "DO NOTHING",
   "DO UPDATE SET", "UPDATE", "SET", "DELETE FROM"}

\* What the theorems of StmtTextProofs ask of trees and names: all of it holds
\* here, until callers pass an And without parts.
ASSUME TextsEnclose ==
  /\ Encloses({"AND", "OR", "WHERE"} \cup ClauseWords \cup PageWords) /\ RawsUnmixed /\ NamesApart
  /\ EmptyAnd \notin Predicates => NoBlank

\* Argument lists of a Where call: none, one, a nil among them, two.
Parts == {<<>>} \cup {<<p>> : p \in Predicates \cup {Nil}}
         \cup {<<Nil, p>> : p \in {Eq("a", 101)}} \cup {<<Eq("a", 101), Or(Eq("a", 102), Eq("b", 101))>>}
Orders == [e : ListExprs, desc : {TRUE}] \cup {[e |-> Nil, desc |-> FALSE]}
Opts == {[limit |-> l, offset |-> o, order |-> <<>>] : l \in {0, 1}, o \in {0, 2}}
        \cup {[limit |-> -1, offset |-> 1, order |-> <<[e |-> Col("c"), desc |-> FALSE]>>]}
OptLists == {<<o>> : o \in Opts} \cup {<<o, p>> : o \in Opts, p \in Opts}
Conflicts == {[target |-> t, doNothing |-> d, sets |-> s, where |-> w] :
                t \in {<<>>, <<"c">>}, d \in BOOLEAN,
                s \in {<<>>, <<[col |-> "a", e |-> Nil], [col |-> "b", e |-> Lit(102)]>>},
                w \in {Nil, Eq("a", 101)}}

\* Queries: conjuncts and combinators on one builder, whatever the rest of the
\* statement.
Filtering ==
  \E b \in {1} :
    \/ NewSelect(b, <<>>) \/ NewUpdate(b) \/ NewDelete(b)
    \/ \E ps \in Parts : Where(b, ps)
    \/ \E e \in ListExprs \cup {Nil} : Set(b, "c", e)
    \/ \E e \in ListExprs : Returning(b, e)

\* Listing: everything a Select has beside its conditions, and CTEs.
Listing ==
  \E b \in Builder :
    \/ \E cols \in {<<>>, <<Col("c"), Lit(102)>>} : NewSelect(b, cols)
    \/ \E i \in Limits : Limit(b, i) \/ Offset(b, i)
    \/ \E os \in OptLists : ApplyList(b, os)
    \/ \E c \in Builder : With(b, c)
    \/ Where(b, <<Eq("a", 101)>>)

\* The rest of Select, and Insert.
Composing ==
  \E b \in Builder :
    \/ \E cols \in {<<>>, <<Col("c"), Lit(102)>>} : NewSelect(b, cols)
    \/ \E o \in Orders : OrderBy(b, o)
    \/ \E e \in ListExprs : GroupBy(b, e) \/ DistinctOn(b, e)
    \/ \E e \in {Nil, Eq("a", 101)} : Having(b, e)
    \/ Lock(b)
    \/ \E c \in Builder : With(b, c)
    \/ \E rows \in {<<>>, <<<<Lit(101), Lit(102)>>>>, <<<<Lit(101)>>, <<Lit(Nil)>>>>} :
         \E cols \in {<<>>, <<"a", "b">>} : NewInsert(b, cols, rows)
    \/ \E oc \in Conflicts : OnConflict(b, oc)
    \/ \E e \in ListExprs : Returning(b, e)

Calls ==
  /\ \/ session = "filter" /\ Filtering
     \/ session = "compose" /\ (Listing \/ Composing)
     \/ Rendering
  /\ UNCHANGED session

SessionInit == StmtInit /\ session \in Sessions
StmtSpec == SessionInit /\ [][Calls]_<<allVars, session>>

\* The condition that is sent means the conjunction of all the predicates the
\* caller gave to Where, in any number of calls, with the values it gave; and
\* without a predicate there is no condition.
WhereMeansConjunction ==
  \A b \in Sent :
    Is(b, {"Select", "Update", "Delete"}) =>
      IF out[b].asked.preds = {} THEN TopWord(out[b].sql, "WHERE") = {}
      ELSE SameMeaning(WhereText(out[b].sql), out[b].args,
                       [kind |-> "And", parts |-> SetToSeq(out[b].asked.preds)])
=============================================================================
