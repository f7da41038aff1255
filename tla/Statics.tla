------------------------------- MODULE Statics -------------------------------
(***************************************************************************)
(* The static CRUD functions that gen/pass_statics.go generates for one    *)
(* table: which columns they may write, which of them exist at all, and    *)
(* what a history of their calls does to the rows.  Every function sends   *)
(* one statement, built from its arguments alone, so the calls of          *)
(* concurrent clients interleave at the statement, and one action is one   *)
(* call.  The table and its constraints are the server's: external.        *)
(***************************************************************************)
EXTENDS Naturals, Sequences, FiniteSets

CONSTANTS
  Schemas,    \* descriptions of tables, as ir.Table and the directives give them
  Column,     \* column names; "id" is one
  Value,      \* what a column can hold, Null and Default among them
  Null,       \* SQL NULL
  Default,    \* what the server computes for a column: DEFAULT or an expression
  Sequence,   \* what the serial and identity columns draw, in order
  Wheres,     \* where slices of callers: predicates <<column, set of values>> and Nil
  Filters,    \* filter structs of callers: the fields set, and Extra
  Nil,        \* a nil pgb.Expr in such a slice
  MaxBatch,   \* bound on the rows of one InsertBatch
  MaxRows     \* bound on the rows

ASSUME StaticsAssumption ==
  /\ {Null, Default} \subseteq Value /\ "id" \in Column
  /\ Sequence \in Seq(Value \ {Null, Default}) /\ {MaxBatch, MaxRows} \subseteq Nat

\* Keys and NOT NULL are of a table's own columns: the server took its DDL.
ASSUME KeysAssumption ==
  \A s \in Schemas : s.pk \in Seq(s.cols) /\ s.uniques \in Seq(Seq(s.cols)) /\ s.notNull \subseteq s.cols

VARIABLES
  t,        \* the table the code was generated for
  rows,     \* the rows, by a row id that survives updates
  drawn,    \* numbers drawn from the sequence
  result,   \* what the last call returned
  asked     \* history: the value the callers last asked for, per row and column
vars == <<t, rows, drawn, result, asked>>

RowId == 1 .. MaxRows
-----------------------------------------------------------------------------
(* What the generator decides *)

\* The column the single-row statics key on, or none.
heuristicPK(s) ==
  LET single == {i \in DOMAIN s.uniques : Len(s.uniques[i]) = 1}
  IN CASE Len(s.pk) = 1 -> {s.pk[1]}
       [] Len(s.pk) # 1 /\ single # {} ->
            {s.uniques[CHOOSE i \in single : \A j \in single : i <= j][1]}
       [] s.pk = <<>> /\ s.uniques = <<>> -> {"id"} \cap s.notNull
       [] OTHER -> {}

insertable(s) ==
  (s.cols \ (s.generated \cup s.serial)) \ (IF s.includeDefaults THEN {} ELSE s.hasDefault)

\* Mutant: the directive is not looked at.
settableAll(s) == s.cols \ (s.generated \cup s.serial \cup heuristicPK(s))

settable(s) == s.cols \ (s.generated \cup s.serial \cup s.noPatch \cup heuristicPK(s))

upsertColumns(s) == heuristicPK(s) \cup insertable(s)

hasKey == heuristicPK(t) # {}
Key == CHOOSE c \in heuristicPK(t) : TRUE
hasInsert == ~t.view /\ insertable(t) # {}
hasUpdate == ~t.view /\ settable(t) # {}
batchable == hasInsert /\ insertable(t) \cap t.noArrayCodec = {}

\* An InsertParams value: a field per insertable column, whose Go type has no
\* NULL when the column is NOT NULL.
FieldOf(c) == Value \ ({Default} \cup (IF c \in t.notNull THEN {Null} ELSE {}))
Params == {p \in [insertable(t) -> Value] : \A c \in insertable(t) : p[c] \in FieldOf(c)}

\* A Set value: each settable column skipped, written or set to NULL.
SetValues == UNION {[S -> Value \ {Default}] : S \in SUBSET settable(t)}
-----------------------------------------------------------------------------
(* The server *)

Ids == DOMAIN rows
Fresh == {i \in RowId : i \notin Ids}
FirstFresh == CHOOSE i \in Fresh : \A j \in Fresh : i <= j

\* col = v, col = ANY(vs): never true of NULL.
Holds(p, r) == p[1] \in DOMAIN r /\ r[p[1]] \in p[2] \ {Null}
Selected(ps) == {i \in Ids : \A p \in ps : Holds(p, rows[i])}
Keyed(k) == Selected({<<Key, {k}>>})

\* appendWhere drops nil predicates; the others are ANDed.
Given(w) == {w[i] : i \in DOMAIN w} \ {Nil}

\* filterWhere: nil and empty fields are ignored, Extra is added.
FilterWhere(f) ==
  {<<c, {f.eq[c]}>> : c \in DOMAIN f.eq}
  \cup {<<c, f.in[c]>> : c \in {d \in DOMAIN f.in : f.in[d] # {}}}
  \cup Given(f.extra)

UniqueKeys == {{u[i] : i \in DOMAIN u} : u \in {t.pk} \cup {t.uniques[j] : j \in DOMAIN t.uniques}} \ {{}}

Valid(tbl) ==
  /\ \A i \in DOMAIN tbl : \A c \in t.notNull : tbl[i][c] # Null
  /\ \A u \in UniqueKeys : \A i, j \in DOMAIN tbl :
       (i # j /\ \A c \in u : tbl[i][c] = tbl[j][c]) => \E c \in u : tbl[i][c] = Null

Draws == t.serial \cup t.identity
Drawn(cols, k) == IF Draws \ cols = {} THEN 0 ELSE k

\* Mutant: the Go zero value is bound to a column that should be left out.
ProposedZero(p, n) ==
  [c \in t.cols |-> CASE c \in DOMAIN p -> p[c]
                     [] c \in Draws \ DOMAIN p -> Sequence[drawn + n]
                     [] OTHER -> "zero"]

\* The row an INSERT proposes when its list names the columns of p, as the
\* n-th row from here on.
Proposed(p, n) ==
  [c \in t.cols |-> CASE c \in DOMAIN p -> p[c]
                     [] c \in Draws \ DOMAIN p -> Sequence[drawn + n]
                     [] OTHER -> Default]

CanDraw(n) == drawn + n <= Len(Sequence)

\* Generated columns and GENERATED ALWAYS identities take no value.
Writable(cols) == cols \cap (t.generated \cup t.always) = {}

\* Mutant: a Set field that was not filled in writes NULL.
PatchedTwoState(r, s) ==
  [c \in t.cols |-> IF c \in DOMAIN s THEN s[c] ELSE IF c \in settable(t) THEN Null ELSE r[c]]
Patched(r, s) == [c \in t.cols |-> IF c \in DOMAIN s THEN s[c] ELSE r[c]]
With(f, g) == [i \in DOMAIN f \cup DOMAIN g |-> IF i \in DOMAIN g THEN g[i] ELSE f[i]]
Without(f, S) == [i \in DOMAIN f \ S |-> f[i]]

Return(op, res, n) == result' = [op |-> op, res |-> res, n |-> n]
Untouched == UNCHANGED <<rows, asked>>

\* A statement takes effect as a whole, or fails as a whole and with it the call.
Apply(op, ok, tbl, want, n) ==
  IF ok /\ Valid(tbl)
    THEN rows' = tbl /\ asked' = want /\ Return(op, "ok", n)
    ELSE Untouched /\ Return(op, "refused", 0)
-----------------------------------------------------------------------------
(* The generated functions *)

Get(k) ==
  /\ hasKey
  /\ Return("Get", IF Keyed(k) = {} THEN "ErrNotFound" ELSE "ok", 0)
  /\ Untouched /\ UNCHANGED <<t, drawn>>

\* ListXs and CountXs compile the same filter.
List(f) ==
  /\ Return("List", "ok", Cardinality(Selected(FilterWhere(f))))
  /\ Untouched /\ UNCHANGED <<t, drawn>>

Insert(p) ==
  /\ hasInsert /\ Fresh # {}
  /\ LET n == Drawn(DOMAIN p, 1)
         i == FirstFresh
         new == [j \in {i} |-> Proposed(p, 1)]
     IN /\ CanDraw(n) /\ drawn' = drawn + n
        /\ Apply("Insert", Writable(DOMAIN p), With(rows, new), With(asked, new), 1)
  /\ UNCHANGED t

\* Mutant: a loop of single inserts that stops at the first error.
InsertLoop(ps) ==
  /\ batchable /\ Len(ps) = 2 /\ Cardinality(Fresh) >= 2
  /\ LET n == Drawn(DOMAIN ps[1], 1)
         new == [j \in {FirstFresh} |-> Proposed(ps[1], 1)]
     IN /\ CanDraw(n) /\ drawn' = drawn + n
        /\ rows' = With(rows, new) /\ asked' = With(asked, new)
  /\ Return("InsertBatch", "refused", 0)
  /\ UNCHANGED t

\* One INSERT ... SELECT FROM unnest: all the rows or none.
InsertBatch(ps) ==
  /\ batchable
  /\ IF ps = <<>>
       THEN Return("InsertBatch", "ok", 0) /\ Untouched /\ UNCHANGED drawn
       ELSE /\ Len(ps) <= Cardinality(Fresh)
            /\ \E ids \in [DOMAIN ps -> Fresh] :
                 /\ \A a, b \in DOMAIN ps : a < b => ids[a] < ids[b]
                 /\ \A j \in Fresh : (\E a \in DOMAIN ps : j < ids[a]) => \E a \in DOMAIN ps : ids[a] = j
                 /\ LET n == Drawn(DOMAIN ps[1], Len(ps))
                        At(i) == CHOOSE a \in DOMAIN ps : ids[a] = i
                        new == [i \in {ids[a] : a \in DOMAIN ps} |-> Proposed(ps[At(i)], At(i))]
                    IN /\ CanDraw(n) /\ drawn' = drawn + n
                       /\ Apply("InsertBatch", Writable(DOMAIN ps[1]),
                                With(rows, new), With(asked, new), Len(ps))
  /\ UNCHANGED t

\* s is written to the rows S, of which the caller named the fields given.
Patch(op, S, s, given) ==
  LET new == [i \in S |-> Patched(rows[i], s)]
      want == [i \in S |-> With(asked[i], given)]
  IN Apply(op, Writable(DOMAIN s), With(rows, new), With(asked, want), Cardinality(S))

\* Mutant: the UPDATE returns no row.
UpdateWithoutReturning(k, s) ==
  /\ hasKey /\ hasUpdate /\ DOMAIN s # {} /\ Writable(DOMAIN s)
  /\ rows' = With(rows, [i \in Keyed(k) |-> Patched(rows[i], s)])
  /\ asked' = With(asked, [i \in Keyed(k) |-> With(asked[i], s)])
  /\ Return("Update", "ErrNotFound", 0)
  /\ UNCHANGED <<t, drawn>>

\* Update falls back to Get when no field is set; no row back is ErrNotFound.
Update(k, s) ==
  /\ hasKey /\ hasUpdate
  /\ IF DOMAIN s = {} THEN Get(k)
     ELSE /\ IF Keyed(k) = {} /\ Writable(DOMAIN s)
               THEN Untouched /\ Return("Update", "ErrNotFound", 0)
               ELSE Patch("Update", Keyed(k), s, s)
          /\ UNCHANGED <<t, drawn>>

\* The empty set is looked at before the empty where.
UpdateBulk(w, s) ==
  /\ hasUpdate
  /\ CASE DOMAIN s = {} -> Untouched /\ Return("UpdateBulk", "ok", 0)
       [] DOMAIN s # {} /\ Given(w) = {} -> Untouched /\ Return("UpdateBulk", "ErrNoWhere", 0)
       [] OTHER -> Patch("UpdateBulk", Selected(Given(w)), s, s)
  /\ UNCHANGED <<t, drawn>>

\* Mutant: the row is the params', as in an insert, and not the argument's.
UpsertOfParams(k, p) ==
  /\ hasKey /\ hasInsert /\ Fresh # {}
  /\ LET n == Drawn(DOMAIN p, 1)
         new == [i \in {FirstFresh} |-> Proposed(p, 1)]
     IN /\ CanDraw(n) /\ drawn' = drawn + n
        /\ Apply("Upsert", TRUE, With(rows, new), With(asked, new), 1)
  /\ UNCHANGED t

\* INSERT under the key, ON CONFLICT (key) DO UPDATE SET every settable column
\* from the proposed row.  Without a constraint on the key the server refuses,
\* and so it does when the SET list holds an identity ALWAYS column.
Upsert(k, p) ==
  /\ hasKey /\ hasInsert
  /\ LET q == With(p, [c \in {Key} |-> k])
         n == Drawn(DOMAIN q, 1)
         ex == [c \in settable(t) |-> Proposed(q, 1)[c]]
         ok == Writable(upsertColumns(t)) /\ Writable(settable(t)) /\ {Key} \in UniqueKeys
               /\ \A c \in t.notNull : Proposed(q, 1)[c] # Null
     IN /\ CanDraw(n) /\ drawn' = drawn + n
        /\ CASE ~ok -> Untouched /\ Return("Upsert", "refused", 0)
             [] ok /\ Keyed(k) = {} ->
                  /\ Fresh # {}
                  /\ LET new == [i \in {FirstFresh} |-> Proposed(q, 1)]
                     IN Apply("Upsert", TRUE, With(rows, new), With(asked, new), 1)
             [] ok /\ Keyed(k) # {} /\ settable(t) = {} ->
                  Untouched /\ Return("Upsert", "ErrNotFound", 0)
             [] OTHER -> Patch("Upsert", Keyed(k), ex, [c \in settable(t) \cap DOMAIN p |-> p[c]])
  /\ UNCHANGED t

RemoveSet(op, S) ==
  Apply(op, TRUE, Without(rows, S), Without(asked, S), Cardinality(S))

Delete(k) ==
  /\ ~t.view /\ hasKey
  /\ RemoveSet("Delete", Keyed(k))
  /\ UNCHANGED <<t, drawn>>

\* Mutant: the slice is checked, the nils in it are not.
DeleteBulkNil(w) ==
  /\ ~t.view
  /\ IF w = <<>> THEN Untouched /\ Return("DeleteBulk", "ErrNoWhere", 0)
     ELSE RemoveSet("DeleteBulk", Selected(Given(w)))
  /\ UNCHANGED <<t, drawn>>

DeleteBulk(w) ==
  /\ ~t.view
  /\ IF Given(w) = {} THEN Untouched /\ Return("DeleteBulk", "ErrNoWhere", 0)
     ELSE RemoveSet("DeleteBulk", Selected(Given(w)))
  /\ UNCHANGED <<t, drawn>>

Batches == UNION {[1 .. n -> Params] : n \in 0 .. MaxBatch}

Next ==
  \/ \E k \in IF hasKey THEN FieldOf(Key) ELSE {} :
       \/ Get(k) \/ Delete(k)
       \/ \E s \in SetValues : Update(k, s)
       \/ \E p \in Params : Upsert(k, p)
  \/ \E w \in Wheres :
       \/ DeleteBulk(w)
       \/ \E s \in SetValues : UpdateBulk(w, s)
  \/ \E f \in Filters : List(f)
  \/ \E p \in Params : Insert(p)
  \/ \E ps \in Batches : InsertBatch(ps)

Init ==
  /\ t \in Schemas
  /\ rows = <<>> /\ asked = <<>> /\ drawn = 0
  /\ result = [op |-> "none", res |-> "none", n |-> 0]

Spec == Init /\ [][Next]_vars
-----------------------------------------------------------------------------
(* Properties *)

Row == [t.cols -> Value]
Touched == {i \in Ids : i \notin DOMAIN rows' \/ rows'[i] # rows[i]}
Changed(i) == {c \in t.cols : i \in DOMAIN rows' /\ rows'[i][c] # rows[i][c]}
KeyDeclared == hasKey /\ (t.pk # <<>> \/ t.uniques # <<>>)

\* Every row has a value in each column of the table, whichever generated
\* function wrote it (pass_statics.go), and the sequence is not overdrawn.
TypeOK ==
  /\ t \in Schemas
  /\ DOMAIN rows \subseteq RowId /\ DOMAIN asked = DOMAIN rows
  /\ \A i \in Ids : rows[i] \in Row
  /\ drawn \in 0 .. Len(Sequence)

\* No call changes a value its caller did not name, and what a caller names is
\* written: patches of different columns by clients that know nothing of each
\* other never undo one another, and neither does an upsert.
NoWriteUndone == asked = rows

\* directives.mdx:12, pass_statics.go:163-164: no history of calls changes a
\* pgb:no_patch column, or the key, of a row that stays.
NeverPatched ==
  [][\A i \in Ids : Changed(i) \cap (t.noPatch \cup heuristicPK(t)) = {}]_vars

\* pass_statics.go:495-506, 522-558: what a single-row function changes or
\* deletes has the key it was given, and what it adds gets that key.  It is one
\* row at most when the key is a constraint of the table and not the heuristic id.
SingleRow ==
  [][result'.op \in {"Update", "Upsert", "Delete"} => \A k \in Value :
       (hasKey /\ (Delete(k) \/ (\E s \in SetValues : Update(k, s)) \/ \E p \in Params : Upsert(k, p))) =>
         /\ Touched \subseteq Keyed(k)
         /\ \A i \in DOMAIN rows' \ Ids : rows'[i][Key] = k
         /\ KeyDeclared => Cardinality(Touched) <= 1]_vars

\* core/dbtx.go:28-31: a bulk mutation never reaches a row that some predicate
\* of the caller excludes, and without a predicate it reaches none.
BulkStaysInWhere ==
  [][result'.op \in {"DeleteBulk", "UpdateBulk"} => \A w \in Wheres :
       (DeleteBulk(w) \/ \E s \in SetValues : UpdateBulk(w, s)) =>
         /\ Touched \subseteq Selected(Given(w))
         /\ Given(w) = {} => Touched = {}]_vars

\* ErrNotFound is the truth: no row had the key and nothing was written.  (An
\* upsert with nothing to set is the documented exception.)
NotFoundIsAbsent ==
  [][result'.res = "ErrNotFound" => \A k \in Value :
       (hasKey /\ (Get(k) \/ \E s \in SetValues : Update(k, s))) =>
         Keyed(k) = {} /\ rows' = rows]_vars

\* A batch inserts all of its rows or none, and nothing else.
BatchIsAtomic ==
  [][result'.op = "InsertBatch" =>
       /\ Touched = {}
       /\ Cardinality(DOMAIN rows') - Cardinality(Ids) = result'.n]_vars

\* load_ddl.go:374-379: identity columns are kept out of INSERT column lists
\* because the server refuses a value for GENERATED ALWAYS.
InsertListsAccepted ==
  [][\A k \in Value \ {Null} : \A p \in Params :
       (hasKey /\ hasInsert /\ Upsert(k, p)) => Writable(upsertColumns(t))]_vars
=============================================================================
