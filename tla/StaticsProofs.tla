--------------------------- MODULE StaticsProofs ---------------------------
(***************************************************************************)
(* What the generated functions do to a table, for every table, every batch *)
(* and every number of rows.                                               *)
(***************************************************************************)
EXTENDS Statics, DataLemmas, FiniteSetTheorems

\* The server has accepted the table: its keys hold in every state.
StaticsInv == TypeOK /\ Valid(rows)

LEMMA FirstFreshIsFresh ==
  ASSUME Fresh # {}
  PROVE  FirstFresh \in Fresh
<1>1. Fresh \subseteq Nat
  BY StaticsAssumption DEF Fresh, RowId
<1>2. \E i \in Fresh : \A j \in Fresh : i <= j
  BY <1>1, LeastNatural
<1>3. QED
  BY <1>2 DEF FirstFresh
-----------------------------------------------------------------------------
(* What a call can do *)

\* It writes no row.
WritesNothing == UNCHANGED <<rows, asked>>

\* It adds rows of its own, as its caller filled them.
AddsRows(new) ==
  /\ DOMAIN new \subseteq Fresh /\ \A i \in DOMAIN new : new[i] \in Row
  /\ rows' = With(rows, new) /\ asked' = With(asked, new)

\* What an upsert can set and its caller cannot name.
Reset == settable(t) \ insertable(t)

\* given is the part of s that its caller named.
Named(given, s) ==
  /\ DOMAIN given \subseteq DOMAIN s /\ DOMAIN s \ DOMAIN given \subseteq Reset
  /\ \A c \in DOMAIN given : given[c] = s[c]

\* It writes columns that may be set to rows of the table, and all of them but
\* those of Reset at its caller's word.
PatchesRows(S, s, given) ==
  /\ S \subseteq Ids /\ s \in UNION {[C -> Value] : C \in SUBSET settable(t)}
  /\ rows' = With(rows, [i \in S |-> Patched(rows[i], s)])
  /\ asked' = With(asked, [i \in S |-> With(asked[i], given)])
  /\ Named(given, s)

RemovesRows(S) ==
  /\ S \subseteq Ids
  /\ rows' = Without(rows, S) /\ asked' = Without(asked, S)

Effect ==
  /\ t' = t /\ drawn' \in 0 .. Len(Sequence)
  /\ \/ WritesNothing
     \/ /\ Valid(rows')
        /\ \/ \E new : AddsRows(new)
           \/ \E S, s, given : PatchesRows(S, s, given)
           \/ \E S : RemovesRows(S)

LEMMA ApplyWrites ==
  ASSUME NEW op, NEW ok, NEW tbl, NEW want, NEW n, Apply(op, ok, tbl, want, n)
  PROVE  WritesNothing \/ (Valid(tbl) /\ rows' = tbl /\ asked' = want)
BY DEF Apply, Untouched, WritesNothing

\* A proposed row has a value in each column, if the sequence lasts.
LEMMA ProposedIsRow ==
  ASSUME TypeOK, NEW p, \A c \in DOMAIN p : p[c] \in Value,
         NEW n \in Nat \ {0}, Draws \ DOMAIN p # {} => drawn + n <= Len(Sequence)
  PROVE  Proposed(p, n) \in Row
<1>1. ASSUME NEW c \in t.cols, c \in Draws \ DOMAIN p
      PROVE  Sequence[drawn + n] \in Value
  <2>1. drawn + n \in 1 .. Len(Sequence)
    BY <1>1, StaticsAssumption DEF TypeOK
  <2>2. QED
    BY <2>1, StaticsAssumption
<1>2. Default \in Value
  BY StaticsAssumption
<1>3. QED
  BY <1>1, <1>2 DEF Proposed, Row

LEMMA InsertEffect ==
  ASSUME StaticsInv, NEW p \in Params, Insert(p)
  PROVE  Effect
<1> DEFINE n == Drawn(DOMAIN p, 1)
           new == [j \in {FirstFresh} |-> Proposed(p, 1)]
<1>1. /\ Fresh # {} /\ CanDraw(n) /\ drawn' = drawn + n /\ t' = t
      /\ Apply("Insert", Writable(DOMAIN p), With(rows, new), With(asked, new), 1)
  BY DEF Insert
<1>2. drawn' \in 0 .. Len(Sequence)
  BY <1>1, StaticsAssumption DEF StaticsInv, TypeOK, CanDraw, Drawn
<1>3. Proposed(p, 1) \in Row
  <2>1. Draws \ DOMAIN p # {} => drawn + 1 <= Len(Sequence)
    BY <1>1 DEF CanDraw, Drawn
  <2>2. \A c \in DOMAIN p : p[c] \in Value
    BY DEF Params
  <2>3. QED
    BY <2>1, <2>2, ProposedIsRow DEF StaticsInv
<1>4. rows' = With(rows, new) /\ asked' = With(asked, new) => AddsRows(new)
  BY <1>1, <1>3, FirstFreshIsFresh DEF AddsRows
<1> HIDE DEF new
<1>5. QED
  BY <1>1, <1>2, <1>4, ApplyWrites DEF Effect

LEMMA InsertBatchEffect ==
  ASSUME StaticsInv, NEW ps \in Batches, InsertBatch(ps)
  PROVE  Effect
<1>1. CASE ps = <<>>
  BY <1>1 DEF InsertBatch, Untouched, StaticsInv, TypeOK, Effect, WritesNothing
<1>2. CASE ps # <<>>
  <2>1. PICK len \in Nat : len # 0 /\ ps \in [1 .. len -> Params]
    BY <1>2, StaticsAssumption DEF Batches
  <2>2. PICK ids \in [DOMAIN ps -> Fresh] :
          LET n == Drawn(DOMAIN ps[1], Len(ps))
              At(i) == CHOOSE a \in DOMAIN ps : ids[a] = i
              new == [i \in {ids[a] : a \in DOMAIN ps} |-> Proposed(ps[At(i)], At(i))]
          IN /\ CanDraw(n) /\ drawn' = drawn + n
             /\ Apply("InsertBatch", Writable(DOMAIN ps[1]), With(rows, new), With(asked, new), Len(ps))
    BY <1>2 DEF InsertBatch
  <2> DEFINE n == Drawn(DOMAIN ps[1], Len(ps))
             At(i) == CHOOSE a \in DOMAIN ps : ids[a] = i
             new == [i \in {ids[a] : a \in DOMAIN ps} |-> Proposed(ps[At(i)], At(i))]
  <2>3. t' = t
    BY DEF InsertBatch
  <2>4. Len(ps) = len /\ DOMAIN ps = 1 .. len
    BY <2>1
  <2>5. drawn' \in 0 .. Len(Sequence)
    BY <2>2, <2>4, StaticsAssumption DEF StaticsInv, TypeOK, CanDraw, Drawn
  <2>6. ASSUME NEW a \in DOMAIN ps
        PROVE  Proposed(ps[a], a) \in Row
    <3>1. ps[a] \in Params /\ ps[1] \in Params /\ a \in 1 .. len
      BY <2>1, <2>4
    <3>2. DOMAIN ps[a] = DOMAIN ps[1] /\ \A c \in DOMAIN ps[a] : ps[a][c] \in Value
      BY <3>1 DEF Params
    <3>3. Draws \ DOMAIN ps[a] # {} => drawn + a <= Len(Sequence)
      BY <2>2, <2>4, <3>1, <3>2, StaticsAssumption DEF CanDraw, Drawn, StaticsInv, TypeOK
    <3>4. QED
      BY <3>1, <3>2, <3>3, ProposedIsRow DEF StaticsInv
  <2>7. \A i \in {ids[a] : a \in DOMAIN ps} : At(i) \in DOMAIN ps
    OBVIOUS
  <2>8. rows' = With(rows, new) /\ asked' = With(asked, new) => AddsRows(new)
    BY <2>6, <2>7 DEF AddsRows
  <2>9. Apply("InsertBatch", Writable(DOMAIN ps[1]), With(rows, new), With(asked, new), Len(ps))
    BY <2>2
  <2> HIDE DEF new
  <2>10. QED
    BY <2>3, <2>5, <2>8, <2>9, ApplyWrites DEF Effect
<1>3. QED
  BY <1>1, <1>2

LEMMA PatchEffect ==
  ASSUME StaticsInv, UNCHANGED <<t, drawn>>, NEW op, NEW S, NEW s, NEW given,
         S \subseteq Ids, s \in UNION {[C -> Value] : C \in SUBSET settable(t)},
         Named(given, s), Patch(op, S, s, given)
  PROVE  Effect
<1> DEFINE new == [i \in S |-> Patched(rows[i], s)]
           want == [i \in S |-> With(asked[i], given)]
<1>1. rows' = With(rows, new) /\ asked' = With(asked, want) => PatchesRows(S, s, given)
  BY DEF PatchesRows
<1>2. Apply(op, Writable(DOMAIN s), With(rows, new), With(asked, want), Cardinality(S))
  BY DEF Patch
<1> HIDE DEF new, want
<1>3. QED
  BY <1>1, <1>2, ApplyWrites DEF Effect, StaticsInv, TypeOK

LEMMA UpdateEffect ==
  ASSUME StaticsInv, NEW k, NEW s \in SetValues, Update(k, s)
  PROVE  Effect
<1>1. CASE DOMAIN s = {}
  BY <1>1 DEF Update, Get, Untouched, WritesNothing, Effect, StaticsInv, TypeOK
<1>2. CASE DOMAIN s # {} /\ Keyed(k) = {} /\ Writable(DOMAIN s)
  BY <1>2 DEF Update, Untouched, WritesNothing, Effect, StaticsInv, TypeOK
<1>3. CASE DOMAIN s # {} /\ Patch("Update", Keyed(k), s, s)
  <2>1. Keyed(k) \subseteq Ids
    BY DEF Keyed, Selected
  <2>2. s \in UNION {[C -> Value] : C \in SUBSET settable(t)}
    BY DEF SetValues
  <2>3. UNCHANGED <<t, drawn>>
    BY <1>3 DEF Update
  <2>4. Named(s, s)
    BY DEF Named
  <2>5. QED
    BY <1>3, <2>1, <2>2, <2>3, <2>4, PatchEffect
<1>4. QED
  BY <1>1, <1>2, <1>3 DEF Update

LEMMA UpdateBulkEffect ==
  ASSUME StaticsInv, NEW w, NEW s \in SetValues, UpdateBulk(w, s)
  PROVE  Effect
<1>1. UNCHANGED <<t, drawn>>
  BY DEF UpdateBulk
<1>2. CASE DOMAIN s = {} \/ Given(w) = {}
  BY <1>1, <1>2 DEF UpdateBulk, Untouched, WritesNothing, Effect, StaticsInv, TypeOK
<1>3. CASE DOMAIN s # {} /\ Given(w) # {}
  <2>1. Selected(Given(w)) \subseteq Ids
    BY DEF Selected
  <2>2. s \in UNION {[C -> Value] : C \in SUBSET settable(t)}
    BY DEF SetValues
  <2>3. Patch("UpdateBulk", Selected(Given(w)), s, s)
    BY <1>3 DEF UpdateBulk
  <2>4. Named(s, s)
    BY DEF Named
  <2>5. QED
    BY <1>1, <2>1, <2>2, <2>3, <2>4, PatchEffect
<1>4. QED
  BY <1>2, <1>3

\* The row of an upsert is that of its parameters under the key, and what it
\* sets on conflict is that row's.
LEMMA UpsertEffect ==
  ASSUME StaticsInv, NEW k \in Value, NEW p \in Params, Upsert(k, p)
  PROVE  Effect
<1> DEFINE q == With(p, [c \in {Key} |-> k])
           n == Drawn(DOMAIN q, 1)
           ex == [c \in settable(t) |-> Proposed(q, 1)[c]]
           given == [c \in settable(t) \cap DOMAIN p |-> p[c]]
           new == [i \in {FirstFresh} |-> Proposed(q, 1)]
<1>1. CanDraw(n) /\ drawn' = drawn + n /\ t' = t
  BY DEF Upsert
<1>2. drawn' \in 0 .. Len(Sequence)
  BY <1>1, StaticsAssumption DEF StaticsInv, TypeOK, CanDraw, Drawn
<1>3. \A c \in DOMAIN q : q[c] \in Value
  BY DEF Params, With
<1>4. Proposed(q, 1) \in Row
  <2>1. Draws \ DOMAIN q # {} => drawn + 1 <= Len(Sequence)
    BY <1>1 DEF CanDraw, Drawn
  <2> HIDE DEF q
  <2>2. QED
    BY <1>3, <2>1, ProposedIsRow DEF StaticsInv
<1>5. \/ Untouched
      \/ Fresh # {} /\ Apply("Upsert", TRUE, With(rows, new), With(asked, new), 1)
      \/ Patch("Upsert", Keyed(k), ex, given)
  BY DEF Upsert
<1>6. CASE Untouched
  BY <1>1, <1>2, <1>6 DEF Effect, WritesNothing, Untouched
<1>7. CASE Fresh # {} /\ Apply("Upsert", TRUE, With(rows, new), With(asked, new), 1)
  <2>1. rows' = With(rows, new) /\ asked' = With(asked, new) => AddsRows(new)
    BY <1>4, <1>7, FirstFreshIsFresh DEF AddsRows
  <2> HIDE DEF new
  <2>2. QED
    BY <1>1, <1>2, <1>7, <2>1, ApplyWrites DEF Effect
<1>8. CASE Patch("Upsert", Keyed(k), ex, given)
  <2>1. ex \in [settable(t) -> Value]
    BY <1>4 DEF Row, settable
  <2>2. Named(given, ex)
    <3>1. DOMAIN p = insertable(t)
      BY DEF Params
    <3>2. ASSUME NEW c \in settable(t) \cap DOMAIN p
          PROVE  Proposed(q, 1)[c] = p[c]
      <4>1. hasKey
        BY DEF Upsert
      <4>2. c # Key /\ c \in t.cols
        BY <4>1 DEF settable, hasKey, Key
      <4>3. c \in DOMAIN q /\ q[c] = p[c]
        BY <4>2 DEF With
      <4> HIDE DEF q
      <4>4. QED
        BY <4>2, <4>3 DEF Proposed
    <3>3. DOMAIN ex = settable(t) /\ DOMAIN given = settable(t) \cap DOMAIN p
      OBVIOUS
    <3>4. \A c \in DOMAIN given : given[c] = ex[c]
      BY <3>2
    <3>5. QED
      BY <3>1, <3>3, <3>4 DEF Named, Reset
  <2>3. PatchesRows(Keyed(k), ex, given) \/ WritesNothing
    BY <1>8, <2>1, <2>2, ApplyWrites DEF Patch, PatchesRows, Keyed, Selected
  <2>4. WritesNothing \/ Valid(rows')
    BY <1>8, ApplyWrites DEF Patch
  <2> HIDE DEF ex, given
  <2>5. QED
    BY <1>1, <1>2, <2>3, <2>4 DEF Effect
<1>9. QED
  BY <1>5, <1>6, <1>7, <1>8

LEMMA RemoveEffect ==
  ASSUME StaticsInv, UNCHANGED <<t, drawn>>, NEW op, NEW S, S \subseteq Ids, RemoveSet(op, S)
  PROVE  Effect
<1> DEFINE tbl == Without(rows, S)
           want == Without(asked, S)
<1>1. rows' = tbl /\ asked' = want => RemovesRows(S)
  BY DEF RemovesRows
<1>2. Apply(op, TRUE, tbl, want, Cardinality(S))
  BY DEF RemoveSet
<1> HIDE DEF tbl, want
<1>3. QED
  BY <1>1, <1>2, ApplyWrites DEF Effect, StaticsInv, TypeOK

\* Every call does one of these.
LEMMA CallEffect ==
  ASSUME StaticsInv, Next
  PROVE  Effect
<1>1. ASSUME NEW k \in IF hasKey THEN FieldOf(Key) ELSE {}
      PROVE  /\ Get(k) \/ Delete(k) => Effect
             /\ \A s \in SetValues : Update(k, s) => Effect
             /\ \A p \in Params : Upsert(k, p) => Effect
  <2>1. k \in Value
    BY <1>1 DEF FieldOf
  <2>2. Get(k) => Effect
    BY DEF Get, Untouched, WritesNothing, Effect, StaticsInv, TypeOK
  <2>3. Delete(k) => Effect
    BY RemoveEffect DEF Delete, Keyed, Selected
  <2>4. QED
    BY <2>1, <2>2, <2>3, UpdateEffect, UpsertEffect
<1>2. ASSUME NEW w \in Wheres
      PROVE  /\ DeleteBulk(w) => Effect
             /\ \A s \in SetValues : UpdateBulk(w, s) => Effect
  <2>1. DeleteBulk(w) /\ Given(w) = {} => Effect
    BY DEF DeleteBulk, Untouched, WritesNothing, Effect, StaticsInv, TypeOK
  <2>2. DeleteBulk(w) /\ Given(w) # {} => Effect
    BY RemoveEffect DEF DeleteBulk, Selected
  <2>3. QED
    BY <2>1, <2>2, UpdateBulkEffect
<1>3. \A f \in Filters : List(f) => Effect
  BY DEF List, Untouched, WritesNothing, Effect, StaticsInv, TypeOK
<1>4. QED
  BY <1>1, <1>2, <1>3, InsertEffect, InsertBatchEffect DEF Next
-----------------------------------------------------------------------------
(* Invariants *)

LEMMA StaticsInvInit == Init => StaticsInv
<1> SUFFICES ASSUME Init PROVE StaticsInv
  OBVIOUS
<1>1. DOMAIN rows = {} /\ DOMAIN asked = {} /\ drawn = 0 /\ t \in Schemas
  BY DEF Init
<1>2. Valid(rows)
  BY <1>1 DEF Valid
<1>3. QED
  BY <1>1, <1>2, StaticsAssumption DEF StaticsInv, TypeOK, Ids

\* The code is generated once: its table, and what follows from it, stays.
LEMMA SameTable ==
  ASSUME t' = t
  PROVE  /\ UniqueKeys' = UniqueKeys /\ Row' = Row
         /\ settable(t)' = settable(t) /\ insertable(t)' = insertable(t)
<1>1. Row' = Row /\ settable(t)' = settable(t) /\ insertable(t)' = insertable(t)
  BY DEF Row
<1>2. UniqueKeys' = UniqueKeys
  BY DEF UniqueKeys
<1>3. QED
  BY <1>1, <1>2

LEMMA SameRowsValid ==
  ASSUME t' = t, Valid(rows')
  PROVE  Valid(rows)'
BY SameTable DEF Valid

LEMMA EffectKeepsInv ==
  ASSUME StaticsInv, Effect
  PROVE  StaticsInv'
<1>1. t' = t /\ drawn' \in 0 .. Len(Sequence) /\ Row' = Row
  BY SameTable DEF Effect
<1>2. CASE WritesNothing
  <2>1. rows' = rows /\ asked' = asked
    BY <1>2 DEF WritesNothing
  <2>2. Valid(rows)'
    BY <1>1, <2>1, SameRowsValid DEF StaticsInv
  <2>3. QED
    BY <1>1, <2>1, <2>2 DEF StaticsInv, TypeOK, Ids
<1>3. Valid(rows') => Valid(rows)'
  BY <1>1, SameRowsValid
<1>4. ASSUME NEW new, AddsRows(new)
      PROVE  TypeOK'
  <2>1. /\ DOMAIN rows' = DOMAIN rows \cup DOMAIN new
        /\ DOMAIN asked' = DOMAIN asked \cup DOMAIN new
    BY <1>4 DEF AddsRows, With
  <2>2. \A i \in DOMAIN rows' : rows'[i] \in Row
    BY <1>4 DEF AddsRows, With, StaticsInv, TypeOK, Ids
  <2>3. DOMAIN new \subseteq RowId
    BY <1>4 DEF AddsRows, Fresh
  <2>4. QED
    BY <1>1, <2>1, <2>2, <2>3 DEF StaticsInv, TypeOK, Ids
<1>5. ASSUME NEW S, NEW s, NEW given, PatchesRows(S, s, given)
      PROVE  TypeOK'
  <2>1. DOMAIN rows' = DOMAIN rows /\ DOMAIN asked' = DOMAIN asked
    BY <1>5 DEF PatchesRows, With, StaticsInv, TypeOK, Ids
  <2>2. ASSUME NEW i \in S
        PROVE  Patched(rows[i], s) \in Row
    <3>1. rows[i] \in Row /\ \A c \in DOMAIN s : s[c] \in Value
      BY <1>5 DEF PatchesRows, StaticsInv, TypeOK
    <3>2. QED
      BY <3>1 DEF Patched, Row
  <2>3. \A i \in DOMAIN rows' : rows'[i] \in Row
    BY <1>5, <2>1, <2>2 DEF PatchesRows, With, StaticsInv, TypeOK, Ids
  <2>4. QED
    BY <1>1, <2>1, <2>3 DEF StaticsInv, TypeOK, Ids
<1>6. ASSUME NEW S, RemovesRows(S)
      PROVE  TypeOK'
  BY <1>1, <1>6 DEF RemovesRows, Without, StaticsInv, TypeOK, Ids
<1>7. QED
  BY <1>2, <1>3, <1>4, <1>5, <1>6 DEF Effect, StaticsInv

LEMMA StaticsInvStep == StaticsInv /\ [Next]_vars => StaticsInv'
<1>1. StaticsInv /\ UNCHANGED vars => Effect
  BY DEF vars, Effect, WritesNothing, StaticsInv, TypeOK
<1>2. QED
  BY <1>1, CallEffect, EffectKeepsInv

LEMMA StaticsInvHolds == Spec => []StaticsInv
BY StaticsInvInit, StaticsInvStep, PTL DEF Spec

\* pass_statics.go, for every table and any number of rows and of draws: every
\* row has a value in each column, whichever function wrote it, and the row
\* ids, which the history of the calls is kept by, are those of the table.
THEOREM StaticsTypeCorrect == Spec => []TypeOK
<1>1. StaticsInv => TypeOK
  BY DEF StaticsInv
<1>2. QED
  BY <1>1, StaticsInvHolds, PTL

\* Outside of Reset every row holds what was asked of it.
WritesKept ==
  /\ rows \in [Ids -> Row] /\ asked \in [Ids -> Row]
  /\ \A i \in Ids : \A c \in t.cols \ Reset : asked[i][c] = rows[i][c]

\* A patch of a row and of its history.
LEMMA PatchKeepsWrites ==
  ASSUME NEW r \in Row, NEW a \in Row, \A c \in t.cols \ Reset : a[c] = r[c],
         NEW s \in UNION {[C -> Value] : C \in SUBSET settable(t)}, NEW given, Named(given, s)
  PROVE  /\ Patched(r, s) \in Row /\ With(a, given) \in Row
         /\ \A c \in t.cols \ Reset : With(a, given)[c] = Patched(r, s)[c]
<1>1. DOMAIN s \subseteq t.cols /\ \A c \in DOMAIN s : s[c] \in Value
  BY DEF settable
<1>2. Patched(r, s) \in Row
  BY <1>1 DEF Patched, Row
<1>3. DOMAIN a \cup DOMAIN given = t.cols
  BY <1>1 DEF Named, Row
<1>4. \A c \in t.cols : With(a, given)[c] = IF c \in DOMAIN given THEN s[c] ELSE a[c]
  BY <1>3 DEF With, Named
<1>5. With(a, given) \in Row
  <2>1. \A c \in t.cols : With(a, given)[c] \in Value
    BY <1>1, <1>4 DEF Named, Row
  <2>2. QED
    BY <1>3, <2>1 DEF With, Row
<1>6. \A c \in t.cols \ Reset : With(a, given)[c] = Patched(r, s)[c]
  <2>1. \A c \in t.cols \ Reset : c \in DOMAIN given <=> c \in DOMAIN s
    BY DEF Named
  <2>2. QED
    BY <1>4, <2>1 DEF Patched
<1>7. QED
  BY <1>2, <1>5, <1>6

LEMMA EffectKeepsWrites ==
  ASSUME StaticsInv, WritesKept, Effect
  PROVE  WritesKept'
<1>1. Row' = Row /\ Reset' = Reset /\ t' = t
  BY SameTable DEF Effect, Reset
<1>2. CASE WritesNothing
  BY <1>1, <1>2 DEF WritesNothing, WritesKept, Ids
<1>3. ASSUME NEW new, AddsRows(new)
      PROVE  WritesKept'
  <2>1. /\ DOMAIN rows = Ids /\ DOMAIN asked = Ids /\ DOMAIN rows' = Ids \cup DOMAIN new
        /\ rows' \in [Ids \cup DOMAIN new -> Row] /\ asked' \in [Ids \cup DOMAIN new -> Row]
    BY <1>3 DEF AddsRows, With, WritesKept
  <2>2. \A i \in Ids \cup DOMAIN new : \A c \in t.cols \ Reset : asked'[i][c] = rows'[i][c]
    BY <1>3, <2>1 DEF AddsRows, With, WritesKept
  <2>3. QED
    BY <1>1, <2>1, <2>2 DEF WritesKept, Ids
<1>4. ASSUME NEW S, NEW s, NEW given, PatchesRows(S, s, given)
      PROVE  WritesKept'
  <2>1. \A i \in S :
          /\ Patched(rows[i], s) \in Row /\ With(asked[i], given) \in Row
          /\ \A c \in t.cols \ Reset : With(asked[i], given)[c] = Patched(rows[i], s)[c]
    BY <1>4, PatchKeepsWrites DEF PatchesRows, WritesKept
  <2> DEFINE new == [i \in S |-> Patched(rows[i], s)]
             want == [i \in S |-> With(asked[i], given)]
  <2>2. rows' = With(rows, new) /\ asked' = With(asked, want) /\ S \subseteq Ids
    BY <1>4 DEF PatchesRows
  <2>3. new \in [S -> Row] /\ want \in [S -> Row]
        /\ \A i \in S : \A c \in t.cols \ Reset : want[i][c] = new[i][c]
    BY <2>1
  <2> HIDE DEF new, want
  <2>4. /\ DOMAIN rows' = Ids /\ rows' \in [Ids -> Row] /\ asked' \in [Ids -> Row]
        /\ \A i \in Ids : \A c \in t.cols \ Reset : asked'[i][c] = rows'[i][c]
    BY <2>2, <2>3 DEF With, WritesKept
  <2>5. QED
    BY <1>1, <2>4 DEF WritesKept, Ids
<1>5. ASSUME NEW S, RemovesRows(S)
      PROVE  WritesKept'
  BY <1>1, <1>5 DEF RemovesRows, Without, WritesKept, Ids
<1>6. QED
  BY <1>2, <1>3, <1>4, <1>5 DEF Effect

\* pass_statics.go:429-565, for every table: whatever calls interleave, each row
\* holds what the callers last asked for, and the calls of one never undo
\* another's, but for the columns an upsert sets that no caller of it can name;
\* where there are none, nothing is undone.
THEOREM WritesAreKept ==
  Spec => [](/\ \A i \in Ids : \A c \in t.cols \ Reset : asked[i][c] = rows[i][c]
             /\ Reset = {} => NoWriteUndone)
<1>1. Init => WritesKept
  BY DEF Init, WritesKept, Ids
<1>2. StaticsInv /\ WritesKept /\ [Next]_vars => WritesKept'
  <2>1. StaticsInv /\ UNCHANGED vars => Effect
    BY DEF vars, Effect, WritesNothing, StaticsInv, TypeOK
  <2>2. QED
    BY <2>1, CallEffect, EffectKeepsWrites
<1>3. WritesKept => /\ \A i \in Ids : \A c \in t.cols \ Reset : asked[i][c] = rows[i][c]
                    /\ Reset = {} => NoWriteUndone
  <2> SUFFICES ASSUME WritesKept, Reset = {} PROVE asked = rows
    BY DEF WritesKept, NoWriteUndone
  <2>1. \A i \in Ids : asked[i] = rows[i]
    BY DEF WritesKept, Row
  <2>2. QED
    BY <2>1 DEF WritesKept
<1>4. QED
  BY <1>1, <1>2, <1>3, StaticsInvHolds, PTL DEF Spec
-----------------------------------------------------------------------------
(* Which rows a call reaches *)

LEMMA EffectPatches ==
  ASSUME StaticsInv, Effect
  PROVE  \A i \in Ids : Changed(i) \cap (t.noPatch \cup heuristicPK(t)) = {}
<1> SUFFICES ASSUME NEW i \in Ids, i \in DOMAIN rows', NEW c \in t.noPatch \cup heuristicPK(t),
                    c \in t.cols
             PROVE  rows'[i][c] = rows[i][c]
  BY DEF Changed
<1>1. CASE WritesNothing
  BY <1>1 DEF WritesNothing
<1>2. ASSUME NEW new, AddsRows(new)
      PROVE  rows'[i][c] = rows[i][c]
  BY <1>2 DEF AddsRows, With, Fresh, Ids
<1>3. ASSUME NEW S, NEW s, NEW given, PatchesRows(S, s, given)
      PROVE  rows'[i][c] = rows[i][c]
  <2>1. c \notin DOMAIN s
    BY <1>3 DEF PatchesRows, settable
  <2>2. i \in S => rows'[i] = Patched(rows[i], s)
    BY <1>3 DEF PatchesRows, With
  <2>3. i \notin S => rows'[i] = rows[i]
    BY <1>3 DEF PatchesRows, With, Ids
  <2>4. QED
    BY <2>1, <2>2, <2>3 DEF Patched
<1>4. ASSUME NEW S, RemovesRows(S)
      PROVE  rows'[i][c] = rows[i][c]
  BY <1>4 DEF RemovesRows, Without
<1>5. QED
  BY <1>1, <1>2, <1>3, <1>4 DEF Effect

\* pass_statics.go:163-164, for every table and every history of calls: the
\* key and the pgb:no_patch columns of a row that stays are those it had.
THEOREM NoPatchColumnsStay == Spec => NeverPatched
<1>1. StaticsInv /\ [Next]_vars =>
        [\A i \in Ids : Changed(i) \cap (t.noPatch \cup heuristicPK(t)) = {}]_vars
  BY CallEffect, EffectPatches
<1>2. QED
  BY <1>1, StaticsInvHolds, PTL DEF Spec, NeverPatched

LEMMA PatchTouches ==
  ASSUME StaticsInv, NEW op, NEW S, NEW s, NEW given, Patch(op, S, s, given)
  PROVE  Touched \subseteq S /\ DOMAIN rows' \subseteq Ids \cup S
<1>1. rows' = rows \/ rows' = With(rows, [i \in S |-> Patched(rows[i], s)])
  BY DEF Patch, Apply, Untouched
<1>2. QED
  BY <1>1 DEF Touched, With, Ids

LEMMA RemoveTouches ==
  ASSUME StaticsInv, NEW op, NEW S, RemoveSet(op, S)
  PROVE  Touched \subseteq S /\ DOMAIN rows' \subseteq Ids
<1>1. rows' = rows \/ rows' = Without(rows, S)
  BY DEF RemoveSet, Apply, Untouched
<1>2. QED
  BY <1>1 DEF Touched, Without, Ids

LEMMA AddTouches ==
  ASSUME NEW new, DOMAIN new \subseteq Fresh, rows' = With(rows, new)
  PROVE  /\ Touched = {} /\ DOMAIN rows' = Ids \cup DOMAIN new
         /\ \A i \in DOMAIN new : rows'[i] = new[i]
BY DEF Touched, With, Fresh, Ids

\* The key the generator finds in the constraints is one of them.
LEMMA DeclaredKeyIsUnique ==
  ASSUME StaticsInv, KeyDeclared
  PROVE  {Key} \in UniqueKeys
<1>1. t.pk \in Seq(t.cols) /\ t.uniques \in Seq(Seq(t.cols))
  BY KeysAssumption DEF StaticsInv, TypeOK
<1> DEFINE single == {i \in DOMAIN t.uniques : Len(t.uniques[i]) = 1}
           first == CHOOSE i \in single : \A j \in single : i <= j
<1>2. ASSUME NEW u \in Seq(t.cols), Len(u) = 1, NEW k, k \in {u[1]}
      PROVE  {u[i] : i \in DOMAIN u} = {k}
  BY <1>2
<1>3. Key \in heuristicPK(t)
  BY DEF Key, KeyDeclared, hasKey
<1>4. CASE Len(t.pk) = 1
  <2>1. heuristicPK(t) = {t.pk[1]}
    BY <1>4 DEF heuristicPK
  <2>2. {t.pk[i] : i \in DOMAIN t.pk} = {Key}
    BY <1>1, <1>2, <1>3, <1>4, <2>1
  <2>3. QED
    BY <2>2 DEF UniqueKeys
<1>5. CASE Len(t.pk) # 1 /\ single # {}
  <2>1. first \in single
    <3>1. single \subseteq Nat
      BY <1>1
    <3>2. \E i \in single : \A j \in single : i <= j
      BY <1>5, <3>1, LeastNatural
    <3>3. QED
      BY <3>2
  <2>2. heuristicPK(t) = {t.uniques[first][1]}
    BY <1>5 DEF heuristicPK
  <2> HIDE DEF first
  <2>3. first \in DOMAIN t.uniques /\ t.uniques[first] \in Seq(t.cols) /\ Len(t.uniques[first]) = 1
    <3>1. first \in DOMAIN t.uniques /\ Len(t.uniques[first]) = 1
      BY <2>1
    <3> DEFINE Keys == Seq(t.cols)
    <3>2. t.uniques \in Seq(Keys)
      BY <1>1
    <3> HIDE DEF Keys
    <3>3. t.uniques[first] \in Keys
      BY <3>1, <3>2
    <3>4. QED
      BY <3>1, <3>3 DEF Keys
  <2>4. {t.uniques[first][i] : i \in DOMAIN t.uniques[first]} = {Key}
    BY <1>2, <1>3, <2>2, <2>3
  <2>5. QED
    BY <2>3, <2>4 DEF UniqueKeys
<1>6. CASE Len(t.pk) # 1 /\ single = {}
  <2>1. ~(t.pk = <<>> /\ t.uniques = <<>>)
    BY DEF KeyDeclared
  <2>2. heuristicPK(t) = {}
    BY <1>6, <2>1 DEF heuristicPK
  <2>3. QED
    BY <2>2, <1>3
<1>7. QED
  BY <1>4, <1>5, <1>6

\* A declared key selects one row at most: NULL selects none.
LEMMA KeyedIsSingle ==
  ASSUME StaticsInv, KeyDeclared, NEW k, NEW i \in Keyed(k), NEW j \in Keyed(k)
  PROVE  i = j
<1>1. {Key} \in UniqueKeys
  BY DeclaredKeyIsUnique
<1>2. /\ i \in DOMAIN rows /\ rows[i][Key] = k /\ k # Null
      /\ j \in DOMAIN rows /\ rows[j][Key] = k
  BY DEF Keyed, Selected, Holds, Ids
<1>3. QED
  BY <1>1, <1>2 DEF StaticsInv, Valid

LEMMA AtMostOne ==
  ASSUME NEW S, NEW T, S \subseteq T, \A i, j \in T : i = j
  PROVE  Cardinality(S) <= 1
<1>1. S = {} \/ \E x : S = {x}
  OBVIOUS
<1>2. Cardinality(S) \in {0, 1}
  BY <1>1, FS_EmptySet, FS_Singleton
<1>3. QED
  BY <1>2

LEMMA UntouchedTouches ==
  ASSUME Untouched
  PROVE  Touched = {} /\ DOMAIN rows' = Ids
BY DEF Untouched, Touched, Ids

\* The key is a column.
LEMMA KeyIsColumn ==
  ASSUME StaticsInv, hasKey
  PROVE  Key \in t.cols
<1>1. t.pk \in Seq(t.cols) /\ t.uniques \in Seq(Seq(t.cols)) /\ t.notNull \subseteq t.cols
  BY KeysAssumption DEF StaticsInv, TypeOK
<1> DEFINE single == {i \in DOMAIN t.uniques : Len(t.uniques[i]) = 1}
           first == CHOOSE i \in single : \A j \in single : i <= j
<1>2. Key \in heuristicPK(t)
  BY DEF Key, hasKey
<1>3. CASE Len(t.pk) = 1
  <2>1. heuristicPK(t) = {t.pk[1]}
    BY <1>3 DEF heuristicPK
  <2>2. QED
    BY <1>1, <1>2, <1>3, <2>1
<1>4. CASE Len(t.pk) # 1 /\ single # {}
  <2>1. first \in single
    <3>1. single \subseteq Nat
      BY <1>1
    <3>2. \E i \in single : \A j \in single : i <= j
      BY <1>4, <3>1, LeastNatural
    <3>3. QED
      BY <3>2
  <2>2. heuristicPK(t) = {t.uniques[first][1]}
    BY <1>4 DEF heuristicPK
  <2> HIDE DEF first
  <2> DEFINE Keys == Seq(t.cols)
  <2>3. first \in DOMAIN t.uniques /\ Len(t.uniques[first]) = 1 /\ t.uniques \in Seq(Keys)
    BY <1>1, <2>1
  <2>4. t.uniques[first] \in Keys
    <3> HIDE DEF Keys, single
    <3>1. QED
      BY <2>3
  <2>5. t.uniques[first][1] \in t.cols
    BY <2>3, <2>4
  <2>6. QED
    BY <1>2, <2>2, <2>5
<1>5. CASE Len(t.pk) # 1 /\ single = {}
  <2>1. heuristicPK(t) \subseteq t.notNull
    BY <1>5 DEF heuristicPK
  <2>2. QED
    BY <1>1, <1>2, <2>1
<1>6. QED
  BY <1>3, <1>4, <1>5

\* A call of a single-row function is about the rows of its key.
OfTheKey(k) ==
  /\ Touched \subseteq Keyed(k)
  /\ \A i \in DOMAIN rows' \ Ids : rows'[i][Key] = k

LEMMA CallsOfOneRow ==
  ASSUME StaticsInv, NEW k \in Value, hasKey,
         Delete(k) \/ (\E s \in SetValues : Update(k, s)) \/ \E p \in Params : Upsert(k, p)
  PROVE  OfTheKey(k)
<1>1. Keyed(k) \subseteq Ids
  BY DEF Keyed, Selected
<1>2. Untouched => OfTheKey(k)
  BY UntouchedTouches DEF OfTheKey
<1>3. ASSUME NEW op, NEW s, NEW given, Patch(op, Keyed(k), s, given)
      PROVE  OfTheKey(k)
  BY <1>1, <1>3, PatchTouches DEF OfTheKey
<1>4. ASSUME Delete(k)
      PROVE  OfTheKey(k)
  BY <1>4, RemoveTouches DEF Delete, OfTheKey
<1>5. ASSUME NEW s \in SetValues, Update(k, s)
      PROVE  OfTheKey(k)
  <2>1. Untouched \/ Patch("Update", Keyed(k), s, s)
    BY <1>5 DEF Update, Get
  <2>2. QED
    BY <1>2, <1>3, <2>1
<1>6. ASSUME NEW p \in Params, Upsert(k, p)
      PROVE  OfTheKey(k)
  <2> DEFINE q == With(p, [c \in {Key} |-> k])
             ex == [c \in settable(t) |-> Proposed(q, 1)[c]]
             given == [c \in settable(t) \cap DOMAIN p |-> p[c]]
             new == [i \in {FirstFresh} |-> Proposed(q, 1)]
  <2>1. \/ Untouched
        \/ Fresh # {} /\ Apply("Upsert", TRUE, With(rows, new), With(asked, new), 1)
        \/ Patch("Upsert", Keyed(k), ex, given)
    BY <1>6 DEF Upsert
  <2>2. Proposed(q, 1)[Key] = k
    <3>1. Key \in t.cols
      BY KeyIsColumn
    <3>2. Key \in DOMAIN q /\ q[Key] = k
      BY DEF With
    <3> HIDE DEF q
    <3>3. QED
      BY <3>1, <3>2 DEF Proposed
  <2>3. DOMAIN new = {FirstFresh} /\ \A i \in DOMAIN new : new[i][Key] = k
    BY <2>2
  <2> HIDE DEF ex, given, new
  <2>4. CASE Fresh # {} /\ Apply("Upsert", TRUE, With(rows, new), With(asked, new), 1)
    <3>1. Untouched \/ rows' = With(rows, new)
      BY <2>4 DEF Apply
    <3>2. DOMAIN new \subseteq Fresh
      BY <2>3, <2>4, FirstFreshIsFresh
    <3>3. ASSUME rows' = With(rows, new)
          PROVE  OfTheKey(k)
      <4>1. Touched = {} /\ DOMAIN rows' = Ids \cup DOMAIN new /\ \A i \in DOMAIN new : rows'[i] = new[i]
        BY <3>2, <3>3, AddTouches
      <4>2. \A i \in DOMAIN rows' \ Ids : i \in DOMAIN new /\ rows'[i] = new[i] /\ new[i][Key] = k
        BY <2>3, <4>1
      <4>3. \A i \in DOMAIN rows' \ Ids : rows'[i][Key] = k
        BY <4>2
      <4>4. QED
        BY <4>1, <4>3 DEF OfTheKey
    <3>4. QED
      BY <1>2, <3>1, <3>3
  <2>5. QED
    BY <1>2, <1>3, <2>1, <2>4
<1>7. QED
  BY <1>4, <1>5, <1>6

LEMMA ApplySays ==
  ASSUME NEW op, NEW ok, NEW tbl, NEW want, NEW n, Apply(op, ok, tbl, want, n)
  PROVE  /\ result'.op = op
         /\ \/ result'.res = "ok" /\ result'.n = n /\ rows' = tbl
            \/ result'.res = "refused" /\ result'.n = 0 /\ Untouched
BY DEF Apply, Return

LEMMA PatchSays ==
  ASSUME NEW op, NEW S, NEW s, NEW given, Patch(op, S, s, given)
  PROVE  result'.op = op /\ result'.res \in {"ok", "refused"}
<1>1. PICK tbl, want : Apply(op, Writable(DOMAIN s), tbl, want, Cardinality(S))
  BY DEF Patch
<1>2. QED
  BY <1>1, ApplySays

\* Which function a result is of.
LEMMA CallsSay ==
  /\ \A k : Get(k) => result'.op = "Get"
  /\ \A k : Delete(k) => result'.op = "Delete"
  /\ \A k, s : Update(k, s) => result'.op \in {"Get", "Update"}
  /\ \A k, p : Upsert(k, p) => result'.op = "Upsert"
  /\ \A w : DeleteBulk(w) => result'.op = "DeleteBulk"
  /\ \A w, s : UpdateBulk(w, s) => result'.op = "UpdateBulk"
  /\ \A f : List(f) => result'.op = "List"
  /\ \A p : Insert(p) => result'.op = "Insert"
  /\ \A ps : InsertBatch(ps) => result'.op = "InsertBatch"
<1>1. ASSUME NEW k, Get(k)
      PROVE  result'.op = "Get"
  BY <1>1 DEF Get, Return
<1>2. ASSUME NEW k, Delete(k)
      PROVE  result'.op = "Delete"
  BY <1>2 DEF Delete, RemoveSet, Apply, Return
<1>3. ASSUME NEW k, NEW s, Update(k, s)
      PROVE  result'.op \in {"Get", "Update"}
  BY <1>1, <1>3, PatchSays DEF Update, Return
<1>4. ASSUME NEW k, NEW p, Upsert(k, p)
      PROVE  result'.op = "Upsert"
  <2>1. \/ \E res : Return("Upsert", res, 0)
        \/ \E ok, tbl, want, n : Apply("Upsert", ok, tbl, want, n)
        \/ \E S, s, given : Patch("Upsert", S, s, given)
    BY <1>4 DEF Upsert
  <2>2. QED
    BY <2>1, PatchSays DEF Apply, Return
<1>5. ASSUME NEW w, DeleteBulk(w)
      PROVE  result'.op = "DeleteBulk"
  BY <1>5 DEF DeleteBulk, RemoveSet, Apply, Return
<1>6. ASSUME NEW w, NEW s, UpdateBulk(w, s)
      PROVE  result'.op = "UpdateBulk"
  BY <1>6, PatchSays DEF UpdateBulk, Return
<1>7. ASSUME NEW f, List(f)
      PROVE  result'.op = "List"
  BY <1>7 DEF List, Return
<1>8. ASSUME NEW p, Insert(p)
      PROVE  result'.op = "Insert"
  BY <1>8 DEF Insert, Apply, Return
<1>9. ASSUME NEW ps, InsertBatch(ps)
      PROVE  result'.op = "InsertBatch"
  <2>1. CASE ps = <<>>
    BY <1>9, <2>1 DEF InsertBatch, Return
  <2>2. CASE ps # <<>>
    <3>1. \E tbl, want : Apply("InsertBatch", Writable(DOMAIN ps[1]), tbl, want, Len(ps))
      BY <1>9, <2>2 DEF InsertBatch
    <3>2. QED
      BY <3>1, ApplySays
  <2>3. QED
    BY <2>1, <2>2
<1>10. QED
  BY <1>1, <1>2, <1>3, <1>4, <1>5, <1>6, <1>7, <1>8, <1>9

\* pass_statics.go:495-506, 522-558, for every table, key and state: an Update,
\* an Upsert or a Delete reaches only rows of the key it was given, adds a row
\* under that key only, and changes one row at most when the key is declared.
THEOREM SingleRowOfTheKey == Spec => SingleRow
<1>1. ASSUME StaticsInv, NEW k \in Value,
             hasKey /\ (Delete(k) \/ (\E s \in SetValues : Update(k, s)) \/ \E p \in Params : Upsert(k, p))
      PROVE  /\ Touched \subseteq Keyed(k)
             /\ \A i \in DOMAIN rows' \ Ids : rows'[i][Key] = k
             /\ KeyDeclared => Cardinality(Touched) <= 1
  <2>1. OfTheKey(k)
    BY <1>1, CallsOfOneRow
  <2>2. ASSUME KeyDeclared
        PROVE  Cardinality(Touched) <= 1
    BY <1>1, <2>1, <2>2, KeyedIsSingle, AtMostOne DEF OfTheKey
  <2>3. QED
    BY <2>1, <2>2 DEF OfTheKey
<1>2. StaticsInv /\ [Next]_vars =>
        [result'.op \in {"Update", "Upsert", "Delete"} => \A k \in Value :
           (hasKey /\ (Delete(k) \/ (\E s \in SetValues : Update(k, s)) \/ \E p \in Params : Upsert(k, p))) =>
             /\ Touched \subseteq Keyed(k)
             /\ \A i \in DOMAIN rows' \ Ids : rows'[i][Key] = k
             /\ KeyDeclared => Cardinality(Touched) <= 1]_vars
  BY <1>1
<1>3. QED
  BY <1>2, StaticsInvHolds, PTL DEF Spec, SingleRow

LEMMA BulkTouches ==
  ASSUME StaticsInv, NEW w, DeleteBulk(w) \/ \E s \in SetValues : UpdateBulk(w, s)
  PROVE  /\ Touched \subseteq Selected(Given(w))
         /\ Given(w) = {} => Touched = {}
<1>1. ASSUME DeleteBulk(w)
      PROVE  IF Given(w) = {} THEN Touched = {} ELSE Touched \subseteq Selected(Given(w))
  <2>1. IF Given(w) = {} THEN Untouched ELSE RemoveSet("DeleteBulk", Selected(Given(w)))
    BY <1>1 DEF DeleteBulk
  <2>2. QED
    BY <2>1, RemoveTouches, UntouchedTouches
<1>2. ASSUME NEW s \in SetValues, UpdateBulk(w, s)
      PROVE  Touched = {} \/ (Given(w) # {} /\ Touched \subseteq Selected(Given(w)))
  <2>1. Untouched \/ (Given(w) # {} /\ Patch("UpdateBulk", Selected(Given(w)), s, s))
    BY <1>2 DEF UpdateBulk
  <2>2. QED
    BY <2>1, PatchTouches, UntouchedTouches
<1>3. QED
  BY <1>1, <1>2

\* core/dbtx.go:28-31, pass_statics.go:508-520, 559-565, for every table, every where
\* slice and every state: a bulk mutation changes only rows that all of its
\* predicates select, and none when there is no predicate.
THEOREM BulkBounded == Spec => BulkStaysInWhere
<1>1. StaticsInv /\ [Next]_vars =>
        [result'.op \in {"DeleteBulk", "UpdateBulk"} => \A w \in Wheres :
           (DeleteBulk(w) \/ \E s \in SetValues : UpdateBulk(w, s)) =>
             /\ Touched \subseteq Selected(Given(w))
             /\ Given(w) = {} => Touched = {}]_vars
  BY BulkTouches
<1>2. QED
  BY <1>1, StaticsInvHolds, PTL DEF Spec, BulkStaysInWhere

\* ErrNotFound comes from a call that saw no row under the key.
LEMMA NotFoundSawNothing ==
  ASSUME NEW k, result'.res = "ErrNotFound", Get(k) \/ \E s \in SetValues : Update(k, s)
  PROVE  Keyed(k) = {} /\ rows' = rows
<1>1. ASSUME Get(k)
      PROVE  Keyed(k) = {} /\ rows' = rows
  BY <1>1 DEF Get, Return, Untouched
<1>2. ASSUME NEW s \in SetValues, Update(k, s), ~Get(k)
      PROVE  Keyed(k) = {} /\ rows' = rows
  <2>1. (Keyed(k) = {} /\ Untouched) \/ Patch("Update", Keyed(k), s, s)
    BY <1>2 DEF Update
  <2>2. ~Patch("Update", Keyed(k), s, s)
    BY PatchSays
  <2>3. QED
    BY <2>1, <2>2 DEF Untouched
<1>3. QED
  BY <1>1, <1>2

\* core/dbtx.go:24-26, pass_statics.go:401-412, 495-506, for every table and state:
\* a Get or an Update answers ErrNotFound only when no row has the key, and
\* then it has written nothing.
THEOREM NotFoundIsTrue == Spec => NotFoundIsAbsent
<1>1. StaticsInv /\ [Next]_vars =>
        [result'.res = "ErrNotFound" => \A k \in Value :
           (hasKey /\ (Get(k) \/ \E s \in SetValues : Update(k, s))) =>
             Keyed(k) = {} /\ rows' = rows]_vars
  BY NotFoundSawNothing
<1>2. QED
  BY <1>1, StaticsInvHolds, PTL DEF Spec, NotFoundIsAbsent
-----------------------------------------------------------------------------
(* Batches *)

\* As many rows as the batch has, in rows of their own.
LEMMA BatchAdds ==
  ASSUME StaticsInv, NEW len \in Nat, NEW ids \in [1 .. len -> Fresh],
         \A a, b \in 1 .. len : a < b => ids[a] < ids[b],
         NEW new, DOMAIN new = {ids[a] : a \in 1 .. len}, rows' = With(rows, new)
  PROVE  /\ Touched = {}
         /\ Cardinality(DOMAIN rows') - Cardinality(Ids) = len
<1> DEFINE A == {ids[a] : a \in 1 .. len}
<1>1. A \subseteq Fresh /\ Fresh \subseteq Nat
  BY StaticsAssumption DEF Fresh, RowId
<1>2. IsFiniteSet(A) /\ Cardinality(A) = len
  <2>1. IsFiniteSet(1 .. len) /\ Cardinality(1 .. len) = len
    BY FS_Interval
  <2>2. ids \in Bijection(1 .. len, A)
    <3>1. \A a, b \in 1 .. len : ids[a] = ids[b] => a = b
      <4> SUFFICES ASSUME NEW a \in 1 .. len, NEW b \in 1 .. len, ids[a] = ids[b], a # b
                   PROVE  FALSE
        OBVIOUS
      <4>1. ids[a] \in Nat /\ ids[b] \in Nat
        BY <1>1
      <4>2. a < b \/ b < a
        OBVIOUS
      <4>3. QED
        BY <4>1, <4>2
    <3>2. ids \in [1 .. len -> A] /\ \A i \in A : \E a \in 1 .. len : ids[a] = i
      OBVIOUS
    <3>3. QED
      BY <3>1, <3>2 DEF Bijection, Injection, Surjection, IsInjective
  <2>3. ExistsBijection(1 .. len, A)
    BY <2>2 DEF ExistsBijection
  <2>4. QED
    BY <2>1, <2>3, FS_Bijection
<1>3. IsFiniteSet(Ids)
  <2>1. IsFiniteSet(RowId)
    BY FS_Interval, StaticsAssumption DEF RowId
  <2>2. QED
    BY <2>1, FS_Subset DEF StaticsInv, TypeOK, Ids
<1>4. DOMAIN rows' = Ids \cup A /\ Ids \cap A = {}
  BY <1>1 DEF With, Ids, Fresh
<1> HIDE DEF A
<1>5. Cardinality(DOMAIN rows') = Cardinality(Ids) + len
  <2>1. Cardinality(Ids \cup A) = Cardinality(Ids) + Cardinality(A) - Cardinality(Ids \cap A)
    BY <1>2, <1>3, FS_Union
  <2>2. Cardinality(Ids \cap A) = 0 /\ Cardinality(Ids) \in Nat
    BY <1>3, <1>4, FS_EmptySet, FS_CardinalityType
  <2>3. QED
    BY <1>2, <1>4, <2>1, <2>2
<1>6. Touched = {}
  BY <1>1, AddTouches DEF A
<1>7. QED
  BY <1>3, <1>5, <1>6, FS_CardinalityType

LEMMA BatchCall ==
  ASSUME StaticsInv, NEW ps \in Batches, InsertBatch(ps)
  PROVE  /\ Touched = {}
         /\ Cardinality(DOMAIN rows') - Cardinality(Ids) = result'.n
<1>1. Cardinality(Ids) \in Nat
  <2>1. IsFiniteSet(RowId)
    BY FS_Interval, StaticsAssumption DEF RowId
  <2>2. QED
    BY <2>1, FS_Subset, FS_CardinalityType DEF StaticsInv, TypeOK, Ids
<1>2. ASSUME Untouched, result'.n = 0
      PROVE  /\ Touched = {}
             /\ Cardinality(DOMAIN rows') - Cardinality(Ids) = result'.n
  <2>1. DOMAIN rows' = Ids
    BY <1>2 DEF Untouched, Ids
  <2>2. QED
    BY <1>1, <1>2, <2>1, UntouchedTouches
<1>3. CASE ps = <<>>
  BY <1>2, <1>3 DEF InsertBatch, Return
<1>4. CASE ps # <<>>
  <2>1. PICK len \in Nat : ps \in [1 .. len -> Params]
    BY StaticsAssumption DEF Batches
  <2>2. Len(ps) = len /\ DOMAIN ps = 1 .. len
    BY <2>1
  <2>3. PICK ids \in [DOMAIN ps -> Fresh] :
          LET At(i) == CHOOSE a \in DOMAIN ps : ids[a] = i
              new == [i \in {ids[a] : a \in DOMAIN ps} |-> Proposed(ps[At(i)], At(i))]
          IN /\ \A a, b \in DOMAIN ps : a < b => ids[a] < ids[b]
             /\ Apply("InsertBatch", Writable(DOMAIN ps[1]), With(rows, new), With(asked, new), Len(ps))
    BY <1>4 DEF InsertBatch
  <2> DEFINE At(i) == CHOOSE a \in DOMAIN ps : ids[a] = i
             new == [i \in {ids[a] : a \in DOMAIN ps} |-> Proposed(ps[At(i)], At(i))]
  <2>4. /\ \A a, b \in 1 .. len : a < b => ids[a] < ids[b]
        /\ Apply("InsertBatch", Writable(DOMAIN ps[1]), With(rows, new), With(asked, new), len)
    BY <2>2, <2>3
  <2>5. DOMAIN new = {ids[a] : a \in 1 .. len} /\ ids \in [1 .. len -> Fresh]
    BY <2>2
  <2> HIDE DEF new
  <2>6. \/ result'.n = len /\ rows' = With(rows, new)
        \/ Untouched /\ result'.n = 0
    BY <2>4, ApplySays
  <2>7. QED
    BY <1>2, <2>4, <2>5, <2>6, BatchAdds
<1>5. QED
  BY <1>3, <1>4

\* pass_statics.go:463-493, for batches of every length: a batch inserts all of
\* its rows or none, says how many, and changes no other row.
THEOREM BatchAtomic == Spec => BatchIsAtomic
<1>1. ASSUME StaticsInv, [Next]_vars, vars' # vars, result'.op = "InsertBatch"
      PROVE  /\ Touched = {}
             /\ Cardinality(DOMAIN rows') - Cardinality(Ids) = result'.n
  <2>1. \E ps \in Batches : InsertBatch(ps)
    BY <1>1, CallsSay DEF Next
  <2>2. QED
    BY <1>1, <2>1, BatchCall
<1>2. StaticsInv /\ [Next]_vars =>
        [result'.op = "InsertBatch" =>
           /\ Touched = {}
           /\ Cardinality(DOMAIN rows') - Cardinality(Ids) = result'.n]_vars
  BY <1>1
<1>3. QED
  BY <1>2, StaticsInvHolds, PTL DEF Spec, BatchIsAtomic
=============================================================================
