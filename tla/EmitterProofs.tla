--------------------------- MODULE EmitterProofs ---------------------------
(***************************************************************************)
(* Proofs about the emitter, for every set of expression trees: its types, *)
(* the values its placeholders stand for, and, when Raws are balanced, the *)
(* numbering of its placeholders.                                          *)
(***************************************************************************)
EXTENDS Emitter, DataLemmas, FunctionTheorems, FiniteSetTheorems, SequenceTheorems, TLAPS

-----------------------------------------------------------------------------
(* Types *)

\* Interleaving items with a separator yields items of the same kind.
LEMMA JoinedType ==
  ASSUME NEW S, NEW items \in Seq(S), NEW sep \in S
  PROVE  Joined(items, sep) \in Seq(S)
<1> DEFINE m == 2 * Len(items) - 1
<1>1. Len(items) \in Nat /\ \A i \in 1 .. Len(items) : items[i] \in S
  BY ElementOfSeq, LenProperties
<1>2. \A i \in 1 .. m : i % 2 = 1 => (i + 1) \div 2 \in 1 .. Len(items)
  BY <1>1
<1>3. Joined(items, sep) \in [1 .. m -> S]
  BY <1>1, <1>2 DEF Joined
<1>4. CASE Len(items) = 0
  <2>1. 1 .. m = 1 .. 0
    BY <1>4
  <2> QED BY <2>1, <1>3, SeqDef
<1>5. CASE Len(items) # 0
  BY <1>1, <1>3, <1>5, SeqDef
<1> QED BY <1>4, <1>5

\* A joined list of trees, bare or in parentheses, is a sequence of items.
LEMMA EmitJoinedType ==
  ASSUME NEW parts \in Seq(Expr), NEW sep \in Word, NEW parens \in BOOLEAN
  PROVE  emitJoined(parts, sep, parens) \in Seq(Item)
<1>1. parts \in Seq(Item) /\ Sym(sep) \in Item /\ Sym("(") \in Item /\ Sym(")") \in Item
  <2>1. Expr \subseteq Item
    BY DEF Item
  <2>2. parts \in Seq(Item)
    BY <2>1, SeqMonotonic
  <2>3. \A s \in Word : Sym(s) \in Item
    BY DEF Item, Text, Sym
  <2>4. "(" \in Word /\ ")" \in Word
    BY WordAssumption DEF Punctuation
  <2> QED BY <2>2, <2>3, <2>4
<1>2. Joined(parts, Sym(sep)) \in Seq(Item)
  BY <1>1, JoinedType
<1>3. <<Sym("(")>> \o Joined(parts, Sym(sep)) \o <<Sym(")")>> \in Seq(Item)
  BY <1>1, <1>2
<1> QED BY <1>2, <1>3 DEF emitJoined

\* Positions of a Raw text: the k-th ? has ordinal k, and ordinals count.
LEMMA OrdinalNat ==
  ASSUME NEW sql \in Seq(Word), NEW i
  PROVE  /\ IsFiniteSet(Marks(sql))
         /\ IsFiniteSet({j \in Marks(sql) : j <= i})
         /\ Ordinal(sql, i) \in Nat
         /\ Ordinal(sql, i) <= Cardinality(Marks(sql))
         /\ Cardinality(Marks(sql)) \in Nat
<1>1. IsFiniteSet(1 .. Len(sql))
  BY LenProperties, FS_Interval
<1>2. Marks(sql) \in SUBSET (1 .. Len(sql))
  BY LenProperties DEF Marks
<1>3. IsFiniteSet(Marks(sql))
  BY <1>1, <1>2, FS_Subset
<1>4. {j \in Marks(sql) : j <= i} \in SUBSET Marks(sql)
  OBVIOUS
<1> QED BY <1>3, <1>4, FS_Subset, FS_CardinalityType DEF Ordinal

\* The ordinal of a ? lies between 1 and the number of ?s.
LEMMA OrdinalPositive ==
  ASSUME NEW sql \in Seq(Word), NEW i \in Marks(sql)
  PROVE  Ordinal(sql, i) \in 1 .. Cardinality(Marks(sql))
<1> DEFINE S == {j \in Marks(sql) : j <= i}
<1>1. i \in S
  <2>1. i \in Int
    BY LenProperties DEF Marks
  <2> QED BY <2>1
<1>2. IsFiniteSet(S)
  BY OrdinalNat
<1>3. Cardinality(S) # 0
  BY <1>1, <1>2, FS_EmptySet
<1>4. Ordinal(sql, i) # 0
  BY <1>3 DEF Ordinal
<1>5. Ordinal(sql, i) \in Nat /\ Cardinality(Marks(sql)) \in Nat
      /\ Ordinal(sql, i) <= Cardinality(Marks(sql))
  BY OrdinalNat
<1> QED BY <1>4, <1>5

\* A later ? has a larger ordinal.
LEMMA OrdinalIncreases ==
  ASSUME NEW sql \in Seq(Word), NEW i \in Marks(sql), NEW j \in Marks(sql), i < j
  PROVE  Ordinal(sql, i) < Ordinal(sql, j)
<1> DEFINE S(k) == {l \in Marks(sql) : l <= k}
<1>1. Marks(sql) \subseteq Int
  BY LenProperties DEF Marks
<1>2. S(i) \in SUBSET S(j) /\ j \in S(j) /\ j \notin S(i)
  BY <1>1
<1>3. IsFiniteSet(S(j))
  BY OrdinalNat
<1>4. Cardinality(S(i)) <= Cardinality(S(j)) /\ Cardinality(S(i)) # Cardinality(S(j))
  BY <1>2, <1>3, FS_Subset
<1>5. Cardinality(S(i)) \in Nat /\ Cardinality(S(j)) \in Nat
  BY OrdinalNat DEF Ordinal
<1> QED BY <1>4, <1>5 DEF Ordinal

\* Every ordinal up to the number of ?s is taken by one of them: an injection
\* between finite sets of the same size is onto.
LEMMA OrdinalOnto ==
  ASSUME NEW sql \in Seq(Word), NEW k \in 1 .. Cardinality(Marks(sql))
  PROVE  \E i \in Marks(sql) : Ordinal(sql, i) = k
<1> DEFINE M == Marks(sql)
           T == 1 .. Cardinality(M)
           f == [i \in M |-> Ordinal(sql, i)]
<1>1. IsFiniteSet(M) /\ Cardinality(M) \in Nat
  BY OrdinalNat
<1>2. IsFiniteSet(T) /\ Cardinality(T) = Cardinality(M)
  BY <1>1, FS_Interval
<1>3. f \in [M -> T]
  BY OrdinalPositive
<1>4. M \subseteq Int
  BY LenProperties DEF Marks
<1>5. ASSUME NEW a \in M, NEW b \in M, f[a] = f[b]
      PROVE  a = b
  <2>1. Ordinal(sql, a) = Ordinal(sql, b) /\ Ordinal(sql, a) \in Nat
    BY <1>5, OrdinalNat
  <2>2. ~(a < b) /\ ~(b < a)
    BY <2>1, OrdinalIncreases
  <2> QED BY <2>2, <1>4
<1>6. f \in Injection(M, T)
  BY <1>3, <1>5 DEF Injection, IsInjective
<1>7. f \in Surjection(M, T)
  BY <1>2, <1>6, FS_Injection
<1> QED BY <1>7 DEF Surjection

\* Text written by a Raw is a sequence of tokens.
LEMMA ReplaceQsType ==
  ASSUME NEW sql \in Seq(Word), NEW vs \in Seq(Bound), NEW start \in Int
  PROVE  replaceQs(sql, start, vs) \in Seq(Token)
<1>1. Len(sql) \in Nat /\ DOMAIN sql = 1 .. Len(sql) /\ \A i \in 1 .. Len(sql) : sql[i] \in Word
  BY LenProperties, ElementOfSeq
<1>2. \A i \in 1 .. Len(sql) : Sym(sql[i]) \in Token
  BY <1>1 DEF Sym, Token, Text
<1>3. \A k \in Int, v \in Bound \cup {NoValue} : Placeholder(k, v) \in Token
  BY DEF Placeholder, Token
<1>4. \A k \in DOMAIN vs : vs[k] \in Bound
  BY LenProperties, ElementOfSeq
<1>5. ASSUME NEW i \in 1 .. Len(sql)
      PROVE  Ordinal(sql, i) \in Int
  <2>1. Ordinal(sql, i) \in Nat
    BY OrdinalNat, Zenon
  <2> QED BY <2>1
<1>6. replaceQs(sql, start, vs) \in [1 .. Len(sql) -> Token]
  <2>1. ASSUME NEW i \in 1 .. Len(sql)
        PROVE  (IF Ordinal(sql, i) \in DOMAIN vs THEN vs[Ordinal(sql, i)] ELSE NoValue) \in Bound \cup {NoValue}
    BY <1>4
  <2> QED BY <2>1, <1>1, <1>2, <1>3, <1>5 DEF replaceQs
<1> QED BY <1>1, <1>6, SeqDef

-----------------------------------------------------------------------------
(* Writing *)

\* A token of a concatenation is one of the first or of the second part.
LEMMA ConcatSplit ==
  ASSUME NEW s \in Seq(Token), NEW t \in Seq(Token), NEW i \in DOMAIN (s \o t)
  PROVE  \/ i \in DOMAIN s /\ (s \o t)[i] = s[i]
         \/ i - Len(s) \in DOMAIN t /\ (s \o t)[i] = t[i - Len(s)]
OBVIOUS

\* The placeholders of a concatenation continue those of its first part.
LEMMA ConsecutiveConcat ==
  ASSUME NEW s \in Seq(Token), NEW t \in Seq(Token),
         NEW a \in Int, NEW b \in Int, NEW c \in Int, a <= b, b <= c,
         Consecutive(s, a, b), Consecutive(t, b, c)
  PROVE  Consecutive(s \o t, a, c)
<1> DEFINE u == s \o t
<1>1. /\ DOMAIN s = 1 .. Len(s) /\ Len(s) \in Nat
      /\ DOMAIN t = 1 .. Len(t) /\ Len(t) \in Nat
      /\ DOMAIN u = 1 .. (Len(s) + Len(t))
      /\ \A i \in DOMAIN s : i \in DOMAIN u /\ u[i] = s[i]
      /\ \A i \in DOMAIN t : i + Len(s) \in DOMAIN u /\ u[i + Len(s)] = t[i]
      /\ \A i \in DOMAIN u : i > Len(s) => i - Len(s) \in DOMAIN t /\ u[i] = t[i - Len(s)]
  OBVIOUS
<1> HIDE DEF u
<1>2. ASSUME NEW i \in DOMAIN u, IsPlaceholder(u[i])
      PROVE  u[i].n \in (a + 1) .. c
  <2>1. CASE i <= Len(s)
    <3>1. i \in DOMAIN s /\ u[i] = s[i]
      BY <1>1, <2>1
    <3>2. u[i].n \in (a + 1) .. b
      BY <3>1, <1>2 DEF Consecutive
    <3> QED BY <3>2
  <2>2. CASE i > Len(s)
    <3>1. u[i].n \in (b + 1) .. c
      BY <1>1, <1>2, <2>2 DEF Consecutive
    <3> QED BY <3>1
  <2> QED BY <2>1, <2>2, <1>1
<1>3. ASSUME NEW i \in DOMAIN u, NEW j \in DOMAIN u, i < j,
             IsPlaceholder(u[i]), IsPlaceholder(u[j])
      PROVE  u[i].n < u[j].n
  <2>1. CASE j <= Len(s)
    <3>1. i \in DOMAIN s /\ j \in DOMAIN s
      BY <1>1, <1>3, <2>1
    <3>2. u[i] = s[i] /\ u[j] = s[j]
      BY <3>1, <1>1
    <3> QED BY <3>1, <3>2, <1>3 DEF Consecutive
  <2>2. CASE i <= Len(s) /\ j > Len(s)
    <3>1. /\ i \in DOMAIN s /\ u[i] = s[i]
          /\ j - Len(s) \in DOMAIN t /\ u[j] = t[j - Len(s)]
      BY <1>1, <2>2
    <3>2. u[i].n \in (a + 1) .. b
      BY <3>1, <1>3 DEF Consecutive
    <3>3. u[j].n \in (b + 1) .. c
      BY <3>1, <1>3 DEF Consecutive
    <3>4. \A x \in (a + 1) .. b, y \in (b + 1) .. c : x < y
      OBVIOUS
    <3> QED BY <3>2, <3>3, <3>4
  <2>3. CASE i > Len(s)
    <3>1. /\ i - Len(s) \in DOMAIN t /\ u[i] = t[i - Len(s)]
          /\ j - Len(s) \in DOMAIN t /\ u[j] = t[j - Len(s)]
          /\ i - Len(s) < j - Len(s)
      BY <1>1, <1>3, <2>3
    <3> QED BY <3>1, <1>3 DEF Consecutive
  <2> QED BY <2>1, <2>2, <2>3, <1>1
<1>4. ASSUME NEW k \in (a + 1) .. c
      PROVE  \E i \in DOMAIN u : IsPlaceholder(u[i]) /\ u[i].n = k
  <2>1. CASE k <= b
    <3>1. k \in (a + 1) .. b
      BY <2>1
    <3>2. PICK i \in DOMAIN s : IsPlaceholder(s[i]) /\ s[i].n = k
      BY <3>1 DEF Consecutive
    <3> QED BY <3>2, <1>1
  <2>2. CASE k > b
    <3>1. k \in (b + 1) .. c
      BY <2>2
    <3>2. PICK i \in DOMAIN t : IsPlaceholder(t[i]) /\ t[i].n = k
      BY <3>1 DEF Consecutive
    <3> QED BY <3>2, <1>1
  <2> QED BY <2>1, <2>2
<1> QED BY <1>2, <1>3, <1>4 DEF Consecutive, u

\* Text without placeholders leaves the numbering where it is.
LEMMA PlainText ==
  ASSUME NEW t \in Seq(Token), NEW a \in Int, \A i \in DOMAIN t : ~IsPlaceholder(t[i])
  PROVE  Consecutive(t, a, a)
BY DEF Consecutive

\* A balanced Raw started at a + 1 takes the next numbers, in order.
LEMMA RawConsecutive ==
  ASSUME NEW sql \in Seq(Word), NEW vs \in Seq(Bound), NEW a \in Int,
         Cardinality(Marks(sql)) = Len(vs)
  PROVE  Consecutive(replaceQs(sql, a + 1, vs), a, a + Len(vs))
<1> DEFINE t == replaceQs(sql, a + 1, vs)
<1>1. DOMAIN t = DOMAIN sql /\ DOMAIN sql = 1 .. Len(sql) /\ Len(sql) \in Nat
  BY LenProperties DEF replaceQs
<1>2. ASSUME NEW i \in DOMAIN t
      PROVE  /\ IsPlaceholder(t[i]) <=> i \in Marks(sql)
             /\ i \in Marks(sql) => t[i].n = a + Ordinal(sql, i)
  <2>1. i \in DOMAIN sql
    BY <1>1
  <2>2. CASE sql[i] = "?"
    <3>1. Ordinal(sql, i) \in Nat
      BY OrdinalNat
    <3>2. IsPlaceholder(t[i]) /\ t[i].n = a + 1 + Ordinal(sql, i) - 1
      BY <2>1, <2>2 DEF replaceQs, Placeholder, IsPlaceholder
    <3> QED BY <3>1, <3>2, <2>1, <2>2 DEF Marks
  <2>3. CASE sql[i] # "?"
    <3>1. t[i] = Sym(sql[i])
      BY <2>1, <2>3 DEF replaceQs
    <3> QED BY <3>1, <2>3 DEF Marks, Sym, IsPlaceholder
  <2> QED BY <2>2, <2>3
<1>3. ASSUME NEW i \in DOMAIN t, IsPlaceholder(t[i])
      PROVE  t[i].n \in (a + 1) .. (a + Len(vs))
  <2>1. Ordinal(sql, i) \in 1 .. Len(vs)
    BY <1>2, <1>3, OrdinalPositive
  <2>2. Len(vs) \in Nat
    BY LenProperties
  <2> QED BY <2>1, <2>2, <1>2, <1>3
<1>4. ASSUME NEW i \in DOMAIN t, NEW j \in DOMAIN t, i < j,
             IsPlaceholder(t[i]), IsPlaceholder(t[j])
      PROVE  t[i].n < t[j].n
  <2>1. Ordinal(sql, i) < Ordinal(sql, j)
    BY <1>2, <1>4, OrdinalIncreases
  <2>2. Ordinal(sql, i) \in Nat /\ Ordinal(sql, j) \in Nat
    BY OrdinalNat
  <2> QED BY <2>1, <2>2, <1>2, <1>4
<1>5. ASSUME NEW k \in (a + 1) .. (a + Len(vs))
      PROVE  \E i \in DOMAIN t : IsPlaceholder(t[i]) /\ t[i].n = k
  <2>1. Len(vs) \in Nat
    BY LenProperties
  <2>2. k - a \in 1 .. Cardinality(Marks(sql)) /\ a + (k - a) = k
    BY <2>1
  <2>3. PICK i \in Marks(sql) : Ordinal(sql, i) = k - a
    BY <2>2, OrdinalOnto
  <2>4. i \in DOMAIN t
    BY <1>1 DEF Marks
  <2> QED BY <2>2, <2>3, <2>4, <1>2
<1> QED BY <1>3, <1>4, <1>5 DEF Consecutive

-----------------------------------------------------------------------------
(* Type correctness *)

\* A word makes an item and a token, and is no placeholder.
LEMMA WordItem ==
  ASSUME NEW w \in Word
  PROVE  Sym(w) \in Text /\ Sym(w) \in Item /\ Sym(w) \in Token /\ ~IsPlaceholder(Sym(w))
BY DEF Sym, Text, Item, Token, IsPlaceholder

\* The emitter's own words, as items and as tokens.
LEMMA PunctuationItem ==
  /\ Sym("(") \in Item /\ Sym(")") \in Item /\ Sym(",") \in Item
  /\ Sym("NOT") \in Item /\ Sym("::") \in Item /\ Sym("=>") \in Item
  /\ Sym("NULL") \in Token /\ ~IsPlaceholder(Sym("NULL"))
  /\ Sym("::") \in Token /\ ~IsPlaceholder(Sym("::"))
  /\ "AND" \in Word /\ "OR" \in Word
<1>1. \A w \in Punctuation : w \in Word
  BY WordAssumption
<1>2. /\ "(" \in Word /\ ")" \in Word /\ "," \in Word /\ "AND" \in Word /\ "OR" \in Word
      /\ "NOT" \in Word /\ "NULL" \in Word /\ "::" \in Word /\ "=>" \in Word
  BY <1>1 DEF Punctuation
<1> QED BY <1>2, WordItem

\* Short literal sequences of items are sequences of items.
LEMMA Tuples ==
  ASSUME NEW S, NEW a \in S, NEW b \in S, NEW c \in S, NEW d \in S
  PROVE  <<a>> \in Seq(S) /\ <<a, b>> \in Seq(S) /\ <<a, b, c>> \in Seq(S) /\ <<a, b, c, d>> \in Seq(S)
OBVIOUS

\* A concatenation is a sequence over the same set.
LEMMA ConcatType ==
  ASSUME NEW S, NEW s \in Seq(S), NEW t \in Seq(S)
  PROVE  s \o t \in Seq(S)
OBVIOUS

\* A step of the emitter reads the head of todo and nothing below it: what the
\* steps need and keep is said of the head and of what is written, so that it
\* also holds where something else than a tree waits below.
Written == sb \in Seq(Token) /\ args \in Seq(Bound) /\ n \in Nat
Replaced == todo' = Tail(todo) \/ \E items \in Seq(Item) : todo' = items \o Tail(todo)

\* What stands at the head of todo decides which disjunct of ExprShape it has.
LEMMA HeadShape ==
  ASSUME Head(todo) \in Item, Head(todo).kind \notin {"sym", "Named"}
  PROVE  Head(todo) \in Expr /\ ExprShape(Head(todo))
<1>1. Head(todo) \in Expr
  BY DEF Item, NamedArg, Text
<1> QED BY <1>1, ExprAssumption

\* A cast suffix is text without a placeholder.
LEMMA CastSuffixType ==
  ASSUME NEW c
  PROVE  /\ CastSuffix(c) \in Seq(Token)
         /\ \A i \in DOMAIN CastSuffix(c) : ~IsPlaceholder(CastSuffix(c)[i])
<1>1. CASE c
  <2>1. CastSuffix(c) = <<Sym("::")>>
    BY <1>1 DEF CastSuffix
  <2>2. <<Sym("::")>> \in Seq(Token)
    BY PunctuationItem, Tuples
  <2>3. \A i \in DOMAIN <<Sym("::")>> : <<Sym("::")>>[i] = Sym("::")
    OBVIOUS
  <2> QED BY <2>1, <2>2, <2>3, PunctuationItem
<1>2. CASE ~c
  BY <1>2 DEF CastSuffix
<1> QED BY <1>1, <1>2

\* The items a node pushes are items.
LEMMA PushType ==
  ASSUME Written, NEW items \in Seq(Item), Push(items)
  PROVE  Written' /\ Replaced
BY DEF Push, Written, Replaced

\* Writing tokens keeps the type of sb.
LEMMA WriteType ==
  ASSUME Written, NEW tokens \in Seq(Token), Write(tokens)
  PROVE  Replaced /\ sb' \in Seq(Token)
BY DEF Write, Written, Replaced

\* One step: the head gives way to items, and what is written keeps its type.
LEMMA TypeStep ==
  ASSUME Head(todo) \in Item, Written, Next
  PROVE  Written' /\ Replaced
<1>1. CASE Str
  <2>1. Head(todo) \in Item /\ Head(todo).kind = "sym" /\ todo # <<>>
    BY <1>1 DEF Str, Now
  <2>2. Head(todo) \in Token
    <3>1. Head(todo) \notin Expr
      BY <2>1, ExprAssumption DEF ExprShape
    <3> QED BY <2>1, <3>1 DEF Item, NamedArg, Token
  <2>3. <<Head(todo)>> \in Seq(Token)
    BY <2>2, Tuples
  <2> QED BY <2>1, <2>3, <1>1, WriteType DEF Str, Written
<1>2. CASE EmitCol
  <2>1. todo # <<>> /\ Head(todo).kind = "Col"
    BY <1>2 DEF EmitCol, Now
  <2>2. Head(todo).name \in Word
    BY <2>1, HeadShape DEF ExprShape
  <2>3. <<Sym(Head(todo).name)>> \in Seq(Token)
    BY <2>2, WordItem, Tuples
  <2> QED BY <2>1, <2>3, <1>2, WriteType DEF EmitCol, Written
<1>3. CASE ParamNull
  <2>1. todo # <<>>
    BY <1>3 DEF ParamNull, Now
  <2>2. <<Sym("NULL")>> \o CastSuffix(Head(todo).cast) \in Seq(Token)
    <3>1. <<Sym("NULL")>> \in Seq(Token)
      BY PunctuationItem, Tuples
    <3> QED BY <3>1, CastSuffixType, ConcatType
  <2> QED BY <2>1, <2>2, <1>3, WriteType DEF ParamNull, Written
<1>4. CASE Param
  <2>1. todo # <<>> /\ Head(todo).kind = "Lit"
    BY <1>4 DEF Param, Now
  <2>2. Head(todo).v \in Bound
    BY <2>1, HeadShape DEF ExprShape
  <2>3. n' \in Nat /\ args' \in Seq(Bound)
    BY <2>2, <1>4 DEF Param, Written
  <2>4. <<Placeholder(n', Head(todo).v)>> \o CastSuffix(Head(todo).cast) \in Seq(Token)
    <3>1. Placeholder(n', Head(todo).v) \in Token
      BY <2>2, <2>3 DEF Placeholder, Token
    <3>2. <<Placeholder(n', Head(todo).v)>> \in Seq(Token)
      BY <3>1, Tuples
    <3> QED BY <3>2, CastSuffixType, ConcatType
  <2> QED BY <2>1, <2>3, <2>4, <1>4, WriteType DEF Param, Written
<1>5. CASE EmitBin
  <2> DEFINE e == Head(todo)
  <2>1. todo # <<>> /\ e.kind = "Bin"
    BY <1>5 DEF EmitBin, Now
  <2>2. e.op \in Word /\ e.l \in Item /\ e.r \in Item
    BY <2>1, HeadShape DEF ExprShape, Item
  <2>3. <<e.l, Sym(e.op), e.r>> \in Seq(Item)
    BY <2>2, WordItem, Tuples
  <2> QED BY <2>1, <2>3, <1>5, PushType DEF EmitBin
<1>6. CASE EmitCall
  <2> DEFINE e == Head(todo)
  <2>1. todo # <<>> /\ e.kind = "Call"
    BY <1>6 DEF EmitCall, Now
  <2>2. e.fn \in Word /\ e.args \in Seq(Expr) /\ e.named \in Seq(NamedArg)
    BY <2>1, HeadShape DEF ExprShape
  <2>3. e.args \in Seq(Item) /\ e.named \in Seq(Item)
    <3>1. Expr \subseteq Item /\ NamedArg \subseteq Item
      BY DEF Item
    <3> QED BY <2>2, <3>1, SeqMonotonic
  <2>4. Joined(e.args \o e.named, Sym(",")) \in Seq(Item)
    <3>1. e.args \o e.named \in Seq(Item)
      BY <2>3, ConcatType
    <3> QED BY <3>1, PunctuationItem, JoinedType
  <2>5. <<Sym(e.fn), Sym("(")>> \in Seq(Item) /\ <<Sym(")")>> \in Seq(Item)
    BY <2>2, WordItem, PunctuationItem, Tuples
  <2> DEFINE items == <<Sym(e.fn), Sym("(")>> \o Joined(e.args \o e.named, Sym(",")) \o <<Sym(")")>>
  <2>6. items \in Seq(Item)
    BY <2>4, <2>5, ConcatType
  <2>7. Push(items)
    BY <1>6 DEF EmitCall
  <2> HIDE DEF items
  <2> QED BY <2>1, <2>6, <2>7, PushType
<1>7. CASE EmitNamed
  <2>1. todo # <<>> /\ Head(todo).kind = "Named"
    BY <1>7 DEF EmitNamed, Now
  <2>2. Head(todo) \in Item /\ Head(todo) \notin Expr
    BY <2>1, ExprAssumption DEF ExprShape
  <2>3. Head(todo).val \in Item
    BY <2>1, <2>2 DEF Item, NamedArg, Text
  <2>4. <<Sym("=>"), Head(todo).val>> \in Seq(Item)
    BY <2>3, PunctuationItem, Tuples
  <2> QED BY <2>1, <2>4, <1>7, PushType DEF EmitNamed
<1>8. CASE EmitCast
  <2>1. todo # <<>> /\ Head(todo).kind = "Cast"
    BY <1>8 DEF EmitCast, Now
  <2>2. Head(todo).e \in Item
    BY <2>1, HeadShape DEF ExprShape, Item
  <2>3. <<Head(todo).e, Sym("::")>> \in Seq(Item)
    BY <2>2, PunctuationItem, Tuples
  <2> QED BY <2>1, <2>3, <1>8, PushType DEF EmitCast
<1>9. CASE EmitAnd
  <2>1. todo # <<>> /\ Head(todo).kind = "And"
    BY <1>9 DEF EmitAnd, Now
  <2>2. Head(todo).parts \in Seq(Expr)
    BY <2>1, HeadShape DEF ExprShape
  <2>3. emitJoined(Head(todo).parts, "AND", TRUE) \in Seq(Item)
    BY <2>2, PunctuationItem, EmitJoinedType
  <2> QED BY <2>1, <2>3, <1>9, PushType DEF EmitAnd
<1>10. CASE EmitOr
  <2>1. todo # <<>> /\ Head(todo).kind = "Or"
    BY <1>10 DEF EmitOr, Now
  <2>2. Head(todo).parts \in Seq(Expr)
    BY <2>1, HeadShape DEF ExprShape
  <2>3. emitJoined(Head(todo).parts, "OR", TRUE) \in Seq(Item)
    BY <2>2, PunctuationItem, EmitJoinedType
  <2> QED BY <2>1, <2>3, <1>10, PushType DEF EmitOr
<1>11. CASE EmitNot
  <2> DEFINE e == Head(todo).e
  <2>1. todo # <<>> /\ Head(todo).kind = "Not"
    BY <1>11 DEF EmitNot, Now
  <2>2. e \in Item
    BY <2>1, HeadShape DEF ExprShape, Item
  <2>3. <<Sym("NOT"), Sym("("), e, Sym(")")>> \in Seq(Item) /\ <<Sym("NOT"), e>> \in Seq(Item)
    BY <2>2, PunctuationItem, Tuples
  <2> QED BY <2>1, <2>3, <1>11, PushType DEF EmitNot
<1>12. CASE EmitRaw
  <2> DEFINE r == Head(todo)
  <2>1. todo # <<>> /\ r.kind = "Raw"
    BY <1>12 DEF EmitRaw, Now
  <2>2. r.sql \in Seq(Word) /\ r.args \in Seq(Bound)
    BY <2>1, HeadShape DEF ExprShape
  <2>3. n' \in Nat /\ args' \in Seq(Bound)
    BY <2>2, <1>12, LenProperties DEF EmitRaw, Written
  <2>4. replaceQs(r.sql, n + 1, r.args) \in Seq(Token)
    <3>1. n + 1 \in Int
      BY DEF Written
    <3> QED BY <2>2, <3>1, ReplaceQsType
  <2> QED BY <2>1, <2>3, <2>4, <1>12, WriteType DEF EmitRaw, Written
<1> QED BY <1>1, <1>2, <1>3, <1>4, <1>5, <1>6, <1>7, <1>8, <1>9, <1>10, <1>11, <1>12 DEF Next

\* A node is emitted only when there is one.
LEMMA NextReads == Next => todo # <<>>
BY DEF Next, Now, Str, EmitCol, ParamNull, Param, EmitBin, EmitCall, EmitNamed, EmitCast, EmitAnd,
       EmitOr, EmitNot, EmitRaw

\* What a typed state gives to one step.
LEMMA TypedHead ==
  ASSUME TypeOK, Next
  PROVE  Head(todo) \in Item /\ Written
<1>1. todo # <<>>
  BY NextReads
<1>2. todo \in Seq(Item) /\ Written
  BY DEF TypeOK, Written
<1> QED BY <1>1, <1>2, HeadTailProperties

\* The types hold in every reachable state, for every set of trees.
THEOREM TypeCorrect == Spec => []TypeOK
<1>1. Init => TypeOK
  <2> SUFFICES ASSUME Init PROVE TypeOK
    OBVIOUS
  <2>1. PICK e \in Expr : todo = <<e>>
    BY DEF Init
  <2>2. e \in Item
    BY DEF Item
  <2> QED BY <2>1, <2>2 DEF Init, TypeOK
<1>2. TypeOK /\ [Next]_vars => TypeOK'
  <2> SUFFICES ASSUME TypeOK, [Next]_vars PROVE TypeOK'
    OBVIOUS
  <2>1. CASE Next
    <3>1. todo \in Seq(Item) /\ todo # <<>>
      BY <2>1, NextReads DEF TypeOK
    <3>2. Tail(todo) \in Seq(Item)
      BY <3>1, HeadTailProperties
    <3>3. Written' /\ Replaced
      BY <2>1, TypedHead, TypeStep
    <3>4. todo' \in Seq(Item)
      BY <3>2, <3>3, ConcatType DEF Replaced
    <3> QED BY <3>3, <3>4 DEF TypeOK, Written
  <2>2. CASE UNCHANGED vars
    BY <2>2 DEF vars, TypeOK
  <2> QED BY <2>1, <2>2
<1> QED BY <1>1, <1>2, PTL DEF Spec

-----------------------------------------------------------------------------
(* Numbering and binding *)

\* Emission writes at one end only: it suffices to look at what is written.
LEMMA NumberingWrite ==
  ASSUME Written, Numbering, NEW t \in Seq(Token), sb' = sb \o t,
         n' \in Nat, n <= n', n' = Len(args'), Consecutive(t, n, n')
  PROVE  Numbering'
<1>1. Consecutive(sb \o t, 0, n')
  BY ConsecutiveConcat DEF Written, Numbering
<1> QED BY <1>1 DEF Numbering, Consecutive

\* Writing words only.
LEMMA NumberingWords ==
  ASSUME Written, Numbering, NEW t \in Seq(Token), sb' = sb \o t,
         \A i \in DOMAIN t : ~IsPlaceholder(t[i]), UNCHANGED <<args, n>>
  PROVE  Numbering'
<1>1. Consecutive(t, n, n)
  BY PlainText DEF Written
<1> QED BY <1>1, NumberingWrite DEF Written, Numbering

\* Pushing items writes nothing, so the numbering stays.
LEMMA NumberingPush ==
  ASSUME Numbering, NEW items, Push(items)
  PROVE  Numbering'
BY DEF Numbering, Consecutive, Push

\* A word in front of a cast suffix: no placeholder.
LEMMA NullText ==
  ASSUME NEW c
  PROVE  LET t == <<Sym("NULL")>> \o CastSuffix(c) IN
         t \in Seq(Token) /\ \A i \in DOMAIN t : ~IsPlaceholder(t[i])
<1> DEFINE s == <<Sym("NULL")>>
<1>1. s \in Seq(Token) /\ CastSuffix(c) \in Seq(Token)
  BY PunctuationItem, Tuples, CastSuffixType
<1>2. \A i \in DOMAIN s : ~IsPlaceholder(s[i])
  <2>1. \A i \in DOMAIN s : s[i] = Sym("NULL")
    OBVIOUS
  <2> QED BY <2>1, PunctuationItem
<1>3. \A i \in DOMAIN CastSuffix(c) : ~IsPlaceholder(CastSuffix(c)[i])
  BY CastSuffixType
<1> HIDE DEF s
<1> QED BY <1>1, <1>2, <1>3, ConcatSplit, ConcatType DEF s

\* One placeholder, numbered a + 1, and a cast suffix.
LEMMA ParamText ==
  ASSUME NEW a \in Nat, NEW v \in Bound, NEW c
  PROVE  LET t == <<Placeholder(a + 1, v)>> \o CastSuffix(c) IN
         t \in Seq(Token) /\ Consecutive(t, a, a + 1)
<1> DEFINE s == <<Placeholder(a + 1, v)>>
<1>1. Placeholder(a + 1, v) \in Token
  BY DEF Placeholder, Token
<1>2. s \in Seq(Token)
  BY <1>1, Tuples
<1>3. Consecutive(s, a, a + 1)
  <2>1. DOMAIN s = 1 .. 1 /\ s[1] = Placeholder(a + 1, v)
    OBVIOUS
  <2>2. \A i \in DOMAIN s : IsPlaceholder(s[i]) /\ s[i].n = a + 1
    BY <2>1 DEF Placeholder, IsPlaceholder
  <2>3. 1 \in DOMAIN s /\ \A i, j \in DOMAIN s : ~(i < j)
    BY <2>1
  <2>4. \A k \in (a + 1) .. (a + 1) : k = a + 1
    OBVIOUS
  <2> HIDE DEF s
  <2> QED BY <2>2, <2>3, <2>4 DEF Consecutive
<1>4. CastSuffix(c) \in Seq(Token) /\ Consecutive(CastSuffix(c), a + 1, a + 1)
  BY CastSuffixType, PlainText
<1> HIDE DEF s
<1>5. s \o CastSuffix(c) \in Seq(Token)
  BY <1>2, <1>4, ConcatType
<1>6. a \in Int /\ a + 1 \in Int /\ a <= a + 1 /\ a + 1 <= a + 1
  OBVIOUS
<1>7. Consecutive(s \o CastSuffix(c), a, a + 1)
  BY <1>2, <1>3, <1>4, <1>6, ConsecutiveConcat
<1> QED BY <1>5, <1>7 DEF s

\* One step keeps it.
LEMMA NumberingStep ==
  ASSUME Head(todo) \in Item, Written, Numbering, RawBalanced, Next
  PROVE  Numbering'
<1>1. CASE Str
  <2>1. Head(todo) \in Item /\ Head(todo).kind = "sym" /\ todo # <<>>
    BY <1>1 DEF Str, Now
  <2>2. Head(todo) \in Token /\ ~IsPlaceholder(Head(todo))
    <3>1. Head(todo) \notin Expr
      BY <2>1, ExprAssumption DEF ExprShape
    <3> QED BY <2>1, <3>1 DEF Item, NamedArg, Token, IsPlaceholder
  <2>3. <<Head(todo)>> \in Seq(Token) /\ \A i \in DOMAIN <<Head(todo)>> : ~IsPlaceholder(<<Head(todo)>>[i])
    BY <2>2, Tuples
  <2> QED BY <2>3, <1>1, NumberingWords DEF Str, Write
<1>2. CASE EmitCol
  <2>1. todo # <<>> /\ Head(todo).kind = "Col"
    BY <1>2 DEF EmitCol, Now
  <2>2. Head(todo).name \in Word
    BY <2>1, HeadShape DEF ExprShape
  <2> DEFINE w == Sym(Head(todo).name)
  <2>3. w \in Token /\ ~IsPlaceholder(w)
    BY <2>2, WordItem
  <2> HIDE DEF w
  <2>4. <<w>> \in Seq(Token) /\ \A i \in DOMAIN <<w>> : ~IsPlaceholder(<<w>>[i])
    BY <2>3, Tuples
  <2> QED BY <2>4, <1>2, NumberingWords DEF EmitCol, Write, w
<1>3. CASE ParamNull
  BY <1>3, NullText, NumberingWords DEF ParamNull, Write
<1>4. CASE Param
  <2>1. todo # <<>> /\ Head(todo).kind = "Lit"
    BY <1>4 DEF Param, Now
  <2>2. Head(todo).v \in Bound
    BY <2>1, HeadShape DEF ExprShape
  <2> DEFINE t == <<Placeholder(n + 1, Head(todo).v)>> \o CastSuffix(Head(todo).cast)
  <2>3. t \in Seq(Token) /\ Consecutive(t, n, n + 1)
    BY <2>2, ParamText DEF Written
  <2>4. sb' = sb \o t /\ n' = n + 1 /\ args' = Append(args, Head(todo).v)
    BY <1>4 DEF Param, Write
  <2>5. n' \in Nat /\ n <= n' /\ n' = Len(args')
    BY <2>2, <2>4 DEF Written, Numbering
  <2> HIDE DEF t
  <2> QED BY <2>3, <2>4, <2>5, NumberingWrite
<1>5. CASE EmitRaw
  <2> DEFINE r == Head(todo)
             t == replaceQs(r.sql, n + 1, r.args)
  <2>1. todo # <<>> /\ r.kind = "Raw"
    BY <1>5 DEF EmitRaw, Now
  <2>2. r \in Expr /\ r.sql \in Seq(Word) /\ r.args \in Seq(Bound)
    BY <2>1, HeadShape DEF ExprShape
  <2>3. Cardinality(Marks(r.sql)) = Len(r.args)
    BY <2>1, <2>2 DEF RawBalanced
  <2>4. n \in Int /\ n + 1 \in Int /\ Len(r.args) \in Nat
    BY <2>2, LenProperties DEF Written
  <2>5. t \in Seq(Token) /\ Consecutive(t, n, n + Len(r.args))
    BY <2>2, <2>3, <2>4, ReplaceQsType, RawConsecutive
  <2>6. sb' = sb \o t /\ n' = n + Len(r.args) /\ args' = args \o r.args
    BY <1>5 DEF EmitRaw, Write
  <2>7. n' \in Nat /\ n <= n' /\ n' = Len(args')
    <3>1. Len(args \o r.args) = Len(args) + Len(r.args)
      BY <2>2, ConcatProperties DEF Written
    <3> QED BY <2>4, <2>6, <3>1 DEF Written, Numbering
  <2> HIDE DEF t
  <2> QED BY <2>5, <2>6, <2>7, NumberingWrite
<1>6. CASE EmitBin \/ EmitCall \/ EmitNamed \/ EmitCast \/ EmitAnd \/ EmitOr \/ EmitNot
  BY <1>6, NumberingPush DEF EmitBin, EmitCall, EmitNamed, EmitCast, EmitAnd, EmitOr, EmitNot
<1> QED BY <1>1, <1>2, <1>3, <1>4, <1>5, <1>6 DEF Next

\* The numbering is gapless, ordered and free of sharing in every reachable
\* state, for every set of trees whose Raws are balanced.
THEOREM NumberingInvariant == RawBalanced => (Spec => []Numbering)
<1> SUFFICES ASSUME RawBalanced PROVE Spec => []Numbering
  OBVIOUS
<1>1. Init => Numbering
  BY DEF Init, Numbering, Consecutive
<1>2. TypeOK /\ Numbering /\ [Next]_vars => Numbering'
  <2> SUFFICES ASSUME TypeOK, Numbering, [Next]_vars PROVE Numbering'
    OBVIOUS
  <2>1. CASE Next
    BY <2>1, TypedHead, NumberingStep
  <2>2. CASE UNCHANGED vars
    BY <2>2 DEF vars, Numbering, Consecutive
  <2> QED BY <2>1, <2>2
<1> QED BY <1>1, <1>2, TypeCorrect, PTL DEF Spec

\* Bound arguments are never changed, so what is written stays resolved.
LEMMA BindingWrite ==
  ASSUME Written, Binding, NEW t \in Seq(Token), NEW vs \in Seq(Bound),
         sb' = sb \o t, args' = args \o vs, n' = n + Len(vs), Resolves(t, args')
  PROVE  Binding'
<1>1. /\ DOMAIN sb = 1 .. Len(sb) /\ Len(sb) \in Nat
      /\ DOMAIN args = 1 .. Len(args) /\ Len(args) \in Nat /\ Len(vs) \in Nat
      /\ DOMAIN args' = 1 .. (Len(args) + Len(vs)) /\ Len(args') = Len(args) + Len(vs)
      /\ \A i \in DOMAIN args : i \in DOMAIN args' /\ args'[i] = args[i]
      /\ \A i \in DOMAIN sb' : (i \in DOMAIN sb /\ sb'[i] = sb[i])
                              \/ (i - Len(sb) \in DOMAIN t /\ sb'[i] = t[i - Len(sb)])
  BY DEF Written
<1>2. n' = Len(args')
  BY <1>1 DEF Binding
<1>3. ASSUME NEW i \in DOMAIN sb', IsPlaceholder(sb'[i]), sb'[i].v # NoValue
      PROVE  sb'[i].n \in DOMAIN args' /\ args'[sb'[i].n] = sb'[i].v
  <2>1. CASE i \in DOMAIN sb /\ sb'[i] = sb[i]
    <3>1. sb[i].n \in DOMAIN args /\ args[sb[i].n] = sb[i].v
      BY <1>3, <2>1 DEF Binding, Resolves
    <3> QED BY <3>1, <2>1, <1>1
  <2>2. CASE i - Len(sb) \in DOMAIN t /\ sb'[i] = t[i - Len(sb)]
    BY <1>3, <2>2 DEF Resolves
  <2> QED BY <2>1, <2>2, <1>1
<1> QED BY <1>2, <1>3 DEF Binding, Resolves

\* Writing words only leaves every placeholder resolved.
LEMMA BindingWords ==
  ASSUME Binding, Written, NEW t \in Seq(Token), sb' = sb \o t,
         \A i \in DOMAIN t : ~IsPlaceholder(t[i]), UNCHANGED <<args, n>>
  PROVE  Binding'
<1>1. <<>> \in Seq(Bound) /\ Len(<<>>) = 0 /\ args' = args \o <<>>
  BY DEF Written
<1>2. Resolves(t, args')
  BY DEF Resolves
<1>3. n' = n + Len(<<>>)
  BY <1>1 DEF Written
<1> QED BY <1>1, <1>2, <1>3, BindingWrite

\* Pushing items writes nothing, so the binding stays.
LEMMA BindingPush ==
  ASSUME Binding, NEW items, Push(items)
  PROVE  Binding'
BY DEF Binding, Resolves, Push

\* The ordinals of a Raw's ?s pick its arguments, shifted by those before it.
LEMMA RawResolves ==
  ASSUME NEW sql \in Seq(Word), NEW ws \in Seq(Bound), NEW vs \in Seq(Bound)
  PROVE  Resolves(replaceQs(sql, Len(ws) + 1, vs), ws \o vs)
<1> DEFINE t == replaceQs(sql, Len(ws) + 1, vs)
<1>1. Len(ws) \in Nat /\ Len(vs) \in Nat /\ DOMAIN vs = 1 .. Len(vs)
      /\ DOMAIN (ws \o vs) = 1 .. (Len(ws) + Len(vs))
      /\ \A k \in 1 .. Len(vs) : (ws \o vs)[Len(ws) + k] = vs[k]
  OBVIOUS
<1>2. DOMAIN t = DOMAIN sql
  BY DEF replaceQs
<1>3. ASSUME NEW i \in DOMAIN t, IsPlaceholder(t[i]), t[i].v # NoValue
      PROVE  t[i].n \in DOMAIN (ws \o vs) /\ (ws \o vs)[t[i].n] = t[i].v
  <2> DEFINE k == Ordinal(sql, i)
  <2>1. sql[i] = "?"
    BY <1>2, <1>3 DEF replaceQs, Sym, IsPlaceholder
  <2>2. t[i] = Placeholder(Len(ws) + 1 + k - 1, IF k \in DOMAIN vs THEN vs[k] ELSE NoValue)
    BY <1>2, <2>1 DEF replaceQs
  <2>3. k \in Nat
    BY OrdinalNat
  <2> HIDE DEF k, t
  <2>4. t[i].n = Len(ws) + k /\ t[i].v = IF k \in DOMAIN vs THEN vs[k] ELSE NoValue
    BY <1>1, <2>2, <2>3 DEF Placeholder
  <2>5. k \in DOMAIN vs /\ t[i].v = vs[k]
    BY <1>3, <2>4
  <2> QED BY <1>1, <2>4, <2>5
<1> QED BY <1>3 DEF Resolves

\* A literal's placeholder refers to the argument appended with it.
LEMMA ParamResolves ==
  ASSUME NEW ws \in Seq(Bound), NEW v \in Bound, NEW c
  PROVE  Resolves(<<Placeholder(Len(ws) + 1, v)>> \o CastSuffix(c), ws \o <<v>>)
<1> DEFINE s == <<Placeholder(Len(ws) + 1, v)>>
           t == s \o CastSuffix(c)
<1>1. CastSuffix(c) \in Seq(Token) /\ \A i \in DOMAIN CastSuffix(c) : ~IsPlaceholder(CastSuffix(c)[i])
  BY CastSuffixType
<1>2. Len(ws) \in Nat /\ Len(ws) + 1 \in DOMAIN (ws \o <<v>>) /\ (ws \o <<v>>)[Len(ws) + 1] = v
  OBVIOUS
<1>3. Placeholder(Len(ws) + 1, v) \in Token
  BY <1>2 DEF Placeholder, Token
<1>4. s \in Seq(Token) /\ Len(s) = 1 /\ s[1] = Placeholder(Len(ws) + 1, v)
  BY <1>3, Tuples
<1> HIDE DEF s
<1>5. \A i \in DOMAIN t :
         t[i] = s[1] \/ (i - 1 \in DOMAIN CastSuffix(c) /\ t[i] = CastSuffix(c)[i - 1])
  <2>1. \A i \in DOMAIN s : s[i] = s[1]
    BY <1>4
  <2>2. Len(s) = 1
    BY <1>4
  <2> DEFINE u == CastSuffix(c)
  <2>3. t = s \o u /\ u \in Seq(Token)
    BY <1>1
  <2> HIDE DEF u, t
  <2>4. \A i \in DOMAIN t : (i \in DOMAIN s /\ t[i] = s[i])
                          \/ (i - Len(s) \in DOMAIN u /\ t[i] = u[i - Len(s)])
    BY <2>3, <1>4, ConcatSplit
  <2> QED BY <2>1, <2>2, <2>4 DEF u
<1>6. s[1].n = Len(ws) + 1 /\ s[1].v = v
  BY <1>4 DEF Placeholder
<1> HIDE DEF t
<1>7. Resolves(t, ws \o <<v>>)
  BY <1>1, <1>2, <1>5, <1>6 DEF Resolves
<1> QED BY <1>7 DEF t, s

\* One step keeps it.
LEMMA BindingStep ==
  ASSUME Head(todo) \in Item, Written, Binding, Next
  PROVE  Binding'
<1>1. CASE Str
  <2>1. Head(todo) \in Item /\ Head(todo).kind = "sym" /\ todo # <<>>
    BY <1>1 DEF Str, Now
  <2>2. Head(todo) \in Token /\ ~IsPlaceholder(Head(todo))
    <3>1. Head(todo) \notin Expr
      BY <2>1, ExprAssumption DEF ExprShape
    <3> QED BY <2>1, <3>1 DEF Item, NamedArg, Token, IsPlaceholder
  <2>3. <<Head(todo)>> \in Seq(Token) /\ \A i \in DOMAIN <<Head(todo)>> : ~IsPlaceholder(<<Head(todo)>>[i])
    BY <2>2, Tuples
  <2> QED BY <2>3, <1>1, BindingWords DEF Str, Write
<1>2. CASE EmitCol
  <2>1. todo # <<>> /\ Head(todo).kind = "Col"
    BY <1>2 DEF EmitCol, Now
  <2>2. Head(todo).name \in Word
    BY <2>1, HeadShape DEF ExprShape
  <2> DEFINE w == Sym(Head(todo).name)
  <2>3. w \in Token /\ ~IsPlaceholder(w)
    BY <2>2, WordItem
  <2> HIDE DEF w
  <2>4. <<w>> \in Seq(Token) /\ \A i \in DOMAIN <<w>> : ~IsPlaceholder(<<w>>[i])
    BY <2>3, Tuples
  <2> QED BY <2>4, <1>2, BindingWords DEF EmitCol, Write, w
<1>3. CASE ParamNull
  BY <1>3, NullText, BindingWords DEF ParamNull, Write
<1>4. CASE Param
  <2> DEFINE v == Head(todo).v
             t == <<Placeholder(n + 1, v)>> \o CastSuffix(Head(todo).cast)
  <2>1. todo # <<>> /\ Head(todo).kind = "Lit"
    BY <1>4 DEF Param, Now
  <2>2. v \in Bound
    BY <2>1, HeadShape DEF ExprShape
  <2>3. t \in Seq(Token)
    BY <2>2, ParamText DEF Written
  <2>4. sb' = sb \o t /\ n' = n + 1 /\ args' = args \o <<v>>
    BY <1>4, <2>2, AppendIsConcat DEF Param, Write, Written
  <2>5. <<v>> \in Seq(Bound) /\ Len(<<v>>) = 1
    BY <2>2
  <2>6. Resolves(t, args')
    BY <2>2, <2>4, ParamResolves DEF Binding, Written
  <2> HIDE DEF t, v
  <2> QED BY <2>3, <2>4, <2>5, <2>6, BindingWrite
<1>5. CASE EmitRaw
  <2> DEFINE r == Head(todo)
             t == replaceQs(r.sql, n + 1, r.args)
  <2>1. todo # <<>> /\ r.kind = "Raw"
    BY <1>5 DEF EmitRaw, Now
  <2>2. r.sql \in Seq(Word) /\ r.args \in Seq(Bound)
    BY <2>1, HeadShape DEF ExprShape
  <2>3. n + 1 \in Int
    BY DEF Written
  <2>4. t \in Seq(Token)
    BY <2>2, <2>3, ReplaceQsType
  <2>5. sb' = sb \o t /\ n' = n + Len(r.args) /\ args' = args \o r.args
    BY <1>5 DEF EmitRaw, Write
  <2>6. Resolves(t, args')
    BY <2>2, <2>5, RawResolves DEF Binding, Written
  <2> HIDE DEF t
  <2> QED BY <2>2, <2>4, <2>5, <2>6, BindingWrite
<1>6. CASE EmitBin \/ EmitCall \/ EmitNamed \/ EmitCast \/ EmitAnd \/ EmitOr \/ EmitNot
  BY <1>6, BindingPush DEF EmitBin, EmitCall, EmitNamed, EmitCast, EmitAnd, EmitOr, EmitNot
<1> QED BY <1>1, <1>2, <1>3, <1>4, <1>5, <1>6 DEF Next

\* Every placeholder in the text refers to the value it was written for, in
\* every reachable state and whatever the Raws look like.
THEOREM BindingInvariant == Spec => []Binding
<1>1. Init => Binding
  BY DEF Init, Binding, Resolves
<1>2. TypeOK /\ Binding /\ [Next]_vars => Binding'
  <2> SUFFICES ASSUME TypeOK, Binding, [Next]_vars PROVE Binding'
    OBVIOUS
  <2>1. CASE Next
    BY <2>1, TypedHead, BindingStep
  <2>2. CASE UNCHANGED vars
    BY <2>2 DEF vars, Binding, Resolves
  <2> QED BY <2>1, <2>2
<1> QED BY <1>1, <1>2, TypeCorrect, PTL DEF Spec

-----------------------------------------------------------------------------
(* Parentheses *)

\* What one token does to the level of a text.
Weight(x) == IF x = Sym("(") THEN 1 ELSE IF x = Sym(")") THEN -1 ELSE 0

\* The numbers up to k + 1 with a property: those up to k, and k + 1 if it has it.
Hits(ts, x, k) == {j \in 1 .. k : ts[j] = x}
LEMMA HitSteps ==
  ASSUME NEW ts, NEW x, NEW k \in Nat
  PROVE  /\ Cardinality(Hits(ts, x, k)) \in Nat
         /\ Cardinality(Hits(ts, x, k + 1)) = Cardinality(Hits(ts, x, k)) + (IF ts[k + 1] = x THEN 1 ELSE 0)
<1>1. IsFiniteSet(1 .. k) /\ Hits(ts, x, k) \in SUBSET (1 .. k)
  BY FS_Interval DEF Hits
<1>2. IsFiniteSet(Hits(ts, x, k)) /\ Cardinality(Hits(ts, x, k)) \in Nat
  BY <1>1, FS_Subset, FS_CardinalityType
<1>3. CASE ts[k + 1] = x
  <2>1. Hits(ts, x, k + 1) = Hits(ts, x, k) \cup {k + 1} /\ k + 1 \notin Hits(ts, x, k)
    BY <1>3 DEF Hits
  <2> QED BY <1>2, <1>3, <2>1, FS_AddElement
<1>4. CASE ts[k + 1] # x
  <2>1. Hits(ts, x, k + 1) = Hits(ts, x, k)
    BY <1>4 DEF Hits
  <2> QED BY <1>2, <1>4, <2>1
<1> QED BY <1>2, <1>3, <1>4

\* The level goes from position to position by what stands there.
LEMMA LevelSteps ==
  ASSUME NEW ts, NEW k \in Nat
  PROVE  /\ Level(ts, 0) = 0
         /\ Level(ts, k) \in Int
         /\ Level(ts, k + 1) = Level(ts, k) + Weight(ts[k + 1])
<1>1. \A x : Hits(ts, x, 0) = {}
  BY DEF Hits
<1>2. \A i : Level(ts, i) = Cardinality(Hits(ts, Sym("("), i)) - Cardinality(Hits(ts, Sym(")"), i))
  BY DEF Level, Hits
<1>3. Level(ts, 0) = 0
  BY <1>1, <1>2, FS_EmptySet
<1>4. Sym("(") # Sym(")")
  BY DEF Sym
<1> DEFINE o(i) == Cardinality(Hits(ts, Sym("("), i))
           c(i) == Cardinality(Hits(ts, Sym(")"), i))
<1>5. /\ o(k) \in Nat /\ c(k) \in Nat
      /\ o(k + 1) = o(k) + (IF ts[k + 1] = Sym("(") THEN 1 ELSE 0)
      /\ c(k + 1) = c(k) + (IF ts[k + 1] = Sym(")") THEN 1 ELSE 0)
  BY HitSteps
<1>6. Level(ts, k) = o(k) - c(k) /\ Level(ts, k + 1) = o(k + 1) - c(k + 1)
  BY <1>2
<1> HIDE DEF o, c
<1> QED BY <1>3, <1>4, <1>5, <1>6 DEF Weight

\* Texts that begin with the same parentheses are at the same level.
LEMMA LevelSame ==
  ASSUME NEW ts, NEW us, NEW k \in Nat, \A j \in 1 .. k : Weight(ts[j]) = Weight(us[j])
  PROVE  Level(ts, k) = Level(us, k)
<1>1. \A j \in 1 .. k : /\ ts[j] = Sym("(") <=> us[j] = Sym("(")
                        /\ ts[j] = Sym(")") <=> us[j] = Sym(")")
  <2>1. Sym("(") # Sym(")")
    BY DEF Sym
  <2> QED BY <2>1 DEF Weight
<1> QED BY <1>1 DEF Level

\* After a first part the level is that of the first part's end and of what
\* follows.
Continues(ts, m, us, k) == \A j \in 1 .. k : Weight(ts[m + j]) = Weight(us[j])
LEMMA LevelShift ==
  ASSUME NEW ts, NEW us, NEW m \in Nat, NEW k \in Nat, Continues(ts, m, us, k)
  PROVE  Level(ts, m + k) = Level(ts, m) + Level(us, k)
<1> DEFINE Good(i) == i <= k => Level(ts, m + i) = Level(ts, m) + Level(us, i)
           Known == {i \in Nat : Good(i)}
<1>1. 0 \in Known
  <2>1. Level(ts, m) \in Int /\ Level(us, 0) = 0 /\ m + 0 = m
    BY LevelSteps
  <2> QED BY <2>1
<1>2. ASSUME NEW i \in Nat, i \in Known
      PROVE  i + 1 \in Known
  <2> SUFFICES ASSUME i + 1 <= k
               PROVE  Level(ts, m + (i + 1)) = Level(ts, m) + Level(us, i + 1)
    OBVIOUS
  <2>1. m + (i + 1) = (m + i) + 1 /\ m + i \in Nat /\ i + 1 \in 1 .. k
    OBVIOUS
  <2>2. Weight(ts[m + (i + 1)]) = Weight(us[i + 1])
    BY <2>1 DEF Continues
  <2>3. /\ Level(ts, m + (i + 1)) = Level(ts, m + i) + Weight(ts[m + (i + 1)])
        /\ Level(us, i + 1) = Level(us, i) + Weight(us[i + 1])
        /\ Level(ts, m) \in Int /\ Level(us, i) \in Int
    BY <2>1, LevelSteps
  <2>4. Level(ts, m + i) = Level(ts, m) + Level(us, i)
    BY <1>2
  <2>5. \A x : Weight(x) \in Int
    BY DEF Weight
  <2> DEFINE a == Level(ts, m)
             b == Level(us, i)
             w == Weight(us[i + 1])
  <2>6. /\ Level(ts, m + (i + 1)) = (a + b) + w /\ Level(us, i + 1) = b + w
        /\ a \in Int /\ b \in Int /\ w \in Int
    BY <2>2, <2>3, <2>4, <2>5
  <2> HIDE DEF a, b, w
  <2>7. (a + b) + w = a + (b + w)
    BY <2>6
  <2> QED BY <2>6, <2>7 DEF a
<1>3. Nat \subseteq Known
  <2> HIDE DEF Known
  <2> QED BY <1>1, <1>2, Counting
<1> QED BY <1>3

\* Where the parts of a concatenation stand, and at which level: the second
\* part begins at the level at which the first one ends.
Joins(u, s, t) ==
  /\ Len(s) \in Nat /\ Len(t) \in Nat /\ DOMAIN s = 1 .. Len(s) /\ DOMAIN t = 1 .. Len(t)
  /\ Len(u) = Len(s) + Len(t) /\ DOMAIN u = 1 .. (Len(s) + Len(t))
  /\ \A i \in 1 .. Len(s) : u[i] = s[i]
  /\ \A i \in 1 .. Len(t) : u[Len(s) + i] = t[i]
  /\ \A i \in 0 .. Len(s) : Level(u, i) = Level(s, i)
  /\ \A i \in 0 .. Len(t) : Level(u, Len(s) + i) = Level(s, Len(s)) + Level(t, i)
  /\ \A i \in Nat : Level(u, i) \in Int /\ Level(s, i) \in Int /\ Level(t, i) \in Int
  /\ Level(s, 0) = 0 /\ Level(t, 0) = 0 /\ Level(u, 0) = 0
LEMMA ConcatJoins ==
  ASSUME NEW S, NEW s \in Seq(S), NEW t \in Seq(S)
  PROVE  s \o t \in Seq(S) /\ Joins(s \o t, s, t)
<1> DEFINE u == s \o t
<1>1. /\ u \in Seq(S) /\ Len(s) \in Nat /\ Len(t) \in Nat /\ DOMAIN s = 1 .. Len(s) /\ DOMAIN t = 1 .. Len(t)
      /\ Len(u) = Len(s) + Len(t) /\ DOMAIN u = 1 .. (Len(s) + Len(t))
      /\ \A i \in 1 .. Len(s) : u[i] = s[i]
      /\ \A i \in 1 .. Len(t) : u[Len(s) + i] = t[i]
  OBVIOUS
<1> HIDE DEF u
<1>2. ASSUME NEW i \in 0 .. Len(s)
      PROVE  Level(u, i) = Level(s, i)
  <2>1. i \in Nat /\ \A j \in 1 .. i : Weight(u[j]) = Weight(s[j])
    BY <1>1
  <2> QED BY <2>1, LevelSame
<1>3. \A ts : \A i \in Nat : Level(ts, i) \in Int /\ Level(ts, 0) = 0
  BY LevelSteps
<1>4. ASSUME NEW i \in 0 .. Len(t)
      PROVE  Level(u, Len(s) + i) = Level(s, Len(s)) + Level(t, i)
  <2>1. i \in Nat /\ Continues(u, Len(s), t, i)
    BY <1>1 DEF Continues
  <2>2. Level(u, Len(s) + i) = Level(u, Len(s)) + Level(t, i)
    BY <2>1, <1>1, LevelShift
  <2> QED BY <2>2, <1>1, <1>2
<1>5. Joins(u, s, t)
  BY <1>1, <1>2, <1>3, <1>4 DEF Joins
<1> QED BY <1>1, <1>5 DEF u

\* A text whose parentheses are all closed.
Closed(ts) == /\ \A i \in DOMAIN ts : Level(ts, i) >= 0
              /\ Level(ts, Len(ts)) = 0

\* The element at A + 1 of the text M, which is no parenthesis, gives way to a
\* closed text R: what stands around it keeps its level, and R begins at the
\* level of the element.
FillsAt(M, N, h, R, A, T) ==
  /\ DOMAIN M = 1 .. (A + 1 + T) /\ DOMAIN N = 1 .. (A + Len(R) + T)
  /\ Len(M) = A + 1 + T /\ Len(N) = A + Len(R) + T
  /\ DOMAIN R = 1 .. Len(R) /\ Len(R) \in Nat
  /\ M[A + 1] = h /\ Level(M, A + 1) = Level(M, A)
  /\ \A i \in 1 .. A : N[i] = M[i]
  /\ \A i \in 1 .. Len(R) : N[A + i] = R[i]
  /\ \A i \in 1 .. T : N[A + Len(R) + i] = M[A + 1 + i]
  /\ \A i \in 0 .. A : Level(N, i) = Level(M, i)
  /\ \A i \in 0 .. Len(R) : Level(N, A + i) = Level(M, A) + Level(R, i)
  /\ \A i \in 0 .. T : Level(N, A + Len(R) + i) = Level(M, A + 1 + i)
  /\ \A i \in Nat : Level(M, i) \in Int /\ Level(R, i) \in Int
  /\ Level(M, 0) = 0 /\ Level(R, Len(R)) = 0
Fills(M, N, h, R) == \E A, T \in Nat : FillsAt(M, N, h, R, A, T)

LEMMA FillPlaces ==
  ASSUME NEW S, NEW a \in Seq(S), NEW h \in S, NEW t \in Seq(S), NEW R \in Seq(S),
         Weight(h) = 0, Level(R, Len(R)) = 0
  PROVE  Fills((a \o <<h>>) \o t, (a \o R) \o t, h, R)
<1> DEFINE H == <<h>>
           b == a \o H
           c == a \o R
           M == b \o t
           N == c \o t
<1>1. H \in Seq(S) /\ Len(H) = 1 /\ H[1] = h
  OBVIOUS
<1> HIDE DEF H
<1>2. b \in Seq(S) /\ c \in Seq(S) /\ Joins(b, a, H) /\ Joins(c, a, R)
  BY <1>1, ConcatJoins
<1> HIDE DEF b, c
<1>3. Joins(M, b, t) /\ Joins(N, c, t)
  BY <1>2, ConcatJoins
<1> HIDE DEF M, N
<1>4. Level(H, 1) = 0
  <2>1. Level(H, 0 + 1) = Level(H, 0) + Weight(H[0 + 1]) /\ Level(H, 0) = 0
    BY LevelSteps
  <2> QED BY <2>1, <1>1
<1> DEFINE A == Len(a)
           r == Len(R)
           T == Len(t)
<1>5. /\ A \in Nat /\ r \in Nat /\ T \in Nat /\ DOMAIN R = 1 .. r
      /\ Len(b) = A + 1 /\ Len(c) = A + r
      /\ Len(M) = A + 1 + T /\ DOMAIN M = 1 .. (A + 1 + T)
      /\ Len(N) = A + r + T /\ DOMAIN N = 1 .. (A + r + T)
  BY <1>1, <1>2, <1>3 DEF Joins
<1>6. /\ \A i \in 1 .. A : b[i] = a[i]
      /\ \A i \in 0 .. A : Level(b, i) = Level(a, i)
      /\ b[A + 1] = H[1]
      /\ Level(b, A + 1) = Level(a, A) + Level(H, 1)
      /\ \A i \in Nat : Level(a, i) \in Int
  <2>1. 1 \in 1 .. Len(H) /\ 1 \in 0 .. Len(H)
    BY <1>1
  <2> QED BY <1>2, <2>1 DEF Joins
<1>7. /\ \A i \in 1 .. A : c[i] = a[i]
      /\ \A i \in 1 .. r : c[A + i] = R[i]
      /\ \A i \in 0 .. A : Level(c, i) = Level(a, i)
      /\ \A i \in 0 .. r : Level(c, A + i) = Level(a, A) + Level(R, i)
      /\ \A i \in Nat : Level(R, i) \in Int
  BY <1>2 DEF Joins
<1>8. /\ \A i \in 1 .. (A + 1) : M[i] = b[i]
      /\ \A i \in 1 .. T : M[A + 1 + i] = t[i]
      /\ \A i \in 0 .. (A + 1) : Level(M, i) = Level(b, i)
      /\ \A i \in 0 .. T : Level(M, A + 1 + i) = Level(b, A + 1) + Level(t, i)
      /\ \A i \in Nat : Level(M, i) \in Int
      /\ Level(M, 0) = 0
  BY <1>3, <1>5 DEF Joins
<1>9. /\ \A i \in 1 .. (A + r) : N[i] = c[i]
      /\ \A i \in 1 .. T : N[A + r + i] = t[i]
      /\ \A i \in 0 .. (A + r) : Level(N, i) = Level(c, i)
      /\ \A i \in 0 .. T : Level(N, A + r + i) = Level(c, A + r) + Level(t, i)
  BY <1>3, <1>5 DEF Joins
<1>10. Level(R, r) = 0
  OBVIOUS
<1> HIDE DEF A, r, T
<1>11. Level(a, A) \in Int /\ Level(b, A + 1) = Level(a, A) /\ Level(c, A + r) = Level(a, A)
  <2>1. A \in Nat /\ r \in 0 .. r
    BY <1>5
  <2>2. Level(a, A) \in Int /\ Level(b, A + 1) = Level(a, A) + 0
    BY <1>4, <1>6, <2>1
  <2>3. Level(c, A + r) = Level(a, A) + 0
    BY <1>7, <1>10, <2>1
  <2> QED BY <2>2, <2>3
<1>12. /\ \A i \in 1 .. A : N[i] = M[i]
       /\ \A i \in 0 .. A : Level(N, i) = Level(M, i)
       /\ M[A + 1] = h /\ Level(M, A) = Level(a, A) /\ Level(M, A + 1) = Level(M, A)
  <2>1. \A i \in 1 .. A : i \in 1 .. (A + 1) /\ i \in 1 .. (A + r)
    BY <1>5
  <2>2. \A i \in 0 .. A : i \in 0 .. (A + 1) /\ i \in 0 .. (A + r)
    BY <1>5
  <2>3. A + 1 \in 1 .. (A + 1) /\ A + 1 \in 0 .. (A + 1) /\ A \in 0 .. A
    BY <1>5
  <2>4. \A i \in 1 .. A : N[i] = M[i]
    BY <2>1, <1>6, <1>7, <1>8, <1>9
  <2>5. \A i \in 0 .. A : Level(N, i) = Level(M, i)
    BY <2>2, <1>6, <1>7, <1>8, <1>9
  <2> QED BY <2>2, <2>3, <2>4, <2>5, <1>1, <1>6, <1>8, <1>11
<1>13. /\ \A i \in 1 .. r : N[A + i] = R[i]
       /\ \A i \in 0 .. r : Level(N, A + i) = Level(M, A) + Level(R, i)
  <2>1. /\ \A i \in 1 .. r : A + i \in 1 .. (A + r)
        /\ \A i \in 0 .. r : A + i \in 0 .. (A + r)
    BY <1>5
  <2> QED BY <2>1, <1>7, <1>9, <1>12
<1>14. /\ \A i \in 1 .. T : N[A + r + i] = M[A + 1 + i]
       /\ \A i \in 0 .. T : Level(N, A + r + i) = Level(M, A + 1 + i)
  BY <1>8, <1>9, <1>11
<1>15. FillsAt(M, N, h, R, A, T)
  BY <1>5, <1>7, <1>8, <1>10, <1>12, <1>13, <1>14 DEF FillsAt, r
<1>16. Fills(M, N, h, R)
  BY <1>5, <1>15 DEF Fills
<1> QED BY <1>16 DEF M, N, b, c, H

LEMMA ClosedFill ==
  ASSUME NEW M, NEW N, NEW h, NEW R, Fills(M, N, h, R), Closed(M), Closed(R)
  PROVE  Closed(N)
<1>1. PICK A \in Nat, T \in Nat : FillsAt(M, N, h, R, A, T)
  BY DEF Fills
<1> DEFINE r == Len(R)
<1>2. r \in Nat /\ DOMAIN N = 1 .. (A + r + T) /\ Len(N) = A + r + T /\ Len(M) = A + 1 + T
      /\ DOMAIN M = 1 .. (A + 1 + T) /\ DOMAIN R = 1 .. r
  BY <1>1 DEF FillsAt
<1> HIDE DEF r
<1>3. ASSUME NEW i \in DOMAIN N
      PROVE  Level(N, i) >= 0
  <2>1. CASE i <= A
    <3>1. i \in 0 .. A /\ i \in DOMAIN M
      BY <2>1, <1>2
    <3>2. Level(N, i) = Level(M, i)
      BY <3>1, <1>1 DEF FillsAt
    <3> QED BY <3>1, <3>2 DEF Closed
  <2>2. CASE i > A /\ i <= A + r
    <3> DEFINE x == i - A
    <3>1. x \in 0 .. r /\ x \in DOMAIN R /\ A + x = i /\ A \in Nat /\ x \in Nat
      BY <2>2, <1>2
    <3> HIDE DEF x
    <3>2. Level(N, A + x) = Level(M, A) + Level(R, x) /\ Level(M, A) \in Int /\ Level(R, x) \in Int
      BY <3>1, <1>1 DEF FillsAt, r
    <3>3. Level(R, x) >= 0
      BY <3>1 DEF Closed
    <3>4. Level(M, A) >= 0
      <4>1. A = 0 \/ A \in DOMAIN M
        BY <1>2
      <4>2. Level(M, 0) = 0
        BY <1>1 DEF FillsAt
      <4> QED BY <4>1, <4>2 DEF Closed
    <3> QED BY <3>1, <3>2, <3>3, <3>4
  <2>3. CASE i > A + r
    <3> DEFINE x == i - (A + r)
    <3>1. x \in 0 .. T /\ A + r + x = i /\ A + 1 + x \in DOMAIN M
      BY <2>3, <1>2
    <3> HIDE DEF x
    <3>2. Level(N, A + r + x) = Level(M, A + 1 + x)
      BY <3>1, <1>1 DEF FillsAt, r
    <3>3. Level(M, A + 1 + x) >= 0
      BY <3>1 DEF Closed
    <3> QED BY <3>1, <3>2, <3>3
  <2> QED BY <2>1, <2>2, <2>3, <1>2
<1>4. Level(N, Len(N)) = 0
  <2>1. T \in 0 .. T
    OBVIOUS
  <2>2. Level(N, A + r + T) = Level(M, A + 1 + T)
    BY <2>1, <1>1 DEF FillsAt, r
  <2> QED BY <2>2, <1>2 DEF Closed
<1> QED BY <1>3, <1>4 DEF Closed

\* No word of W stands outside the parentheses of a text.
Outer(ts, W) == \A i \in DOMAIN ts : Level(ts, i) = 0 => \A w \in W : ts[i] # Sym(w)
\* An element that stands in parentheses of its own.
Guarded(ts, x) ==
  \A i \in DOMAIN ts : ts[i] = x =>
    i - 1 \in DOMAIN ts /\ i + 1 \in DOMAIN ts /\ ts[i - 1] = Sym("(") /\ ts[i + 1] = Sym(")")

\* What stands on both sides of a guarded element, before and after it gives
\* way: the parentheses, and below them the level goes down.
Between(M, N, R, A, T) ==
  /\ A >= 1 /\ T >= 1
  /\ N[A] = Sym("(") /\ N[A + Len(R) + 1] = Sym(")")
  /\ Level(N, A - 1) = Level(M, A) - 1
  /\ Level(N, A + Len(R) + 1) = Level(M, A) - 1
  /\ Level(M, A + 1 + 1) = Level(M, A) - 1
LEMMA GuardedFill ==
  ASSUME NEW M, NEW N, NEW h, NEW R, NEW A \in Nat, NEW T \in Nat, FillsAt(M, N, h, R, A, T), Guarded(M, h)
  PROVE  Between(M, N, R, A, T)
<1>1. DOMAIN M = 1 .. (A + 1 + T) /\ M[A + 1] = h /\ Len(R) \in Nat /\ Level(M, A + 1) = Level(M, A)
  BY DEF FillsAt
<1>2. A + 1 \in DOMAIN M
  BY <1>1
<1>3. (A + 1) - 1 \in DOMAIN M /\ (A + 1) + 1 \in DOMAIN M /\ M[(A + 1) - 1] = Sym("(") /\ M[(A + 1) + 1] = Sym(")")
  BY <1>1, <1>2 DEF Guarded
<1>4. A >= 1 /\ T >= 1 /\ (A + 1) - 1 = A /\ A - 1 \in Nat /\ A - 1 \in 0 .. A /\ A \in 1 .. A
      /\ 1 \in 1 .. T /\ 1 \in 0 .. T /\ A \in 0 .. A /\ (A - 1) + 1 = A /\ A + 1 \in Nat
  BY <1>1, <1>3
<1>5. /\ N[A] = M[A] /\ N[A + Len(R) + 1] = M[A + 1 + 1]
      /\ Level(N, A - 1) = Level(M, A - 1) /\ Level(N, A + Len(R) + 1) = Level(M, A + 1 + 1)
  BY <1>4 DEF FillsAt
<1>6. Level(M, (A - 1) + 1) = Level(M, A - 1) + Weight(M[(A - 1) + 1]) /\ Level(M, A - 1) \in Int
  BY <1>4, LevelSteps
<1>7. Level(M, (A + 1) + 1) = Level(M, A + 1) + Weight(M[(A + 1) + 1]) /\ Level(M, A + 1) \in Int
  BY <1>4, LevelSteps
<1>8. Weight(Sym("(")) = 1 /\ Weight(Sym(")")) = -1
  BY DEF Weight, Sym
<1>9. Level(M, A) = Level(M, A - 1) + 1 /\ Level(M, A + 1 + 1) = Level(M, A) + -1 /\ Level(M, A) \in Int
  BY <1>1, <1>3, <1>4, <1>6, <1>7, <1>8
<1> DEFINE x == Level(M, A - 1)
           y == Level(M, A)
<1>10. y = x + 1 /\ Level(M, A + 1 + 1) = y + -1 /\ x \in Int /\ y \in Int
  BY <1>6, <1>9
<1> HIDE DEF x, y
<1>11. x = y - 1 /\ Level(M, A + 1 + 1) = y - 1
  BY <1>10
<1> QED BY <1>3, <1>4, <1>5, <1>11 DEF x, y, Between

\* A place in the new text and one outside of it are in no group, unless they
\* hold no connective.
LEMMA GroupsApart ==
  ASSUME NEW M, NEW N, NEW h, NEW R, NEW A \in Nat, NEW T \in Nat, FillsAt(M, N, h, R, A, T), Closed(R),
         Outer(R, {"AND", "OR"}) \/ Guarded(M, h),
         NEW p \in DOMAIN N, NEW q \in DOMAIN N,
         p > A, p <= A + Len(R), q <= A \/ q > A + Len(R),
         N[p] \in {Sym("AND"), Sym("OR")}, N[q] \in {Sym("AND"), Sym("OR")}
  PROVE  ~OneGroup(N, p, q)
<1> SUFFICES ASSUME OneGroup(N, p, q) PROVE FALSE
  OBVIOUS
<1> DEFINE r == Len(R)
           x == p - A
           base == Level(M, A)
<1>1. /\ DOMAIN N = 1 .. (A + r + T) /\ DOMAIN R = 1 .. r /\ r \in Nat
      /\ base \in Int /\ Level(M, 0) = 0 /\ Level(R, r) = 0
  BY DEF FillsAt
<1>2. x \in 1 .. r /\ x \in 0 .. r /\ A + x = p /\ x \in Nat /\ p \in Nat /\ q \in Nat
  BY <1>1
<1> HIDE DEF r, x
<1>3. N[p] = R[x] /\ Level(N, p) = base + Level(R, x) /\ Level(R, x) \in Int
  BY <1>2 DEF FillsAt, r
<1>4. Level(R, x) >= 0
  BY <1>1, <1>2 DEF Closed
<1>5. \A k \in (p .. q) \cup (q .. p) : Level(N, k) >= Level(N, p)
  BY DEF OneGroup
<1>6. Level(N, A) = base /\ Level(N, A + r) = base
  <2>1. A \in 0 .. A /\ r \in 0 .. r
    BY <1>1
  <2>2. Level(N, A) = Level(M, A) /\ Level(N, A + r) = Level(M, A) + Level(R, r)
    BY <2>1 DEF FillsAt, r
  <2> QED BY <2>2, <1>1
<1>7. CASE Outer(R, {"AND", "OR"})
  <2>1. Level(R, x) # 0
    BY <1>1, <1>2, <1>3, <1>7 DEF Outer
  <2>2. A \in (p .. q) \cup (q .. p) \/ A + r \in (p .. q) \cup (q .. p)
    BY <1>1, <1>2 DEF r
  <2>3. base >= Level(N, p)
    BY <2>2, <1>5, <1>6
  <2> HIDE DEF base
  <2> QED BY <2>1, <2>3, <1>1, <1>3, <1>4
<1>8. CASE Guarded(M, h)
  <2>1. /\ A >= 1 /\ T >= 1 /\ N[A] = Sym("(") /\ N[A + r + 1] = Sym(")")
        /\ Level(N, A - 1) = base - 1 /\ Level(N, A + r + 1) = base - 1
    <3>1. Between(M, N, R, A, T)
      BY <1>8, GuardedFill
    <3> QED BY <3>1 DEF Between, r
  <2>2. q # A /\ q # A + r + 1
    <3>1. Sym("(") \notin {Sym("AND"), Sym("OR")} /\ Sym(")") \notin {Sym("AND"), Sym("OR")}
      BY DEF Sym
    <3> QED BY <2>1, <3>1
  <2>3. A - 1 \in (p .. q) \cup (q .. p) \/ A + r + 1 \in (p .. q) \cup (q .. p)
    BY <2>1, <2>2, <1>1, <1>2 DEF r
  <2>4. base - 1 >= Level(N, p)
    BY <2>1, <2>3, <1>5
  <2> HIDE DEF base
  <2> QED BY <2>4, <1>1, <1>3, <1>4
<1> QED BY <1>7, <1>8

\* Two places outside of the new text are in one group only if they were.
LEMMA GroupsOutside ==
  ASSUME NEW M, NEW N, NEW h, NEW R, NEW A \in Nat, NEW T \in Nat, FillsAt(M, N, h, R, A, T), Unmixed(M),
         NEW i \in DOMAIN N, NEW j \in DOMAIN N,
         i <= A \/ i > A + Len(R), j <= A \/ j > A + Len(R),
         N[i] = Sym("AND"), N[j] = Sym("OR")
  PROVE  ~OneGroup(N, i, j)
<1> SUFFICES ASSUME OneGroup(N, i, j) PROVE FALSE
  OBVIOUS
<1> DEFINE r == Len(R)
           g(k) == IF k <= A THEN k ELSE (k - r) + 1
           f(k) == IF k <= A THEN k ELSE IF k = A + 1 THEN A ELSE (k + r) - 1
<1>1. DOMAIN N = 1 .. (A + r + T) /\ DOMAIN M = 1 .. (A + 1 + T) /\ r \in Nat
  BY DEF FillsAt
<1> HIDE DEF r
<1>2. ASSUME NEW k \in DOMAIN N, k <= A \/ k > A + r
      PROVE  g(k) \in DOMAIN M /\ N[k] = M[g(k)] /\ Level(N, k) = Level(M, g(k))
  <2>1. CASE k <= A
    <3>1. k \in 1 .. A /\ k \in 0 .. A /\ k \in DOMAIN M
      BY <2>1, <1>1
    <3>2. N[k] = M[k] /\ Level(N, k) = Level(M, k)
      BY <3>1 DEF FillsAt
    <3> QED BY <2>1, <3>1, <3>2
  <2>2. CASE k > A + r
    <3> DEFINE y == k - (A + r)
    <3>1. k \in 1 .. (A + r + T) /\ r \in Nat
      BY <1>1
    <3>2. g(k) = (k - r) + 1
      BY <2>2, <3>1
    <3> HIDE DEF g
    <3>3. y \in 1 .. T /\ y \in 0 .. T /\ A + r + y = k /\ A + 1 + y = (k - r) + 1
      BY <2>2, <3>1
    <3> HIDE DEF y
    <3>4. A + 1 + y \in DOMAIN M
      BY <1>1, <3>3
    <3>5. N[A + r + y] = M[A + 1 + y] /\ Level(N, A + r + y) = Level(M, A + 1 + y)
      BY <3>3 DEF FillsAt, r
    <3> QED BY <3>2, <3>3, <3>4, <3>5
  <2> QED BY <1>2, <2>1, <2>2
<1>3. ASSUME NEW k \in 0 .. (A + 1 + T)
      PROVE  Level(M, k) = Level(N, f(k))
  <2>1. CASE k <= A
    <3>1. k \in 0 .. A /\ f(k) = k
      BY <2>1
    <3> HIDE DEF f
    <3> QED BY <3>1 DEF FillsAt
  <2>2. CASE k = A + 1
    <3>1. f(k) = A /\ A \in 0 .. A
      BY <2>2
    <3> HIDE DEF f
    <3>2. Level(M, k) = Level(M, A) /\ Level(N, A) = Level(M, A)
      BY <2>2, <3>1 DEF FillsAt
    <3> QED BY <3>1, <3>2
  <2>3. CASE k > A + 1
    <3> DEFINE y == k - (A + 1)
    <3>1. y \in 0 .. T /\ A + r + y = f(k) /\ A + 1 + y = k
      BY <2>3, <1>1
    <3> HIDE DEF y, f
    <3>2. Level(N, A + r + y) = Level(M, A + 1 + y)
      BY <3>1 DEF FillsAt, r
    <3> QED BY <3>1, <3>2
  <2> QED BY <2>1, <2>2, <2>3
<1>4. /\ g(i) \in DOMAIN M /\ g(j) \in DOMAIN M /\ M[g(i)] = Sym("AND") /\ M[g(j)] = Sym("OR")
      /\ Level(N, i) = Level(M, g(i)) /\ Level(N, j) = Level(M, g(j))
  BY <1>2 DEF r
<1>5. ASSUME NEW k \in (g(i) .. g(j)) \cup (g(j) .. g(i))
      PROVE  k \in 0 .. (A + 1 + T) /\ f(k) \in (i .. j) \cup (j .. i)
  <2>1. i \in 1 .. (A + r + T) /\ j \in 1 .. (A + r + T) /\ (i <= A \/ i > A + r) /\ (j <= A \/ j > A + r)
    BY <1>1 DEF r
  <2>2. k \in Int /\ k >= 1 /\ k <= A + 1 + T
    BY <2>1, <1>1
  <2>3. CASE i <= A /\ j <= A
    BY <2>1, <2>2, <2>3, <1>1
  <2>4. CASE i > A + r /\ j > A + r
    BY <2>1, <2>2, <2>4, <1>1
  <2>5. CASE i <= A /\ j > A + r
    BY <2>1, <2>2, <2>5, <1>1
  <2>6. CASE i > A + r /\ j <= A
    BY <2>1, <2>2, <2>6, <1>1
  <2> QED BY <2>1, <2>3, <2>4, <2>5, <2>6
<1> HIDE DEF g, f
<1>6. OneGroup(M, g(i), g(j))
  <2>1. Level(M, g(i)) = Level(M, g(j))
    BY <1>4 DEF OneGroup
  <2>2. \A k \in (g(i) .. g(j)) \cup (g(j) .. g(i)) : Level(M, k) >= Level(M, g(i))
    BY <1>3, <1>4, <1>5 DEF OneGroup
  <2> QED BY <2>1, <2>2 DEF OneGroup
<1> QED BY <1>4, <1>6 DEF Unmixed

\* No AND and OR come together when a text that keeps them apart, with its own
\* in parentheses, is filled in, or when it is filled in between parentheses.
LEMMA UnmixedFill ==
  ASSUME NEW M, NEW N, NEW h, NEW R, Fills(M, N, h, R), Unmixed(M), Unmixed(R), Closed(R),
         Outer(R, {"AND", "OR"}) \/ Guarded(M, h)
  PROVE  Unmixed(N)
<1>1. PICK A \in Nat, T \in Nat : FillsAt(M, N, h, R, A, T)
  BY DEF Fills
<1> SUFFICES ASSUME NEW i \in DOMAIN N, NEW j \in DOMAIN N, N[i] = Sym("AND"), N[j] = Sym("OR")
             PROVE  ~OneGroup(N, i, j)
  BY DEF Unmixed
<1> DEFINE r == Len(R)
           Mid(k) == k > A /\ k <= A + r
<1>2. DOMAIN N = 1 .. (A + r + T) /\ DOMAIN R = 1 .. r /\ r \in Nat
  BY <1>1 DEF FillsAt
<1> HIDE DEF r
<1>3. \A k \in DOMAIN N : Mid(k) \/ k <= A \/ k > A + r
  BY <1>2
<1>4. CASE Mid(i) /\ Mid(j)
  <2> SUFFICES ASSUME OneGroup(N, i, j) PROVE FALSE
    OBVIOUS
  <2> DEFINE x == i - A
             y == j - A
  <2>1. x \in 1 .. r /\ y \in 1 .. r /\ A + x = i /\ A + y = j /\ x \in 0 .. r /\ y \in 0 .. r /\ x \in Nat /\ y \in Nat
    BY <1>2, <1>4
  <2>2. R[x] = Sym("AND") /\ R[y] = Sym("OR")
    <3> HIDE DEF x, y
    <3>1. N[A + x] = R[x] /\ N[A + y] = R[y]
      BY <2>1, <1>1 DEF FillsAt, r
    <3> QED BY <2>1, <3>1
  <2>3. \A k \in (x .. y) \cup (y .. x) : k \in 0 .. r /\ A + k \in (i .. j) \cup (j .. i) /\ k \in Nat
    BY <2>1, <1>2
  <2> HIDE DEF x, y
  <2>4. \A k \in 0 .. r : Level(N, A + k) = Level(M, A) + Level(R, k) /\ Level(R, k) \in Int
    <3>1. \A k \in 0 .. r : k \in Nat
      BY <1>2
    <3> QED BY <3>1, <1>1 DEF FillsAt, r
  <2>5. Level(M, A) \in Int
    BY <1>1 DEF FillsAt
  <2>6. Level(N, A + x) = Level(N, A + y) /\ \A k \in (x .. y) \cup (y .. x) : Level(N, A + k) >= Level(N, A + x)
    BY <2>1, <2>3 DEF OneGroup
  <2>7. Level(R, x) = Level(R, y)
    BY <2>1, <2>4, <2>5, <2>6
  <2>8. ASSUME NEW k \in (x .. y) \cup (y .. x)
        PROVE  Level(R, k) >= Level(R, x)
    <3>1. k \in 0 .. r
      BY <2>3
    <3>2. Level(M, A) + Level(R, k) >= Level(M, A) + Level(R, x) /\ Level(R, k) \in Int /\ Level(R, x) \in Int
      BY <2>1, <2>4, <2>6, <3>1
    <3> QED BY <3>2, <2>5
  <2>9. OneGroup(R, x, y)
    BY <2>7, <2>8 DEF OneGroup
  <2> QED BY <2>1, <2>2, <2>9, <1>2 DEF Unmixed
<1>5. CASE Mid(i) /\ ~Mid(j)
  BY <1>1, <1>3, <1>5, GroupsApart DEF r
<1>6. CASE ~Mid(i) /\ Mid(j)
  <2>1. ~OneGroup(N, j, i)
    BY <1>1, <1>3, <1>6, GroupsApart DEF r
  <2> QED BY <2>1 DEF OneGroup
<1>7. CASE ~Mid(i) /\ ~Mid(j)
  BY <1>1, <1>3, <1>7, GroupsOutside DEF r
<1> QED BY <1>4, <1>5, <1>6, <1>7

\* A text that can stand in another one: its parentheses are closed, and the
\* words W stand only inside of them.
Sealed(ts, W) == Closed(ts) /\ Outer(ts, W)

\* Elements that are no parenthesis and no word of W, in any order.
LEMMA SealedFlat ==
  ASSUME NEW E, NEW W, \A x \in E : Weight(x) = 0 /\ \A w \in W : x # Sym(w),
         NEW s \in Seq(E)
  PROVE  Sealed(s, W)
<1> DEFINE Known == {i \in Nat : i <= Len(s) => Level(s, i) = 0}
<1>1. Len(s) \in Nat /\ DOMAIN s = 1 .. Len(s) /\ \A i \in 1 .. Len(s) : s[i] \in E
  OBVIOUS
<1>2. 0 \in Known
  BY LevelSteps
<1>3. ASSUME NEW i \in Nat, i \in Known
      PROVE  i + 1 \in Known
  <2> SUFFICES ASSUME i + 1 <= Len(s) PROVE Level(s, i + 1) = 0
    OBVIOUS
  <2>1. Level(s, i + 1) = Level(s, i) + Weight(s[i + 1])
    BY LevelSteps
  <2>2. Weight(s[i + 1]) = 0 /\ Level(s, i) = 0
    BY <1>1, <1>3
  <2> QED BY <2>1, <2>2
<1>4. Nat \subseteq Known
  <2> HIDE DEF Known
  <2> QED BY <1>2, <1>3, Counting
<1>5. \A i \in 0 .. Len(s) : Level(s, i) = 0
  BY <1>4
<1>6. Closed(s)
  BY <1>1, <1>5 DEF Closed
<1>7. Outer(s, W)
  BY <1>1 DEF Outer
<1> QED BY <1>6, <1>7 DEF Sealed

\* One text after the other.
LEMMA SealedConcat ==
  ASSUME NEW S, NEW s \in Seq(S), NEW t \in Seq(S), NEW W, Sealed(s, W), Sealed(t, W)
  PROVE  s \o t \in Seq(S) /\ Sealed(s \o t, W)
<1> DEFINE u == s \o t
           p == Len(s)
           q == Len(t)
<1>1. u \in Seq(S) /\ Joins(u, s, t)
  BY ConcatJoins
<1> HIDE DEF u
<1>2. Closed(s) /\ Closed(t) /\ Outer(s, W) /\ Outer(t, W)
  BY DEF Sealed
<1>3. /\ p \in Nat /\ q \in Nat /\ DOMAIN s = 1 .. p /\ DOMAIN t = 1 .. q /\ DOMAIN u = 1 .. (p + q) /\ Len(u) = p + q
      /\ \A i \in 1 .. p : u[i] = s[i] /\ Level(u, i) = Level(s, i)
      /\ \A i \in 1 .. q : u[p + i] = t[i] /\ Level(u, p + i) = Level(s, p) + Level(t, i)
      /\ \A i \in Nat : Level(t, i) \in Int
      /\ Level(u, p + q) = Level(s, p) + Level(t, q)
  <2>1. /\ p \in Nat /\ q \in Nat /\ DOMAIN s = 1 .. p /\ DOMAIN t = 1 .. q /\ DOMAIN u = 1 .. (p + q) /\ Len(u) = p + q
        /\ \A i \in 1 .. p : u[i] = s[i]
        /\ \A i \in 0 .. p : Level(u, i) = Level(s, i)
        /\ \A i \in 1 .. q : u[p + i] = t[i]
        /\ \A i \in 0 .. q : Level(u, p + i) = Level(s, p) + Level(t, i)
        /\ \A i \in Nat : Level(t, i) \in Int
    BY <1>1 DEF Joins
  <2> HIDE DEF p, q
  <2>2. q \in 0 .. q /\ (\A i \in 1 .. p : i \in 0 .. p) /\ (\A i \in 1 .. q : i \in 0 .. q)
    BY <2>1
  <2> QED BY <2>1, <2>2
<1> HIDE DEF p, q
<1>4. Level(s, p) = 0 /\ Level(t, q) = 0
  BY <1>2 DEF Closed, p, q
<1>5. ASSUME NEW i \in DOMAIN u
      PROVE  \/ i \in DOMAIN s /\ u[i] = s[i] /\ Level(u, i) = Level(s, i)
             \/ i - p \in DOMAIN t /\ u[i] = t[i - p] /\ Level(u, i) = Level(t, i - p)
  <2>1. CASE i <= p
    BY <2>1, <1>3
  <2>2. CASE i > p
    <3>1. i - p \in 1 .. q /\ p + (i - p) = i /\ i - p \in Nat
      BY <2>2, <1>3
    <3>2. u[p + (i - p)] = t[i - p] /\ Level(u, p + (i - p)) = 0 + Level(t, i - p) /\ Level(t, i - p) \in Int
      BY <3>1, <1>3, <1>4
    <3> QED BY <3>1, <3>2, <1>3
  <2> QED BY <2>1, <2>2, <1>3
<1>6. Closed(u)
  BY <1>2, <1>3, <1>4, <1>5 DEF Closed
<1>7. Outer(u, W)
  BY <1>2, <1>5 DEF Outer
<1> QED BY <1>1, <1>6, <1>7 DEF Sealed, u

\* Parentheses around a text hide its words.
LEMMA SealedParens ==
  ASSUME NEW S, Sym("(") \in S, Sym(")") \in S, NEW s \in Seq(S), NEW W, ")" \notin W, Closed(s)
  PROVE  /\ <<Sym("(")>> \o s \o <<Sym(")")>> \in Seq(S)
         /\ Sealed(<<Sym("(")>> \o s \o <<Sym(")")>>, W)
<1> DEFINE a == <<Sym("(")>>
           b == <<Sym(")")>>
           u == a \o s
           v == u \o b
           q == Len(s)
<1>1. a \in Seq(S) /\ b \in Seq(S) /\ Len(a) = 1 /\ Len(b) = 1 /\ a[1] = Sym("(") /\ b[1] = Sym(")")
  OBVIOUS
<1> HIDE DEF a, b
<1>2. u \in Seq(S) /\ Joins(u, a, s)
  BY <1>1, ConcatJoins
<1> HIDE DEF u
<1>3. v \in Seq(S) /\ Joins(v, u, b)
  BY <1>1, <1>2, ConcatJoins
<1> HIDE DEF v
<1>4. Level(a, 1) = 1 /\ Level(b, 1) = -1
  <2>1. Weight(Sym("(")) = 1 /\ Weight(Sym(")")) = -1
    BY DEF Weight, Sym
  <2>2. /\ Level(a, 0 + 1) = Level(a, 0) + Weight(a[0 + 1]) /\ Level(a, 0) = 0
        /\ Level(b, 0 + 1) = Level(b, 0) + Weight(b[0 + 1]) /\ Level(b, 0) = 0
    BY LevelSteps
  <2> QED BY <1>1, <2>1, <2>2
<1>5. /\ q \in Nat /\ DOMAIN s = 1 .. q /\ Len(u) = 1 + q
      /\ Level(u, 1) = 1
      /\ \A i \in 0 .. q : Level(u, 1 + i) = 1 + Level(s, i)
      /\ \A i \in Nat : Level(s, i) \in Int
      /\ Level(s, 0) = 0
  BY <1>1, <1>2, <1>4 DEF Joins
<1>6. /\ DOMAIN v = 1 .. (1 + q + 1) /\ Len(v) = 1 + q + 1
      /\ \A i \in 1 .. (1 + q) : Level(v, i) = Level(u, i)
      /\ Level(v, 1 + q + 1) = Level(u, 1 + q) + Level(b, 1)
      /\ v[1 + q + 1] = b[1]
      /\ \A i \in Nat : Level(v, i) \in Int
  <2>1. 1 \in 1 .. Len(b) /\ 1 \in 0 .. Len(b)
    BY <1>1
  <2>2. /\ DOMAIN v = 1 .. (Len(u) + Len(b)) /\ Len(v) = Len(u) + Len(b)
        /\ \A i \in 0 .. Len(u) : Level(v, i) = Level(u, i)
        /\ Level(v, Len(u) + 1) = Level(u, Len(u)) + Level(b, 1)
        /\ v[Len(u) + 1] = b[1]
        /\ \A i \in Nat : Level(v, i) \in Int
    BY <1>3, <2>1 DEF Joins
  <2> HIDE DEF q
  <2>3. \A i \in 1 .. (1 + q) : i \in 0 .. (1 + q)
    OBVIOUS
  <2> QED BY <1>1, <1>5, <2>2, <2>3
<1>7. Level(s, q) = 0
  BY DEF Closed
<1> HIDE DEF q
<1>8. ASSUME NEW i \in 1 .. (1 + q)
      PROVE  Level(v, i) >= 1
  <2>1. i - 1 \in 0 .. q /\ 1 + (i - 1) = i /\ i - 1 \in Nat
    BY <1>5
  <2>2. Level(v, i) = 1 + Level(s, i - 1) /\ Level(s, i - 1) \in Int
    BY <2>1, <1>5, <1>6
  <2>3. Level(s, i - 1) >= 0
    <3>1. i - 1 = 0 \/ i - 1 \in DOMAIN s
      BY <1>5
    <3>2. CASE i - 1 = 0
      BY <3>2, <1>5
    <3>3. CASE i - 1 \in DOMAIN s
      BY <3>3 DEF Closed
    <3> QED BY <3>1, <3>2, <3>3
  <2> QED BY <2>2, <2>3
<1>9. Level(v, 1 + q + 1) = 0 /\ v[1 + q + 1] = Sym(")")
  <2>1. q \in 0 .. q
    BY <1>5
  <2>2. Level(u, 1 + q) = 1
    BY <2>1, <1>5, <1>7
  <2> QED BY <2>2, <1>1, <1>4, <1>6
<1>10. \A i \in DOMAIN v : i \in 1 .. (1 + q) \/ i = 1 + q + 1
  BY <1>5, <1>6
<1>11. Closed(v)
  <2>1. \A i \in 1 .. (1 + q) : i \in Nat
    BY <1>5
  <2>2. \A i \in 1 .. (1 + q) : Level(v, i) >= 0
    BY <2>1, <1>6, <1>8
  <2>3. Len(v) = 1 + q + 1 /\ 0 >= 0
    BY <1>6
  <2> QED BY <2>2, <2>3, <1>9, <1>10 DEF Closed
<1>12. Outer(v, W)
  <2> SUFFICES ASSUME NEW i \in DOMAIN v, Level(v, i) = 0, NEW w \in W
               PROVE  v[i] # Sym(w)
    BY DEF Outer
  <2>1. i = 1 + q + 1
    BY <1>8, <1>10
  <2>2. Sym(")") # Sym(w)
    BY DEF Sym
  <2> QED BY <2>1, <2>2, <1>9
<1>13. v \in Seq(S) /\ Sealed(v, W)
  BY <1>3, <1>11, <1>12 DEF Sealed
<1> QED BY <1>13 DEF v, u, a, b

\* A text without an AND, or without an OR.
LEMMA OneConnective ==
  ASSUME NEW ts, NEW w \in {"AND", "OR"}, \A i \in DOMAIN ts : ts[i] # Sym(w)
  PROVE  Unmixed(ts)
BY DEF Unmixed

-----------------------------------------------------------------------------
(* What a step makes of the element it finds *)

\* A tree is no word, and a word is a parenthesis or weighs nothing.
LEMMA TreesWeighNothing ==
  /\ \A x \in Expr \cup NamedArg : Weight(x) = 0 /\ \A w : x # Sym(w)
  /\ \A w : w \notin {"(", ")"} => Weight(Sym(w)) = 0
  /\ \A v, w : Sym(v) = Sym(w) => v = w
<1>1. \A x \in Expr \cup NamedArg : x.kind # "sym"
  BY ExprAssumption DEF ExprShape, NamedArg
<1>2. \A w : Sym(w).kind = "sym" /\ Sym(w).s = w
  BY DEF Sym
<1>3. \A x \in Expr \cup NamedArg : \A w : x # Sym(w)
  BY <1>1, <1>2
<1>4. \A v, w : Sym(v) = Sym(w) => v = w
  BY <1>2
<1> QED BY <1>3, <1>4 DEF Weight

\* A placeholder neither.
LEMMA PlaceholdersWeighNothing ==
  ASSUME NEW k, NEW v
  PROVE  Weight(Placeholder(k, v)) = 0 /\ \A w : Placeholder(k, v) # Sym(w)
<1>1. Placeholder(k, v).kind = "ph" /\ \A w : Sym(w).kind = "sym"
  BY DEF Placeholder, Sym
<1> QED BY <1>1 DEF Weight

\* What one step writes or pushes for an element h, when k is the number of the
\* last placeholder: a text that stands for itself among others.
Renders(h, R, k, W) ==
  /\ Sealed(R, W)
  /\ NoBlank => R # <<>>
  /\ {"AND", "OR"} \subseteq W /\ RawsUnmixed => Unmixed(R)
  /\ h.kind = "Lit" /\ h.v # Nil /\ ~h.cast => R = <<Placeholder(k, h.v)>>
StepText(W) ==
  \E R \in Seq(Item \cup Token) :
    /\ sb' \o todo' = (sb \o R) \o Tail(todo)
    /\ \/ R = <<Head(todo)>> /\ Head(todo).kind = "sym"
       \/ Head(todo) \in Expr \cup NamedArg /\ Renders(Head(todo), R, n', W)

\* Words of the emitter that are none of W.
Foreign(W) == W \cap Punctuation \subseteq {"AND", "OR"}

\* An element that is no parenthesis and no word of W.
Mild(x, W) == Weight(x) = 0 /\ \A w \in W : x # Sym(w)

\* Where one connective is missing, the other is alone.
LEMMA OneConnectiveOver ==
  ASSUME NEW E, NEW R \in Seq(E), NEW c \in {"AND", "OR"}, \A x \in E : x # Sym(c)
  PROVE  Unmixed(R)
<1>1. \A i \in DOMAIN R : R[i] # Sym(c)
  <2>1. \A i \in DOMAIN R : R[i] \in E
    OBVIOUS
  <2> QED BY <2>1
<1> QED BY <1>1, OneConnective

\* Mild elements in any order.
LEMMA FlatRenders ==
  ASSUME NEW E, NEW W, \A x \in E : Mild(x, W),
         NEW R \in Seq(E), NoBlank => R # <<>>,
         NEW h, NEW k, h.kind = "Lit" /\ h.v # Nil /\ ~h.cast => R = <<Placeholder(k, h.v)>>
  PROVE  Renders(h, R, k, W)
<1>1. Sealed(R, W)
  BY SealedFlat DEF Mild
<1>2. {"AND", "OR"} \subseteq W => Unmixed(R)
  BY OneConnectiveOver DEF Mild
<1> QED BY <1>1, <1>2 DEF Renders

\* A Raw's text is sealed as the caller wrote it: its placeholders are no words.
LEMMA RawRenders ==
  ASSUME NEW e \in Expr, e.kind = "Raw", NEW W, Encloses(W),
         NEW start \in Int, NEW vs \in Seq(Bound), NEW k
  PROVE  Renders(e, replaceQs(e.sql, start, vs), k, W)
<1> DEFINE t == replaceQs(e.sql, start, vs)
           u == RawText(e)
<1>1. e.sql \in Seq(Word)
  BY ExprAssumption DEF ExprShape
<1>2. /\ DOMAIN t = DOMAIN e.sql /\ DOMAIN u = DOMAIN e.sql /\ DOMAIN e.sql = 1 .. Len(e.sql)
      /\ Len(e.sql) \in Nat /\ Len(t) = Len(e.sql)
  <2>1. DOMAIN t = 1 .. Len(e.sql) /\ Len(e.sql) \in Nat /\ DOMAIN e.sql = 1 .. Len(e.sql)
    BY <1>1 DEF replaceQs
  <2>2. Len(t) = Len(e.sql)
    <3>1. t \in Seq(Token)
      BY <1>1, ReplaceQsType
    <3> HIDE DEF t
    <3> QED BY <2>1, <3>1
  <2> QED BY <2>1, <2>2 DEF RawText, replaceQs
<1>3. ASSUME NEW i \in DOMAIN t
      PROVE  /\ Weight(t[i]) = Weight(u[i])
             /\ \A w : t[i] = Sym(w) => u[i] = Sym(w) /\ e.sql[i] = w
  <2>1. u[i] = Sym(e.sql[i])
    BY <1>2 DEF RawText
  <2>2. CASE e.sql[i] = "?"
    <3>1. PICK p, q : t[i] = Placeholder(p, q)
      BY <1>2, <2>2 DEF replaceQs
    <3>2. Weight(u[i]) = 0
      BY <2>1, <2>2, TreesWeighNothing
    <3> QED BY <3>1, <3>2, PlaceholdersWeighNothing
  <2>3. CASE e.sql[i] # "?"
    <3>1. t[i] = Sym(e.sql[i])
      BY <1>2, <2>3 DEF replaceQs
    <3> QED BY <2>1, <3>1, TreesWeighNothing
  <2> QED BY <2>2, <2>3
<1> HIDE DEF t, u
<1>4. \A i \in 0 .. Len(e.sql) : Level(t, i) = Level(u, i)
  <2> TAKE i \in 0 .. Len(e.sql)
  <2>1. i \in Nat /\ \A j \in 1 .. i : j \in DOMAIN t
    BY <1>2
  <2> QED BY <2>1, <1>3, LevelSame
<1>5. /\ \A i \in DOMAIN e.sql : Level(u, i) >= 0 /\ (Level(u, i) = 0 => e.sql[i] \notin W)
      /\ Level(u, Len(e.sql)) = 0
  <2>1. /\ \A i \in DOMAIN e.sql : /\ Level(RawText(e), i) >= 0
                                   /\ Level(RawText(e), i) = 0 => e.sql[i] \notin W
        /\ Level(RawText(e), Len(e.sql)) = 0
    BY Zenon DEF Encloses
  <2> QED BY <2>1 DEF u
<1>6. \A i \in DOMAIN t : i \in 0 .. Len(e.sql) /\ Level(t, i) = Level(u, i)
  BY <1>2, <1>4
<1>7. Closed(t)
  <2>1. Len(e.sql) \in 0 .. Len(e.sql)
    BY <1>2
  <2> QED BY <2>1, <1>2, <1>4, <1>5, <1>6 DEF Closed
<1>8. Outer(t, W)
  BY <1>2, <1>3, <1>5, <1>6 DEF Outer
<1>9. NoBlank => t # <<>>
  <2>1. NoBlank => Len(e.sql) # 0
    BY <1>1 DEF NoBlank
  <2> QED BY <2>1, <1>2
<1>10. RawsUnmixed => Unmixed(t)
  <2> SUFFICES ASSUME RawsUnmixed, NEW i \in DOMAIN t, NEW j \in DOMAIN t, t[i] = Sym("AND"), t[j] = Sym("OR"),
                      OneGroup(t, i, j)
               PROVE  FALSE
    BY DEF Unmixed
  <2>1. u[i] = Sym("AND") /\ u[j] = Sym("OR") /\ i \in DOMAIN u /\ j \in DOMAIN u
    BY <1>2, <1>3
  <2>2. \A k1 \in (i .. j) \cup (j .. i) : k1 \in DOMAIN t
    BY <1>2
  <2>3. OneGroup(u, i, j)
    BY <1>6, <2>2 DEF OneGroup
  <2>4. Unmixed(u)
    BY DEF RawsUnmixed, u
  <2> QED BY <2>1, <2>3, <2>4 DEF Unmixed
<1>11. Renders(e, t, k, W)
  BY <1>7, <1>8, <1>9, <1>10 DEF Renders, Sealed
<1> QED BY <1>11 DEF t

\* A list in parentheses: a combinator's parts, or a call's arguments.
LEMMA ParensRender ==
  ASSUME NEW E, NEW W, \A x \in E : Weight(x) = 0, NEW s \in Seq(E),
         ")" \notin W, NEW c \in {"AND", "OR"}, \A x \in E : x # Sym(c)
  PROVE  /\ <<Sym("(")>> \o s \o <<Sym(")")>> \in Seq(E \cup {Sym("("), Sym(")")})
         /\ <<Sym("(")>> \o s \o <<Sym(")")>> # <<>>
         /\ Sealed(<<Sym("(")>> \o s \o <<Sym(")")>>, W)
         /\ Unmixed(<<Sym("(")>> \o s \o <<Sym(")")>>)
<1> DEFINE S == E \cup {Sym("("), Sym(")")}
           R == <<Sym("(")>> \o s \o <<Sym(")")>>
<1>1. s \in Seq(S)
  OBVIOUS
<1>2. Closed(s)
  <2>1. Sealed(s, {})
    BY SealedFlat
  <2> QED BY <2>1 DEF Sealed
<1>3. R \in Seq(S) /\ Sealed(R, W)
  <2>1. Sym("(") \in S /\ Sym(")") \in S
    OBVIOUS
  <2> HIDE DEF S
  <2> QED BY <1>1, <1>2, <2>1, SealedParens
<1>4. \A x \in S : x # Sym(c)
  <2>1. Sym("(") # Sym(c) /\ Sym(")") # Sym(c)
    BY TreesWeighNothing
  <2> QED BY <2>1
<1>5. R # <<>>
  <2>1. Len(<<Sym("(")>>) = 1 /\ <<Sym("(")>> \in Seq(S) /\ <<Sym(")")>> \in Seq(S)
    OBVIOUS
  <2> QED BY <1>1, <2>1
<1> HIDE DEF R, S
<1>6. Unmixed(R)
  <2>1. \A i \in DOMAIN R : R[i] # Sym(c)
    <3>1. \A i \in DOMAIN R : R[i] \in S
      BY <1>3
    <3> QED BY <3>1, <1>4
  <2> QED BY <2>1, OneConnective
<1> QED BY <1>3, <1>5, <1>6 DEF R, S

\* The emitter's own words among the texts without a word of W.
LEMMA MildWords ==
  ASSUME NEW W, Foreign(W)
  PROVE  /\ \A p \in {",", "NOT", "NULL", "::", "=>"} : Mild(Sym(p), W) /\ p \notin {"AND", "OR"}
         /\ "(" \notin W /\ ")" \notin W
         /\ \A w : w \notin W \cup {"(", ")"} => Mild(Sym(w), W)
         /\ \A x \in Expr \cup NamedArg : Mild(x, W)
         /\ \A k, v : Mild(Placeholder(k, v), W)
<1>1. \A p \in {",", "NOT", "NULL", "::", "=>", "(", ")"} : p \notin W
  BY DEF Foreign, Punctuation
<1>2. \A w : w \notin W \cup {"(", ")"} => Mild(Sym(w), W)
  BY TreesWeighNothing DEF Mild
<1>3. \A p \in {",", "NOT", "NULL", "::", "=>"} : Mild(Sym(p), W)
  BY <1>1, <1>2
<1>4. \A x \in Expr \cup NamedArg : Mild(x, W)
  BY TreesWeighNothing DEF Mild
<1>5. \A k, v : Mild(Placeholder(k, v), W)
  BY PlaceholdersWeighNothing DEF Mild
<1> QED BY <1>1, <1>2, <1>3, <1>4, <1>5

\* What is pushed or written takes the place of the head.
LEMMA PushText ==
  ASSUME NEW S, sb \in Seq(S), todo \in Seq(S), todo # <<>>, NEW items \in Seq(S), Push(items)
  PROVE  sb' \o todo' = (sb \o items) \o Tail(todo)
<1>1. Tail(todo) \in Seq(S) /\ sb' = sb /\ todo' = items \o Tail(todo)
  BY DEF Push
<1> DEFINE t == Tail(todo)
<1>2. sb \o (items \o t) = (sb \o items) \o t
  <2>1. t \in Seq(S)
    BY <1>1
  <2> HIDE DEF t
  <2>2. Associates(sb, items, t)
    BY <2>1, Associative
  <2> QED BY <2>2 DEF Associates
<1> QED BY <1>1, <1>2

LEMMA PushRenders ==
  ASSUME NEW S, Item \cup Token \subseteq S, Written, todo \in Seq(S), todo # <<>>, NEW W,
         NEW items \in Seq(Item), Push(items),
         Head(todo) \in Expr \cup NamedArg, Renders(Head(todo), items, n', W)
  PROVE  StepText(W)
<1>1. items \in Seq(Item \cup Token) /\ items \in Seq(S) /\ sb \in Seq(S)
  BY SeqMonotonic DEF Written
<1>2. sb' \o todo' = (sb \o items) \o Tail(todo)
  BY <1>1, PushText
<1> QED BY <1>1, <1>2 DEF StepText

LEMMA WriteRenders ==
  ASSUME NEW W, NEW tokens \in Seq(Token), Write(tokens),
         Head(todo) \in Expr \cup NamedArg, Renders(Head(todo), tokens, n', W)
  PROVE  StepText(W)
<1>1. tokens \in Seq(Item \cup Token)
  BY SeqMonotonic
<1>2. sb' \o todo' = (sb \o tokens) \o Tail(todo)
  BY DEF Write
<1> QED BY <1>1, <1>2 DEF StepText

\* One part needs neither parentheses nor a connective.
LEMMA JoinedFew ==
  ASSUME NEW S, NEW s \in Seq(S), Len(s) <= 1, NEW sep
  PROVE  Joined(s, sep) = s
<1>1. CASE Len(s) = 0
  <2>1. s = <<>> /\ 1 .. (2 * Len(s) - 1) = 1 .. 0
    BY <1>1
  <2> QED BY <2>1 DEF Joined
<1>2. CASE Len(s) = 1
  <2>1. s = <<s[1]>>
    BY <1>2
  <2>2. Joined(s, sep) = [i \in 1 .. 1 |-> s[1]]
    BY <1>2 DEF Joined
  <2> QED BY <2>1, <2>2
<1>3. Len(s) = 0 \/ Len(s) = 1
  <2> DEFINE m == Len(s)
  <2>1. m \in Nat /\ m <= 1
    OBVIOUS
  <2> HIDE DEF m
  <2>2. m = 0 \/ m = 1
    BY <2>1
  <2> QED BY <2>2 DEF m
<1> QED BY <1>1, <1>2, <1>3

\* And and Or: in parentheses, with nothing of the other kind beside.
LEMMA CombinatorRenders ==
  ASSUME NEW h \in Expr, h.kind \in {"And", "Or"}, h.parts \in Seq(Expr), NEW W, Foreign(W), NEW k,
         NEW c \in {"AND", "OR"}
  PROVE  Renders(h, emitJoined(h.parts, c, TRUE), k, W)
<1> DEFINE R == emitJoined(h.parts, c, TRUE)
           J == Joined(h.parts, Sym(c))
           d == IF c = "AND" THEN "OR" ELSE "AND"
           E == Expr \cup {Sym(c)}
<1>1. CASE Len(h.parts) <= 1
  <2>1. R = h.parts
    BY <1>1, JoinedFew DEF emitJoined
  <2>2. NoBlank => R # <<>>
    BY <2>1 DEF NoBlank
  <2>3. /\ \A x \in Expr : Mild(x, W)
        /\ h.kind = "Lit" /\ h.v # Nil /\ ~h.cast => R = <<Placeholder(k, h.v)>>
    BY MildWords
  <2>4. R \in Seq(Expr)
    BY <2>1
  <2> HIDE DEF R
  <2>5. Renders(h, R, k, W)
    BY <2>2, <2>3, <2>4, FlatRenders
  <2> QED BY <2>5 DEF R
<1>2. CASE ~(Len(h.parts) <= 1)
  <2>1. R = <<Sym("(")>> \o J \o <<Sym(")")>>
    BY <1>2 DEF emitJoined
  <2>2. J \in Seq(E)
    <3>1. h.parts \in Seq(E) /\ Sym(c) \in E
      BY SeqMonotonic
    <3> HIDE DEF E
    <3> QED BY <3>1, JoinedType
  <2>3. \A x \in E : Weight(x) = 0 /\ x # Sym(d)
    <3>1. Weight(Sym(c)) = 0 /\ Sym(c) # Sym(d)
      BY TreesWeighNothing
    <3> QED BY <3>1, TreesWeighNothing
  <2>4. ")" \notin W /\ d \in {"AND", "OR"}
    BY MildWords
  <2> HIDE DEF R, J, E, d
  <2>5. R # <<>> /\ Sealed(R, W) /\ Unmixed(R)
    BY <2>1, <2>2, <2>3, <2>4, ParensRender
  <2> QED BY <2>5 DEF Renders, R
<1> QED BY <1>1, <1>2

\* NOT in front of an operand, or of an operand in parentheses.
LEMMA NotRenders ==
  ASSUME NEW h \in Expr, h.kind = "Not", NEW e \in Expr, NEW W, Foreign(W), NEW k
  PROVE  /\ Renders(h, <<Sym("NOT"), e>>, k, W)
         /\ Renders(h, <<Sym("NOT"), Sym("("), e, Sym(")")>>, k, W)
<1> DEFINE E == {Sym("NOT"), e}
<1>1. \A x \in E : Mild(x, W)
  BY MildWords
<1>2. Renders(h, <<Sym("NOT"), e>>, k, W)
  <2>1. <<Sym("NOT"), e>> \in Seq(E) /\ <<Sym("NOT"), e>> # <<>>
    OBVIOUS
  <2> QED BY <1>1, <2>1, FlatRenders
<1> DEFINE P == <<Sym("(")>> \o <<e>> \o <<Sym(")")>>
           O == <<Sym("NOT")>>
           R == <<Sym("NOT"), Sym("("), e, Sym(")")>>
           S == {Sym("NOT"), e, Sym("("), Sym(")")}
<1>3. P \in Seq(S) /\ Sealed(P, W)
  <2> DEFINE c == "AND"
             D == {e}
             s == <<e>>
  <2>1. \A x \in D : Weight(x) = 0 /\ x # Sym(c)
    BY TreesWeighNothing
  <2>2. s \in Seq(D) /\ c \in {"AND", "OR"}
    OBVIOUS
  <2>3. ")" \notin W
    BY MildWords
  <2>4. P \in Seq(D \cup {Sym("("), Sym(")")}) /\ Sealed(P, W)
    <3>1. P = <<Sym("(")>> \o s \o <<Sym(")")>>
      OBVIOUS
    <3> HIDE DEF c, D, s, P
    <3> QED BY <2>1, <2>2, <2>3, <3>1, ParensRender
  <2>5. D \cup {Sym("("), Sym(")")} \subseteq S
    OBVIOUS
  <2> HIDE DEF P, D, S
  <2> QED BY <2>4, <2>5, SeqMonotonic
<1>4. O \in Seq(S) /\ Sealed(O, W)
  <2>1. O \in Seq({Sym("NOT")}) /\ O \in Seq(S)
    OBVIOUS
  <2>2. \A x \in {Sym("NOT")} : Weight(x) = 0 /\ \A w \in W : x # Sym(w)
    BY MildWords DEF Mild
  <2> HIDE DEF O
  <2> QED BY <2>1, <2>2, SealedFlat
<1>5. R = O \o P
  OBVIOUS
<1>6. R \in Seq(S)
  OBVIOUS
<1>7. \A x \in S : x # Sym("OR")
  <2>1. \A p \in {"NOT", "(", ")"} : Sym(p) # Sym("OR")
    BY TreesWeighNothing
  <2> QED BY <2>1, TreesWeighNothing
<1>8. R # <<>>
  OBVIOUS
<1> HIDE DEF O, P, R, S
<1>9. Sealed(R, W)
  BY <1>3, <1>4, <1>5, SealedConcat
<1>10. Unmixed(R)
  BY <1>6, <1>7, OneConnectiveOver
<1>11. Renders(h, R, k, W)
  BY <1>8, <1>9, <1>10 DEF Renders
<1> QED BY <1>2, <1>11 DEF R

\* The same four parts, put together from the left or from the right.
Regrouped(a, b, c, d) == a \o ((b \o c) \o d) = ((a \o b) \o c) \o d
LEMMA FourParts ==
  ASSUME NEW S, NEW a \in Seq(S), NEW b \in Seq(S), NEW c \in Seq(S), NEW d \in Seq(S)
  PROVE  Regrouped(a, b, c, d)
<1> DEFINE p == b \o c
<1>1. p \in Seq(S)
  BY ConcatType
<1>2. Associates(a, b, c)
  BY Associative
<1>3. a \o p = (a \o b) \o c
  BY <1>2 DEF Associates
<1> HIDE DEF p
<1>4. Associates(a, p, d)
  BY <1>1, Associative
<1>5. a \o (p \o d) = ((a \o b) \o c) \o d
  BY <1>3, <1>4 DEF Associates
<1> QED BY <1>5 DEF Regrouped, p

\* Two elements.
LEMMA Pair ==
  ASSUME NEW S, NEW x \in S, NEW y \in S
  PROVE  <<x>> \o <<y>> = <<x, y>>
<1> DEFINE a == <<x>>
           b == <<y>>
           c == <<x, y>>
<1>1. /\ a \in Seq(S) /\ Len(a) = 1 /\ a[1] = x
      /\ b \in Seq(S) /\ Len(b) = 1 /\ b[1] = y
      /\ c \in Seq(S) /\ Len(c) = 2 /\ c[1] = x /\ c[2] = y
  OBVIOUS
<1> HIDE DEF a, b, c
<1>2. a \o b \in Seq(S) /\ Len(a \o b) = 2 /\ (a \o b)[1] = x /\ (a \o b)[2] = y
  BY <1>1
<1>3. a \o b = c
  BY <1>1, <1>2
<1> QED BY <1>3 DEF a, b, c

\* A call: its name, and its arguments in parentheses.
LEMMA CallRenders ==
  ASSUME NEW h \in Expr, h.kind = "Call", NEW fn, NEW s \in Seq(Expr \cup NamedArg), NEW W, Foreign(W), NEW k,
         fn \notin W \cup {"(", ")"}
  PROVE  Renders(h, <<Sym(fn), Sym("(")>> \o Joined(s, Sym(",")) \o <<Sym(")")>>, k, W)
<1> DEFINE J == Joined(s, Sym(","))
           E == Expr \cup NamedArg \cup {Sym(",")}
           O == <<Sym(fn)>>
           P == <<Sym("(")>> \o J \o <<Sym(")")>>
           R == <<Sym(fn), Sym("(")>> \o J \o <<Sym(")")>>
           S == E \cup {Sym("("), Sym(")"), Sym(fn)}
<1>1. J \in Seq(E)
  <2>1. s \in Seq(E) /\ Sym(",") \in E
    BY SeqMonotonic
  <2> HIDE DEF E
  <2> QED BY <2>1, JoinedType
<1>2. \A x \in E : Weight(x) = 0 /\ x # Sym("OR")
  <2>1. Weight(Sym(",")) = 0 /\ Sym(",") # Sym("OR")
    BY TreesWeighNothing
  <2> QED BY <2>1, TreesWeighNothing
<1>3. O \in Seq(S) /\ Sealed(O, W)
  <2>1. O \in Seq({Sym(fn)}) /\ O \in Seq(S)
    OBVIOUS
  <2>2. \A x \in {Sym(fn)} : Weight(x) = 0 /\ \A w \in W : x # Sym(w)
    BY MildWords DEF Mild
  <2> HIDE DEF O
  <2> QED BY <2>1, <2>2, SealedFlat
<1>4. P \in Seq(S) /\ Sealed(P, W)
  <2> DEFINE c == "OR"
  <2>1. ")" \notin W /\ c \in {"AND", "OR"}
    BY MildWords
  <2>2. \A x \in E : Weight(x) = 0 /\ x # Sym(c)
    BY <1>2
  <2>3. E \cup {Sym("("), Sym(")")} \subseteq S
    OBVIOUS
  <2>4. P = <<Sym("(")>> \o J \o <<Sym(")")>>
    OBVIOUS
  <2> HIDE DEF J, E, c, P, S
  <2>5. P \in Seq(E \cup {Sym("("), Sym(")")}) /\ Sealed(P, W)
    BY <1>1, <2>1, <2>2, <2>4, ParensRender
  <2> QED BY <2>3, <2>5, SeqMonotonic
<1>5. R = O \o P
  <2> DEFINE A == <<Sym("(")>>
             B == <<Sym(")")>>
  <2>1. O \in Seq(S) /\ A \in Seq(S) /\ B \in Seq(S)
    OBVIOUS
  <2>2. J \in Seq(S)
    <3>1. E \subseteq S
      OBVIOUS
    <3> HIDE DEF J, E, S
    <3> QED BY <1>1, <3>1, SeqMonotonic
  <2>3. <<Sym(fn), Sym("(")>> = O \o A
    <3>1. Sym(fn) \in S /\ Sym("(") \in S
      OBVIOUS
    <3> QED BY <3>1, Pair
  <2> DEFINE F == <<Sym(fn), Sym("(")>>
  <2>4. P = (A \o J) \o B /\ R = (F \o J) \o B
    OBVIOUS
  <2>5. F = O \o A
    BY <2>3
  <2> HIDE DEF A, B, J, O, S, R, P, F
  <2>6. Regrouped(O, A, J, B)
    BY <2>1, <2>2, FourParts
  <2> QED BY <2>4, <2>5, <2>6 DEF Regrouped
<1>6. \A x \in S : x # Sym("OR") \/ fn = "OR"
  <2>1. \A p \in {fn, "(", ")"} : Sym(p) # Sym("OR") \/ p = "OR"
    BY TreesWeighNothing
  <2> QED BY <1>2, <2>1
<1> HIDE DEF O, P, R, S
<1>7. R \in Seq(S) /\ Sealed(R, W)
  BY <1>3, <1>4, <1>5, SealedConcat
<1>8. {"AND", "OR"} \subseteq W => Unmixed(R)
  <2>1. {"AND", "OR"} \subseteq W => fn # "OR"
    OBVIOUS
  <2> QED BY <1>6, <1>7, <2>1, OneConnectiveOver
<1>9. R # <<>>
  <2>1. Len(O) = 1 /\ Len(R) = Len(O) + Len(P) /\ Len(P) \in Nat
    BY <1>3, <1>4, <1>5 DEF O
  <2> QED BY <2>1
<1>10. Renders(h, R, k, W)
  BY <1>7, <1>8, <1>9 DEF Renders
<1> QED BY <1>10 DEF R, J

\* One step: the head gives way to a text that stands for itself.
LEMMA StepRenders ==
  ASSUME NEW S, Item \cup Token \subseteq S, todo \in Seq(S), Head(todo) \in Item, Written, Next,
         NEW W, Encloses(W), Foreign(W)
  PROVE  StepText(W)
<1> DEFINE h == Head(todo)
<1>1. todo # <<>>
  BY NextReads
<1>2. CASE Str
  <2>1. h.kind = "sym" /\ Write(<<h>>)
    BY <1>2 DEF Str, Now
  <2>2. <<h>> \in Seq(Item \cup Token)
    OBVIOUS
  <2>3. sb' \o todo' = (sb \o <<h>>) \o Tail(todo)
    BY <2>1 DEF Write
  <2> HIDE DEF h
  <2>4. <<h>> = <<h>> /\ h.kind = "sym"
    BY <2>1
  <2> QED BY <2>2, <2>3, <2>4 DEF StepText, h
<1>3. CASE EmitCol
  <2>1. h.kind = "Col" /\ Write(<<Sym(h.name)>>)
    BY <1>3 DEF EmitCol, Now
  <2>2. h \in Expr /\ h.name \in Word
    BY <2>1, HeadShape DEF ExprShape
  <2>3. h.name \notin W \cup {"(", ")"}
    BY <2>1, <2>2 DEF Encloses
  <2> DEFINE E == {Sym(h.name)}
             R == <<Sym(h.name)>>
  <2>4. \A x \in E : Mild(x, W)
    BY <2>3, MildWords
  <2>5. R \in Seq(E) /\ R # <<>>
    OBVIOUS
  <2>6. R \in Seq(Token)
    BY <2>2, WordItem, Tuples
  <2>7. Write(R)
    BY <2>1
  <2> HIDE DEF h, E, R
  <2>8. Renders(h, R, n', W)
    BY <2>1, <2>4, <2>5, FlatRenders
  <2> QED BY <2>2, <2>6, <2>7, <2>8, WriteRenders DEF h
<1>4. CASE ParamNull
  <2> DEFINE E == {Sym("NULL"), Sym("::")}
             R == <<Sym("NULL")>> \o CastSuffix(h.cast)
  <2>1. h.kind = "Lit" /\ h.v = Nil /\ Write(R)
    BY <1>4 DEF ParamNull, Now
  <2>2. h \in Expr
    BY <2>1, HeadShape
  <2>3. \A x \in E : Mild(x, W)
    BY MildWords
  <2>4. R \in Seq(E) /\ R # <<>> /\ R \in Seq(Token)
    <3>1. <<Sym("NULL")>> \in Seq(E) /\ <<Sym("::")>> \in Seq(E) /\ <<>> \in Seq(E) /\ <<>> \in Seq(Token)
      OBVIOUS
    <3>2. <<Sym("NULL")>> \in Seq(Token) /\ <<Sym("::")>> \in Seq(Token)
      BY PunctuationItem, Tuples
    <3>3. CastSuffix(h.cast) \in Seq(E) /\ CastSuffix(h.cast) \in Seq(Token)
      BY <3>1, <3>2 DEF CastSuffix
    <3>4. Len(<<Sym("NULL")>>) = 1
      OBVIOUS
    <3> HIDE DEF E
    <3> QED BY <3>1, <3>2, <3>3, <3>4
  <2> HIDE DEF h, E, R
  <2>5. Renders(h, R, n', W)
    BY <2>1, <2>3, <2>4, FlatRenders
  <2> QED BY <2>1, <2>2, <2>4, <2>5, WriteRenders DEF h
<1>5. CASE Param
  <2> DEFINE P == Placeholder(n', h.v)
             E == {P, Sym("::")}
             R == <<P>> \o CastSuffix(h.cast)
  <2>1. h.kind = "Lit" /\ h.v # Nil /\ Write(R) /\ n' \in Nat
    BY <1>5 DEF Param, Now, Written
  <2>2. h \in Expr /\ h.v \in Bound
    BY <2>1, HeadShape DEF ExprShape
  <2>3. \A x \in E : Mild(x, W)
    BY MildWords
  <2>4. R \in Seq(E) /\ R # <<>> /\ R \in Seq(Token)
    <3>1. P \in Token
      BY <2>1, <2>2 DEF Placeholder, Token
    <3>2. <<P>> \in Seq(Token) /\ <<Sym("::")>> \in Seq(Token)
      BY <3>1, PunctuationItem, Tuples
    <3>3. <<P>> \in Seq(E) /\ <<Sym("::")>> \in Seq(E) /\ <<>> \in Seq(E) /\ <<>> \in Seq(Token) /\ Len(<<P>>) = 1
      OBVIOUS
    <3>4. CastSuffix(h.cast) \in Seq(E) /\ CastSuffix(h.cast) \in Seq(Token)
      BY <3>2, <3>3 DEF CastSuffix
    <3> HIDE DEF E, P
    <3> QED BY <3>2, <3>3, <3>4
  <2>5. ~h.cast => R = <<P>>
    <3>1. ~h.cast => CastSuffix(h.cast) = <<>>
      BY DEF CastSuffix
    <3> DEFINE a == <<P>>
               F == {P}
    <3>2. a \in Seq(F) /\ R = a \o CastSuffix(h.cast)
      OBVIOUS
    <3> HIDE DEF P, a, F, R
    <3>3. ~h.cast => R = a
      BY <3>1, <3>2
    <3> QED BY <3>3 DEF a
  <2> HIDE DEF h, E, R
  <2>6. Renders(h, R, n', W)
    BY <2>3, <2>4, <2>5, FlatRenders
  <2> QED BY <2>1, <2>2, <2>4, <2>6, WriteRenders DEF h
<1>6. CASE EmitBin
  <2> DEFINE E == {h.l, h.r, Sym(h.op)}
             R == <<h.l, Sym(h.op), h.r>>
  <2>1. h.kind = "Bin" /\ Push(R)
    BY <1>6 DEF EmitBin, Now
  <2>2. h \in Expr /\ h.op \in Word /\ h.l \in Expr /\ h.r \in Expr
    BY <2>1, HeadShape DEF ExprShape
  <2>3. h.op \notin W \cup {"(", ")"}
    BY <2>1, <2>2 DEF Encloses
  <2>4. \A x \in E : Mild(x, W)
    BY <2>2, <2>3, MildWords
  <2>5. R \in Seq(E) /\ R # <<>>
    OBVIOUS
  <2>6. R \in Seq(Item)
    <3>1. h.l \in Item /\ h.r \in Item
      BY <2>2 DEF Item
    <3> QED BY <2>2, <3>1, WordItem, Tuples
  <2> HIDE DEF h, E, R
  <2>7. Renders(h, R, n', W)
    BY <2>1, <2>4, <2>5, FlatRenders
  <2> QED BY <1>1, <2>1, <2>2, <2>6, <2>7, PushRenders DEF h
<1>7. CASE EmitCall
  <2> DEFINE s == h.args \o h.named
             R == <<Sym(h.fn), Sym("(")>> \o Joined(s, Sym(",")) \o <<Sym(")")>>
  <2>1. h.kind = "Call" /\ Push(R)
    BY <1>7 DEF EmitCall, Now
  <2>2. h \in Expr /\ h.fn \in Word /\ h.args \in Seq(Expr) /\ h.named \in Seq(NamedArg)
    BY <2>1, HeadShape DEF ExprShape
  <2>3. h.fn \notin W \cup {"(", ")"}
    BY <2>1, <2>2 DEF Encloses
  <2>4. s \in Seq(Expr \cup NamedArg)
    <3>1. h.args \in Seq(Expr \cup NamedArg) /\ h.named \in Seq(Expr \cup NamedArg)
      BY <2>2, SeqMonotonic
    <3> QED BY <3>1, ConcatType
  <2>5. R \in Seq(Item)
    <3>1. Expr \cup NamedArg \subseteq Item
      BY DEF Item
    <3>2. s \in Seq(Item)
      BY <2>4, <3>1, SeqMonotonic
    <3>3. Joined(s, Sym(",")) \in Seq(Item)
      BY <3>2, PunctuationItem, JoinedType
    <3>4. <<Sym(h.fn), Sym("(")>> \in Seq(Item) /\ <<Sym(")")>> \in Seq(Item)
      BY <2>2, WordItem, PunctuationItem, Tuples
    <3> HIDE DEF s
    <3> QED BY <3>3, <3>4, ConcatType
  <2> HIDE DEF h, s
  <2>6. Renders(h, R, n', W)
    BY <2>1, <2>2, <2>3, <2>4, CallRenders
  <2> HIDE DEF R
  <2> QED BY <1>1, <2>1, <2>2, <2>5, <2>6, PushRenders DEF h
<1>8. CASE EmitNamed
  <2> DEFINE E == {Sym("=>"), h.val}
             R == <<Sym("=>"), h.val>>
  <2>1. h.kind = "Named" /\ Push(R)
    BY <1>8 DEF EmitNamed, Now
  <2>2. h \notin Expr
    BY <2>1, ExprAssumption DEF ExprShape
  <2>3. h \in NamedArg /\ h.val \in Expr
    BY <2>1, <2>2 DEF Item, NamedArg, Text
  <2>4. \A x \in E : Mild(x, W)
    BY <2>3, MildWords
  <2>5. R \in Seq(E) /\ R # <<>>
    OBVIOUS
  <2>6. R \in Seq(Item)
    <3>1. h.val \in Item
      BY <2>3 DEF Item
    <3> QED BY <3>1, PunctuationItem, Tuples
  <2> HIDE DEF h, E, R
  <2>7. Renders(h, R, n', W)
    BY <2>1, <2>4, <2>5, FlatRenders
  <2> QED BY <1>1, <2>1, <2>3, <2>6, <2>7, PushRenders DEF h
<1>9. CASE EmitCast
  <2> DEFINE E == {h.e, Sym("::")}
             R == <<h.e, Sym("::")>>
  <2>1. h.kind = "Cast" /\ Push(R)
    BY <1>9 DEF EmitCast, Now
  <2>2. h \in Expr /\ h.e \in Expr
    BY <2>1, HeadShape DEF ExprShape
  <2>3. \A x \in E : Mild(x, W)
    BY <2>2, MildWords
  <2>4. R \in Seq(E) /\ R # <<>>
    OBVIOUS
  <2>5. R \in Seq(Item)
    <3>1. h.e \in Item
      BY <2>2 DEF Item
    <3> QED BY <3>1, PunctuationItem, Tuples
  <2> HIDE DEF h, E, R
  <2>6. Renders(h, R, n', W)
    BY <2>1, <2>3, <2>4, FlatRenders
  <2> QED BY <1>1, <2>1, <2>2, <2>5, <2>6, PushRenders DEF h
<1>10. ASSUME NEW c \in {"AND", "OR"}, h.kind \in {"And", "Or"}, Push(emitJoined(h.parts, c, TRUE))
       PROVE  StepText(W)
  <2> DEFINE R == emitJoined(h.parts, c, TRUE)
  <2>1. h \in Expr /\ h.parts \in Seq(Expr)
    BY <1>10, HeadShape DEF ExprShape
  <2>2. R \in Seq(Item)
    <3>1. c \in Word
      BY PunctuationItem
    <3> QED BY <2>1, <3>1, EmitJoinedType
  <2> HIDE DEF h
  <2>3. Renders(h, R, n', W)
    BY <1>10, <2>1, CombinatorRenders
  <2>4. Push(R)
    BY <1>10
  <2> HIDE DEF R
  <2> QED BY <1>1, <2>1, <2>2, <2>3, <2>4, PushRenders DEF h
<1>11. CASE EmitAnd
  <2>1. h.kind \in {"And", "Or"} /\ Push(emitJoined(h.parts, "AND", TRUE))
    BY <1>11 DEF EmitAnd, Now
  <2> QED BY <1>10, <2>1
<1>12. CASE EmitOr
  <2>1. h.kind \in {"And", "Or"} /\ Push(emitJoined(h.parts, "OR", TRUE))
    BY <1>12 DEF EmitOr, Now
  <2> QED BY <1>10, <2>1
<1>13. CASE EmitNot
  <2> DEFINE e == h.e
             R == IF e.kind \in {"And", "Or", "Not"}
                    THEN <<Sym("NOT"), Sym("("), e, Sym(")")>>
                    ELSE <<Sym("NOT"), e>>
  <2>1. h.kind = "Not" /\ Push(R)
    BY <1>13 DEF EmitNot, Now
  <2>2. h \in Expr /\ e \in Expr
    BY <2>1, HeadShape DEF ExprShape
  <2>3. R \in Seq(Item)
    <3>1. e \in Item
      BY <2>2 DEF Item
    <3> HIDE DEF e
    <3>2. <<Sym("NOT"), Sym("("), e, Sym(")")>> \in Seq(Item) /\ <<Sym("NOT"), e>> \in Seq(Item)
      BY <3>1, PunctuationItem, Tuples
    <3> QED BY <3>2
  <2> HIDE DEF h, e
  <2>4. /\ Renders(h, <<Sym("NOT"), e>>, n', W)
        /\ Renders(h, <<Sym("NOT"), Sym("("), e, Sym(")")>>, n', W)
    BY <2>1, <2>2, NotRenders
  <2>5. Renders(h, R, n', W)
    BY <2>4
  <2> HIDE DEF R
  <2> QED BY <1>1, <2>1, <2>2, <2>3, <2>5, PushRenders DEF h
<1>14. CASE EmitRaw
  <2> DEFINE R == replaceQs(h.sql, n + 1, h.args)
  <2>1. h.kind = "Raw" /\ Write(R)
    BY <1>14 DEF EmitRaw, Now
  <2>2. h \in Expr /\ h.sql \in Seq(Word) /\ h.args \in Seq(Bound) /\ n + 1 \in Int
    BY <2>1, HeadShape DEF ExprShape, Written
  <2>3. R \in Seq(Token)
    BY <2>2, ReplaceQsType
  <2> HIDE DEF h
  <2>4. Renders(h, R, n', W)
    BY <2>1, <2>2, RawRenders
  <2> HIDE DEF R
  <2> QED BY <2>1, <2>2, <2>3, <2>4, WriteRenders DEF h
<1> QED BY <1>2, <1>3, <1>4, <1>5, <1>6, <1>7, <1>8, <1>9, <1>11, <1>12, <1>13, <1>14 DEF Next

-----------------------------------------------------------------------------
(* The text to be: what is written, and what is to write in its place *)

Whole == sb \o todo
Filled(M, N, h, k, W) ==
  \/ N = M
  \/ h \in Expr \cup NamedArg /\ \E R \in Seq(Item \cup Token) : Fills(M, N, h, R) /\ Renders(h, R, k, W)

\* A step leaves the whole as it is, or fills in what the head renders to.
LEMMA StepFills ==
  ASSUME NEW S, Item \cup Token \subseteq S, todo \in Seq(S), Head(todo) \in Item, Written, Next,
         NEW W, Encloses(W), Foreign(W)
  PROVE  Filled(Whole, Whole', Head(todo), n', W)
<1> DEFINE h == Head(todo)
           t == Tail(todo)
<1>1. StepText(W)
  BY StepRenders
<1>2. PICK R \in Seq(Item \cup Token) :
        /\ sb' \o todo' = (sb \o R) \o Tail(todo)
        /\ \/ R = <<Head(todo)>> /\ Head(todo).kind = "sym"
           \/ Head(todo) \in Expr \cup NamedArg /\ Renders(Head(todo), R, n', W)
  BY <1>1 DEF StepText
<1>3. todo # <<>>
  BY NextReads
<1>4. h \in S /\ t \in Seq(S) /\ todo = <<h>> \o t
  BY <1>3, HeadTailProperties
<1>5. R \in Seq(S) /\ sb \in Seq(S)
  BY SeqMonotonic DEF Written
<1>6. Whole' = (sb \o R) \o t
  BY <1>2 DEF Whole
<1> HIDE DEF h, t
<1>7. Whole = (sb \o <<h>>) \o t
  <2> DEFINE g == <<h>>
  <2>1. g \in Seq(S) /\ Whole = sb \o (g \o t)
    BY <1>4 DEF Whole
  <2> HIDE DEF g
  <2>2. Associates(sb, g, t)
    BY <1>4, <1>5, <2>1, Associative
  <2>3. Whole = (sb \o g) \o t
    BY <2>1, <2>2 DEF Associates
  <2> QED BY <2>3 DEF g
<1>8. CASE R = <<h>>
  BY <1>6, <1>7, <1>8 DEF Filled
<1>9. CASE h \in Expr \cup NamedArg /\ Renders(h, R, n', W)
  <2>1. Weight(h) = 0 /\ Level(R, Len(R)) = 0
    BY <1>9, TreesWeighNothing DEF Renders, Sealed, Closed
  <2>2. Fills((sb \o <<h>>) \o t, (sb \o R) \o t, h, R)
    BY <1>4, <1>5, <2>1, FillPlaces
  <2>3. Fills(Whole, Whole', h, R)
    BY <1>6, <1>7, <2>2
  <2> QED BY <1>9, <2>3 DEF Filled, h
<1> QED BY <1>2, <1>8, <1>9 DEF h

\* A beginning of a text is at the same levels.
LEMMA Beginning ==
  ASSUME NEW S, NEW s \in Seq(S), NEW t \in Seq(S)
  PROVE  /\ \A i \in 0 .. Len(s) : Level(s \o t, i) = Level(s, i)
         /\ \A i \in DOMAIN s : i \in DOMAIN (s \o t) /\ (s \o t)[i] = s[i]
<1> DEFINE u == s \o t
<1>1. Joins(u, s, t) /\ u \in Seq(S)
  BY ConcatJoins
<1> HIDE DEF u
<1>2. \A i \in DOMAIN s : i \in DOMAIN u /\ u[i] = s[i]
  <2>1. /\ DOMAIN s = 1 .. Len(s) /\ DOMAIN u = 1 .. (Len(s) + Len(t))
        /\ Len(s) \in Nat /\ Len(t) \in Nat
    BY <1>1 DEF Joins
  <2>2. \A i \in 1 .. Len(s) : u[i] = s[i]
    BY <1>1 DEF Joins
  <2> QED BY <2>1, <2>2
<1>3. \A i \in 0 .. Len(s) : Level(u, i) = Level(s, i)
  BY <1>1 DEF Joins
<1> QED BY <1>2, <1>3 DEF u

LEMMA UnmixedBeginning ==
  ASSUME NEW S, NEW s \in Seq(S), NEW t \in Seq(S), Unmixed(s \o t)
  PROVE  Unmixed(s)
<1> DEFINE u == s \o t
<1> SUFFICES ASSUME NEW i \in DOMAIN s, NEW j \in DOMAIN s, s[i] = Sym("AND"), s[j] = Sym("OR"), OneGroup(s, i, j)
             PROVE  FALSE
  BY DEF Unmixed
<1>1. /\ \A k \in 0 .. Len(s) : Level(u, k) = Level(s, k)
      /\ \A k \in DOMAIN s : k \in DOMAIN u /\ u[k] = s[k]
  BY Beginning
<1>2. Unmixed(u)
  OBVIOUS
<1> HIDE DEF u
<1>3. \A k \in (i .. j) \cup (j .. i) : k \in 0 .. Len(s)
  BY LenProperties
<1>4. i \in 0 .. Len(s) /\ j \in 0 .. Len(s)
  BY LenProperties
<1>5. OneGroup(u, i, j)
  BY <1>1, <1>3, <1>4 DEF OneGroup
<1> QED BY <1>1, <1>2, <1>5 DEF Unmixed

\* What fills in keeps the text closed and its connectives apart.
LEMMA FilledKeeps ==
  ASSUME NEW M, NEW N, NEW h, NEW k, NEW W, Filled(M, N, h, k, W), Closed(M)
  PROVE  /\ Closed(N)
         /\ {"AND", "OR"} \subseteq W /\ RawsUnmixed /\ Unmixed(M) => Unmixed(N)
<1>1. CASE N = M
  BY <1>1
<1>2. CASE N # M
  <2>1. PICK R \in Seq(Item \cup Token) : Fills(M, N, h, R) /\ Renders(h, R, k, W)
    BY <1>2 DEF Filled
  <2>2. Closed(R) /\ Outer(R, W)
    BY <2>1 DEF Renders, Sealed
  <2>3. Closed(N)
    BY <2>1, <2>2, ClosedFill
  <2>4. ASSUME {"AND", "OR"} \subseteq W, RawsUnmixed, Unmixed(M) PROVE Unmixed(N)
    <3>1. Unmixed(R)
      BY <2>1, <2>4 DEF Renders
    <3>2. Outer(R, {"AND", "OR"})
      BY <2>2, <2>4 DEF Outer
    <3> QED BY <2>1, <2>2, <2>4, <3>1, <3>2, UnmixedFill
  <2> QED BY <2>3, <2>4
<1> QED BY <1>1, <1>2

ApartInv == Closed(Whole) /\ Unmixed(Whole)

\* expr.go:84-123: the parentheses And and Or write themselves suffice.  If no
\* name, operator or Raw brings an AND or an OR of its own outside parentheses,
\* and no Raw mixes the two, then no AND and no OR ever stand in one group of
\* the text, for every tree and at every step of its rendering.
THEOREM ConnectivesApartInvariant == Encloses({"AND", "OR"}) /\ RawsUnmixed => (Spec => []ConnectivesApart)
<1> SUFFICES ASSUME Encloses({"AND", "OR"}), RawsUnmixed PROVE Spec => []ConnectivesApart
  OBVIOUS
<1> DEFINE Inv == TypeOK /\ ApartInv
           W == {"AND", "OR"}
           S == Item \cup Token
<1>1. Init => ApartInv
  <2> SUFFICES ASSUME Init PROVE ApartInv
    OBVIOUS
  <2>1. PICK e \in Expr : todo = <<e>> /\ sb = <<>>
    BY DEF Init
  <2> DEFINE R == <<e>>
             E == {e}
  <2>2. R \in Seq(E)
    OBVIOUS
  <2>3. Whole = R
    <3>1. todo = R /\ todo \in Seq(E) /\ sb = <<>>
      BY <2>1
    <3> HIDE DEF R, E
    <3> QED BY <3>1 DEF Whole
  <2>4. \A x \in E : (Weight(x) = 0 /\ \A w \in {} : x # Sym(w)) /\ x # Sym("AND")
    BY TreesWeighNothing
  <2> HIDE DEF R, E
  <2>5. Sealed(R, {})
    BY <2>2, <2>4, SealedFlat
  <2>6. Unmixed(R)
    <3> DEFINE c == "AND"
    <3>1. c \in {"AND", "OR"} /\ \A x \in E : x # Sym(c)
      BY <2>4
    <3> HIDE DEF c
    <3> QED BY <2>2, <3>1, OneConnectiveOver
  <2> QED BY <2>3, <2>5, <2>6 DEF ApartInv, Sealed
<1>2. TypeOK /\ ApartInv /\ Next => ApartInv'
  <2> SUFFICES ASSUME TypeOK, ApartInv, Next PROVE ApartInv'
    OBVIOUS
  <2>1. Head(todo) \in Item /\ Written
    BY TypedHead
  <2>2. todo \in Seq(S) /\ Item \cup Token \subseteq S
    BY SeqMonotonic DEF TypeOK
  <2>3. Encloses(W) /\ Foreign(W)
    BY DEF Foreign, Punctuation
  <2>4. {"AND", "OR"} \subseteq W
    OBVIOUS
  <2> HIDE DEF S, W
  <2>5. Filled(Whole, Whole', Head(todo), n', W)
    BY <2>1, <2>2, <2>3, StepFills
  <2>6. Closed(Whole') /\ Unmixed(Whole')
    BY <2>4, <2>5, FilledKeeps DEF ApartInv
  <2> QED BY <2>6 DEF ApartInv
<1>3. ApartInv /\ UNCHANGED vars => ApartInv'
  BY DEF ApartInv, Whole, vars
<1>4. TypeOK /\ ApartInv => ConnectivesApart
  <2> SUFFICES ASSUME TypeOK, Unmixed(Whole) PROVE Unmixed(sb)
    BY DEF ApartInv, ConnectivesApart
  <2>1. sb \in Seq(S) /\ todo \in Seq(S)
    BY SeqMonotonic DEF TypeOK
  <2> HIDE DEF S
  <2> QED BY <2>1, UnmixedBeginning DEF Whole
<1>5. Spec => []TypeOK
  BY TypeCorrect
<1>6. ApartInv /\ TypeOK /\ [Next]_vars => ApartInv'
  BY <1>2, <1>3
<1> QED BY <1>1, <1>4, <1>5, <1>6, PTL DEF Spec
=============================================================================
