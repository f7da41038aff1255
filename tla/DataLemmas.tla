----------------------------- MODULE DataLemmas -----------------------------
(***************************************************************************)
(* Facts about data that the proofs of several components rest on:         *)
(* counting up the natural numbers, and what FlattenSeq makes of a          *)
(* sequence of sequences.                                                   *)
(***************************************************************************)
EXTENDS Integers, SequencesExt, SequenceTheorems, WellFoundedInduction, TLAPS

\* Three parts, put together from the left or from the right.
Associates(a, b, c) == a \o (b \o c) = (a \o b) \o c
LEMMA Associative ==
  ASSUME NEW S, NEW a \in Seq(S), NEW b \in Seq(S), NEW c \in Seq(S)
  PROVE  Associates(a, b, c)
BY ConcatAssociative DEF Associates

\* A non-empty set of natural numbers has a least element.
NatLess == {p \in Nat \X Nat : p[1] < p[2]}
LEMMA LeastNatural ==
  ASSUME NEW T, T \subseteq Nat, T # {}
  PROVE  \E m \in T : \A k \in T : m <= k
<1>1. NatLess \cap (Nat \X Nat) \subseteq OpToRel(<, Nat)
  BY DEF NatLess, OpToRel
<1>2. IsWellFoundedOn(NatLess, Nat)
  BY <1>1, NatLessThanWellFounded, IsWellFoundedOnSubrelation
<1>3. PICK m \in T : \A k \in T : ~(<<k, m>> \in NatLess)
  BY <1>2, WFMin
<1>4. \A k \in T : ~(k < m)
  BY <1>3 DEF NatLess
<1> QED BY <1>4

\* A non-empty set of numbers up to m has a greatest element.
LEMMA GreatestNatural ==
  ASSUME NEW m \in Nat, NEW S, S \subseteq 1 .. m, S # {}
  PROVE  \E x \in S : \A y \in S : y <= x
<1> DEFINE T == {m - j : j \in S}
<1>1. T \subseteq Nat /\ T # {}
  <2>1. \A j \in S : m - j \in Nat
    OBVIOUS
  <2> QED BY <2>1
<1> HIDE DEF T
<1>2. PICK d \in T : \A k \in T : d <= k
  BY <1>1, LeastNatural
<1>3. PICK x \in S : d = m - x
  BY <1>2 DEF T
<1>4. \A y \in S : m - x <= m - y
  BY <1>2, <1>3 DEF T
<1>5. \A y \in S : y <= x
  BY <1>4
<1> QED BY <1>5

\* Induction: what holds of 0 and passes from k to k + 1 holds of every number.
LEMMA Counting ==
  ASSUME NEW S, 0 \in S, \A k \in Nat : k \in S => k + 1 \in S
  PROVE  Nat \subseteq S
<1> SUFFICES ASSUME NEW x \in Nat, x \notin S PROVE FALSE
  OBVIOUS
<1> DEFINE T == Nat \ S
<1>1. T \subseteq Nat /\ T # {}
  OBVIOUS
<1> HIDE DEF T
<1>2. PICK m \in T : \A k \in T : m <= k
  BY <1>1, LeastNatural
<1>3. m # 0 /\ m - 1 \in Nat /\ m - 1 \notin T
  BY <1>1, <1>2 DEF T
<1> QED BY <1>3 DEF T

\* FlattenSeq appends one sequence after the other: its recursion is defined at
\* every length.
LEMMA FlattenSteps ==
  ASSUME NEW S, NEW seqs \in Seq(Seq(S)), Len(seqs) # 0
  PROVE  \E f : /\ FlattenSeq(seqs) = f[Len(seqs)]
                /\ f[1] = seqs[1]
                /\ \A i \in 2 .. Len(seqs) : f[i] = f[i - 1] \o seqs[i]
<1> DEFINE Body(g, i) == IF i = 1 THEN seqs[i] ELSE g[i - 1] \o seqs[i]
           Defined(k) == \E g : g = [i \in 1 .. k |-> Body(g, i)]
           Reached == {k \in Nat : Defined(k)}
           m == Len(seqs)
           f == CHOOSE g : g = [i \in 1 .. m |-> Body(g, i)]
<1>1. 0 \in Reached
  <2> DEFINE g == [i \in 1 .. 0 |-> 0]
  <2>1. g = [i \in 1 .. 0 |-> Body(g, i)]
    OBVIOUS
  <2> QED BY <2>1
<1>2. ASSUME NEW k \in Nat, k \in Reached
      PROVE  k + 1 \in Reached
  <2>1. PICK g : g = [i \in 1 .. k |-> Body(g, i)]
    BY <1>2
  <2>2. \A i \in 1 .. k : g[i] = Body(g, i)
    <3> HIDE DEF Body
    <3> QED BY <2>1
  <2> DEFINE h == [i \in 1 .. (k + 1) |-> IF i = k + 1 THEN Body(g, i) ELSE g[i]]
  <2>3. \A i \in 1 .. (k + 1) : h[i] = Body(h, i)
    <3> TAKE i \in 1 .. (k + 1)
    <3>1. i # 1 => i - 1 \in 1 .. k /\ i - 1 \in DOMAIN h /\ h[i - 1] = g[i - 1]
      OBVIOUS
    <3>2. CASE i = k + 1
      BY <3>1, <3>2
    <3>3. CASE i # k + 1
      <4>1. i \in 1 .. k /\ h[i] = g[i] /\ g[i] = Body(g, i)
        BY <3>3, <2>2
      <4> QED BY <4>1, <3>1
    <3> QED BY <3>2, <3>3
  <2>4. h = [i \in 1 .. (k + 1) |-> h[i]]
    OBVIOUS
  <2> HIDE DEF h
  <2>5. Defined(k + 1)
    BY <2>3, <2>4
  <2> HIDE DEF Defined
  <2> QED BY <2>5
<1>3. Nat \subseteq Reached
  <2> HIDE DEF Reached
  <2> QED BY <1>1, <1>2, Counting
<1>4. m \in Nat /\ m >= 1
  OBVIOUS
<1>5. FlattenSeq(seqs) = f[m]
  BY DEF FlattenSeq
<1>6. f = [i \in 1 .. m |-> Body(f, i)]
  <2>1. Defined(m)
    BY <1>3, <1>4
  <2> QED BY <2>1
<1>7. \A i \in 1 .. m : f[i] = Body(f, i)
  <2> HIDE DEF Body, f
  <2> QED BY <1>6
<1> HIDE DEF f, m
<1>8. f[1] = seqs[1] /\ \A i \in 2 .. m : f[i] = f[i - 1] \o seqs[i]
  <2>1. 1 \in 1 .. m /\ \A i \in 2 .. m : i \in 1 .. m /\ i # 1
    BY <1>4
  <2> QED BY <2>1, <1>7
<1> QED BY <1>5, <1>8 DEF m

\* What is flattened has elements of the parts, and is as long as any of them.
LEMMA FlattenType ==
  ASSUME NEW S, NEW seqs \in Seq(Seq(S))
  PROVE  /\ FlattenSeq(seqs) \in Seq(S)
         /\ \A i \in DOMAIN seqs : Len(FlattenSeq(seqs)) >= Len(seqs[i])
<1>1. CASE Len(seqs) = 0
  BY <1>1 DEF FlattenSeq
<1>2. CASE Len(seqs) # 0
  <2> DEFINE m == Len(seqs)
  <2>1. m \in Nat /\ m >= 1 /\ DOMAIN seqs = 1 .. m /\ \A i \in 1 .. m : seqs[i] \in Seq(S)
    BY <1>2
  <2>2. PICK f : /\ FlattenSeq(seqs) = f[m]
                 /\ f[1] = seqs[1]
                 /\ \A i \in 2 .. m : f[i] = f[i - 1] \o seqs[i]
    BY <1>2, FlattenSteps
  <2> HIDE DEF m
  <2> DEFINE Good(k) == f[k + 1] \in Seq(S) /\ \A i \in 1 .. (k + 1) : Len(f[k + 1]) >= Len(seqs[i])
             Typed == {k \in Nat : k + 1 <= m => Good(k)}
  <2>3. 0 \in Typed
    <3>1. Good(0)
      BY <2>1, <2>2
    <3> HIDE DEF Good
    <3> QED BY <3>1
  <2>4. ASSUME NEW k \in Nat, k \in Typed
        PROVE  k + 1 \in Typed
    <3>1. SUFFICES ASSUME k + 2 <= m PROVE Good(k + 1)
      <4> HIDE DEF Good
      <4> QED OBVIOUS
    <3>2. Good(k)
      <4> HIDE DEF Good
      <4> QED BY <2>4, <3>1, <2>1
    <3>3. seqs[k + 2] \in Seq(S) /\ f[k + 1] \in Seq(S)
      BY <2>1, <3>1, <3>2
    <3>4. f[k + 2] = f[k + 1] \o seqs[k + 2]
      <4>1. k + 2 \in 2 .. m /\ (k + 2) - 1 = k + 1
        BY <2>1, <3>1
      <4> QED BY <4>1, <2>2
    <3>5. f[k + 2] \in Seq(S) /\ Len(f[k + 2]) = Len(f[k + 1]) + Len(seqs[k + 2])
      BY <3>3, <3>4, ConcatProperties
    <3>6. \A i \in 1 .. (k + 2) : Len(f[k + 2]) >= Len(seqs[i])
      <4> TAKE i \in 1 .. (k + 2)
      <4>1. Len(f[k + 1]) \in Nat /\ Len(seqs[k + 2]) \in Nat
        BY <3>3, LenProperties
      <4> HIDE DEF Good, Typed
      <4>2. CASE i = k + 2
        <5> DEFINE a == Len(f[k + 1])
                   b == Len(seqs[k + 2])
        <5>1. Len(f[k + 2]) = a + b /\ Len(seqs[i]) = b /\ a \in Nat /\ b \in Nat
          BY <4>1, <4>2, <3>5
        <5> HIDE DEF a, b
        <5> QED BY <5>1
      <4>3. CASE i # k + 2
        <5>1. i \in 1 .. (k + 1) /\ i \in 1 .. m
          BY <4>3, <3>1, <2>1
        <5>2. Len(f[k + 1]) >= Len(seqs[i]) /\ Len(seqs[i]) \in Nat
          BY <5>1, <3>2, <2>1, LenProperties DEF Good
        <5> DEFINE a == Len(f[k + 1])
                   b == Len(seqs[k + 2])
                   c == Len(seqs[i])
        <5>3. Len(f[k + 2]) = a + b /\ a >= c /\ a \in Nat /\ b \in Nat /\ c \in Nat
          BY <5>2, <4>1, <3>5
        <5> HIDE DEF a, b, c
        <5>4. a + b >= c
          BY <5>3
        <5> QED BY <5>3, <5>4 DEF c
      <4> QED BY <4>2, <4>3
    <3>7. (k + 1) + 1 = k + 2
      OBVIOUS
    <3> QED BY <3>5, <3>6, <3>7
  <2>5. Nat \subseteq Typed
    <3> HIDE DEF Typed
    <3> QED BY <2>3, <2>4, Counting
  <2>6. Good(m - 1)
    <3>1. m - 1 \in Nat /\ (m - 1) + 1 <= m
      BY <2>1
    <3> HIDE DEF Good
    <3> QED BY <3>1, <2>5
  <2>7. (m - 1) + 1 = m
    BY <2>1
  <2> QED BY <2>1, <2>2, <2>6, <2>7
<1> QED BY <1>1, <1>2

\* A concatenation of texts of a kind that concatenation does not leave.
LEMMA FlattenClosed ==
  ASSUME NEW S, NEW P, P \subseteq Seq(S), <<>> \in P, \A s, t \in P : s \o t \in P,
         NEW m \in Nat, NEW seqs, seqs \in [1 .. m -> P]
  PROVE  FlattenSeq(seqs) \in P
<1>1. seqs \in Seq(Seq(S)) /\ Len(seqs) = m
  <2>1. seqs \in Seq(P) /\ Len(seqs) = m
    OBVIOUS
  <2> QED BY <2>1, SeqMonotonic
<1>2. CASE m = 0
  BY <1>1, <1>2 DEF FlattenSeq
<1>3. CASE m # 0
  <2>1. PICK f : /\ FlattenSeq(seqs) = f[m]
                 /\ f[1] = seqs[1]
                 /\ \A i \in 2 .. m : f[i] = f[i - 1] \o seqs[i]
    BY <1>1, <1>3, FlattenSteps
  <2> DEFINE Good == {k \in Nat : k + 1 <= m => f[k + 1] \in P}
  <2>2. 0 \in Good
    BY <1>3, <2>1
  <2>3. ASSUME NEW k \in Nat, k \in Good PROVE k + 1 \in Good
    <3> SUFFICES ASSUME k + 2 <= m PROVE f[k + 2] \in P
      OBVIOUS
    <3>1. f[k + 1] \in P /\ seqs[k + 2] \in P
      BY <2>3
    <3>2. k + 2 \in 2 .. m /\ (k + 2) - 1 = k + 1
      OBVIOUS
    <3>3. f[k + 2] = f[k + 1] \o seqs[k + 2]
      BY <2>1, <3>2
    <3> QED BY <3>1, <3>3
  <2>4. Nat \subseteq Good
    <3> HIDE DEF Good
    <3> QED BY <2>2, <2>3, Counting
  <2>5. m - 1 \in Nat /\ (m - 1) + 1 = m
    BY <1>3
  <2>6. m - 1 \in Good
    BY <2>4, <2>5
  <2>7. f[m] \in P
    BY <2>5, <2>6
  <2> QED BY <2>1, <2>7
<1> QED BY <1>2, <1>3

\* The elements of a concatenation are those of its parts.
LEMMA ConcatElements ==
  ASSUME NEW S, NEW s \in Seq(S), NEW t \in Seq(S)
  PROVE  ToSet(s \o t) = ToSet(s) \cup ToSet(t)
<1> DEFINE u == s \o t
<1>1. /\ DOMAIN s = 1 .. Len(s) /\ Len(s) \in Nat
      /\ DOMAIN t = 1 .. Len(t) /\ Len(t) \in Nat
      /\ DOMAIN u = 1 .. (Len(s) + Len(t))
      /\ \A i \in DOMAIN s : i \in DOMAIN u /\ u[i] = s[i]
      /\ \A i \in DOMAIN t : i + Len(s) \in DOMAIN u /\ u[i + Len(s)] = t[i]
      /\ \A i \in DOMAIN u : i > Len(s) => i - Len(s) \in DOMAIN t /\ u[i] = t[i - Len(s)]
      /\ \A i \in DOMAIN u : ~(i > Len(s)) => i \in DOMAIN s
  OBVIOUS
<1> HIDE DEF u
<1>2. ToSet(u) = ToSet(s) \cup ToSet(t)
  BY <1>1 DEF ToSet
<1> QED BY <1>2 DEF u

\* What is flattened has the elements of the parts and no others.
LEMMA FlattenElements ==
  ASSUME NEW S, NEW seqs \in Seq(Seq(S))
  PROVE  ToSet(FlattenSeq(seqs)) = UNION {ToSet(seqs[i]) : i \in DOMAIN seqs}
<1>1. CASE Len(seqs) = 0
  BY <1>1 DEF FlattenSeq, ToSet
<1>2. CASE Len(seqs) # 0
  <2> DEFINE m == Len(seqs)
             Parts(k) == UNION {ToSet(seqs[i]) : i \in 1 .. k}
  <2>1. m \in Nat /\ m >= 1 /\ DOMAIN seqs = 1 .. m /\ \A i \in 1 .. m : seqs[i] \in Seq(S)
    BY <1>2
  <2>2. PICK f : /\ FlattenSeq(seqs) = f[m]
                 /\ f[1] = seqs[1]
                 /\ \A i \in 2 .. m : f[i] = f[i - 1] \o seqs[i]
    BY <1>2, FlattenSteps
  <2> HIDE DEF m
  <2>3. Parts(0 + 1) = ToSet(seqs[1]) /\ \A k \in Nat : Parts(k + 1) = Parts(k) \cup ToSet(seqs[k + 1])
    <3>1. 1 .. (0 + 1) = {1}
      OBVIOUS
    <3>2. \A k \in Nat : 1 .. (k + 1) = (1 .. k) \cup {k + 1}
      OBVIOUS
    <3> QED BY <3>1, <3>2
  <2> HIDE DEF Parts
  <2> DEFINE Good(k) == f[k + 1] \in Seq(S) /\ ToSet(f[k + 1]) = Parts(k + 1)
             Known == {k \in Nat : k + 1 <= m => Good(k)}
  <2>4. 0 \in Known
    <3>1. Good(0)
      BY <2>1, <2>2, <2>3
    <3> HIDE DEF Good
    <3> QED BY <3>1
  <2>5. ASSUME NEW k \in Nat, k \in Known
        PROVE  k + 1 \in Known
    <3>1. SUFFICES ASSUME k + 2 <= m PROVE Good(k + 1)
      <4> HIDE DEF Good
      <4> QED OBVIOUS
    <3>2. Good(k)
      <4> HIDE DEF Good
      <4> QED BY <2>5, <3>1, <2>1
    <3>3. seqs[k + 2] \in Seq(S) /\ f[k + 1] \in Seq(S)
      BY <2>1, <3>1, <3>2
    <3>4. f[k + 2] = f[k + 1] \o seqs[k + 2]
      <4>1. k + 2 \in 2 .. m /\ (k + 2) - 1 = k + 1
        BY <2>1, <3>1
      <4> QED BY <4>1, <2>2
    <3>5. f[k + 2] \in Seq(S) /\ ToSet(f[k + 2]) = ToSet(f[k + 1]) \cup ToSet(seqs[k + 2])
      BY <3>3, <3>4, ConcatProperties, ConcatElements
    <3>6. (k + 1) + 1 = k + 2 /\ k + 1 \in Nat
      OBVIOUS
    <3>7. Parts(k + 2) = Parts(k + 1) \cup ToSet(seqs[k + 2])
      <4>1. Parts((k + 1) + 1) = Parts(k + 1) \cup ToSet(seqs[(k + 1) + 1])
        BY <2>3, <3>6
      <4> QED BY <4>1, <3>6
    <3> QED BY <3>2, <3>5, <3>6, <3>7
  <2>6. Nat \subseteq Known
    <3> HIDE DEF Known
    <3> QED BY <2>4, <2>5, Counting
  <2>7. Good(m - 1)
    <3>1. m - 1 \in Nat /\ (m - 1) + 1 <= m
      BY <2>1
    <3> HIDE DEF Good
    <3> QED BY <3>1, <2>6
  <2>8. (m - 1) + 1 = m
    BY <2>1
  <2>9. ToSet(f[m]) = Parts(m)
    BY <2>7, <2>8
  <2> HIDE DEF Good, Known
  <2> QED BY <2>1, <2>2, <2>9 DEF Parts
<1> QED BY <1>1, <1>2
-----------------------------------------------------------------------------
\* What Append of one element does to a sequence of unknown elements.
LEMMA AppendOne ==
  ASSUME NEW S, NEW s \in Seq(S), NEW b
  PROVE  /\ Append(s, b) \in Seq(S \cup {b})
         /\ DOMAIN Append(s, b) = DOMAIN s \cup {Len(s) + 1}
         /\ Len(s) + 1 \notin DOMAIN s
         /\ \A i \in DOMAIN s : Append(s, b)[i] = s[i]
         /\ Append(s, b)[Len(s) + 1] = b
<1>1. s \in Seq(S \cup {b})
  OBVIOUS
<1>2. QED
  BY <1>1

\* A list: a sequence, whatever its elements are.
IsList(s) == \E S : s \in Seq(S)

LEMMA ListDomain ==
  ASSUME NEW s, IsList(s)
  PROVE  Len(s) \in Nat /\ DOMAIN s = 1 .. Len(s)
BY DEF IsList

LEMMA AppendList ==
  ASSUME NEW s, IsList(s), NEW x
  PROVE  IsList(Append(s, x)) /\ Len(Append(s, x)) = Len(s) + 1
<1>1. PICK S : s \in Seq(S)
  BY DEF IsList
<1>2. Append(s, x) \in Seq(S \cup {x}) /\ Len(Append(s, x)) = Len(s) + 1
  BY <1>1, AppendOne
<1> QED BY <1>2 DEF IsList

\* A list changed at some places is a list.
LEMMA ChangedList ==
  ASSUME NEW s, IsList(s), NEW t, t = [i \in DOMAIN s |-> t[i]]
  PROVE  IsList(t)
<1> DEFINE T == {t[i] : i \in DOMAIN s}
<1>1. Len(s) \in Nat /\ DOMAIN s = 1 .. Len(s)
  BY ListDomain
<1>2. t \in [1 .. Len(s) -> T]
  BY <1>1
<1> HIDE DEF T
<1>3. t \in Seq(T)
  BY <1>1, <1>2
<1> QED BY <1>3 DEF IsList

\* The greatest of the numbers up to k + 1, if k + 1 is among them.
LEMMA LastIsMax ==
  ASSUME NEW k \in Nat, NEW S \in SUBSET (1 .. (k + 1)), k + 1 \in S
  PROVE  Max(S) = k + 1
<1>1. \A y \in S : k + 1 >= y
  OBVIOUS
<1>2. \A x \in S : (\A y \in S : x >= y) => x = k + 1
  OBVIOUS
<1> QED BY <1>1, <1>2 DEF Max

\* Induction over lists: what holds of the empty list and of a list with one
\* more element holds of every list.
LEMMA ListInduction ==
  ASSUME NEW T, NEW P, <<>> \in P,
         \A s \in Seq(T) : s \in P => \A x \in T : Append(s, x) \in P
  PROVE  Seq(T) \subseteq P
<1> DEFINE Reached == {n \in Nat : \A s \in Seq(T) : Len(s) = n => s \in P}
<1>1. 0 \in Reached
  <2>1. \A s \in Seq(T) : Len(s) = 0 => s = <<>>
    BY EmptySeq
  <2> QED BY <2>1
<1>2. ASSUME NEW n \in Nat, n \in Reached
      PROVE  n + 1 \in Reached
  <2>1. SUFFICES ASSUME NEW s \in Seq(T), Len(s) = n + 1 PROVE s \in P
    OBVIOUS
  <2>2. s # <<>>
    BY <2>1
  <2>3. PICK r \in Seq(T), x \in T : s = Append(r, x)
    BY <2>2, SequenceEmptyOrAppend
  <2>4. Len(r) = n
    BY <2>1, <2>3, AppendProperties
  <2>5. r \in P
    BY <1>2, <2>4
  <2> QED BY <2>3, <2>5
<1>3. Nat \subseteq Reached
  <2> HIDE DEF Reached
  <2> QED BY <1>1, <1>2, Counting
<1>4. \A s \in Seq(T) : Len(s) \in Nat
  OBVIOUS
<1> QED BY <1>3, <1>4

\* One part more is appended to what is flattened.
LEMMA FlattenAppend ==
  ASSUME NEW S, NEW seqs \in Seq(Seq(S)), NEW x \in Seq(S)
  PROVE  FlattenSeq(Append(seqs, x)) = FlattenSeq(seqs) \o x
<1> DEFINE m == Len(seqs)
           more == Append(seqs, x)
           T == Seq(S)
<1>1. /\ m \in Nat /\ more \in Seq(T) /\ Len(more) = m + 1 /\ more[m + 1] = x
      /\ \A i \in 1 .. m : more[i] = seqs[i]
  <2> HIDE DEF T
  <2>1. seqs \in Seq(T) /\ x \in T
    BY DEF T
  <2> QED BY <2>1
<1>2. seqs \in Seq(T)
  OBVIOUS
<1> HIDE DEF m, more
<1>3. PICK g : /\ FlattenSeq(more) = g[m + 1]
               /\ g[1] = more[1]
               /\ \A i \in 2 .. (m + 1) : g[i] = g[i - 1] \o more[i]
  <2>1. Len(more) # 0 /\ more \in Seq(Seq(S))
    BY <1>1
  <2>2. \E g : /\ FlattenSeq(more) = g[Len(more)]
               /\ g[1] = more[1]
               /\ \A i \in 2 .. Len(more) : g[i] = g[i - 1] \o more[i]
    BY <2>1, FlattenSteps
  <2> QED BY <2>2, <1>1
<1>4. CASE m = 0
  <2>1. seqs = <<>>
    BY <1>2, <1>4, EmptySeq DEF m
  <2>2. FlattenSeq(seqs) = <<>>
    BY <2>1 DEF FlattenSeq
  <2>3. <<>> \o x = x
    OBVIOUS
  <2>4. FlattenSeq(more) = x
    BY <1>1, <1>3, <1>4
  <2> QED BY <2>2, <2>3, <2>4 DEF more
<1>5. CASE m # 0
  <2>1. PICK f : /\ FlattenSeq(seqs) = f[m]
                 /\ f[1] = seqs[1]
                 /\ \A i \in 2 .. m : f[i] = f[i - 1] \o seqs[i]
    <3>1. \E f : /\ FlattenSeq(seqs) = f[Len(seqs)]
                 /\ f[1] = seqs[1]
                 /\ \A i \in 2 .. Len(seqs) : f[i] = f[i - 1] \o seqs[i]
      BY <1>5, FlattenSteps DEF m
    <3> QED BY <3>1 DEF m
  <2> DEFINE Same0(k) == f[k + 1] = g[k + 1]
             Reached == {k \in Nat : k + 1 <= m => Same0(k)}
  <2>2. 0 \in Reached
    <3>1. 1 \in 1 .. m
      BY <1>1, <1>5
    <3>2. Same0(0)
      BY <3>1, <1>1, <1>3, <2>1
    <3> HIDE DEF Same0
    <3> QED BY <3>2
  <2>3. ASSUME NEW k \in Nat, k \in Reached
        PROVE  k + 1 \in Reached
    <3>1. SUFFICES ASSUME k + 2 <= m PROVE Same0(k + 1)
      <4> HIDE DEF Same0
      <4> QED OBVIOUS
    <3>2. Same0(k)
      <4> HIDE DEF Same0
      <4> QED BY <1>1, <2>3, <3>1
    <3>3. k + 2 \in 2 .. m /\ k + 2 \in 2 .. (m + 1) /\ k + 2 \in 1 .. m /\ (k + 2) - 1 = k + 1 /\ (k + 1) + 1 = k + 2
      BY <1>1, <3>1
    <3>4. f[k + 2] = f[k + 1] \o seqs[k + 2]
      BY <2>1, <3>3
    <3>5. g[k + 2] = g[k + 1] \o more[k + 2]
      BY <1>3, <3>3
    <3>6. more[k + 2] = seqs[k + 2]
      BY <1>1, <3>3
    <3>7. f[k + 2] = g[k + 2]
      BY <3>2, <3>4, <3>5, <3>6
    <3> QED BY <3>3, <3>7
  <2>4. Nat \subseteq Reached
    <3> HIDE DEF Reached
    <3> QED BY <2>2, <2>3, Counting
  <2>5. m - 1 \in Nat /\ (m - 1) + 1 = m /\ m + 1 \in 2 .. (m + 1) /\ (m + 1) - 1 = m
    BY <1>1, <1>5
  <2>6. Same0(m - 1)
    <3> HIDE DEF Same0
    <3> QED BY <2>4, <2>5
  <2>7. f[m] = g[m]
    BY <2>5, <2>6
  <2>8. g[m + 1] = g[m] \o x
    BY <1>1, <1>3, <2>5
  <2> HIDE DEF Same0, Reached
  <2> QED BY <1>3, <2>1, <2>7, <2>8 DEF more
<1> QED BY <1>4, <1>5

\* One element more behind two lists.
LEMMA AppendBehind ==
  ASSUME NEW T, NEW s \in Seq(T), NEW t \in Seq(T), NEW c \in T
  PROVE  s \o Append(t, c) = Append(s \o t, c)
<1>1. Associates(s, t, <<c>>)
  <2>1. <<c>> \in Seq(T)
    OBVIOUS
  <2> QED BY <2>1, Associative
<1>2. Append(t, c) = t \o <<c>>
  BY AppendIsConcat
<1>3. s \o t \in Seq(T)
  BY ConcatProperties
<1>4. Append(s \o t, c) = (s \o t) \o <<c>>
  BY <1>3, AppendIsConcat
<1> QED BY <1>1, <1>2, <1>4 DEF Associates

\* Of parts that are empty but one, that one is left.
LEMMA FlattenOnly ==
  ASSUME NEW S, NEW seqs \in Seq(Seq(S)), NEW o \in DOMAIN seqs,
         \A i \in DOMAIN seqs : i # o => seqs[i] = <<>>
  PROVE  FlattenSeq(seqs) = seqs[o]
<1> DEFINE m == Len(seqs)
           s == seqs[o]
<1>1. m \in Nat /\ DOMAIN seqs = 1 .. m /\ o \in 1 .. m /\ o \in Nat /\ m # 0
  OBVIOUS
<1>2. s \in Seq(S)
  OBVIOUS
<1>3. s \o <<>> = s /\ <<>> \o s = s /\ <<>> \o <<>> = <<>>
  BY <1>2
<1>4. PICK f : /\ FlattenSeq(seqs) = f[m]
               /\ f[1] = seqs[1]
               /\ \A i \in 2 .. m : f[i] = f[i - 1] \o seqs[i]
  BY <1>1, FlattenSteps
<1> HIDE DEF m, s
<1> DEFINE Good(k) == f[k] = IF k < o THEN <<>> ELSE s
           Reached == {k \in Nat : k + 1 <= m => Good(k + 1)}
<1>5. 0 \in Reached
  <2>1. 1 \in DOMAIN seqs
    BY <1>1
  <2>2. CASE o = 1
    BY <1>4, <2>2 DEF s
  <2>3. CASE o # 1
    <3>1. seqs[1] = <<>> /\ 1 < o
      BY <1>1, <2>1, <2>3
    <3> QED BY <1>4, <3>1
  <2> QED BY <2>2, <2>3
<1>6. ASSUME NEW k \in Nat, k \in Reached
      PROVE  k + 1 \in Reached
  <2> SUFFICES ASSUME (k + 1) + 1 <= m PROVE Good((k + 1) + 1)
    <3> HIDE DEF Good
    <3> QED OBVIOUS
  <2> DEFINE j == k + 1
  <2>1. j \in Nat /\ j <= m /\ j + 1 \in 2 .. m /\ (j + 1) - 1 = j /\ j + 1 \in DOMAIN seqs
    BY <1>1
  <2>2. Good(j)
    <3> HIDE DEF Good
    <3> QED BY <1>6, <2>1
  <2> HIDE DEF j
  <2>3. f[j + 1] = f[j] \o seqs[j + 1]
    BY <1>4, <2>1
  <2>4. CASE j + 1 < o
    <3>0. j < o /\ j + 1 # o
      BY <1>1, <2>1, <2>4
    <3>1. seqs[j + 1] = <<>> /\ j < o
      BY <2>1, <3>0
    <3> QED BY <1>3, <2>2, <2>3, <2>4, <3>1 DEF j
  <2>5. CASE j + 1 = o
    <3>1. seqs[j + 1] = s /\ j < o /\ ~(j + 1 < o)
      BY <1>1, <2>1, <2>5 DEF s
    <3> QED BY <1>3, <2>2, <2>3, <3>1 DEF j
  <2>6. CASE j + 1 > o
    <3>0. ~(j < o) /\ ~(j + 1 < o) /\ j + 1 # o
      BY <1>1, <2>1, <2>6
    <3>1. seqs[j + 1] = <<>> /\ ~(j < o) /\ ~(j + 1 < o)
      BY <2>1, <3>0
    <3> QED BY <1>3, <2>2, <2>3, <3>1 DEF j
  <2> QED BY <1>1, <2>1, <2>4, <2>5, <2>6
<1>7. Nat \subseteq Reached
  <2> HIDE DEF Reached
  <2> QED BY <1>5, <1>6, Counting
<1>8. m - 1 \in Nat /\ (m - 1) + 1 = m
  BY <1>1
<1>9. Good(m)
  <2>1. m - 1 \in Reached
    BY <1>7, <1>8
  <2> HIDE DEF Good
  <2> QED BY <1>1, <1>8, <2>1
<1>10. ~(m < o)
  BY <1>1
<1> QED BY <1>4, <1>9, <1>10 DEF s

\* A list whose elements are in a set.
LEMMA ListOf ==
  ASSUME NEW T, NEW s, IsList(s), \A k \in DOMAIN s : s[k] \in T
  PROVE  s \in Seq(T)
<1>1. Len(s) \in Nat /\ DOMAIN s = 1 .. Len(s) /\ s = [k \in 1 .. Len(s) |-> s[k]]
  BY ListDomain DEF IsList
<1>2. s \in [1 .. Len(s) -> T]
  BY <1>1
<1> QED BY <1>1, <1>2

\* A list changed element by element, with one element more and in two parts.
Mapped(s, F) == [k \in DOMAIN s |-> F[s[k]]]
MapsInto(s, F, V) == Mapped(s, F) \in Seq(V) /\ Len(Mapped(s, F)) = Len(s)
LEMMA MappedType ==
  ASSUME NEW T, NEW V, NEW F \in [T -> V], NEW s \in Seq(T)
  PROVE  MapsInto(s, F, V)
<1>1. Len(s) \in Nat /\ DOMAIN s = 1 .. Len(s) /\ \A k \in 1 .. Len(s) : F[s[k]] \in V
  OBVIOUS
<1>2. Mapped(s, F) \in [1 .. Len(s) -> V]
  BY <1>1 DEF Mapped
<1> QED BY <1>1, <1>2 DEF MapsInto

MapsLast(s, x, F) == Mapped(Append(s, x), F) = Append(Mapped(s, F), F[x])
LEMMA MappedAppend ==
  ASSUME NEW T, NEW V, NEW F \in [T -> V], NEW s \in Seq(T), NEW x \in T
  PROVE  MapsLast(s, x, F)
<1> DEFINE t == Append(s, x)
           l == Mapped(t, F)
           m == Mapped(s, F)
           r == Append(m, F[x])
           n == Len(s)
<1>1. t \in Seq(T) /\ F[x] \in V
  OBVIOUS
<1>2. l \in Seq(V) /\ Len(l) = Len(t) /\ m \in Seq(V) /\ Len(m) = n
  <2>1. MapsInto(s, F, V)
    BY MappedType
  <2> HIDE DEF t
  <2>2. MapsInto(t, F, V)
    BY <1>1, MappedType
  <2> QED BY <2>1, <2>2 DEF MapsInto
<1>3. n \in Nat /\ Len(t) = n + 1 /\ t[n + 1] = x /\ \A k \in 1 .. n : t[k] = s[k]
  OBVIOUS
<1>4. \A k \in 1 .. n : k \in DOMAIN s /\ m[k] = F[s[k]]
  BY DEF Mapped
<1>5. \A k \in 1 .. (n + 1) : l[k] = F[t[k]]
  BY <1>1, <1>3 DEF Mapped
<1> HIDE DEF t, l, m, n
<1>6. r \in Seq(V) /\ Len(r) = n + 1 /\ r[n + 1] = F[x] /\ \A k \in 1 .. n : r[k] = m[k]
  BY <1>1, <1>2, <1>3
<1> HIDE DEF r
<1>7. \A k \in 1 .. (n + 1) : r[k] = l[k]
  <2>1. \A k \in 1 .. (n + 1) : k \in 1 .. n \/ k = n + 1
    BY <1>3
  <2>2. \A k \in 1 .. n : r[k] = l[k]
    BY <1>3, <1>4, <1>5, <1>6
  <2>3. r[n + 1] = l[n + 1]
    BY <1>3, <1>5, <1>6
  <2> QED BY <2>1, <2>2, <2>3
<1>8. l = r
  BY <1>2, <1>3, <1>6, <1>7, SeqEqual
<1> QED BY <1>8 DEF MapsLast, l, r, m, t

MapsApart(s, t, F) == Mapped(s \o t, F) = Mapped(s, F) \o Mapped(t, F)
LEMMA MappedConcat ==
  ASSUME NEW T, NEW V, NEW F \in [T -> V], NEW s \in Seq(T), NEW t \in Seq(T)
  PROVE  MapsApart(s, t, F)
<1> DEFINE P == {u \in Seq(T) : MapsApart(s, u, F)}
           m == Mapped(s, F)
<1>1. m \in Seq(V)
  BY MappedType DEF MapsInto
<1> HIDE DEF m
<1>2. <<>> \in P
  <2>1. Mapped(<<>>, F) = <<>>
    BY DEF Mapped
  <2>2. s \o <<>> = s /\ m \o <<>> = m
    BY <1>1
  <2>3. MapsApart(s, <<>>, F)
    BY <2>1, <2>2 DEF MapsApart, m
  <2> QED BY <2>3
<1>3. ASSUME NEW u \in Seq(T), u \in P, NEW x \in T
      PROVE  Append(u, x) \in P
  <2> DEFINE v == Mapped(u, F)
             w == s \o u
  <2>1. Append(u, x) \in Seq(T) /\ F[x] \in V
    OBVIOUS
  <2>2. v \in Seq(V)
    BY MappedType DEF MapsInto
  <2>3. w \in Seq(T)
    BY ConcatProperties
  <2>4. s \o Append(u, x) = Append(w, x)
    BY AppendBehind
  <2> HIDE DEF v, w
  <2>5. m \o Append(v, F[x]) = Append(m \o v, F[x])
    BY <1>1, <2>1, <2>2, AppendBehind
  <2>6. MapsLast(u, x, F) /\ MapsLast(w, x, F)
    BY <2>3, MappedAppend
  <2>7. Mapped(w, F) = m \o v
    BY <1>3 DEF MapsApart, w, v, m
  <2>8. MapsApart(s, Append(u, x), F)
    BY <2>4, <2>5, <2>6, <2>7 DEF MapsApart, MapsLast, v, m
  <2> QED BY <2>1, <2>8
<1> HIDE DEF P
<1>4. Seq(T) \subseteq P
  BY <1>2, <1>3, ListInduction
<1> QED BY <1>4 DEF P

=============================================================================
