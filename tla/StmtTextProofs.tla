--------------------------- MODULE StmtTextProofs ---------------------------
(***************************************************************************)
(* What stands where in the text of a statement, for any number of          *)
(* builders, predicates and calls with any arguments: AND and OR apart, the *)
(* last page asked for, and a condition behind every WHERE.                 *)
(*                                                                          *)
(* The proofs follow the text to be: what is written, and behind it what is *)
(* still to write.  It is well formed when SQL() has put the clauses there, *)
(* and stays so while its elements, one after the other, give way to what   *)
(* they render to, or to a statement in parentheses.                        *)
(***************************************************************************)
EXTENDS StmtProofs

-----------------------------------------------------------------------------
(* What stands at the top level of a text *)

\* Every w outside parentheses has one of F behind it.
FollowedBy(ts, w, F) == \A i \in TopWord(ts, w) : i + 1 \in DOMAIN ts /\ ts[i + 1] \in F
Bare(ts, w) == TopWord(ts, w) = {}

\* One text after the other: their words and what is behind them stay.
LEMMA FollowedConcat ==
  ASSUME NEW S, NEW s \in Seq(S), NEW t \in Seq(S), Closed(s), NEW w, NEW F,
         FollowedBy(s, w, F), FollowedBy(t, w, F)
  PROVE  /\ FollowedBy(s \o t, w, F)
         /\ Bare(s \o t, w) <=> Bare(s, w) /\ Bare(t, w)
<1> DEFINE u == s \o t
           p == Len(s)
           q == Len(t)
<1>1. Joins(u, s, t)
  BY ConcatJoins
<1>2. Level(s, p) = 0
  BY DEF Closed
<1> HIDE DEF u
<1>3. /\ p \in Nat /\ q \in Nat /\ DOMAIN s = 1 .. p /\ DOMAIN t = 1 .. q /\ DOMAIN u = 1 .. (p + q)
      /\ \A i \in 1 .. p : u[i] = s[i]
      /\ \A i \in 1 .. q : u[p + i] = t[i]
      /\ \A i \in 0 .. p : Level(u, i) = Level(s, i)
      /\ \A i \in 0 .. q : Level(u, p + i) = 0 + Level(t, i)
      /\ \A i \in Nat : Level(t, i) \in Int
  BY <1>1, <1>2 DEF Joins
<1> HIDE DEF p, q
<1>4. ASSUME NEW i \in DOMAIN s
      PROVE  /\ i \in DOMAIN u /\ u[i] = s[i]
             /\ i \in TopWord(u, w) <=> i \in TopWord(s, w)
  <2>1. i \in 1 .. p /\ i \in 0 .. p /\ i \in 1 .. (p + q)
    BY <1>3
  <2> QED BY <2>1, <1>3 DEF TopWord
<1>5. ASSUME NEW i \in DOMAIN t
      PROVE  /\ p + i \in DOMAIN u /\ u[p + i] = t[i]
             /\ p + i \in TopWord(u, w) <=> i \in TopWord(t, w)
  <2>1. i \in 1 .. q /\ i \in 0 .. q /\ p + i \in 1 .. (p + q) /\ i \in Nat
    BY <1>3
  <2>2. Level(u, p + i) = Level(t, i)
    BY <2>1, <1>3
  <2> QED BY <2>1, <2>2, <1>3 DEF TopWord
<1>6. \A i \in DOMAIN u : i \in DOMAIN s \/ (i - p \in DOMAIN t /\ p + (i - p) = i)
  BY <1>3
<1>7. \A i \in TopWord(u, w) : i \in TopWord(s, w) \/ (i - p \in TopWord(t, w) /\ p + (i - p) = i)
  <2>1. \A i \in TopWord(u, w) : i \in DOMAIN u
    BY DEF TopWord
  <2> QED BY <2>1, <1>4, <1>5, <1>6
<1>8. TopWord(s, w) \subseteq DOMAIN s /\ TopWord(t, w) \subseteq DOMAIN t
  BY DEF TopWord
<1>9. FollowedBy(u, w, F)
  <2> SUFFICES ASSUME NEW i \in TopWord(u, w) PROVE i + 1 \in DOMAIN u /\ u[i + 1] \in F
    BY DEF FollowedBy
  <2>1. CASE i \in TopWord(s, w)
    <3>1. i + 1 \in DOMAIN s /\ s[i + 1] \in F
      BY <2>1 DEF FollowedBy
    <3> QED BY <3>1, <1>4
  <2>2. CASE i - p \in TopWord(t, w) /\ p + (i - p) = i
    <3> DEFINE j == i - p
    <3>1. j + 1 \in DOMAIN t /\ t[j + 1] \in F
      BY <2>2 DEF FollowedBy
    <3>2. j \in Int /\ p + (j + 1) = i + 1
      <4>1. i - p \in 1 .. q
        BY <2>2, <1>3, <1>8
      <4> QED BY <4>1, <2>2, <1>3
    <3> HIDE DEF j
    <3>3. p + (j + 1) \in DOMAIN u /\ u[p + (j + 1)] = t[j + 1]
      BY <3>1, <1>5
    <3> QED BY <3>1, <3>2, <3>3
  <2> QED BY <2>1, <2>2, <1>7
<1>10. Bare(u, w) <=> Bare(s, w) /\ Bare(t, w)
  BY <1>4, <1>5, <1>7, <1>8 DEF Bare
<1> QED BY <1>9, <1>10 DEF u

LEMMA GuardedConcat ==
  ASSUME NEW S, NEW s \in Seq(S), NEW t \in Seq(S), NEW x, Guarded(s, x), Guarded(t, x)
  PROVE  Guarded(s \o t, x)
<1> DEFINE u == s \o t
           p == Len(s)
           q == Len(t)
<1>1. Joins(u, s, t)
  BY ConcatJoins
<1> HIDE DEF u
<1>2. /\ p \in Nat /\ q \in Nat /\ DOMAIN s = 1 .. p /\ DOMAIN t = 1 .. q /\ DOMAIN u = 1 .. (p + q)
      /\ \A i \in 1 .. p : u[i] = s[i]
      /\ \A i \in 1 .. q : u[p + i] = t[i]
  BY <1>1 DEF Joins
<1> HIDE DEF p, q
<1> SUFFICES ASSUME NEW i \in DOMAIN u, u[i] = x
             PROVE  i - 1 \in DOMAIN u /\ i + 1 \in DOMAIN u /\ u[i - 1] = Sym("(") /\ u[i + 1] = Sym(")")
  BY DEF Guarded, u
<1>3. CASE i <= p
  <2>1. i \in DOMAIN s /\ s[i] = x
    BY <1>2, <1>3
  <2>2. i - 1 \in DOMAIN s /\ i + 1 \in DOMAIN s /\ s[i - 1] = Sym("(") /\ s[i + 1] = Sym(")")
    BY <2>1 DEF Guarded
  <2> QED BY <1>2, <2>2
<1>4. CASE i > p
  <2> DEFINE j == i - p
  <2>1. j \in Int /\ p + j = i /\ j \in 1 .. q /\ i - 1 = p + (j - 1) /\ i + 1 = p + (j + 1)
    BY <1>2, <1>4
  <2> HIDE DEF j
  <2>2. j \in DOMAIN t /\ t[j] = x
    BY <1>2, <2>1
  <2>3. j - 1 \in DOMAIN t /\ j + 1 \in DOMAIN t /\ t[j - 1] = Sym("(") /\ t[j + 1] = Sym(")")
    BY <2>2 DEF Guarded
  <2>4. p + (j - 1) \in DOMAIN u /\ p + (j + 1) \in DOMAIN u
        /\ u[p + (j - 1)] = Sym("(") /\ u[p + (j + 1)] = Sym(")")
    BY <1>2, <2>3
  <2> QED BY <2>1, <2>4
<1> QED BY <1>2, <1>3, <1>4

-----------------------------------------------------------------------------
(* What filling in does to them *)

\* A word and what is behind it keep standing, when the new text begins with
\* what may stand there and brings no such word to the top level itself.
LEMMA FollowedFill ==
  ASSUME NEW M, NEW N, NEW h, NEW R, Fills(M, N, h, R), Closed(M), Closed(R),
         NEW w, w # "(", h # Sym(w), NEW F, FollowedBy(M, w, F),
         \/ Guarded(M, h)
         \/ Outer(R, {w}) /\ (h \in F => 1 \in DOMAIN R /\ R[1] \in F)
  PROVE  /\ FollowedBy(N, w, F)
         /\ Bare(N, w) <=> Bare(M, w)
<1>1. PICK A \in Nat, T \in Nat : FillsAt(M, N, h, R, A, T)
  BY DEF Fills
<1> DEFINE r == Len(R)
<1>2. /\ DOMAIN M = 1 .. (A + 1 + T) /\ DOMAIN N = 1 .. (A + r + T) /\ DOMAIN R = 1 .. r /\ r \in Nat
      /\ M[A + 1] = h
      /\ \A i \in 1 .. A : N[i] = M[i]
      /\ \A i \in 1 .. r : N[A + i] = R[i]
      /\ \A i \in 1 .. T : N[A + r + i] = M[A + 1 + i]
      /\ \A i \in 0 .. A : Level(N, i) = Level(M, i)
      /\ \A i \in 0 .. r : Level(N, A + i) = Level(M, A) + Level(R, i)
      /\ \A i \in 0 .. T : Level(N, A + r + i) = Level(M, A + 1 + i)
      /\ \A i \in Nat : Level(M, i) \in Int /\ Level(R, i) \in Int
      /\ Level(M, 0) = 0
  BY <1>1 DEF FillsAt
<1> HIDE DEF r
<1>3. /\ DOMAIN M = 1 .. (A + 1 + T) /\ DOMAIN N = 1 .. (A + r + T) /\ r \in Nat
      /\ Level(M, 0) = 0 /\ 0 >= 0
  BY <1>2
<1>4. ASSUME NEW i \in 1 .. A
      PROVE  i \in TopWord(N, w) <=> i \in TopWord(M, w)
  <2>1. i \in DOMAIN M /\ i \in DOMAIN N /\ i \in 0 .. A
    BY <1>2
  <2> QED BY <2>1, <1>2 DEF TopWord
<1>5. ASSUME NEW i \in 1 .. T
      PROVE  A + r + i \in TopWord(N, w) <=> A + 1 + i \in TopWord(M, w)
  <2>1. A + 1 + i \in DOMAIN M /\ A + r + i \in DOMAIN N /\ i \in 0 .. T
    BY <1>2
  <2> QED BY <2>1, <1>2 DEF TopWord
<1>6. ASSUME NEW i \in 1 .. r
      PROVE  A + i \notin TopWord(N, w)
  <2>1. i \in DOMAIN R /\ i \in 0 .. r /\ i \in Nat /\ A \in Nat
    BY <1>2
  <2>2. Level(R, i) \in Int /\ Level(M, A) \in Int /\ Level(R, i) >= 0 /\ Level(N, A + i) = Level(M, A) + Level(R, i)
        /\ N[A + i] = R[i]
    BY <2>1, <1>2 DEF Closed
  <2>3. CASE Guarded(M, h)
    <3>1. Between(M, N, R, A, T)
      BY <1>1, <2>3, GuardedFill
    <3>2. A >= 1 /\ Level(N, A - 1) = Level(M, A) - 1
      BY <3>1 DEF Between
    <3>3. A - 1 \in 0 .. A /\ (A - 1 = 0 \/ A - 1 \in DOMAIN M) /\ A - 1 \in Nat
      BY <3>2, <1>2
    <3>4. Level(M, A - 1) >= 0 /\ Level(M, A - 1) = Level(M, A) - 1
      <4>1. \A k \in DOMAIN M : Level(M, k) >= 0
        BY DEF Closed
      <4>2. Level(M, A - 1) >= 0
        <5> DEFINE k == A - 1
        <5>1. k = 0 \/ k \in DOMAIN M
          BY <3>3
        <5> HIDE DEF k
        <5>2. Level(M, k) >= 0
          BY <4>1, <5>1, <1>3
        <5> QED BY <5>2 DEF k
      <4>3. Level(N, A - 1) = Level(M, A - 1)
        BY <3>3, <1>2
      <4> QED BY <3>2, <4>2, <4>3
    <3>5. Level(M, A) >= 1
      BY <2>2, <3>4
    <3> DEFINE x == Level(M, A)
               y == Level(R, i)
    <3>6. x \in Int /\ y \in Int /\ x >= 1 /\ y >= 0 /\ Level(N, A + i) = x + y
      BY <2>2, <3>5
    <3> HIDE DEF x, y
    <3>7. Level(N, A + i) # 0
      BY <3>6
    <3> QED BY <3>7 DEF TopWord
  <2>4. CASE Outer(R, {w})
    <3>1. Level(M, A) >= 0
      <4>1. A = 0 \/ A \in DOMAIN M
        BY <1>3
      <4>2. \A k \in DOMAIN M : Level(M, k) >= 0
        BY DEF Closed
      <4> QED BY <4>1, <4>2, <1>3
    <3> SUFFICES ASSUME A + i \in TopWord(N, w) PROVE FALSE
      OBVIOUS
    <3>2. Level(N, A + i) = 0 /\ R[i] = Sym(w)
      BY <2>2 DEF TopWord
    <3> DEFINE x == Level(M, A)
               y == Level(R, i)
    <3>3. x \in Int /\ y \in Int /\ x >= 0 /\ y >= 0 /\ 0 = x + y
      BY <2>2, <3>1, <3>2
    <3> HIDE DEF x, y
    <3>4. y = 0
      BY <3>3
    <3>5. Level(R, i) = 0
      BY <3>4 DEF y
    <3> QED BY <2>1, <2>4, <3>2, <3>5 DEF Outer
  <2> QED BY <2>3, <2>4
<1>7. A + 1 \notin TopWord(M, w)
  BY <1>2 DEF TopWord
<1>8. /\ \A i \in DOMAIN N : \/ i \in 1 .. A
                             \/ (i - A \in 1 .. r /\ A + (i - A) = i)
                             \/ (i - (A + r) \in 1 .. T /\ A + r + (i - (A + r)) = i)
      /\ \A i \in DOMAIN M : \/ i \in 1 .. A
                             \/ i = A + 1
                             \/ (i - (A + 1) \in 1 .. T /\ A + 1 + (i - (A + 1)) = i)
  <2>1. ASSUME NEW i \in DOMAIN N
        PROVE  \/ i \in 1 .. A
               \/ (i - A \in 1 .. r /\ A + (i - A) = i)
               \/ (i - (A + r) \in 1 .. T /\ A + r + (i - (A + r)) = i)
    <3>1. i \in Int /\ i >= 1 /\ i <= A + r + T
      BY <1>3
    <3>2. CASE i <= A
      BY <3>1, <3>2
    <3>3. CASE i > A /\ i <= A + r
      BY <3>1, <3>3, <1>3
    <3>4. CASE i > A + r
      BY <3>1, <3>4, <1>3
    <3> QED BY <3>1, <3>2, <3>3, <3>4, <1>3
  <2>2. ASSUME NEW i \in DOMAIN M
        PROVE  \/ i \in 1 .. A
               \/ i = A + 1
               \/ (i - (A + 1) \in 1 .. T /\ A + 1 + (i - (A + 1)) = i)
    <3>1. i \in Int /\ i >= 1 /\ i <= A + 1 + T
      BY <1>3
    <3> QED BY <3>1
  <2> QED BY <2>1, <2>2
<1>9. \A i \in TopWord(N, w) : \/ i \in 1 .. A /\ i \in TopWord(M, w)
                               \/ \E j \in 1 .. T : i = A + r + j /\ A + 1 + j \in TopWord(M, w)
  <2> TAKE i \in TopWord(N, w)
  <2>1. i \in DOMAIN N
    BY DEF TopWord
  <2> QED BY <2>1, <1>4, <1>5, <1>6, <1>8
<1>10. \A i \in TopWord(M, w) : \/ i \in 1 .. A /\ i \in TopWord(N, w)
                                \/ \E j \in 1 .. T : i = A + 1 + j /\ A + r + j \in TopWord(N, w)
  <2> TAKE i \in TopWord(M, w)
  <2>1. i \in DOMAIN M
    BY DEF TopWord
  <2> QED BY <2>1, <1>4, <1>5, <1>7, <1>8
<1>11. FollowedBy(N, w, F)
  <2> SUFFICES ASSUME NEW i \in TopWord(N, w) PROVE i + 1 \in DOMAIN N /\ N[i + 1] \in F
    BY DEF FollowedBy
  <2>1. CASE i \in 1 .. A /\ i \in TopWord(M, w)
    <3>1. i + 1 \in DOMAIN M /\ M[i + 1] \in F /\ M[i] = Sym(w)
      BY <2>1 DEF FollowedBy, TopWord
    <3>2. CASE i < A
      <4>1. i + 1 \in 1 .. A /\ i + 1 \in 1 .. (A + r + T)
        BY <2>1, <3>2, <1>2
      <4>2. N[i + 1] = M[i + 1] /\ i + 1 \in DOMAIN N
        BY <4>1, <1>2
      <4> QED BY <3>1, <4>2
    <3>3. CASE i = A
      <4>1. h \in F /\ M[A] = Sym(w)
        BY <3>1, <3>3, <1>2
      <4>2. ~Guarded(M, h)
        <5> SUFFICES ASSUME Guarded(M, h) PROVE FALSE
          OBVIOUS
        <5>1. A + 1 \in DOMAIN M /\ M[A + 1] = h /\ (A + 1) - 1 = A
          BY <1>2
        <5> DEFINE k == A + 1
        <5>2. k \in DOMAIN M /\ M[k] = h
          BY <5>1
        <5> HIDE DEF k
        <5>3. M[k - 1] = Sym("(")
          BY <5>2 DEF Guarded
        <5>4. M[A] = Sym("(")
          BY <5>1, <5>3 DEF k
        <5> QED BY <4>1, <5>4, TreesWeighNothing
      <4>3. 1 \in DOMAIN R /\ R[1] \in F
        BY <4>1, <4>2
      <4>4. A + 1 \in DOMAIN N /\ N[A + 1] = R[1]
        BY <4>3, <1>2
      <4> QED BY <3>3, <4>3, <4>4
    <3> QED BY <2>1, <3>2, <3>3
  <2>2. CASE \E j \in 1 .. T : i = A + r + j /\ A + 1 + j \in TopWord(M, w)
    <3>1. PICK j \in 1 .. T : i = A + r + j /\ A + 1 + j \in TopWord(M, w)
      BY <2>2
    <3>2. (A + 1 + j) + 1 \in DOMAIN M /\ M[(A + 1 + j) + 1] \in F
      BY <3>1 DEF FollowedBy
    <3>3. j + 1 \in 1 .. T /\ (A + 1 + j) + 1 = A + 1 + (j + 1) /\ i + 1 = A + r + (j + 1)
      BY <3>1, <3>2, <1>3
    <3>4. N[A + r + (j + 1)] = M[A + 1 + (j + 1)]
      BY <3>3, <1>2
    <3>5. A + r + (j + 1) \in DOMAIN N
      BY <3>3, <1>3
    <3> QED BY <3>2, <3>3, <3>4, <3>5
  <2> QED BY <2>1, <2>2, <1>9
<1>12. Bare(N, w) <=> Bare(M, w)
  BY <1>9, <1>10 DEF Bare
<1> QED BY <1>11, <1>12

LEMMA GuardedStays ==
  ASSUME NEW M, NEW N, NEW h, NEW R, Fills(M, N, h, R), h # Sym("("), h # Sym(")"),
         NEW x, Guarded(M, x), Guarded(R, x)
  PROVE  Guarded(N, x)
<1>1. PICK A \in Nat, T \in Nat : FillsAt(M, N, h, R, A, T)
  BY DEF Fills
<1> DEFINE r == Len(R)
<1>2. /\ DOMAIN M = 1 .. (A + 1 + T) /\ DOMAIN N = 1 .. (A + r + T) /\ DOMAIN R = 1 .. r /\ r \in Nat
      /\ M[A + 1] = h
      /\ \A i \in 1 .. A : N[i] = M[i]
      /\ \A i \in 1 .. r : N[A + i] = R[i]
      /\ \A i \in 1 .. T : N[A + r + i] = M[A + 1 + i]
  BY <1>1 DEF FillsAt
<1> HIDE DEF r
<1> SUFFICES ASSUME NEW i \in DOMAIN N, N[i] = x
             PROVE  i - 1 \in DOMAIN N /\ i + 1 \in DOMAIN N /\ N[i - 1] = Sym("(") /\ N[i + 1] = Sym(")")
  BY DEF Guarded
<1>3. CASE i <= A
  <2>1. i \in 1 .. A /\ i \in DOMAIN M /\ M[i] = x
    BY <1>2, <1>3
  <2>2. i - 1 \in DOMAIN M /\ i + 1 \in DOMAIN M /\ M[i - 1] = Sym("(") /\ M[i + 1] = Sym(")")
    BY <2>1 DEF Guarded
  <2>3. i + 1 # A + 1
    BY <2>2, <1>2
  <2>4. i - 1 \in 1 .. A /\ i + 1 \in 1 .. A
    BY <2>1, <2>2, <2>3, <1>2
  <2> QED BY <2>2, <2>4, <1>2
<1>4. CASE i > A /\ i <= A + r
  <2> DEFINE j == i - A
  <2>1. j \in Int /\ A + j = i /\ j \in 1 .. r /\ i - 1 = A + (j - 1) /\ i + 1 = A + (j + 1)
    BY <1>2, <1>4
  <2> HIDE DEF j
  <2>2. j \in DOMAIN R /\ R[j] = x
    BY <1>2, <2>1
  <2>3. j - 1 \in DOMAIN R /\ j + 1 \in DOMAIN R /\ R[j - 1] = Sym("(") /\ R[j + 1] = Sym(")")
    BY <2>2 DEF Guarded
  <2>4. A + (j - 1) \in DOMAIN N /\ A + (j + 1) \in DOMAIN N
        /\ N[A + (j - 1)] = Sym("(") /\ N[A + (j + 1)] = Sym(")")
    BY <1>2, <2>3
  <2> QED BY <2>1, <2>4
<1>5. CASE i > A + r
  <2> DEFINE j == i - (A + r)
             k == A + 1 + j
  <2>1. /\ j \in Int /\ A + r + j = i /\ j \in 1 .. T /\ i - 1 = A + r + (j - 1) /\ i + 1 = A + r + (j + 1)
        /\ k \in DOMAIN M /\ k - 1 = A + 1 + (j - 1) /\ k + 1 = A + 1 + (j + 1) /\ k \in Int
    <3>1. i \in Int /\ i <= A + r + T
      BY <1>2
    <3>2. j \in Int /\ j >= 1 /\ j <= T
      BY <3>1, <1>2, <1>5
    <3>3. A + r + j = i /\ k \in Int /\ k = A + 1 + j
      BY <3>1, <1>2
    <3> HIDE DEF j, k
    <3>4. k >= 1 /\ k <= A + 1 + T
      BY <3>2, <3>3
    <3> QED BY <3>2, <3>3, <3>4, <1>2
  <2>2. k = A + 1 + j
    OBVIOUS
  <2> HIDE DEF j, k
  <2>3. M[k] = x
    BY <1>2, <2>1, <2>2
  <2>4. k - 1 \in DOMAIN M /\ k + 1 \in DOMAIN M /\ M[k - 1] = Sym("(") /\ M[k + 1] = Sym(")")
    BY <2>1, <2>3 DEF Guarded
  <2>5. k - 1 # A + 1
    BY <2>4, <1>2
  <2>6. j - 1 \in 1 .. T /\ j + 1 \in 1 .. T
    BY <2>1, <2>4, <2>5, <1>2
  <2>7. /\ A + r + (j - 1) \in DOMAIN N /\ N[A + r + (j - 1)] = M[A + 1 + (j - 1)]
        /\ A + r + (j + 1) \in DOMAIN N /\ N[A + r + (j + 1)] = M[A + 1 + (j + 1)]
    BY <1>2, <2>6
  <2> QED BY <2>1, <2>4, <2>7
<1> QED BY <1>2, <1>3, <1>4, <1>5

-----------------------------------------------------------------------------
(* What a statement's emit method goes through is well formed *)

\* Whatever statement is among the elements stands in parentheses of its own.
Fenced(ts) == \A b \in Builder : Guarded(ts, Sub(b))

\* A page word has its number behind it, and stands there only for a page.
PageForms(l) == {PageLit(l)} \cup {Placeholder(k, l) : k \in Int}
Paged(ts, w, l) == IF l = Nil THEN Bare(ts, w) ELSE ~Bare(ts, w) /\ FollowedBy(ts, w, PageForms(l))

\* A CTE is no tree and no token.
LEMMA SubsAreApart ==
  \A b : Weight(Sub(b)) = 0 /\ (\A w : Sub(b) # Sym(w)) /\ Sub(b) \notin Item \cup Token
<1>1. \A b : Sub(b).kind = "Stmt"
  BY DEF Sub
<1>2. \A w : Sym(w).kind = "sym"
  BY DEF Sym
<1>3. \A x \in Item \cup Token : x.kind # "Stmt"
  BY ExprAssumption DEF Item, NamedArg, Text, Token, ExprShape
<1> QED BY <1>1, <1>2, <1>3 DEF Weight

\* Texts without a word, and texts without a CTE.
LEMMA BareWithout ==
  ASSUME NEW E, NEW t \in Seq(E), NEW w, Sym(w) \notin E, NEW F
  PROVE  Bare(t, w) /\ FollowedBy(t, w, F)
<1>1. \A i \in DOMAIN t : t[i] \in E
  OBVIOUS
<1>2. TopWord(t, w) = {}
  BY <1>1 DEF TopWord
<1> QED BY <1>2 DEF Bare, FollowedBy

LEMMA FencedWithout ==
  ASSUME NEW E, E \subseteq Item \cup Token, NEW t \in Seq(E)
  PROVE  Fenced(t)
<1>1. \A i \in DOMAIN t : t[i] \in E
  OBVIOUS
<1> QED BY <1>1, SubsAreApart DEF Fenced, Guarded

LEMMA FencedConcat ==
  ASSUME NEW S, NEW s \in Seq(S), NEW t \in Seq(S), Fenced(s), Fenced(t)
  PROVE  Fenced(s \o t)
<1> SUFFICES ASSUME NEW b \in Builder PROVE Guarded(s \o t, Sub(b))
  BY DEF Fenced
<1> DEFINE x == Sub(b)
<1>1. Guarded(s, x) /\ Guarded(t, x)
  BY DEF Fenced
<1> HIDE DEF x
<1>2. Guarded(s \o t, x)
  BY <1>1, GuardedConcat
<1> QED BY <1>2 DEF x

\* The parts of a statement, over some elements: closed, every WHERE before a
\* condition.  Pages aside, they hold no OR and no word of a page.
Pieces(E) == {t \in Seq(E) : Closed(t) /\ Fenced(t) /\ FollowedBy(t, "WHERE", Expr)}
Parts(B) == Pending(B) \ {Sym(w) : w \in {"OR"} \cup PageWords}

LEMMA PiecesWiden ==
  ASSUME NEW D, NEW E, D \subseteq E
  PROVE  Pieces(D) \subseteq Pieces(E)
BY SeqMonotonic DEF Pieces

LEMMA PartsFacts ==
  ASSUME NEW B
  PROVE  /\ Expr \subseteq Parts(B) /\ \A b \in B : Sub(b) \in Parts(B)
         /\ Sym("(") \in Parts(B) /\ Sym(")") \in Parts(B) /\ Sym("WHERE") \in Parts(B) /\ Sym("AND") \in Parts(B)
         /\ NamesApart => Plain \subseteq Parts(B)
<1>1. \A w \in {"(", ")", "AND", "WHERE"} : Sym(w) \in Item /\ w \notin {"OR"} \cup PageWords
  BY StatementWord DEF Punctuation, StatementWords, PageWords
<1>2. \A w \in {"OR"} \cup PageWords : \A v : v # w => Sym(v) # Sym(w)
  BY TreesWeighNothing
<1>3. \A w \in {"(", ")", "AND", "WHERE"} : Sym(w) \in Parts(B)
  BY <1>1, <1>2 DEF Parts, Pending
<1>4. Expr \subseteq Parts(B)
  BY TreesWeighNothing DEF Parts, Pending, Item
<1>5. \A b \in B : Sub(b) \in Parts(B)
  BY SubsAreApart DEF Parts, Pending
<1>6. ASSUME NamesApart, NEW w \in PlainWords
      PROVE  Sym(w) \in Parts(B)
  <2>1. w \notin {"OR"} \cup PageWords
    BY <1>6 DEF PlainWords, NamesApart, PageWords, StatementWords
  <2>2. Sym(w) \in Item
    BY PlainFacts
  <2> QED BY <1>2, <2>1, <2>2 DEF Parts, Pending
<1> QED BY <1>3, <1>4, <1>5, <1>6 DEF Plain

\* Elements that weigh nothing and are no WHERE.
LEMMA FlatPiece ==
  ASSUME NEW E, E \subseteq Item, \A x \in E : Weight(x) = 0, Sym("WHERE") \notin E,
         NEW t \in Seq(E)
  PROVE  t \in Pieces(E)
<1>1. Closed(t)
  <2>1. \A x \in E : Weight(x) = 0 /\ \A w \in {} : x # Sym(w)
    OBVIOUS
  <2>2. Sealed(t, {})
    BY <2>1, SealedFlat
  <2> QED BY <2>2 DEF Sealed
<1>2. Fenced(t)
  BY FencedWithout
<1>3. FollowedBy(t, "WHERE", Expr)
  <2> DEFINE w == "WHERE"
             F == Expr
  <2>1. Sym(w) \notin E
    OBVIOUS
  <2> HIDE DEF w, F
  <2>2. FollowedBy(t, w, F)
    BY <2>1, BareWithout
  <2> QED BY <2>2 DEF w, F
<1> QED BY <1>1, <1>2, <1>3 DEF Pieces

LEMMA PieceConcat ==
  ASSUME NEW S, NEW s \in Pieces(S), NEW t \in Pieces(S)
  PROVE  s \o t \in Pieces(S)
<1> DEFINE w == "WHERE"
           F == Expr
<1>1. s \in Seq(S) /\ t \in Seq(S) /\ Closed(s) /\ Closed(t) /\ Fenced(s) /\ Fenced(t)
      /\ FollowedBy(s, w, F) /\ FollowedBy(t, w, F)
  BY DEF Pieces
<1> HIDE DEF w, F
<1>2. FollowedBy(s \o t, w, F)
  BY <1>1, FollowedConcat
<1>3. Fenced(s \o t)
  BY <1>1, FencedConcat
<1>4. Sealed(s, {}) /\ Sealed(t, {})
  BY <1>1 DEF Sealed, Outer
<1>5. s \o t \in Seq(S) /\ Sealed(s \o t, {})
  BY <1>1, <1>4, SealedConcat
<1> QED BY <1>2, <1>3, <1>5 DEF Pieces, Sealed, w, F

\* Parentheses around a closed text, or around a CTE.
LEMMA PieceInParens ==
  ASSUME NEW B, NEW s \in Seq(Parts(B)), Closed(s),
         Fenced(s) \/ \E b : s = <<Sub(b)>>
  PROVE  InParens(s) \in Pieces(Parts(B))
<1> DEFINE S == Parts(B)
           a == <<Sym("(")>>
           c == <<Sym(")")>>
           W == {"WHERE"}
           v == (a \o s) \o c
<1>1. InParens(s) = v
  BY DEF InParens
<1>2. Sym("(") \in S /\ Sym(")") \in S /\ s \in Seq(S)
  BY PartsFacts
<1>3. v \in Seq(S) /\ Sealed(v, W)
  <2>1. ")" \notin W
    OBVIOUS
  <2> HIDE DEF S, W
  <2> QED BY <1>2, <2>1, SealedParens
<1>4. a \in Seq(S) /\ c \in Seq(S) /\ Len(a) = 1 /\ Len(c) = 1 /\ a[1] = Sym("(") /\ c[1] = Sym(")")
  BY <1>2
<1>5. Fenced(a) /\ Fenced(c)
  <2>1. /\ \A i \in DOMAIN a : a[i] = Sym("(")
        /\ \A i \in DOMAIN c : c[i] = Sym(")")
    OBVIOUS
  <2> HIDE DEF a, c
  <2> QED BY <2>1, SubsAreApart DEF Fenced, Guarded
<1> HIDE DEF a, c, S
<1>6. ASSUME Fenced(s) PROVE Fenced(v)
  <2>1. a \o s \in Seq(S) /\ Fenced(a \o s)
    BY <1>2, <1>4, <1>5, <1>6, FencedConcat
  <2>2. Fenced(v)
    BY <2>1, <1>4, <1>5, FencedConcat
  <2> QED BY <2>2
<1>7. ASSUME NEW b, s = <<Sub(b)>>
      PROVE  Fenced(v)
  <2>1. Len(s) = 1 /\ s[1] = Sub(b)
    BY <1>7
  <2>2. Len(v) = 3 /\ v[1] = Sym("(") /\ v[2] = Sub(b) /\ v[3] = Sym(")") /\ DOMAIN v = 1 .. 3
    <3> DEFINE u == a \o s
    <3>1. u \in Seq(S) /\ Joins(u, a, s)
      BY <1>2, <1>4, ConcatJoins
    <3> HIDE DEF u
    <3>2. Joins(u \o c, u, c)
      BY <1>4, <3>1, ConcatJoins
    <3>3. Len(u) = 2 /\ u[1] = Sym("(") /\ u[2] = Sub(b)
      <4>1. /\ Len(u) = Len(a) + Len(s)
            /\ \A i \in 1 .. Len(a) : u[i] = a[i]
            /\ \A i \in 1 .. Len(s) : u[Len(a) + i] = s[i]
        BY <3>1 DEF Joins
      <4>2. 1 \in 1 .. Len(a) /\ 1 \in 1 .. Len(s)
        BY <1>4, <2>1
      <4>3. u[1] = a[1] /\ u[1 + 1] = s[1]
        BY <4>1, <4>2, <1>4
      <4> QED BY <4>1, <4>3, <1>4, <2>1
    <3>4. /\ DOMAIN (u \o c) = 1 .. (Len(u) + Len(c)) /\ Len(u \o c) = Len(u) + Len(c)
          /\ \A i \in 1 .. Len(u) : (u \o c)[i] = u[i]
          /\ \A i \in 1 .. Len(c) : (u \o c)[Len(u) + i] = c[i]
      BY <3>2 DEF Joins
    <3>5. 1 \in 1 .. Len(u) /\ 2 \in 1 .. Len(u) /\ 1 \in 1 .. Len(c)
      BY <1>4, <3>3
    <3>6. (u \o c)[1] = u[1] /\ (u \o c)[2] = u[2] /\ (u \o c)[2 + 1] = c[1]
      BY <3>3, <3>4, <3>5
    <3> QED BY <1>4, <3>3, <3>4, <3>6 DEF u
  <2> HIDE DEF v
  <2>3. ASSUME NEW d \in Builder, NEW i \in DOMAIN v, v[i] = Sub(d)
        PROVE  i - 1 \in DOMAIN v /\ i + 1 \in DOMAIN v /\ v[i - 1] = Sym("(") /\ v[i + 1] = Sym(")")
    <3>1. v[i] # Sym("(") /\ v[i] # Sym(")")
      BY <2>3, SubsAreApart
    <3>2. i = 2
      BY <2>2, <3>1
    <3> QED BY <2>2, <3>2
  <2> QED BY <2>3 DEF Fenced, Guarded
<1>8. Fenced(v)
  BY <1>6, <1>7
<1>9. FollowedBy(v, "WHERE", Expr)
  <2>1. TopWord(v, "WHERE") = {}
    <3> HIDE DEF v
    <3> QED BY <1>3 DEF Sealed, Outer, TopWord
  <2> QED BY <2>1 DEF FollowedBy
<1> HIDE DEF v
<1> QED BY <1>1, <1>3, <1>8, <1>9 DEF Pieces, Sealed, S

\* A condition behind its WHERE.
LEMMA PieceWhere ==
  ASSUME NEW B, NEW es \in Seq(Expr), es # <<>>
  PROVE  <<Sym("WHERE")>> \o Joined(es, Sym("AND")) \in Pieces(Parts(B))
<1> DEFINE J == Joined(es, Sym("AND"))
           a == <<Sym("WHERE")>>
           E == Expr \cup {Sym("AND")}
           H == E \cup {Sym("WHERE")}
           u == a \o J
<1>1. J \in Seq(E)
  BY ConditionType
<1>2. /\ DOMAIN J = 1 .. (2 * Len(es) - 1) /\ J[1] = es[1] /\ es[1] \in Expr /\ 1 \in DOMAIN J
  <2>1. Len(es) \in Nat /\ Len(es) >= 1 /\ DOMAIN es = 1 .. Len(es)
    <3>1. Len(es) \in Nat /\ Len(es) # 0 /\ DOMAIN es = 1 .. Len(es)
      OBVIOUS
    <3> QED BY <3>1
  <2> DEFINE m == Len(es)
  <2> HIDE DEF m
  <2>2. 1 \in 1 .. (2 * m - 1) /\ 1 % 2 = 1 /\ (1 + 1) \div 2 = 1
    BY <2>1 DEF m
  <2>3. J = [i \in 1 .. (2 * m - 1) |-> IF i % 2 = 1 THEN es[(i + 1) \div 2] ELSE Sym("AND")]
    BY DEF Joined, m
  <2> HIDE DEF J
  <2>4. J[1] = IF 1 % 2 = 1 THEN es[(1 + 1) \div 2] ELSE Sym("AND")
    BY <2>2, <2>3
  <2>5. J[1] = es[1] /\ DOMAIN J = 1 .. (2 * m - 1)
    BY <2>2, <2>3, <2>4
  <2> QED BY <2>1, <2>2, <2>5 DEF m
<1>3. a \in Seq(H) /\ Len(a) = 1 /\ a[1] = Sym("WHERE")
  OBVIOUS
<1>4. J \in Seq(H)
  <2>1. E \subseteq H
    OBVIOUS
  <2> HIDE DEF J, E, H
  <2> QED BY <1>1, <2>1, SeqMonotonic
<1>5. \A i \in DOMAIN J : J[i] # Sym("WHERE")
  <2>1. Sym("AND") # Sym("WHERE")
    BY TreesWeighNothing
  <2>2. \A x \in E : x # Sym("WHERE")
    BY <2>1, TreesWeighNothing
  <2>3. \A i \in DOMAIN J : J[i] \in E
    <3> HIDE DEF J, E
    <3> QED BY <1>1
  <2> HIDE DEF J, E
  <2> QED BY <2>2, <2>3
<1>6. \A x \in H : Weight(x) = 0 /\ \A w \in {} : x # Sym(w)
  BY TreesWeighNothing
<1>7. H \subseteq Item /\ H \subseteq Parts(B)
  <2>1. Sym("AND") \in Item /\ Sym("WHERE") \in Item
    BY StatementWord DEF Punctuation, StatementWords
  <2>2. H \subseteq Item
    BY <2>1 DEF Item
  <2>3. H \subseteq Parts(B)
    BY PartsFacts
  <2> QED BY <2>2, <2>3
<1> HIDE DEF J, a, E, H
<1>8. u \in Seq(H) /\ Len(u) = 1 + Len(J) /\ DOMAIN u = 1 .. (1 + Len(J)) /\ u[1] = Sym("WHERE")
      /\ \A i \in DOMAIN J : u[1 + i] = J[i]
  <2>1. u \in Seq(H) /\ Joins(u, a, J)
    BY <1>3, <1>4, ConcatJoins
  <2>2. /\ DOMAIN J = 1 .. Len(J) /\ Len(u) = Len(a) + Len(J) /\ DOMAIN u = 1 .. (Len(a) + Len(J))
        /\ \A i \in 1 .. Len(a) : u[i] = a[i]
        /\ \A i \in 1 .. Len(J) : u[Len(a) + i] = J[i]
    BY <2>1 DEF Joins
  <2>3. 1 \in 1 .. Len(a)
    BY <1>3
  <2>4. u[1] = a[1]
    BY <2>2, <2>3
  <2> QED BY <1>3, <2>1, <2>2, <2>4
<1>9. DOMAIN J = 1 .. Len(J) /\ Len(J) \in Nat
  BY <1>4
<1> HIDE DEF u
<1>10. Closed(u)
  <2>1. Sealed(u, {})
    BY <1>6, <1>8, SealedFlat
  <2> QED BY <2>1 DEF Sealed
<1>11. Fenced(u)
  BY <1>7, <1>8, FencedWithout
<1>12. FollowedBy(u, "WHERE", Expr)
  <2> SUFFICES ASSUME NEW i \in TopWord(u, "WHERE") PROVE i + 1 \in DOMAIN u /\ u[i + 1] \in Expr
    BY DEF FollowedBy
  <2>1. i \in DOMAIN u /\ u[i] = Sym("WHERE")
    BY DEF TopWord
  <2>2. i = 1
    <3> SUFFICES ASSUME i # 1 PROVE FALSE
      OBVIOUS
    <3> DEFINE j == i - 1
    <3>1. j \in DOMAIN J /\ 1 + j = i
      BY <2>1, <1>8, <1>9
    <3> HIDE DEF j
    <3> QED BY <2>1, <3>1, <1>5, <1>8
  <2>3. 1 + 1 \in DOMAIN u /\ u[1 + 1] = J[1]
    BY <1>2, <1>8, <1>9
  <2> QED BY <1>2, <2>2, <2>3
<1>13. u \in Seq(Parts(B))
  BY <1>7, <1>8, SeqMonotonic
<1> QED BY <1>10, <1>11, <1>12, <1>13 DEF Pieces, u, a, J

LEMMA PiecesCompose ==
  ASSUME NEW B, NamesApart
  PROVE  Composes(Pieces(Parts(B)), B)
<1> DEFINE P == Pieces(Parts(B))
<1>1. P \subseteq Seq(Pending(B))
  <2>1. P \subseteq Seq(Parts(B)) /\ Parts(B) \subseteq Pending(B)
    BY DEF Pieces, Parts
  <2> QED BY <2>1, SeqMonotonic
<1>2. Seq(Plain) \subseteq P
  <2>1. Plain \subseteq Parts(B) \cap Item
    BY PartsFacts, PlainFacts
  <2>2. ASSUME NEW w \in PlainWords
        PROVE  Weight(Sym(w)) = 0 /\ Sym(w) # Sym("WHERE")
    <3>1. w \notin {"(", ")", "WHERE"}
      BY DEF PlainWords, NamesApart, StatementWords, PageWords
    <3> QED BY <3>1, TreesWeighNothing
  <2>3. \A x \in Plain : Weight(x) = 0 /\ x # Sym("WHERE")
    BY <2>2, TreesWeighNothing DEF Plain
  <2> DEFINE E == Plain
  <2> HIDE DEF E
  <2>4. \A t \in Seq(E) : t \in Pieces(E)
    BY <2>1, <2>3, FlatPiece DEF E
  <2>5. Pieces(E) \subseteq Pieces(Parts(B))
    BY <2>1, PiecesWiden DEF E
  <2> QED BY <2>4, <2>5 DEF E
<1>3. \A s, t \in P : s \o t \in P
  BY PieceConcat
<1>4. \A s \in P : InParens(s) \in P
  BY PieceInParens DEF Pieces
<1>5. ASSUME NEW b \in B
      PROVE  InParens(<<Sub(b)>>) \in P
  <2> DEFINE x == Sub(b)
             s == <<x>>
  <2>1. x \in Parts(B) /\ Weight(x) = 0 /\ s \in Seq({x})
    BY PartsFacts, SubsAreApart
  <2>2. s \in Seq(Parts(B))
    BY <2>1
  <2>3. \A y \in {x} : Weight(y) = 0 /\ \A w \in {} : y # Sym(w)
    BY <2>1
  <2>4. \E d : s = <<Sub(d)>>
    OBVIOUS
  <2> DEFINE E == {x}
  <2> HIDE DEF x, s, E
  <2>5. Sealed(s, {})
    BY <2>1, <2>3, SealedFlat DEF E
  <2>6. InParens(s) \in Pieces(Parts(B))
    BY <2>2, <2>4, <2>5, PieceInParens DEF Sealed
  <2> QED BY <2>6 DEF s, x
<1>6. \A es \in Seq(Expr) : es # <<>> => <<Sym("WHERE")>> \o Joined(es, Sym("AND")) \in P
  BY PieceWhere
<1> QED BY <1>1, <1>2, <1>3, <1>4, <1>5, <1>6 DEF Composes

\* All that is written or to write, and what may stand behind a WHERE: no word
\* of the next clause.
Element == Pending(Builder) \cup Token
NoClause == Element \ {Sym(w) : w \in ClauseWords}

\* A text with a statement's CTEs in parentheses, closed; if no name or Raw uses
\* the words W outside parentheses: with AND and OR apart, the page that was
\* asked for, and no WHERE right before the next clause.
WellFormed(ts, kind, a, W) ==
  /\ Closed(ts) /\ Fenced(ts)
  /\ {"AND", "OR"} \subseteq W /\ RawsUnmixed => Unmixed(ts)
  /\ PageWords \subseteq W /\ kind = "Select" =>
       Paged(ts, "LIMIT", PageOf(a.limit)) /\ Paged(ts, "OFFSET", PageOf(a.offset))
  /\ {"WHERE"} \cup ClauseWords \subseteq W /\ NoBlank => FollowedBy(ts, "WHERE", NoClause)

LEMMA PagedConcat ==
  ASSUME NEW S, NEW s \in Seq(S), NEW t \in Seq(S), Closed(s), NEW w, NEW l,
         \/ Paged(s, w, l) /\ Bare(t, w)
         \/ Bare(s, w) /\ Paged(t, w, l)
  PROVE  Paged(s \o t, w, l)
<1> DEFINE F == PageForms(l)
<1>1. \A u : Bare(u, w) => FollowedBy(u, w, F)
  BY DEF Bare, FollowedBy
<1>2. \A u : Paged(u, w, l) => FollowedBy(u, w, F)
  BY <1>1 DEF Paged
<1>3. FollowedBy(s, w, F) /\ FollowedBy(t, w, F)
  BY <1>1, <1>2
<1> HIDE DEF F
<1>4. FollowedBy(s \o t, w, F) /\ (Bare(s \o t, w) <=> Bare(s, w) /\ Bare(t, w))
  BY <1>3, FollowedConcat
<1>5. CASE l = Nil
  BY <1>4, <1>5 DEF Paged
<1>6. CASE l # Nil
  BY <1>4, <1>6 DEF Paged, F
<1> QED BY <1>5, <1>6

\* A LIMIT or an OFFSET and its number.
LEMMA BoundedPiece ==
  ASSUME NEW w \in PageWords, NEW l \in Page \cup {Nil}
  PROVE  /\ Bounded(w, l) \in Pieces({Sym(w)} \cup Expr)
         /\ Paged(Bounded(w, l), w, l)
<1> DEFINE E == {Sym(w)} \cup Expr
           t == Bounded(w, l)
<1>1. w # "WHERE" /\ w \notin {"(", ")"} /\ Sym(w) \in Item
  BY StatementWord DEF PageWords, StatementWords
<1>2. E \subseteq Item /\ (\A x \in E : Weight(x) = 0) /\ Sym("WHERE") \notin E
  BY <1>1, TreesWeighNothing DEF Item
<1>3. l # Nil => PageLit(l) \in Expr
  BY StmtAssumption
<1>4. t \in Seq(E)
  <2>1. CASE l = Nil
    BY <2>1, EmptyType DEF Bounded
  <2>2. CASE l # Nil
    <3>1. <<Sym(w), PageLit(l)>> \in Seq(E)
      BY <1>3, <2>2, Tuples
    <3> QED BY <2>2, <3>1 DEF Bounded
  <2> QED BY <2>1, <2>2
<1>5. t \in Pieces(E)
  <2> HIDE DEF E, t
  <2> QED BY <1>2, <1>4, FlatPiece
<1>6. Paged(t, w, l)
  <2>1. CASE l = Nil
    <3>1. t = <<>>
      BY <2>1 DEF Bounded
    <3>2. TopWord(t, w) = {}
      BY <3>1 DEF TopWord
    <3> QED BY <2>1, <3>2 DEF Paged, Bare
  <2>2. CASE l # Nil
    <3>1. t = <<Sym(w), PageLit(l)>>
      BY <2>2 DEF Bounded
    <3>2. DOMAIN t = 1 .. 2 /\ t[1] = Sym(w) /\ t[2] = PageLit(l)
      BY <3>1
    <3>3. PageLit(l) # Sym(w)
      BY <1>3, <2>2, TreesWeighNothing
    <3> HIDE DEF t
    <3>4. Level(t, 0 + 1) = Level(t, 0) + Weight(t[0 + 1]) /\ Level(t, 0) = 0
      BY LevelSteps
    <3>5. Level(t, 1) = 0
      BY <1>2, <3>2, <3>4
    <3>6. TopWord(t, w) = {1}
      BY <3>2, <3>3, <3>5 DEF TopWord
    <3> QED BY <2>2, <3>2, <3>6 DEF Paged, Bare, FollowedBy, PageForms
  <2> QED BY <2>1, <2>2
<1> QED BY <1>5, <1>6

\* What SQL() starts from, and what a CTE brings.
LEMMA ItemsWellFormed ==
  ASSUME NamesApart, NEW B, B \subseteq Builder, NEW s \in StatementOver(B), NEW a, Agrees(s, a), NEW W
  PROVE  Items(s) \in Seq(Element) /\ WellFormed(Items(s), s.kind, a, W)
<1> DEFINE E == Pending(B) \ {Sym("OR")}
           t == Items(s)
<1>1. Composes(Pieces(Parts(B)), B)
  BY PiecesCompose
<1>2. Parts(B) \subseteq E /\ E \subseteq Element /\ Expr \subseteq Element
      /\ \A w \in PageWords : Sym(w) \notin Parts(B)
  <2>1. Pending(B) \subseteq Pending(Builder) /\ Expr \subseteq Pending(Builder)
    BY DEF Pending, Item
  <2> QED BY <2>1 DEF Parts, Element
<1>3. Pieces(Parts(B)) \subseteq Pieces(E)
  BY <1>2, PiecesWiden
<1>4. t \in Pieces(E) /\
        (s.kind = "Select" => Paged(t, "LIMIT", s.limit) /\ Paged(t, "OFFSET", s.offset))
  <2>1. CASE t \in Pieces(Parts(B)) /\ s.kind # "Select"
    BY <2>1, <1>3
  <2>2. ASSUME s \in SelectOver(B), s.kind = "Select", NEW x \in Pieces(Parts(B)), NEW y \in Pieces(Parts(B)),
               t = x \o Bounded("LIMIT", s.limit) \o Bounded("OFFSET", s.offset) \o y
        PROVE  t \in Pieces(E) /\ Paged(t, "LIMIT", s.limit) /\ Paged(t, "OFFSET", s.offset)
    <3> DEFINE v == "LIMIT"
               w == "OFFSET"
               k == s.limit
               l == s.offset
               p == Bounded(v, k)
               q == Bounded(w, l)
               u == x \o p
               z == u \o q
    <3>1. v \in PageWords /\ w \in PageWords /\ v # w /\ k \in Page \cup {Nil} /\ l \in Page \cup {Nil}
      BY <2>2 DEF PageWords, SelectOver
    <3>2. t = z \o y
      BY <2>2
    <3>3. /\ p \in Pieces({Sym(v)} \cup Expr) /\ Paged(p, v, k)
          /\ q \in Pieces({Sym(w)} \cup Expr) /\ Paged(q, w, l)
      <4> HIDE DEF v, w, k, l
      <4> QED BY <3>1, BoundedPiece
    <3>4. Sym(v) \in E /\ Sym(w) \in E /\ Sym(v) # Sym(w) /\ Expr \subseteq E
      <4>1. Sym(v) \in Item /\ Sym(w) \in Item
        BY StatementWord DEF PageWords, StatementWords
      <4>2. Expr \subseteq E
        BY PartsFacts, <1>2
      <4> QED BY <4>1, <4>2, TreesWeighNothing DEF Pending
    <3>5. Sym(v) \notin Parts(B) /\ Sym(w) \notin Parts(B)
      BY <1>2, <3>1
    <3> HIDE DEF v, w, k, l, p, q, E, t
    <3>6. p \in Pieces(E) /\ q \in Pieces(E) /\ x \in Pieces(E) /\ y \in Pieces(E)
      <4>1. Pieces({Sym(v)} \cup Expr) \subseteq Pieces(E) /\ Pieces({Sym(w)} \cup Expr) \subseteq Pieces(E)
        BY <3>4, PiecesWiden
      <4> QED BY <3>3, <4>1, <1>3
    <3>7. Bare(x, v) /\ Bare(x, w) /\ Bare(y, v) /\ Bare(y, w)
      <4>1. x \in Seq(Parts(B)) /\ y \in Seq(Parts(B))
        BY DEF Pieces
      <4> QED BY <4>1, <3>5, BareWithout
    <3>8. Bare(p, w) /\ Bare(q, v)
      <4> DEFINE C == {Sym(v)} \cup Expr
                 D == {Sym(w)} \cup Expr
      <4>1. p \in Seq(C) /\ q \in Seq(D)
        BY <3>3 DEF Pieces
      <4>2. Sym(w) \notin C /\ Sym(v) \notin D
        BY <3>4, TreesWeighNothing
      <4> HIDE DEF C, D
      <4> QED BY <4>1, <4>2, BareWithout
    <3>9. u \in Pieces(E) /\ z \in Pieces(E) /\ z \o y \in Pieces(E)
      <4>1. u \in Pieces(E)
        BY <3>6, PieceConcat
      <4> HIDE DEF u
      <4>2. z \in Pieces(E)
        BY <4>1, <3>6, PieceConcat
      <4> HIDE DEF z
      <4>3. z \o y \in Pieces(E)
        BY <4>2, <3>6, PieceConcat
      <4> QED BY <4>1, <4>2, <4>3
    <3>10. \A r \in Pieces(E) : r \in Seq(E) /\ Closed(r)
      BY DEF Pieces
    <3>11. Paged(u, v, k) /\ Bare(u, w)
      <4>1. x \in Seq(E) /\ p \in Seq(E) /\ Closed(x)
        BY <3>6, <3>10
      <4>2. Paged(x \o p, v, k)
        BY <4>1, <3>3, <3>7, PagedConcat
      <4>3. FollowedBy(x, w, {}) /\ FollowedBy(p, w, {})
        BY <3>7, <3>8 DEF Bare, FollowedBy
      <4>4. Bare(x \o p, w)
        BY <4>1, <4>3, <3>7, <3>8, FollowedConcat
      <4> QED BY <4>2, <4>4
    <3> HIDE DEF u
    <3>12. Paged(z, v, k) /\ Paged(z, w, l)
      <4>1. u \in Seq(E) /\ q \in Seq(E) /\ Closed(u)
        BY <3>6, <3>9, <3>10
      <4> QED BY <4>1, <3>3, <3>8, <3>11, PagedConcat
    <3> HIDE DEF z
    <3>13. Paged(z \o y, v, k) /\ Paged(z \o y, w, l)
      <4>1. z \in Seq(E) /\ y \in Seq(E) /\ Closed(z)
        BY <3>6, <3>9, <3>10
      <4> QED BY <4>1, <3>7, <3>12, PagedConcat
    <3> QED BY <3>2, <3>9, <3>13 DEF v, w, k, l
  <2> QED BY <1>1, <2>1, <2>2, ItemsCompose
<1>5. t \in Seq(E) /\ Closed(t) /\ Fenced(t) /\ FollowedBy(t, "WHERE", Expr)
  BY <1>4 DEF Pieces
<1>6. Unmixed(t)
  <2> DEFINE c == "OR"
  <2>1. c \in {"AND", "OR"} /\ \A x \in E : x # Sym(c)
    OBVIOUS
  <2> HIDE DEF c, E, t
  <2> QED BY <1>5, <2>1, OneConnectiveOver
<1>7. FollowedBy(t, "WHERE", NoClause)
  <2>1. Expr \subseteq NoClause
    BY <1>2, TreesWeighNothing DEF NoClause
  <2> QED BY <1>5, <2>1 DEF FollowedBy
<1>8. s.kind = "Select" => Paged(t, "LIMIT", PageOf(a.limit)) /\ Paged(t, "OFFSET", PageOf(a.offset))
  BY <1>4 DEF Agrees
<1>9. t \in Seq(Element)
  <2> HIDE DEF t, E
  <2> QED BY <1>2, <1>5, SeqMonotonic
<1> HIDE DEF t
<1>10. WellFormed(t, s.kind, a, W)
  BY <1>5, <1>6, <1>7, <1>8 DEF WellFormed
<1> QED BY <1>9, <1>10 DEF t

\* An element that is no word gives way to a statement in its parentheses, or to
\* what it renders to.
Replaces(M, h, R, k, W) ==
  \/ Guarded(M, h)
  \/ h \in Expr \cup NamedArg /\ R \in Seq(Item \cup Token) /\ k \in Int /\ Renders(h, R, k, W)

LEMMA FollowedReplaced ==
  ASSUME NEW M, NEW N, NEW h, NEW R, Fills(M, N, h, R), Closed(M), Closed(R), NEW k, NEW W,
         Replaces(M, h, R, k, W), NEW w \in W, w # "(", h # Sym(w), NEW F, FollowedBy(M, w, F),
         ~Guarded(M, h) /\ h \in F => 1 \in DOMAIN R /\ R[1] \in F
  PROVE  FollowedBy(N, w, F) /\ (Bare(N, w) <=> Bare(M, w))
<1>1. CASE Guarded(M, h)
  BY <1>1, FollowedFill
<1>2. CASE ~Guarded(M, h)
  <2>1. Outer(R, {w})
    BY <1>2 DEF Replaces, Renders, Sealed, Outer
  <2> QED BY <1>2, <2>1, FollowedFill
<1> QED BY <1>1, <1>2

LEMMA PagedReplaced ==
  ASSUME NEW M, NEW N, NEW h, NEW R, Fills(M, N, h, R), Closed(M), Closed(R), NEW k, NEW W,
         Replaces(M, h, R, k, W), NEW w \in W, w # "(", h # Sym(w), NEW l, Paged(M, w, l)
  PROVE  Paged(N, w, l)
<1> DEFINE F == PageForms(l)
<1>1. FollowedBy(M, w, F)
  BY DEF Paged, Bare, FollowedBy
<1>2. ASSUME ~Guarded(M, h), h \in F, l # Nil PROVE 1 \in DOMAIN R /\ R[1] \in F
  <2>1. h \in Expr \cup NamedArg /\ k \in Int /\ Renders(h, R, k, W)
    BY <1>2 DEF Replaces
  <2>2. \A x \in Expr \cup NamedArg : x.kind # "ph"
    BY ExprAssumption DEF ExprShape, NamedArg
  <2>3. h = PageLit(l)
    BY <1>2, <2>1, <2>2 DEF PageForms, Placeholder
  <2>4. h.kind = "Lit" /\ h.v = l /\ h.cast = FALSE
    BY <2>3 DEF PageLit
  <2>5. R = <<Placeholder(k, l)>>
    BY <1>2, <2>1, <2>4 DEF Renders
  <2>6. DOMAIN R = 1 .. 1 /\ R[1] = Placeholder(k, l)
    BY <2>5
  <2> QED BY <2>1, <2>6 DEF PageForms
<1>3. CASE l = Nil
  <2>1. Bare(M, w)
    BY <1>3 DEF Paged
  <2>2. FollowedBy(M, w, {}) /\ (~Guarded(M, h) /\ h \in {} => 1 \in DOMAIN R /\ R[1] \in {})
    BY <2>1 DEF Bare, FollowedBy
  <2>3. Bare(N, w) <=> Bare(M, w)
    BY <2>2, FollowedReplaced
  <2> QED BY <1>3, <2>1, <2>3 DEF Paged
<1>4. CASE l # Nil
  <2>1. ~Bare(M, w)
    BY <1>4 DEF Paged
  <2> HIDE DEF F
  <2>2. FollowedBy(N, w, F) /\ (Bare(N, w) <=> Bare(M, w))
    BY <1>1, <1>2, <1>4, FollowedReplaced
  <2> QED BY <1>4, <2>1, <2>2 DEF Paged, F
<1> QED BY <1>3, <1>4

LEMMA WellFormedReplaced ==
  ASSUME NEW M, NEW N, NEW h, NEW R, Fills(M, N, h, R), \A w : h # Sym(w), NEW k, NEW W,
         Replaces(M, h, R, k, W), NEW kind, NEW a, WellFormed(M, kind, a, W),
         Closed(R), Fenced(R), {"AND", "OR"} \subseteq W /\ RawsUnmixed => Unmixed(R)
  PROVE  WellFormed(N, kind, a, W)
<1>1. Closed(M) /\ Fenced(M)
  BY DEF WellFormed
<1>2. Closed(N)
  BY <1>1, ClosedFill
<1>3. Fenced(N)
  <2> SUFFICES ASSUME NEW b \in Builder PROVE Guarded(N, Sub(b))
    BY DEF Fenced
  <2> DEFINE x == Sub(b)
  <2>1. Guarded(M, x) /\ Guarded(R, x)
    BY <1>1 DEF Fenced
  <2>2. h # Sym("(") /\ h # Sym(")")
    OBVIOUS
  <2> HIDE DEF x
  <2>3. Guarded(N, x)
    BY <2>1, <2>2, GuardedStays
  <2> QED BY <2>3 DEF x
<1>4. ASSUME {"AND", "OR"} \subseteq W, RawsUnmixed PROVE Unmixed(N)
  <2>1. Unmixed(M) /\ Unmixed(R)
    BY <1>4 DEF WellFormed
  <2>2. Outer(R, {"AND", "OR"}) \/ Guarded(M, h)
    BY <1>4 DEF Replaces, Renders, Sealed, Outer
  <2> QED BY <1>1, <2>1, <2>2, UnmixedFill
<1>5. ASSUME PageWords \subseteq W, kind = "Select"
      PROVE  Paged(N, "LIMIT", PageOf(a.limit)) /\ Paged(N, "OFFSET", PageOf(a.offset))
  <2>1. ASSUME NEW w \in PageWords, NEW l, Paged(M, w, l) PROVE Paged(N, w, l)
    <3>1. w \in W /\ w # "(" /\ h # Sym(w)
      BY <1>5 DEF PageWords
    <3> QED BY <1>1, <2>1, <3>1, PagedReplaced
  <2>2. Paged(M, "LIMIT", PageOf(a.limit)) /\ Paged(M, "OFFSET", PageOf(a.offset))
    BY <1>5 DEF WellFormed
  <2> QED BY <2>1, <2>2 DEF PageWords
<1>6. ASSUME {"WHERE"} \cup ClauseWords \subseteq W, NoBlank PROVE FollowedBy(N, "WHERE", NoClause)
  <2> DEFINE w == "WHERE"
             F == NoClause
  <2>1. w \in W /\ w # "(" /\ h # Sym(w) /\ FollowedBy(M, w, F)
    BY <1>6 DEF WellFormed
  <2>2. ASSUME ~Guarded(M, h) PROVE 1 \in DOMAIN R /\ R[1] \in F
    <3>1. R \in Seq(Item \cup Token) /\ Outer(R, W) /\ R # <<>>
      BY <1>6, <2>2 DEF Replaces, Renders, Sealed
    <3>2. 1 \in DOMAIN R /\ R[1] \in Item \cup Token
      <4>1. Len(R) \in Nat /\ Len(R) # 0 /\ DOMAIN R = 1 .. Len(R)
        BY <3>1
      <4>2. 1 \in DOMAIN R
        BY <4>1
      <4> QED BY <3>1, <4>2
    <3>3. \A v \in ClauseWords : R[1] # Sym(v)
      <4> SUFFICES ASSUME NEW v \in ClauseWords, R[1] = Sym(v) PROVE FALSE
        OBVIOUS
      <4>1. v \notin {"(", ")"} /\ v \in W
        BY <1>6 DEF ClauseWords
      <4>2. Weight(R[1]) = 0
        BY <4>1, TreesWeighNothing
      <4>3. Level(R, 0 + 1) = Level(R, 0) + Weight(R[0 + 1]) /\ Level(R, 0) = 0
        BY LevelSteps
      <4>4. Level(R, 1) = 0
        BY <4>2, <4>3
      <4> QED BY <3>1, <3>2, <4>1, <4>4 DEF Outer
    <3>4. R[1] \in Element
      BY <3>2 DEF Element, Pending
    <3> QED BY <3>2, <3>3, <3>4 DEF NoClause
  <2> HIDE DEF w, F
  <2>3. FollowedBy(N, w, F)
    BY <1>1, <2>1, <2>2, FollowedReplaced
  <2> QED BY <2>3 DEF w, F
<1> QED BY <1>2, <1>3, <1>4, <1>5, <1>6 DEF WellFormed

-----------------------------------------------------------------------------
(* The text of a statement while it is rendered, and when it is sent *)

Started == sb = <<>> /\ todo = <<Sub(cur)>>
TextInv(W) == cur # None => Started \/ WellFormed(Whole, stmt[cur].kind, asked[cur], W)
SentInv(W) == \A b \in Sent : WellFormed(out[b].sql, stmt[b].kind, out[b].asked, W)

LEMMA StatementStep ==
  ASSUME NamesApart, StmtInv, NEW W, TextInv(W), EmitStmt
  PROVE  TextInv(W)'
<1> DEFINE h == Head(todo)
           t == Tail(todo)
           s == stmt[h.b]
           R == Items(s)
           S == Element
<1>1. /\ cur # None /\ todo # <<>> /\ h.kind = "Stmt" /\ sb' = sb /\ todo' = R \o t
      /\ cur' = cur /\ stmt' = stmt /\ asked' = asked
  BY DEF EmitStmt, Now, Push, stmtVars
<1>2. Built \subseteq Builder /\ cur \in Built /\ h.b \in Built /\ t \in Seq(Pending(Built)) /\ sb \in Seq(Token)
  BY <1>1, PendingHead DEF StmtInv, StmtTypeOK, Built
<1>3. h \in Pending(Built) /\ todo = <<h>> \o t
  BY <1>1, HeadTailProperties DEF StmtInv
<1>4. h = Sub(h.b)
  <2>1. \A x \in Item : x.kind # "Stmt"
    BY ExprAssumption DEF Item, NamedArg, Text, ExprShape
  <2> QED BY <1>1, <1>3, <2>1 DEF Pending, Sub
<1>5. s \in StatementOver(Built) /\ Agrees(s, asked[h.b])
  BY <1>2 DEF StmtInv
<1>6. R \in Seq(S) /\ WellFormed(R, s.kind, asked[h.b], W)
  BY <1>2, <1>5, ItemsWellFormed
<1>7. sb \in Seq(S) /\ t \in Seq(S) /\ h \in S
  <2>1. Pending(Built) \subseteq S /\ Token \subseteq S
    BY <1>2 DEF Element, Pending
  <2> HIDE DEF t, S
  <2> QED BY <1>2, <1>3, <2>1, SeqMonotonic
<1> HIDE DEF R, t, S
<1>8. CASE Started
  <2>1. todo = <<Sub(cur)>> /\ sb = <<>>
    BY <1>8 DEF Started
  <2>2. h = Sub(cur) /\ t = <<>>
    BY <2>1 DEF t
  <2>3. h.b = cur
    BY <2>2 DEF Sub
  <2>4. Whole' = R
    <3>1. sb' = <<>> /\ todo' = R
      BY <1>1, <1>6, <2>1, <2>2
    <3> QED BY <3>1, <1>6 DEF Whole
  <2>5. WellFormed(Whole', stmt'[cur'].kind, asked'[cur'], W)
    BY <1>1, <1>6, <2>3, <2>4
  <2> QED BY <2>5 DEF TextInv
<1>9. CASE ~Started
  <2>1. WellFormed(Whole, stmt[cur].kind, asked[cur], W)
    BY <1>1, <1>9 DEF TextInv
  <2>2. Closed(R) /\ Fenced(R) /\ ({"AND", "OR"} \subseteq W /\ RawsUnmixed => Unmixed(R))
    BY <1>6 DEF WellFormed
  <2>3. Weight(h) = 0 /\ (\A w : h # Sym(w)) /\ Level(R, Len(R)) = 0
    BY <1>4, <2>2, SubsAreApart DEF Closed
  <2> DEFINE g == h
  <2>4. g = h
    OBVIOUS
  <2> HIDE DEF g
  <2>5. Fills((sb \o <<g>>) \o t, (sb \o R) \o t, g, R)
    BY <1>6, <1>7, <2>3, <2>4, FillPlaces
  <2>6. Whole = (sb \o <<g>>) \o t /\ Whole' = (sb \o R) \o t
    <3> DEFINE o == <<g>>
    <3>1. o \in Seq(S) /\ todo = o \o t
      BY <1>3, <1>7, <2>4
    <3> HIDE DEF o
    <3>2. Whole = sb \o (o \o t)
      BY <3>1 DEF Whole
    <3>3. Whole' = sb \o (R \o t)
      BY <1>1 DEF Whole
    <3>4. Associates(sb, o, t)
      BY <1>7, <3>1, Associative
    <3>5. Associates(sb, R, t)
      BY <1>6, <1>7, Associative
    <3> QED BY <3>2, <3>3, <3>4, <3>5 DEF o, Associates
  <2>7. Fills(Whole, Whole', g, R)
    BY <2>5, <2>6
  <2>8. Guarded(Whole, g)
    BY <1>2, <1>4, <2>1, <2>4 DEF WellFormed, Fenced
  <2>9. Replaces(Whole, g, R, 0, W)
    BY <2>8 DEF Replaces
  <2>10. \A w : g # Sym(w)
    BY <2>3, <2>4
  <2>11. WellFormed(Whole', stmt[cur].kind, asked[cur], W)
    BY <2>1, <2>2, <2>7, <2>9, <2>10, WellFormedReplaced
  <2> QED BY <1>1, <2>11 DEF TextInv
<1> QED BY <1>8, <1>9

LEMMA NodeStep ==
  ASSUME StmtInv, NEW W, Encloses(W), Foreign(W), TextInv(W), EmitNode
  PROVE  TextInv(W)'
<1> DEFINE h == Head(todo)
           S == Element
<1>1. /\ cur # None /\ Next /\ cur' = cur /\ stmt' = stmt /\ asked' = asked
  BY DEF EmitNode, stmtVars
<1>2. h \in Item /\ Written /\ todo # <<>>
  BY <1>1, NodeHead
<1>3. todo \in Seq(S) /\ Item \cup Token \subseteq S
  <2>1. Pending(Built) \subseteq S /\ Item \cup Token \subseteq S
    BY DEF Element, Pending, Built
  <2> HIDE DEF S
  <2> QED BY <2>1, SeqMonotonic DEF StmtInv
<1> HIDE DEF S
<1>4. ~Started
  <2> SUFFICES ASSUME Started PROVE FALSE
    OBVIOUS
  <2>1. todo = <<Sub(cur)>>
    BY DEF Started
  <2>2. h = Sub(cur)
    BY <2>1
  <2> QED BY <1>2, <2>2, SubsAreApart
<1>5. WellFormed(Whole, stmt[cur].kind, asked[cur], W)
  BY <1>1, <1>4 DEF TextInv
<1>6. Filled(Whole, Whole', h, n', W)
  BY <1>1, <1>2, <1>3, StepFills
<1> HIDE DEF h
<1>7. WellFormed(Whole', stmt[cur].kind, asked[cur], W)
  <2>1. CASE Whole' = Whole
    BY <2>1, <1>5
  <2>2. CASE Whole' # Whole
    <3>1. PICK R \in Seq(Item \cup Token) : Fills(Whole, Whole', h, R) /\ Renders(h, R, n', W) /\ h \in Expr \cup NamedArg
      BY <1>6, <2>2 DEF Filled
    <3>2. n' \in Int
      <4>1. Written'
        BY <1>1, <1>2, TypeStep DEF h
      <4> QED BY <4>1 DEF Written
    <3>3. Replaces(Whole, h, R, n', W)
      BY <3>1, <3>2 DEF Replaces
    <3>4. Closed(R) /\ ({"AND", "OR"} \subseteq W /\ RawsUnmixed => Unmixed(R))
      BY <3>1 DEF Renders, Sealed
    <3>5. Fenced(R)
      <4> DEFINE E == Item \cup Token
      <4>1. E \subseteq Item \cup Token /\ R \in Seq(E)
        BY <3>1
      <4> HIDE DEF E
      <4> QED BY <4>1, FencedWithout
    <3>6. \A w : h # Sym(w)
      BY <3>1, TreesWeighNothing
    <3>7. Fills(Whole, Whole', h, R)
      BY <3>1
    <3> QED BY <1>5, <3>3, <3>4, <3>5, <3>6, <3>7, WellFormedReplaced
  <2> QED BY <2>1, <2>2
<1> QED BY <1>1, <1>7 DEF TextInv

\* Every step keeps what is being written, and what was sent, well formed.
LEMMA SentStep ==
  ASSUME StmtInv, NEW W, TextInv(W), SentInv(W), [StmtNext]_allVars
  PROVE  SentInv(W)'
<1>1. ASSUME Sent' = Sent, out' = out, KindsKept
      PROVE  SentInv(W)'
  <2> SUFFICES ASSUME NEW b \in Sent PROVE WellFormed(out'[b].sql, stmt'[b].kind, out'[b].asked, W)
    BY <1>1 DEF SentInv
  <2>1. stmt'[b].kind = stmt[b].kind
    BY <1>1 DEF KindsKept, Sent, StmtInv, StmtTypeOK
  <2> QED BY <1>1, <2>1 DEF SentInv
<1>2. ASSUME UNCHANGED <<stmt, out>>
      PROVE  SentInv(W)'
  <2>1. KindsKept /\ Sent' = Sent
    BY <1>2 DEF KindsKept, Sent
  <2> QED BY <1>1, <1>2, <2>1
<1>3. ASSUME NEW b \in Builder, Calling(b) PROVE SentInv(W)'
  <2>1. KindsKept
    BY <1>3, CallingKeeps DEF Kept
  <2>2. Call(b)
    BY <1>3 DEF Calling, NewSelect, NewUpdate, NewDelete, NewInsert, New, Where, OrderBy, GroupBy,
                DistinctOn, Having, Lock, Returning, Set, OnConflict, With, Limit, Offset, ApplyList
  <2>3. out' = out /\ Sent' = Sent
    BY <2>2 DEF Call, Sent
  <2> QED BY <1>1, <2>1, <2>3
<1>4. ASSUME NEW b \in Builder, SQLRefused(b) PROVE SentInv(W)'
  <2>1. out' = [out EXCEPT ![b] = [err |-> "ErrNoWhere", sql |-> <<>>, args |-> <<>>, asked |-> asked[b]]]
        /\ stmt' = stmt /\ out \in [Builder -> Result \cup {None}]
    BY <1>4 DEF SQLRefused, StmtInv, StmtTypeOK
  <2>2. \A c \in Sent' : c \in Sent /\ out'[c] = out[c]
    BY <2>1 DEF Sent
  <2> QED BY <2>1, <2>2 DEF SentInv
<1>5. CASE SQLReturn
  <2> DEFINE r == [err |-> "nil", sql |-> sb, args |-> args, asked |-> asked[cur]]
  <2>1. /\ cur # None /\ out' = [out EXCEPT ![cur] = r] /\ todo = <<>> /\ stmt' = stmt
        /\ out \in [Builder -> Result \cup {None}] /\ sb \in Seq(Token)
    BY <1>5 DEF SQLReturn, StmtInv, StmtTypeOK
  <2>2. r.sql = sb /\ r.asked = asked[cur]
    OBVIOUS
  <2> HIDE DEF r
  <2>3. WellFormed(sb, stmt[cur].kind, asked[cur], W)
    <3>1. ~Started
      <4> SUFFICES ASSUME Started PROVE FALSE
        OBVIOUS
      <4>1. Len(<<Sub(cur)>>) = 1 /\ todo = <<Sub(cur)>>
        BY DEF Started
      <4> QED BY <2>1, <4>1
    <3>2. Whole = sb
      BY <2>1 DEF Whole
    <3> QED BY <2>1, <3>1, <3>2 DEF TextInv
  <2>4. ASSUME NEW c \in Sent' PROVE WellFormed(out'[c].sql, stmt'[c].kind, out'[c].asked, W)
    <3>1. c \in Builder /\ out'[c] # None /\ out'[c].err = "nil"
      BY <2>4 DEF Sent
    <3>2. CASE c = cur
      <4>1. out'[c] = r
        BY <2>1, <3>1, <3>2
      <4> QED BY <2>1, <2>2, <2>3, <3>2, <4>1
    <3>3. CASE c # cur
      <4>1. out'[c] = out[c]
        BY <2>1, <3>1, <3>3
      <4>2. c \in Sent
        BY <3>1, <4>1 DEF Sent
      <4> QED BY <2>1, <4>1, <4>2 DEF SentInv
    <3> QED BY <3>2, <3>3
  <2> QED BY <2>4 DEF SentInv
<1>6. ASSUME NEW b \in Builder, SQLStart(b) PROVE SentInv(W)'
  BY <1>2, <1>6 DEF SQLStart
<1>7. CASE EmitStmt \/ EmitNode \/ UNCHANGED allVars
  BY <1>2, <1>7 DEF EmitStmt, EmitNode, stmtVars, allVars
<1> QED BY <1>3, <1>4, <1>5, <1>6, <1>7 DEF StmtNext, Rendering

LEMMA TextStep ==
  ASSUME NamesApart, StmtInv, NEW W, Encloses(W), Foreign(W), TextInv(W), [StmtNext]_allVars
  PROVE  TextInv(W)'
<1>1. ASSUME NEW b \in Builder, Calling(b) PROVE TextInv(W)'
  <2>1. Call(b)
    BY <1>1 DEF Calling, NewSelect, NewUpdate, NewDelete, NewInsert, New, Where, OrderBy, GroupBy,
                DistinctOn, Having, Lock, Returning, Set, OnConflict, With, Limit, Offset, ApplyList
  <2> QED BY <2>1 DEF Call, TextInv
<1>2. ASSUME NEW b \in Builder, SQLRefused(b) PROVE TextInv(W)'
  BY <1>2 DEF SQLRefused, TextInv
<1>3. ASSUME NEW b \in Builder, SQLStart(b) PROVE TextInv(W)'
  <2>1. Started'
    BY <1>3 DEF SQLStart, Started
  <2> QED BY <2>1 DEF TextInv
<1>4. CASE SQLReturn
  BY <1>4 DEF SQLReturn, TextInv
<1>5. CASE UNCHANGED allVars
  <2>1. UNCHANGED <<cur, stmt, asked, sb, todo>>
    BY <1>5 DEF allVars, stmtVars, vars
  <2> QED BY <2>1 DEF TextInv, Started, Whole
<1> QED BY <1>1, <1>2, <1>3, <1>4, <1>5, StatementStep, NodeStep DEF StmtNext, Rendering

RenderedInv(W) == TextInv(W) /\ SentInv(W)
LEMMA RenderedInit ==
  ASSUME StmtInit, NEW W
  PROVE  RenderedInv(W)
<1>1. cur = None /\ Sent = {}
  BY DEF StmtInit, Sent
<1> QED BY <1>1 DEF RenderedInv, TextInv, SentInv
LEMMA RenderedStep ==
  ASSUME NamesApart, StmtInv, NEW W, Encloses(W), Foreign(W), RenderedInv(W), [StmtNext]_allVars
  PROVE  RenderedInv(W)'
BY SentStep, TextStep DEF RenderedInv

\* The connectives in the statements that were sent.
SentApart == \A b \in Sent : Unmixed(out[b].sql)

\* expr.go:84-123, stmt.go:61-68: AND and OR never stand in one group of a
\* statement, with or without CTEs, while it is rendered or when it is sent,
\* whatever is asked of the builders: the conjuncts of a WHERE are joined by AND
\* without parentheses, and each brings those it needs.
THEOREM StatementConnectivesApart ==
  Encloses({"AND", "OR"}) /\ RawsUnmixed /\ NamesApart => (Statements => [](ConnectivesApart /\ SentApart))
<1> SUFFICES ASSUME Encloses({"AND", "OR"}), RawsUnmixed, NamesApart
             PROVE  Statements => [](ConnectivesApart /\ SentApart)
  OBVIOUS
<1> DEFINE W == {"AND", "OR"}
<1>1. Encloses(W) /\ Foreign(W) /\ {"AND", "OR"} \subseteq W
  BY DEF Foreign
<1> HIDE DEF W
<1>2. StmtInit => RenderedInv(W)
  BY RenderedInit
<1>3. StmtInv /\ RenderedInv(W) /\ [StmtNext]_allVars => RenderedInv(W)'
  BY <1>1, RenderedStep
<1>4. StmtInv /\ RenderedInv(W) => ConnectivesApart /\ SentApart
  <2> SUFFICES ASSUME StmtInv, RenderedInv(W) PROVE ConnectivesApart /\ SentApart
    OBVIOUS
  <2>1. SentApart
    BY <1>1 DEF RenderedInv, SentInv, SentApart, WellFormed
  <2>2. CASE sb = <<>>
    BY <2>1, <2>2 DEF ConnectivesApart, Unmixed
  <2>3. CASE sb # <<>>
    <3>1. Unmixed(Whole)
      BY <1>1, <2>3 DEF RenderedInv, TextInv, WellFormed, Started, StmtInv, StmtTypeOK
    <3> DEFINE S == Pending(Built) \cup Token
    <3>2. sb \in Seq(S) /\ todo \in Seq(S)
      BY SeqMonotonic DEF StmtInv, StmtTypeOK
    <3> HIDE DEF S
    <3>3. Unmixed(sb)
      BY <3>1, <3>2, UnmixedBeginning DEF Whole
    <3> QED BY <2>1, <3>3 DEF ConnectivesApart
  <2> QED BY <2>2, <2>3
<1> QED BY <1>2, <1>3, <1>4, StatementsInvariant, PTL DEF Statements

\* What is read off a text with the page that was asked for.
LEMMA PageIsRead ==
  ASSUME NEW o \in Result, Resolves(o.sql, o.args), NEW w, NEW i \in Page \cup {0}, Paged(o.sql, w, PageOf(i))
  PROVE  PageValue(o, w) = i
<1> DEFINE P == TopWord(o.sql, w)
           j == CHOOSE x \in P : TRUE
           l == PageOf(i)
<1>1. Page \subseteq Value /\ \A x \in Page : x \in Int /\ x > 0
  BY StmtAssumption DEF Page
<1>2. CASE i = 0
  <2>1. P = {}
    BY <1>2 DEF Paged, PageOf, Bare
  <2> HIDE DEF P
  <2> QED BY <1>2, <2>1 DEF PageValue, P
<1>3. CASE i # 0
  <2>1. l = i /\ i \in Page /\ i \in Value /\ l # Nil /\ l # NoValue
    BY <1>1, <1>3, NilAssumption DEF PageOf
  <2>2. P # {} /\ FollowedBy(o.sql, w, PageForms(l))
    BY <2>1 DEF Paged, Bare
  <2>3. j \in P
    <3> HIDE DEF P
    <3> QED BY <2>2
  <2> HIDE DEF j
  <2>4. j + 1 \in DOMAIN o.sql /\ o.sql[j + 1] \in PageForms(l)
    BY <2>2, <2>3 DEF FollowedBy
  <2> DEFINE x == o.sql[j + 1]
  <2>5. x \in Token
    BY <2>4 DEF Result
  <2>6. x.kind # "Lit"
    BY <2>5 DEF Token, Text
  <2>7. \E k \in Int : x = Placeholder(k, l)
    BY <2>4, <2>6 DEF PageForms, PageLit
  <2>8. IsPlaceholder(x) /\ x.v = i
    BY <2>1, <2>7 DEF IsPlaceholder, Placeholder
  <2>9. o.args[x.n] = i
    BY <2>1, <2>4, <2>8 DEF Resolves
  <2>10. PageValue(o, w) = IF P = {} THEN 0 ELSE o.args[o.sql[j + 1].n]
    BY DEF PageValue, j
  <2> QED BY <2>2, <2>9, <2>10
<1> QED BY <1>2, <1>3

\* listopt.go:3-4, stmt.go:131-145, 246-253: the page that is sent, as the server
\* reads it off the text and its arguments, is the last positive one that was
\* asked for; a Select that was asked for none has none, whatever its CTEs ask.
THEOREM LastPositivePageIsSent == Encloses(PageWords) /\ NamesApart => (Statements => []LastPageWins)
<1> SUFFICES ASSUME Encloses(PageWords), NamesApart PROVE Statements => []LastPageWins
  OBVIOUS
<1> DEFINE W == PageWords
<1>1. Encloses(W) /\ Foreign(W) /\ PageWords \subseteq W
  BY DEF Foreign, PageWords, Punctuation
<1> HIDE DEF W
<1>2. StmtInit => RenderedInv(W)
  BY RenderedInit
<1>3. StmtInv /\ RenderedInv(W) /\ [StmtNext]_allVars => RenderedInv(W)'
  BY <1>1, RenderedStep
<1>4. StmtInv /\ RenderedInv(W) /\ SentResolved => LastPageWins
  <2> SUFFICES ASSUME StmtInv, RenderedInv(W), SentResolved, NEW b \in Sent, Is(b, {"Select"})
               PROVE  /\ PageValue(out[b], "LIMIT") = out[b].asked.limit
                      /\ PageValue(out[b], "OFFSET") = out[b].asked.offset
    BY DEF LastPageWins
  <2> DEFINE o == out[b]
  <2>1. b \in Builder /\ o # None /\ o \in Result
    BY DEF Sent, StmtInv, StmtTypeOK
  <2>2. Resolves(o.sql, o.args) /\ o.asked.limit \in Page \cup {0} /\ o.asked.offset \in Page \cup {0}
    BY <2>1 DEF SentResolved, Result, Ask
  <2>3. Paged(o.sql, "LIMIT", PageOf(o.asked.limit)) /\ Paged(o.sql, "OFFSET", PageOf(o.asked.offset))
    BY <1>1 DEF RenderedInv, SentInv, WellFormed, Is
  <2> HIDE DEF o
  <2>4. PageValue(o, "LIMIT") = o.asked.limit /\ PageValue(o, "OFFSET") = o.asked.offset
    BY <2>1, <2>2, <2>3, PageIsRead
  <2> QED BY <2>4 DEF o
<1>5. Statements => [](Binding /\ SentResolved)
  BY StatementBinding
<1> QED BY <1>2, <1>3, <1>4, <1>5, StatementsInvariant, PTL DEF Statements

\* What stands between a WHERE and the next clause, when something does.
LEMMA WhereIsRead ==
  ASSUME NEW ts \in Seq(Token), FollowedBy(ts, "WHERE", NoClause), ~Bare(ts, "WHERE")
  PROVE  WhereText(ts) # <<>>
<1> DEFINE P == TopWord(ts, "WHERE")
           start == CHOOSE i \in P : TRUE
           tops == UNION {TopWord(ts, w) : w \in ClauseWords}
           ends == {i \in tops : i > start} \cup {Len(ts) + 1}
           end == CHOOSE i \in ends : \A j \in ends : i <= j
<1>1. P # {}
  BY DEF Bare
<1>2. start \in P
  <2> HIDE DEF P
  <2> QED BY <1>1
<1>3. WhereText(ts) = SubSeq(ts, start + 1, end - 1)
  <2>1. WhereText(ts) = IF P = {} THEN <<>> ELSE SubSeq(ts, start + 1, end - 1)
    BY DEF WhereText
  <2> HIDE DEF P, start, end
  <2> QED BY <1>1, <2>1
<1> HIDE DEF start
<1>4. /\ start \in DOMAIN ts /\ start + 1 \in DOMAIN ts /\ ts[start + 1] \in NoClause
      /\ DOMAIN ts = 1 .. Len(ts) /\ Len(ts) \in Nat
  BY <1>2 DEF FollowedBy, TopWord
<1>5. tops \subseteq DOMAIN ts /\ start + 1 \notin tops
  BY <1>4 DEF TopWord, NoClause
<1> HIDE DEF tops
<1>6. ends \subseteq Nat /\ ends # {}
  BY <1>4, <1>5
<1>7. \A i \in ends : i > start + 1
  BY <1>4, <1>5
<1> HIDE DEF ends
<1>8. end \in ends
  <2>1. \E i \in ends : \A j \in ends : i <= j
    BY <1>6, LeastNatural
  <2> QED BY <2>1
<1> HIDE DEF end
<1>9. end \in Nat /\ end > start + 1 /\ start \in Nat
  BY <1>4, <1>6, <1>7, <1>8
<1>10. Len(SubSeq(ts, start + 1, end - 1)) = (end - 1) - (start + 1) + 1
  BY <1>4, <1>9
<1>11. Len(SubSeq(ts, start + 1, end - 1)) # 0
  BY <1>9, <1>10
<1> DEFINE t == SubSeq(ts, start + 1, end - 1)
<1>12. Len(<<>>) = 0
  OBVIOUS
<1> HIDE DEF t
<1> QED BY <1>3, <1>11, <1>12 DEF t

\* expr.go:82-83, stmt.go:216-219: a WHERE is never left without a condition, as
\* long as every combinator has a part and every Raw a text, which the code does
\* not ensure.
THEOREM WhereHasACondition ==
  NoBlank /\ Encloses({"WHERE"} \cup ClauseWords) /\ NamesApart => (Statements => []WhereIsNeverBlank)
<1> SUFFICES ASSUME NoBlank, Encloses({"WHERE"} \cup ClauseWords), NamesApart
             PROVE  Statements => []WhereIsNeverBlank
  OBVIOUS
<1> DEFINE W == {"WHERE"} \cup ClauseWords
<1>1. Encloses(W) /\ Foreign(W) /\ {"WHERE"} \cup ClauseWords \subseteq W
  BY DEF Foreign, ClauseWords, Punctuation
<1> HIDE DEF W
<1>2. StmtInit => RenderedInv(W)
  BY RenderedInit
<1>3. StmtInv /\ RenderedInv(W) /\ [StmtNext]_allVars => RenderedInv(W)'
  BY <1>1, RenderedStep
<1>4. StmtInv /\ RenderedInv(W) => WhereIsNeverBlank
  <2> SUFFICES ASSUME StmtInv, RenderedInv(W), NEW b \in Sent, TopWord(out[b].sql, "WHERE") # {}
               PROVE  WhereText(out[b].sql) # <<>>
    BY DEF WhereIsNeverBlank
  <2>1. out[b].sql \in Seq(Token)
    BY DEF Sent, StmtInv, StmtTypeOK, Result
  <2>2. FollowedBy(out[b].sql, "WHERE", NoClause)
    BY <1>1 DEF RenderedInv, SentInv, WellFormed
  <2> QED BY <2>1, <2>2, WhereIsRead DEF Bare
<1> QED BY <1>2, <1>3, <1>4, StatementsInvariant, PTL DEF Statements
=============================================================================
