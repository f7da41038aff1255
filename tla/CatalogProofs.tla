--------------------------- MODULE CatalogProofs ---------------------------
(***************************************************************************)
(* The catalog of the standalone command, proved equal to the one that      *)
(* sqlc's analyzer makes of the same script, for every script whose         *)
(* statements do not depend on what only one of the two looks at.           *)
(***************************************************************************)
EXTENDS GenerateProofs

\* Only positions of the list count.
LEMMA PickedSame ==
  ASSUME NEW s, NEW I, NEW J, \A i \in DOMAIN s : i \in I <=> i \in J
  PROVE  Picked(s, I) = Picked(s, J)
<1>1. [i \in DOMAIN s |-> IF i \in I THEN <<s[i]>> ELSE <<>>] = [i \in DOMAIN s |-> IF i \in J THEN <<s[i]>> ELSE <<>>]
  OBVIOUS
<1> QED BY <1>1 DEF Picked

\* What is picked of a list is a list of the same elements.
LEMMA PickedType ==
  ASSUME NEW T, NEW s \in Seq(T), NEW I
  PROVE  Picked(s, I) \in Seq(T)
<1> DEFINE J == {i \in DOMAIN s : i \in I}
           p == Picked(s, I)
<1>1. p = Picked(s, J)
  BY PickedSame
<1>2. IsList(s) /\ J \subseteq DOMAIN s /\ \A i \in DOMAIN s : s[i] \in T
  BY DEF IsList
<1> HIDE DEF p, J
<1>3. IsList(p) /\ ToSet(p) = {s[i] : i \in J}
  BY <1>1, <1>2, PickedFacts
<1>4. \A k \in DOMAIN p : p[k] \in T
  BY <1>2, <1>3 DEF ToSet
<1>5. p \in Seq(T)
  BY <1>3, <1>4, ListOf
<1> QED BY <1>5 DEF p

\* What is picked of a list with one more element.
OneMore(s, x, I) ==
  Picked(Append(s, x), I) = IF Len(s) + 1 \in I THEN Append(Picked(s, I), x) ELSE Picked(s, I)
LEMMA PickedAppend ==
  ASSUME NEW S, NEW s \in Seq(S), NEW x \in S, NEW I
  PROVE  OneMore(s, x, I)
<1> DEFINE part(y, i) == IF i \in I THEN <<y>> ELSE <<>>
           m == Len(s)
           parts == [i \in DOMAIN s |-> part(s[i], i)]
           t == Append(s, x)
           more == [i \in DOMAIN t |-> part(t[i], i)]
           P == Seq(S)
<1>1. m \in Nat /\ DOMAIN s = 1 .. m /\ DOMAIN t = 1 .. (m + 1) /\ t[m + 1] = x
      /\ \A i \in 1 .. m : t[i] = s[i] /\ s[i] \in S
  OBVIOUS
<1>2. \A y \in S, i \in Nat : part(y, i) \in P
  OBVIOUS
<1> HIDE DEF part, P, t, m
<1>3. parts \in Seq(P) /\ part(x, m + 1) \in P /\ Len(parts) = m
  <2>1. parts \in [1 .. m -> P]
    BY <1>1, <1>2
  <2>2. \A i \in 1 .. m : i \in Nat
    BY <1>1
  <2> QED BY <1>1, <1>2, <2>1
<1>4. more = Append(parts, part(x, m + 1))
  <2> DEFINE u == Append(parts, part(x, m + 1))
  <2>1. u \in Seq(P) /\ Len(u) = m + 1 /\ u[m + 1] = part(x, m + 1) /\ \A i \in 1 .. m : u[i] = parts[i]
    BY <1>1, <1>3
  <2>2. DOMAIN u = 1 .. (m + 1) /\ u = [i \in 1 .. (m + 1) |-> u[i]]
    BY <1>1, <2>1
  <2> HIDE DEF u
  <2>3. \A i \in 1 .. (m + 1) : u[i] = part(t[i], i)
    <3>1. ASSUME NEW i \in 1 .. m PROVE u[i] = part(t[i], i)
      BY <1>1, <2>1
    <3>2. \A i \in 1 .. (m + 1) : i \in 1 .. m \/ i = m + 1
      BY <1>1
    <3> QED BY <1>1, <2>1, <3>1, <3>2
  <2> QED BY <1>1, <2>2, <2>3 DEF u
<1>5. Picked(s, I) = FlattenSeq(parts) /\ Picked(t, I) = FlattenSeq(more)
  BY DEF Picked, part
<1> HIDE DEF parts, more
<1>6. FlattenSeq(more) = FlattenSeq(parts) \o part(x, m + 1)
  BY <1>3, <1>4, FlattenAppend DEF P
<1>7. FlattenSeq(parts) \in Seq(S)
  BY <1>3, FlattenType DEF P
<1>8. CASE m + 1 \in I
  <2>1. FlattenSeq(more) = Append(FlattenSeq(parts), x)
    BY <1>6, <1>7, <1>8, AppendIsConcat DEF part
  <2> QED BY <1>5, <1>8, <2>1 DEF OneMore, t, m
<1>9. CASE m + 1 \notin I
  <2>1. FlattenSeq(more) = FlattenSeq(parts)
    BY <1>6, <1>7, <1>9 DEF part
  <2> QED BY <1>5, <1>9, <2>1 DEF OneMore, t, m
<1> QED BY <1>8, <1>9

-----------------------------------------------------------------------------
(* DROP COLUMN *)

\* One column more, kept unless it is named.
KeptOrDropped(cols, c, names) ==
  Without(Append(cols, c), names) = IF c.name \in names THEN Without(cols, names) ELSE Append(Without(cols, names), c)
LEMMA WithoutAppend ==
  ASSUME NEW T, NEW cols \in Seq(T), NEW c \in T, NEW names
  PROVE  KeptOrDropped(cols, c, names)
<1> DEFINE t == Append(cols, c)
           I == {k \in DOMAIN cols : cols[k].name \notin names}
           J == {k \in DOMAIN t : t[k].name \notin names}
           n == Len(cols) + 1
<1>1. /\ DOMAIN t = DOMAIN cols \cup {n} /\ n \notin DOMAIN cols
      /\ \A k \in DOMAIN cols : t[k] = cols[k]
      /\ t[n] = c
  BY AppendOne
<1>2. Without(cols, names) = Picked(cols, I) /\ Without(t, names) = Picked(t, J)
  BY DEF Without
<1> HIDE DEF t
<1>3. \A k \in DOMAIN cols : k \in I <=> k \in J
  BY <1>1
<1>4. n \in J <=> c.name \notin names
  BY <1>1
<1> HIDE DEF I, J
<1>5. Picked(cols, I) = Picked(cols, J)
  BY <1>3, PickedSame
<1>6. OneMore(cols, c, J)
  BY PickedAppend
<1>7. Picked(t, J) = IF n \in J THEN Append(Picked(cols, J), c) ELSE Picked(cols, J)
  BY <1>6 DEF OneMore, t
<1> QED BY <1>2, <1>4, <1>5, <1>7 DEF KeptOrDropped, t

\* Nothing is dropped of nothing.
LEMMA WithoutEmpty == \A names : Without(<<>>, names) = <<>>
BY DEF Without, Picked, FlattenSeq

\* What is left is a list of columns of other names.
Remaining(T, cols, names) ==
  /\ Without(cols, names) \in Seq(T)
  /\ \A k \in DOMAIN Without(cols, names) :
       /\ Without(cols, names)[k].name \notin names
       /\ Without(cols, names)[k] \in ToSet(cols)
LEMMA WithoutType ==
  ASSUME NEW T, NEW cols \in Seq(T), NEW names
  PROVE  Remaining(T, cols, names)
<1> DEFINE I == {k \in DOMAIN cols : cols[k].name \notin names}
           w == Without(cols, names)
<1>1. IsList(cols) /\ I \subseteq DOMAIN cols /\ \A k \in DOMAIN cols : cols[k] \in T
  BY DEF IsList
<1>2. w = Picked(cols, I)
  BY DEF Without
<1>3. IsList(w) /\ ToSet(w) = {cols[k] : k \in I}
  BY <1>1, <1>2, PickedFacts
<1> HIDE DEF w
<1>4. \A k \in DOMAIN w : w[k] \in {cols[j] : j \in I}
  BY <1>3 DEF ToSet
<1>5. w \in Seq(T)
  <2>1. \A k \in DOMAIN w : w[k] \in T
    BY <1>1, <1>4
  <2> QED BY <1>3, <2>1, ListOf
<1>6. \A k \in DOMAIN w : w[k].name \notin names /\ w[k] \in ToSet(cols)
  BY <1>4 DEF ToSet
<1> QED BY <1>5, <1>6 DEF Remaining, w

\* Nothing named, nothing dropped.
KeepsAll(cols, names) == (\A k \in DOMAIN cols : cols[k].name \notin names) => Without(cols, names) = cols
LEMMA WithoutOthers ==
  ASSUME NEW T, NEW cols \in Seq(T), NEW names
  PROVE  KeepsAll(cols, names)
<1> DEFINE P == {s \in Seq(T) : KeepsAll(s, names)}
<1>1. <<>> \in P
  BY WithoutEmpty DEF KeepsAll
<1>2. ASSUME NEW s \in Seq(T), s \in P, NEW c \in T
      PROVE  Append(s, c) \in P
  <2>1. Append(s, c) \in Seq(T)
    OBVIOUS
  <2>2. /\ DOMAIN Append(s, c) = DOMAIN s \cup {Len(s) + 1}
        /\ \A k \in DOMAIN s : Append(s, c)[k] = s[k]
        /\ Append(s, c)[Len(s) + 1] = c
    BY AppendOne
  <2>3. KeptOrDropped(s, c, names)
    BY WithoutAppend
  <2>4. KeepsAll(Append(s, c), names)
    BY <1>2, <2>2, <2>3 DEF KeepsAll, KeptOrDropped
  <2> QED BY <2>1, <2>4
<1> HIDE DEF P
<1>3. Seq(T) \subseteq P
  BY <1>1, <1>2, ListInduction
<1> QED BY <1>3 DEF P

\* Dropped in two steps or in one.
DropsBoth(cols, names, more) == Without(Without(cols, names), more) = Without(cols, names \cup more)
LEMMA WithoutTwice ==
  ASSUME NEW T, NEW cols \in Seq(T), NEW names, NEW more
  PROVE  DropsBoth(cols, names, more)
<1> DEFINE P == {s \in Seq(T) : DropsBoth(s, names, more)}
<1>1. <<>> \in P
  BY WithoutEmpty DEF DropsBoth
<1>2. ASSUME NEW s \in Seq(T), s \in P, NEW c \in T
      PROVE  Append(s, c) \in P
  <2> DEFINE w == Without(s, names)
  <2>1. Append(s, c) \in Seq(T)
    OBVIOUS
  <2>2. w \in Seq(T)
    BY WithoutType DEF Remaining
  <2> HIDE DEF w
  <2>3. KeptOrDropped(s, c, names) /\ KeptOrDropped(s, c, names \cup more) /\ KeptOrDropped(w, c, more)
    BY <2>2, WithoutAppend
  <2>4. DropsBoth(s, names, more)
    BY <1>2
  <2>5. DropsBoth(Append(s, c), names, more)
    BY <2>3, <2>4 DEF DropsBoth, KeptOrDropped, w
  <2> QED BY <2>1, <2>5
<1> HIDE DEF P
<1>3. Seq(T) \subseteq P
  BY <1>1, <1>2, ListInduction
<1> QED BY <1>3 DEF P

\* Dropped from two parts.
DropsApart(cols, rest, names) == Without(cols \o rest, names) = Without(cols, names) \o Without(rest, names)
LEMMA WithoutConcat ==
  ASSUME NEW T, NEW cols \in Seq(T), NEW rest \in Seq(T), NEW names
  PROVE  DropsApart(cols, rest, names)
<1> DEFINE P == {s \in Seq(T) : DropsApart(cols, s, names)}
           w == Without(cols, names)
<1>1. w \in Seq(T)
  BY WithoutType DEF Remaining
<1> HIDE DEF w
<1>2. <<>> \in P
  <2>1. w \o <<>> = w /\ cols \o <<>> = cols
    BY <1>1
  <2>2. Without(<<>>, names) = <<>>
    BY WithoutEmpty
  <2>3. DropsApart(cols, <<>>, names)
    BY <2>1, <2>2 DEF DropsApart, w
  <2> QED BY <2>3
<1>3. ASSUME NEW s \in Seq(T), s \in P, NEW c \in T
      PROVE  Append(s, c) \in P
  <2> DEFINE v == Without(s, names)
             u == cols \o s
  <2>1. Append(s, c) \in Seq(T)
    OBVIOUS
  <2>2. v \in Seq(T)
    BY WithoutType DEF Remaining
  <2>3. u \in Seq(T)
    BY ConcatProperties
  <2>4. cols \o Append(s, c) = Append(u, c)
    BY AppendBehind
  <2> HIDE DEF v, u
  <2>5. w \o Append(v, c) = Append(w \o v, c)
    BY <1>1, <2>2, AppendBehind
  <2>6. KeptOrDropped(s, c, names) /\ KeptOrDropped(u, c, names)
    BY <2>3, WithoutAppend
  <2>7. DropsApart(cols, s, names)
    BY <1>3
  <2>8. Without(u, names) = w \o v
    BY <2>7 DEF DropsApart, u, v, w
  <2>9. DropsApart(cols, Append(s, c), names)
    <3>1. Without(cols \o Append(s, c), names) = IF c.name \in names THEN w \o v ELSE Append(w \o v, c)
      BY <2>4, <2>6, <2>8 DEF KeptOrDropped
    <3>2. Without(Append(s, c), names) = IF c.name \in names THEN v ELSE Append(v, c)
      BY <2>6 DEF KeptOrDropped, v
    <3> QED BY <2>5, <3>1, <3>2 DEF DropsApart, w
  <2> QED BY <2>1, <2>9
<1> HIDE DEF P
<1>4. Seq(T) \subseteq P
  BY <1>2, <1>3, ListInduction
<1> QED BY <1>4 DEF P

-----------------------------------------------------------------------------
(* NOT NULL *)

\* Columns are marked one by one.
Mark(c, names) == IF c.name \in names THEN [c EXCEPT !.notnull = TRUE] ELSE c
LEMMA MarkIs ==
  ASSUME NEW cols, NEW names
  PROVE  MarkNotNull(cols, names) = [k \in DOMAIN cols |-> Mark(cols[k], names)]
BY DEF MarkNotNull, Mark

\* As many columns as before, none of them marked unless it is named.
LEMMA MarkList ==
  ASSUME NEW cols, IsList(cols), NEW names
  PROVE  /\ IsList(MarkNotNull(cols, names)) /\ Len(MarkNotNull(cols, names)) = Len(cols)
         /\ DOMAIN MarkNotNull(cols, names) = DOMAIN cols
<1> DEFINE m == MarkNotNull(cols, names)
<1>1. DOMAIN m = DOMAIN cols /\ m = [k \in DOMAIN cols |-> m[k]]
  BY DEF MarkNotNull
<1> HIDE DEF m
<1>2. IsList(m)
  BY <1>1, ChangedList
<1>3. Len(m) = Len(cols)
  <2>1. Len(cols) \in Nat /\ DOMAIN cols = 1 .. Len(cols) /\ Len(m) \in Nat /\ DOMAIN m = 1 .. Len(m)
    BY <1>2, ListDomain
  <2> QED BY <1>1, <2>1
<1> QED BY <1>1, <1>2, <1>3 DEF m

LEMMA MarkNone ==
  ASSUME NEW cols, IsList(cols), NEW names, \A k \in DOMAIN cols : cols[k].name \notin names
  PROVE  MarkNotNull(cols, names) = cols
<1>1. cols = [k \in DOMAIN cols |-> cols[k]]
  BY DEF IsList
<1>2. MarkNotNull(cols, names) = [k \in DOMAIN cols |-> cols[k]]
  BY DEF MarkNotNull
<1> QED BY <1>1, <1>2

\* Marked with one column more, and in two parts.
MarksLast(cols, c, names) == MarkNotNull(Append(cols, c), names) = Append(MarkNotNull(cols, names), Mark(c, names))
LEMMA MarkAppend ==
  ASSUME NEW T, NEW cols \in Seq(T), NEW c \in T, NEW names
  PROVE  MarksLast(cols, c, names)
<1> DEFINE F == [x \in T |-> Mark(x, names)]
           V == {Mark(x, names) : x \in T}
<1>1. F \in [T -> V]
  OBVIOUS
<1>2. \A s \in Seq(T) : MarkNotNull(s, names) = Mapped(s, F)
  BY MarkIs DEF Mapped
<1>3. F[c] = Mark(c, names)
  OBVIOUS
<1> HIDE DEF F, V
<1>4. MapsLast(cols, c, F)
  BY <1>1, MappedAppend
<1>5. Append(cols, c) \in Seq(T)
  OBVIOUS
<1> QED BY <1>2, <1>3, <1>4, <1>5 DEF MapsLast, MarksLast

MarksApart(cols, rest, names) == MarkNotNull(cols \o rest, names) = MarkNotNull(cols, names) \o MarkNotNull(rest, names)
LEMMA MarkConcat ==
  ASSUME NEW T, NEW cols \in Seq(T), NEW rest \in Seq(T), NEW names
  PROVE  MarksApart(cols, rest, names)
<1> DEFINE F == [x \in T |-> Mark(x, names)]
           V == {Mark(x, names) : x \in T}
<1>1. F \in [T -> V]
  OBVIOUS
<1>2. \A s \in Seq(T) : MarkNotNull(s, names) = Mapped(s, F)
  BY MarkIs DEF Mapped
<1> HIDE DEF F, V
<1>3. MapsApart(cols, rest, F)
  BY <1>1, MappedConcat
<1>4. cols \o rest \in Seq(T)
  BY ConcatProperties
<1> QED BY <1>2, <1>3, <1>4 DEF MapsApart, MarksApart

-----------------------------------------------------------------------------
(* What the elements of a statement declare *)

\* What they name, one element more.
LEMMA NamedAppend ==
  ASSUME NEW T, NEW elts \in Seq(T), NEW e \in T
  PROVE  /\ \A type : NamedIn(Append(elts, e), type) = NamedIn(elts, type) \cup (IF e.type = type THEN {e.col} ELSE {})
         /\ DeclaredNotNull(Append(elts, e)) =
              DeclaredNotNull(elts) \cup (IF ImpliesNotNull(e) THEN ToSet(KeysOf(e)) ELSE {})
<1>1. ToSet(Append(elts, e)) = ToSet(elts) \cup {e}
  <2>1. /\ DOMAIN Append(elts, e) = DOMAIN elts \cup {Len(elts) + 1}
        /\ \A i \in DOMAIN elts : Append(elts, e)[i] = elts[i]
        /\ Append(elts, e)[Len(elts) + 1] = e
    BY AppendOne
  <2> QED BY <2>1 DEF ToSet
<1> DEFINE E == ToSet(elts)
<1> HIDE DEF E
<1>2. ASSUME NEW type
      PROVE  NamedIn(Append(elts, e), type) = NamedIn(elts, type) \cup (IF e.type = type THEN {e.col} ELSE {})
  <2>1. NamedIn(Append(elts, e), type) = {x.col : x \in {y \in E \cup {e} : y.type = type}}
    BY <1>1 DEF NamedIn, E
  <2>2. NamedIn(elts, type) = {x.col : x \in {y \in E : y.type = type}}
    BY DEF NamedIn, E
  <2> QED BY <2>1, <2>2
<1>3. DeclaredNotNull(Append(elts, e)) =
        DeclaredNotNull(elts) \cup (IF ImpliesNotNull(e) THEN ToSet(KeysOf(e)) ELSE {})
  <2> DEFINE K(x) == ToSet(KeysOf(x))
             I(x) == ImpliesNotNull(x)
  <2>1. DeclaredNotNull(Append(elts, e)) = UNION {K(x) : x \in {y \in E \cup {e} : I(y)}}
    BY <1>1 DEF DeclaredNotNull, E
  <2>2. DeclaredNotNull(elts) = UNION {K(x) : x \in {y \in E : I(y)}}
    BY DEF DeclaredNotNull, E
  <2> HIDE DEF K, I
  <2>3. DeclaredNotNull(Append(elts, e)) = DeclaredNotNull(elts) \cup (IF I(e) THEN K(e) ELSE {})
    BY <2>1, <2>2
  <2> QED BY <2>3 DEF K, I
<1> QED BY <1>2, <1>3

\* The columns that the elements of a statement declare, before they are marked.
NewColumns(elts) ==
  LET cols == Picked(elts, {k \in DOMAIN elts : elts[k].type = "column"})
  IN [k \in DOMAIN cols |-> ColumnOf(cols[k])]
LEMMA DeclaredMarked == \A elts : Declared(elts) = MarkNotNull(NewColumns(elts), DeclaredNotNull(elts))
BY DEF Declared, NewColumns

\* One more when the element is a column.
OneColumnMore(elts, e) ==
  NewColumns(Append(elts, e)) = IF e.type = "column" THEN Append(NewColumns(elts), ColumnOf(e)) ELSE NewColumns(elts)
LEMMA NewColumnsAppend ==
  ASSUME NEW T, NEW elts \in Seq(T), NEW e \in T
  PROVE  OneColumnMore(elts, e)
<1> DEFINE t == Append(elts, e)
           I == {k \in DOMAIN elts : elts[k].type = "column"}
           J == {k \in DOMAIN t : t[k].type = "column"}
           n == Len(elts) + 1
           F == [x \in T |-> ColumnOf(x)]
           V == {ColumnOf(x) : x \in T}
           p == Picked(elts, I)
<1>1. /\ DOMAIN t = DOMAIN elts \cup {n} /\ n \notin DOMAIN elts
      /\ \A k \in DOMAIN elts : t[k] = elts[k]
      /\ t[n] = e
  BY AppendOne
<1>2. F \in [T -> V] /\ F[e] = ColumnOf(e)
  OBVIOUS
<1>3. ASSUME NEW s \in Seq(T)
      PROVE  [k \in DOMAIN s |-> ColumnOf(s[k])] = Mapped(s, F)
  BY DEF Mapped
<1>4. p \in Seq(T)
  BY PickedType
<1>5. NewColumns(elts) = Mapped(p, F)
  BY <1>3, <1>4 DEF NewColumns
<1>6. NewColumns(t) = [k \in DOMAIN Picked(t, J) |-> ColumnOf(Picked(t, J)[k])]
  BY DEF NewColumns
<1>7. \A k \in DOMAIN elts : k \in I <=> k \in J
  BY <1>1
<1>8. n \in J <=> e.type = "column"
  BY <1>1
<1> HIDE DEF I, J, F, V, t
<1>9. Picked(elts, J) = p
  BY <1>7, PickedSame
<1>10. OneMore(elts, e, J)
  BY PickedAppend
<1>11. Picked(t, J) = IF e.type = "column" THEN Append(p, e) ELSE p
  BY <1>8, <1>9, <1>10 DEF OneMore, t
<1> HIDE DEF p
<1>12. MapsLast(p, e, F)
  BY <1>2, <1>4, MappedAppend
<1>13. Append(p, e) \in Seq(T)
  BY <1>4
<1>14. Picked(t, J) \in Seq(T)
  BY <1>4, <1>11, <1>13
<1>15. NewColumns(t) = Mapped(Picked(t, J), F)
  BY <1>3, <1>6, <1>14
<1> QED BY <1>2, <1>5, <1>11, <1>12, <1>15 DEF MapsLast, OneColumnMore, t

\* They are plain records, called as the elements are.
NewColumn(c, elts) ==
  /\ c.name \in NamedIn(elts, "column")
  /\ \E n, t : c = [name |-> n, type |-> t, notnull |-> FALSE]
LEMMA NewColumnsType ==
  ASSUME NEW elts, IsList(elts)
  PROVE  IsList(NewColumns(elts)) /\ \A k \in DOMAIN NewColumns(elts) : NewColumn(NewColumns(elts)[k], elts)
<1> DEFINE I == {k \in DOMAIN elts : elts[k].type = "column"}
           p == Picked(elts, I)
           c == NewColumns(elts)
<1>1. IsList(p) /\ ToSet(p) = {elts[k] : k \in I}
  BY PickedFacts
<1>2. c = [k \in DOMAIN p |-> ColumnOf(p[k])]
  BY DEF NewColumns
<1> HIDE DEF p, c
<1>3. DOMAIN c = DOMAIN p /\ c = [k \in DOMAIN p |-> c[k]] /\ \A k \in DOMAIN p : c[k] = ColumnOf(p[k])
  BY <1>2
<1>4. IsList(c)
  BY <1>1, <1>3, ChangedList
<1>5. ASSUME NEW k \in DOMAIN c
      PROVE  NewColumn(c[k], elts)
  <2>1. p[k] \in ToSet(elts) /\ p[k].type = "column"
    <3>1. p[k] \in ToSet(p)
      BY <1>3 DEF ToSet
    <3>2. PICK j \in I : p[k] = elts[j]
      BY <1>1, <3>1
    <3> QED BY <3>2 DEF ToSet
  <2>2. c[k] = [name |-> p[k].col, type |-> p[k].of, notnull |-> FALSE]
    BY <1>3 DEF ColumnOf
  <2>3. p[k].col \in NamedIn(elts, "column")
    BY <2>1 DEF NamedIn
  <2>4. c[k].name = p[k].col
    BY <2>2
  <2> QED BY <2>2, <2>3, <2>4 DEF NewColumn
<1> QED BY <1>4, <1>5 DEF c

\* Marked in two steps or in one.
LEMMA MarkTwice ==
  ASSUME NEW elts, IsList(elts), NEW names, NEW more
  PROVE  MarkNotNull(MarkNotNull(NewColumns(elts), names), more) = MarkNotNull(NewColumns(elts), names \cup more)
<1> DEFINE c == NewColumns(elts)
           m == MarkNotNull(c, names)
<1>1. \A k \in DOMAIN c : NewColumn(c[k], elts)
  BY NewColumnsType
<1> HIDE DEF c
<1>2. DOMAIN m = DOMAIN c /\ \A k \in DOMAIN c : m[k] = Mark(c[k], names)
  BY MarkIs
<1>3. MarkNotNull(m, more) = [k \in DOMAIN m |-> Mark(m[k], more)]
  BY MarkIs
<1>4. MarkNotNull(c, names \cup more) = [k \in DOMAIN c |-> Mark(c[k], names \cup more)]
  BY MarkIs
<1> HIDE DEF m
<1>5. ASSUME NEW k \in DOMAIN c
      PROVE  Mark(Mark(c[k], names), more) = Mark(c[k], names \cup more)
  <2>1. PICK n, t : c[k] = [name |-> n, type |-> t, notnull |-> FALSE]
    BY <1>1 DEF NewColumn
  <2> DEFINE plain == [name |-> n, type |-> t, notnull |-> FALSE]
             marked == [name |-> n, type |-> t, notnull |-> TRUE]
             R == [name : {n}, type : {t}, notnull : BOOLEAN]
  <2>2. /\ plain.name = n /\ marked.name = n
        /\ [plain EXCEPT !.notnull = TRUE] = marked
        /\ [marked EXCEPT !.notnull = TRUE] = marked
    <3>1. plain \in R /\ marked \in R /\ plain.name = n /\ marked.name = n
      OBVIOUS
    <3>2. ASSUME NEW x \in R
          PROVE  [x EXCEPT !.notnull = TRUE] = marked
      <4> DEFINE r == [x EXCEPT !.notnull = TRUE]
      <4>1. r \in R /\ r.name = n /\ r.type = t /\ r.notnull = TRUE
        OBVIOUS
      <4> HIDE DEF r
      <4>2. r = marked
        BY <4>1
      <4> QED BY <4>2 DEF r
    <3> HIDE DEF R, plain, marked
    <3> QED BY <3>1, <3>2
  <2>3. c[k] = plain
    BY <2>1
  <2> HIDE DEF plain, marked
  <2>4. \A set : Mark(plain, set) = IF n \in set THEN marked ELSE plain
    BY <2>2 DEF Mark
  <2>5. \A set : Mark(marked, set) = marked
    BY <2>2 DEF Mark
  <2> QED BY <2>3, <2>4, <2>5
<1> QED BY <1>2, <1>3, <1>4, <1>5 DEF m, c

-----------------------------------------------------------------------------
(* A statement, one element after the other *)

\* The m elements of a statement are collected one after the other.
InOrder(kind, cols, elts, m) ==
  \E g : /\ g[0] = cols /\ collectElements(kind, cols, elts) = g[m]
         /\ \A k \in 0 .. (m - 1) : g[k + 1] = collect(kind, g[k], elts[k + 1])
LEMMA CollectSteps ==
  ASSUME NEW kind, NEW cols, NEW elts, NEW m \in Nat, DOMAIN elts = 1 .. m
  PROVE  InOrder(kind, cols, elts, m)
<1> DEFINE Body(g, S) == IF S = {} THEN cols ELSE collect(kind, g[S \ {Max(S)}], elts[Max(S)])
           Defined(k) == \E g : g = [S \in SUBSET (1 .. k) |-> Body(g, S)]
           Reached == {k \in Nat : Defined(k)}
           f == CHOOSE g : g = [S \in SUBSET (1 .. m) |-> Body(g, S)]
<1>1. \A k \in Nat : \A S \in SUBSET (1 .. (k + 1)) : k + 1 \in S => Max(S) = k + 1
  BY LastIsMax
<1>2. 0 \in Reached
  <2> DEFINE g == [S \in SUBSET (1 .. 0) |-> cols]
  <2>1. SUBSET (1 .. 0) = {{}}
    OBVIOUS
  <2>2. g = [S \in SUBSET (1 .. 0) |-> Body(g, S)]
    BY <2>1
  <2>3. Defined(0)
    BY <2>2
  <2> HIDE DEF Defined
  <2> QED BY <2>3
<1>3. ASSUME NEW k \in Nat, k \in Reached
      PROVE  k + 1 \in Reached
  <2>1. PICK g : g = [S \in SUBSET (1 .. k) |-> Body(g, S)]
    BY <1>3
  <2>2. \A S \in SUBSET (1 .. k) : g[S] = Body(g, S)
    <3> HIDE DEF Body
    <3> QED BY <2>1
  <2> DEFINE h == [S \in SUBSET (1 .. (k + 1)) |-> IF k + 1 \in S THEN Body(g, S) ELSE g[S]]
  <2>3. \A S \in SUBSET (1 .. k) : S \in SUBSET (1 .. (k + 1)) /\ h[S] = g[S]
    OBVIOUS
  <2>4. ASSUME NEW S \in SUBSET (1 .. (k + 1))
        PROVE  h[S] = Body(h, S)
    <3>1. CASE k + 1 \in S
      <4>1. Max(S) = k + 1 /\ S \ {k + 1} \in SUBSET (1 .. k)
        BY <1>1, <3>1
      <4>2. h[S] = Body(g, S) /\ h[S \ {Max(S)}] = g[S \ {Max(S)}]
        BY <3>1, <4>1, <2>3
      <4> HIDE DEF h
      <4> QED BY <4>2
    <3>2. CASE k + 1 \notin S
      <4>1. S \in SUBSET (1 .. k) /\ S \ {Max(S)} \in SUBSET (1 .. k)
        <5>1. \A y \in S : y \in 1 .. k
          BY <3>2
        <5> QED BY <5>1
      <4>2. h[S] = Body(g, S) /\ h[S \ {Max(S)}] = g[S \ {Max(S)}]
        BY <4>1, <2>2, <2>3
      <4> HIDE DEF h
      <4> QED BY <4>2
    <3> QED BY <3>1, <3>2
  <2>5. h = [S \in SUBSET (1 .. (k + 1)) |-> h[S]]
    OBVIOUS
  <2> HIDE DEF h
  <2>6. Defined(k + 1)
    BY <2>4, <2>5
  <2> HIDE DEF Defined
  <2> QED BY <2>6
<1>4. Nat \subseteq Reached
  <2> HIDE DEF Reached
  <2> QED BY <1>2, <1>3, Counting
<1>5. collectElements(kind, cols, elts) = f[1 .. m]
  BY DEF collectElements, FoldLeft, MapThenFoldSet
<1>6. f = [S \in SUBSET (1 .. m) |-> Body(f, S)]
  <2>1. Defined(m)
    BY <1>4
  <2> QED BY <2>1
<1>7. \A S \in SUBSET (1 .. m) : f[S] = Body(f, S)
  <2> HIDE DEF Body, f
  <2> QED BY <1>6
<1> HIDE DEF f
<1> DEFINE g == [k \in 0 .. m |-> f[1 .. k]]
<1>8. g[0] = cols /\ g[m] = f[1 .. m]
  <2>1. 1 .. 0 = {} /\ {} \in SUBSET (1 .. m) /\ 0 \in 0 .. m /\ m \in 0 .. m
    OBVIOUS
  <2> QED BY <2>1, <1>7
<1>9. ASSUME NEW k \in 0 .. (m - 1)
      PROVE  g[k + 1] = collect(kind, g[k], elts[k + 1])
  <2> DEFINE S == 1 .. (k + 1)
  <2>1. k \in Nat /\ k \in 0 .. m /\ k + 1 \in 0 .. m
    OBVIOUS
  <2>2. S \in SUBSET (1 .. m) /\ k + 1 \in S /\ S # {} /\ S \ {k + 1} = 1 .. k
    OBVIOUS
  <2>3. Max(S) = k + 1
    BY <1>1, <2>1, <2>2
  <2> HIDE DEF S
  <2>4. f[S] = collect(kind, f[1 .. k], elts[k + 1])
    BY <1>7, <2>2, <2>3
  <2> QED BY <2>1, <2>4 DEF S
<1> HIDE DEF g
<1> QED BY <1>5, <1>8, <1>9 DEF InOrder

\* What sqlc makes of the columns before and the elements of a statement.
NamesOf(cols) == {cols[k].name : k \in DOMAIN cols}
Altered(cols, elts) == Without(cols, NamedIn(elts, "drop")) \o Declared(elts)

\* What an element may do after the elements before: a key or a NOT NULL comes
\* behind the columns of the statement, and ALTER TABLE names those with it or
\* not at all.
Fits(kind, cols, elts, e) ==
  /\ e.type = "column" => e.col \notin DeclaredNotNull(elts)
  /\ kind = "create" => cols = <<>>
  /\ kind = "alter" =>
       /\ e.type = "column" => e.col # None
       /\ e.type = "drop" => e.col \notin NamedIn(elts, "column")
       /\ ImpliesNotNull(e) => IF e.col # None THEN ToSet(KeysOf(e)) \cap NamesOf(cols) = {}
                               ELSE ToSet(KeysOf(e)) \cap NamedIn(elts, "column") = {}

\* One element more says the same in both editions.
LEMMA CollectOne ==
  ASSUME NEW kind \in {"create", "alter"}, NEW C, NEW cols \in Seq(C), NEW T, NEW elts \in Seq(T), NEW e \in T,
         Fits(kind, cols, elts, e)
  PROVE  collect(kind, Altered(cols, elts), e) = Altered(cols, Append(elts, e))
<1> DEFINE more == Append(elts, e)
           drops == NamedIn(elts, "drop")
           nn == DeclaredNotNull(elts)
           w == Without(cols, drops)
           n == NewColumns(elts)
           d == MarkNotNull(n, nn)
           now == w \o d
<1>1. IsList(elts)
  BY DEF IsList
<1>2. IsList(n) /\ \A k \in DOMAIN n : NewColumn(n[k], elts)
  BY <1>1, NewColumnsType
<1>3. IsList(d) /\ DOMAIN d = DOMAIN n
  BY <1>2, MarkList
<1>4. Altered(cols, elts) = now
  BY DeclaredMarked DEF Altered
<1>5. Altered(cols, more) = Without(cols, NamedIn(more, "drop")) \o MarkNotNull(NewColumns(more), DeclaredNotNull(more))
  BY DeclaredMarked DEF Altered
<1>6. /\ NamedIn(more, "drop") = drops \cup (IF e.type = "drop" THEN {e.col} ELSE {})
      /\ DeclaredNotNull(more) = nn \cup (IF ImpliesNotNull(e) THEN ToSet(KeysOf(e)) ELSE {})
  BY NamedAppend
<1>7. NewColumns(more) = IF e.type = "column" THEN Append(n, ColumnOf(e)) ELSE n
  <2>1. OneColumnMore(elts, e)
    BY NewColumnsAppend
  <2> QED BY <2>1 DEF OneColumnMore
<1>8. Remaining(C, cols, drops)
  BY WithoutType
<1>9. \A k \in DOMAIN d : d[k].name \in NamedIn(elts, "column")
  <2> SUFFICES ASSUME NEW k \in DOMAIN d PROVE d[k].name \in NamedIn(elts, "column")
    OBVIOUS
  <2>1. d[k] = Mark(n[k], nn)
    BY <1>3, MarkIs
  <2> HIDE DEF d, n
  <2>2. NewColumn(n[k], elts)
    BY <1>2, <1>3
  <2>3. PICK x, t : n[k] = [name |-> x, type |-> t, notnull |-> FALSE]
    BY <2>2 DEF NewColumn
  <2>4. d[k].name = n[k].name
    BY <2>1, <2>3 DEF Mark
  <2> QED BY <2>2, <2>4 DEF NewColumn
<1>10. PICK D : d \in Seq(D)
  BY <1>3 DEF IsList
<1> DEFINE W == C \cup D
<1>11. w \in Seq(W) /\ d \in Seq(W)
  BY <1>8, <1>10, SeqMonotonic DEF Remaining
<1> HIDE DEF more, drops, nn, w, n, d, W
<1> SUFFICES collect(kind, now, e) = Altered(cols, more)
  BY <1>4 DEF more
<1>12. CASE e.type = "column"
  <2> DEFINE c == ColumnOf(e)
  <2>1. collect(kind, now, e) = Append(now, c)
    <3>1. collectElement(now, e) = Append(now, c)
      BY <1>12 DEF collectElement, ImpliesNotNull
    <3>2. kind = "alter" => e.col # None /\ e.type # "drop"
      BY <1>12 DEF Fits
    <3> HIDE DEF now, c
    <3> QED BY <3>1, <3>2 DEF collect, alterCommand
  <2>2. ~ImpliesNotNull(e) /\ e.type # "drop"
    BY <1>12 DEF ImpliesNotNull
  <2>3. MarkNotNull(NewColumns(more), nn) = Append(d, Mark(c, nn))
    <3>1. PICK N : n \in Seq(N)
      BY <1>2 DEF IsList
    <3> DEFINE N2 == N \cup {c}
    <3>2. n \in Seq(N2) /\ c \in N2
      BY <3>1, SeqMonotonic
    <3> HIDE DEF N2, c
    <3>3. MarksLast(n, c, nn)
      BY <3>2, MarkAppend
    <3> QED BY <1>7, <1>12, <3>3 DEF MarksLast, d, c
  <2>4. Mark(c, nn) = c
    BY <1>12 DEF Mark, ColumnOf, Fits, nn
  <2>5. Altered(cols, more) = w \o Append(d, c)
    BY <1>5, <1>6, <2>2, <2>3, <2>4 DEF w
  <2> HIDE DEF c
  <2>6. w \o Append(d, c) = Append(w \o d, c)
    <3> DEFINE W2 == W \cup {c}
    <3>1. w \in Seq(W2) /\ d \in Seq(W2) /\ c \in W2
      BY <1>11, SeqMonotonic
    <3> HIDE DEF W2
    <3> QED BY <3>1, AppendBehind
  <2> QED BY <2>1, <2>5, <2>6
<1>13. CASE ImpliesNotNull(e) /\ (kind = "alter" => e.col # None)
  <2> DEFINE K == ToSet(KeysOf(e))
  <2>1. e.type \notin {"column", "drop"}
    BY <1>13 DEF ImpliesNotNull
  <2>2. collect(kind, now, e) = MarkNotNull(now, K)
    BY <1>13, <2>1 DEF collect, alterCommand, collectElement
  <2> HIDE DEF K
  <2>3. Altered(cols, more) = w \o MarkNotNull(n, nn \cup K)
    BY <1>5, <1>6, <1>7, <1>13, <2>1 DEF K, w
  <2>4. MarksApart(w, d, K)
    BY <1>11, MarkConcat
  <2>5. MarkNotNull(w, K) = w
    <3>1. \A k \in DOMAIN w : w[k].name \notin K
      <4>1. CASE kind = "create"
        BY <1>8, <4>1 DEF Remaining, Fits, ToSet, w
      <4>2. CASE kind = "alter"
        <5>1. K \cap NamesOf(cols) = {}
          BY <1>13, <4>2 DEF Fits, K
        <5>2. \A k \in DOMAIN w : w[k].name \in NamesOf(cols)
          BY <1>8 DEF Remaining, NamesOf, ToSet, w
        <5> QED BY <5>1, <5>2
      <4> QED BY <4>1, <4>2
    <3>2. IsList(w)
      BY <1>11 DEF IsList
    <3> QED BY <3>1, <3>2, MarkNone
  <2>6. MarkNotNull(d, K) = MarkNotNull(n, nn \cup K)
    BY <1>1, MarkTwice DEF d, n
  <2> QED BY <2>2, <2>3, <2>4, <2>5, <2>6 DEF MarksApart
<1>14. CASE ImpliesNotNull(e) /\ kind = "alter" /\ e.col = None
  <2> DEFINE K == ToSet(KeysOf(e))
  <2>1. e.type \notin {"column", "drop"}
    BY <1>14 DEF ImpliesNotNull
  <2>2. collect(kind, now, e) = now
    BY <1>14, <2>1 DEF collect, alterCommand
  <2> HIDE DEF K
  <2>3. Altered(cols, more) = w \o MarkNotNull(n, nn \cup K)
    BY <1>5, <1>6, <1>7, <1>14, <2>1 DEF K, w
  <2>4. MarkNotNull(d, K) = MarkNotNull(n, nn \cup K)
    BY <1>1, MarkTwice DEF d, n
  <2>5. MarkNotNull(d, K) = d
    <3>1. K \cap NamedIn(elts, "column") = {}
      BY <1>14 DEF Fits, K
    <3> QED BY <1>3, <1>9, <3>1, MarkNone
  <2> QED BY <2>2, <2>3, <2>4, <2>5
<1>15. CASE e.type = "drop"
  <2>1. ~ImpliesNotNull(e) /\ e.type # "column"
    BY <1>15 DEF ImpliesNotNull
  <2>2. Altered(cols, more) = Without(cols, drops \cup {e.col}) \o d
    BY <1>5, <1>6, <1>7, <1>15, <2>1 DEF d
  <2>3. CASE kind = "create"
    <3>1. collect(kind, now, e) = now
      BY <1>15, <2>1, <2>3 DEF collect, collectElement
    <3>2. Without(cols, drops \cup {e.col}) = <<>> /\ w = <<>>
      BY <2>3, WithoutEmpty DEF Fits, w
    <3> QED BY <2>2, <3>1, <3>2
  <2>4. CASE kind = "alter"
    <3>1. collect(kind, now, e) = Without(now, {e.col})
      BY <1>15, <2>4 DEF collect, alterCommand
    <3>2. DropsApart(w, d, {e.col})
      BY <1>11, WithoutConcat
    <3>3. DropsBoth(cols, drops, {e.col})
      BY WithoutTwice
    <3>4. Without(d, {e.col}) = d
      <4>1. e.col \notin NamedIn(elts, "column")
        BY <1>15, <2>4 DEF Fits
      <4>2. KeepsAll(d, {e.col})
        BY <1>10, WithoutOthers
      <4> QED BY <1>9, <4>1, <4>2 DEF KeepsAll
    <3> QED BY <2>2, <3>1, <3>2, <3>3, <3>4 DEF DropsApart, DropsBoth, w
  <2> QED BY <2>3, <2>4
<1>16. CASE e.type \notin {"column", "drop"} /\ ~ImpliesNotNull(e)
  <2>1. collect(kind, now, e) = now
    BY <1>16 DEF collect, alterCommand, collectElement
  <2>2. Altered(cols, more) = now
    BY <1>5, <1>6, <1>7, <1>16 DEF d, w
  <2> QED BY <2>1, <2>2
<1> QED BY <1>12, <1>13, <1>14, <1>15, <1>16

\* A statement on which the order of its elements does not matter: a key or a
\* NOT NULL comes behind the columns of the statement that it names, and an
\* ALTER TABLE says with a column's own constraints nothing of other columns and
\* with the table's nothing of columns that it adds.
PlainElements(kind, elts) ==
  /\ \A j, k \in DOMAIN elts :
       j < k /\ ImpliesNotNull(elts[j]) /\ elts[k].type = "column" => elts[k].col \notin ToSet(KeysOf(elts[j]))
  /\ kind = "alter" => \A e \in ToSet(elts) :
       /\ e.type = "column" => e.col # None
       /\ ImpliesNotNull(e) => IF e.col # None THEN ToSet(KeysOf(e)) \subseteq NamedIn(elts, "column")
                               ELSE ToSet(KeysOf(e)) \cap NamedIn(elts, "column") = {}

\* What Postgres asks of ALTER TABLE: it drops what is there and adds what is not.
Applicable(cols, elts) ==
  NamedIn(elts, "drop") \subseteq NamesOf(cols) /\ NamedIn(elts, "column") \cap NamesOf(cols) = {}

\* Such a statement says the same in both editions.
LEMMA StatementCollected ==
  ASSUME NEW kind \in {"create", "alter"}, NEW cols, IsList(cols), NEW elts, IsList(elts),
         PlainElements(kind, elts), kind = "create" => cols = <<>>, kind = "alter" => Applicable(cols, elts)
  PROVE  collectElements(kind, cols, elts) = Altered(cols, elts)
<1> DEFINE m == Len(elts)
           T == ToSet(elts)
           pre(k) == [i \in 1 .. k |-> elts[i]]
<1>1. m \in Nat /\ DOMAIN elts = 1 .. m /\ elts = [i \in 1 .. m |-> elts[i]]
  BY ListDomain DEF IsList
<1>2. PICK C : cols \in Seq(C)
  BY DEF IsList
<1>3. \A k \in 1 .. m : elts[k] \in T
  BY <1>1 DEF ToSet
<1> HIDE DEF m, T
<1>4. PICK g : /\ g[0] = cols /\ collectElements(kind, cols, elts) = g[m]
               /\ \A k \in 0 .. (m - 1) : g[k + 1] = collect(kind, g[k], elts[k + 1])
  <2>1. InOrder(kind, cols, elts, m)
    BY <1>1, CollectSteps
  <2> QED BY <2>1 DEF InOrder
<1>5. ASSUME NEW k \in Nat, k <= m
      PROVE  pre(k) \in Seq(T) /\ ToSet(pre(k)) = {elts[j] : j \in 1 .. k}
  <2>1. \A i \in 1 .. k : i \in 1 .. m
    BY <1>1, <1>5
  <2>2. pre(k) \in [1 .. k -> T]
    BY <1>3, <2>1
  <2> QED BY <2>2 DEF ToSet
<1>6. ASSUME NEW k \in Nat, k + 1 <= m
      PROVE  pre(k + 1) = Append(pre(k), elts[k + 1]) /\ k \in 0 .. (m - 1) /\ k + 1 \in 1 .. m
  <2>1. k \in 0 .. (m - 1) /\ k + 1 \in 1 .. m /\ k <= m
    BY <1>1, <1>6
  <2>2. pre(k) \in Seq(T) /\ Len(pre(k)) = k
    BY <1>5, <2>1
  <2>3. elts[k + 1] \in T
    BY <1>3, <2>1
  <2> DEFINE p == pre(k)
             u == Append(p, elts[k + 1])
             v == pre(k + 1)
  <2>4. \A i \in 1 .. k : p[i] = elts[i]
    OBVIOUS
  <2>5. v \in Seq(T) /\ Len(v) = k + 1 /\ \A i \in 1 .. (k + 1) : v[i] = elts[i]
    BY <1>5, <1>6
  <2> HIDE DEF p, v
  <2>6. u \in Seq(T) /\ Len(u) = k + 1 /\ u[k + 1] = elts[k + 1] /\ \A i \in 1 .. k : u[i] = p[i]
    BY <2>2, <2>3 DEF p
  <2> HIDE DEF u
  <2>7. \A i \in 1 .. (k + 1) : i \in 1 .. k \/ i = k + 1
    OBVIOUS
  <2>8. \A i \in 1 .. (k + 1) : u[i] = v[i]
    BY <2>4, <2>5, <2>6, <2>7
  <2>9. u = v
    BY <2>5, <2>6, <2>8, SeqEqual
  <2> QED BY <2>1, <2>9 DEF u, v, p
<1> HIDE DEF pre
<1> DEFINE Good(k) == g[k] = Altered(cols, pre(k))
           Done == {k \in Nat : k <= m => Good(k)}
<1>7. 0 \in Done
  <2>1. pre(0) = <<>>
    BY DEF pre
  <2>2. NamedIn(<<>>, "drop") = {}
    BY DEF NamedIn, ToSet
  <2>3. Without(cols, {}) = cols
    BY <1>2, WithoutOthers DEF KeepsAll
  <2>4. Declared(<<>>) = <<>>
    BY DEF Declared, Picked, FlattenSeq, MarkNotNull
  <2>5. cols \o <<>> = cols
    BY <1>2
  <2>6. Good(0)
    BY <1>4, <2>1, <2>2, <2>3, <2>4, <2>5 DEF Altered
  <2> HIDE DEF Good
  <2> QED BY <2>6
<1>8. ASSUME NEW k \in Nat, k \in Done
      PROVE  k + 1 \in Done
  <2> SUFFICES ASSUME k + 1 <= m PROVE Good(k + 1)
    <3> HIDE DEF Good
    <3> QED OBVIOUS
  <2>1. Good(k)
    <3> HIDE DEF Good
    <3> QED BY <1>1, <1>8
  <2> DEFINE e == elts[k + 1]
             p == pre(k)
  <2>2. k <= m /\ k + 1 \in 1 .. m /\ k \in 0 .. (m - 1)
    BY <1>1, <1>6
  <2>3. p \in Seq(T) /\ ToSet(p) = {elts[j] : j \in 1 .. k} /\ e \in T
    BY <1>3, <1>5, <2>2
  <2>4. pre(k + 1) = Append(p, e)
    BY <1>6
  <2>5. g[k + 1] = collect(kind, g[k], e)
    BY <1>4, <2>2
  <2>6. ToSet(p) \subseteq T /\ \A x \in ToSet(p) : \E j \in DOMAIN elts : j < k + 1 /\ x = elts[j]
    <3>1. \A j \in 1 .. k : j < k + 1 /\ j \in 1 .. m
      BY <1>1, <2>2
    <3> QED BY <1>1, <1>3, <2>3, <3>1
  <2> HIDE DEF p
  <2>7. \A type : NamedIn(p, type) \subseteq NamedIn(elts, type)
    BY <2>6 DEF NamedIn, T
  <2>8. Fits(kind, cols, p, e)
    <3>1. e.type = "column" => e.col \notin DeclaredNotNull(p)
      <4>1. SUFFICES ASSUME e.type = "column", NEW x \in ToSet(p), ImpliesNotNull(x)
                     PROVE  e.col \notin ToSet(KeysOf(x))
        BY DEF DeclaredNotNull
      <4>2. PICK j \in DOMAIN elts : j < k + 1 /\ x = elts[j]
        BY <2>6
      <4> QED BY <1>1, <2>2, <4>1, <4>2 DEF PlainElements
    <3>2. kind = "alter" /\ e.type = "column" => e.col # None
      BY <2>3 DEF PlainElements, T
    <3>3. kind = "alter" /\ e.type = "drop" => e.col \notin NamedIn(p, "column")
      <4>1. SUFFICES ASSUME kind = "alter", e.type = "drop" PROVE e.col \notin NamedIn(elts, "column")
        BY <2>7
      <4>2. e.col \in NamedIn(elts, "drop")
        BY <2>3, <4>1 DEF NamedIn, T
      <4> QED BY <4>1, <4>2 DEF Applicable
    <3>4. kind = "alter" /\ ImpliesNotNull(e) =>
            IF e.col # None THEN ToSet(KeysOf(e)) \cap NamesOf(cols) = {}
            ELSE ToSet(KeysOf(e)) \cap NamedIn(p, "column") = {}
      <4>1. SUFFICES ASSUME kind = "alter", ImpliesNotNull(e)
                     PROVE  IF e.col # None THEN ToSet(KeysOf(e)) \cap NamesOf(cols) = {}
                            ELSE ToSet(KeysOf(e)) \cap NamedIn(p, "column") = {}
        OBVIOUS
      <4>2. IF e.col # None THEN ToSet(KeysOf(e)) \subseteq NamedIn(elts, "column")
            ELSE ToSet(KeysOf(e)) \cap NamedIn(elts, "column") = {}
        BY <2>3, <4>1 DEF PlainElements, T
      <4> QED BY <2>7, <4>1, <4>2 DEF Applicable
    <3> QED BY <3>1, <3>2, <3>3, <3>4 DEF Fits
  <2> HIDE DEF e
  <2>9. collect(kind, Altered(cols, p), e) = Altered(cols, Append(p, e))
    BY <1>2, <2>3, <2>8, CollectOne
  <2> QED BY <2>1, <2>4, <2>5, <2>9 DEF p
<1>9. Nat \subseteq Done
  <2> HIDE DEF Done
  <2> QED BY <1>7, <1>8, Counting
<1>10. Good(m)
  <2> HIDE DEF Good
  <2> QED BY <1>1, <1>9
<1>11. pre(m) = elts
  BY <1>1 DEF pre
<1> QED BY <1>4, <1>10, <1>11

\* No columns among the elements, none in the table.
LEMMA DeclaresList ==
  ASSUME NEW elts, IsList(elts)
  PROVE  IsList(Declared(elts)) /\ (NamedIn(elts, "column") = {} => Declared(elts) = <<>>)
<1> DEFINE n == NewColumns(elts)
           d == MarkNotNull(n, DeclaredNotNull(elts))
<1>1. Declared(elts) = d
  BY DeclaredMarked
<1>2. IsList(n) /\ \A k \in DOMAIN n : NewColumn(n[k], elts)
  BY NewColumnsType
<1> HIDE DEF n
<1>3. IsList(d) /\ Len(d) = Len(n) /\ DOMAIN d = DOMAIN n
  BY <1>2, MarkList
<1> HIDE DEF d
<1>4. ASSUME NamedIn(elts, "column") = {}
      PROVE  d = <<>>
  <2>1. DOMAIN d = {}
    BY <1>2, <1>3, <1>4 DEF NewColumn
  <2>2. Len(d) = 0
    BY <1>3, <2>1, ListDomain
  <2> QED BY <1>3, <2>2, EmptySeq DEF IsList
<1> QED BY <1>1, <1>3, <1>4

-----------------------------------------------------------------------------
(* The catalogs *)

\* One table in either catalog: the command leaves a schema out where sqlc has
\* the default one.
Homed(t) == [t EXCEPT !.schema = IF @ = <<>> THEN DefaultSchema ELSE @]
SameTable(t, u) ==
  \E s, n, cols :
    /\ IsList(cols) /\ s # DefaultSchema
    /\ t = [schema |-> s, name |-> n, cols |-> cols]
    /\ u = [schema |-> IF s = <<>> THEN DefaultSchema ELSE s, name |-> n, cols |-> cols]

\* The catalogs have the same tables, in the order of the statements.
Aligned ==
  /\ IsList(schema) /\ IsList(sqlc) /\ Len(schema) = Len(sqlc)
  /\ \A i \in DOMAIN schema : SameTable(schema[i], sqlc[i])

\* The one is the other with its schema filled in.
LEMMA SameTableHomed ==
  ASSUME NEW t, NEW u, SameTable(t, u)
  PROVE  u = Homed(t) /\ (t.schema = <<>> <=> u.schema = DefaultSchema)
<1>1. PICK s, n, cols : /\ s # DefaultSchema
                        /\ t = [schema |-> s, name |-> n, cols |-> cols]
                        /\ u = [schema |-> IF s = <<>> THEN DefaultSchema ELSE s, name |-> n, cols |-> cols]
  BY DEF SameTable
<1> DEFINE h == IF s = <<>> THEN DefaultSchema ELSE s
<1>2. Homed(t) = [t EXCEPT !.schema = h]
  BY <1>1 DEF Homed
<1>3. t \in [schema : {s, h}, name : {n}, cols : {cols}]
  BY <1>1
<1>4. t.schema = s /\ u.schema = h /\ u = [schema |-> h, name |-> n, cols |-> cols] /\ t.name = n /\ t.cols = cols
  BY <1>1
<1> HIDE DEF h
<1>5. [t EXCEPT !.schema = h] = [schema |-> h, name |-> n, cols |-> cols]
  BY <1>3, <1>4
<1>6. t.schema = <<>> <=> u.schema = DefaultSchema
  BY <1>1, <1>4 DEF h
<1> QED BY <1>2, <1>4, <1>5, <1>6

\* What is picked of the one catalog is what is picked of the other.
PicksAlike(F, s, I) == Mapped(Picked(s, I), F) = Picked(Mapped(s, F), I)
LEMMA PickedMapped ==
  ASSUME NEW T, NEW V, NEW F \in [T -> V], NEW s \in Seq(T), NEW I
  PROVE  PicksAlike(F, s, I)
<1> DEFINE P == {r \in Seq(T) : PicksAlike(F, r, I)}
<1>1. <<>> \in P
  BY DEF PicksAlike, Picked, FlattenSeq, Mapped
<1>2. ASSUME NEW r \in Seq(T), r \in P, NEW x \in T
      PROVE  Append(r, x) \in P
  <2> DEFINE m == Mapped(r, F)
             p == Picked(r, I)
  <2>1. m \in Seq(V) /\ Len(m) = Len(r)
    <3>1. MapsInto(r, F, V)
      BY MappedType
    <3> QED BY <3>1 DEF MapsInto
  <2>2. p \in Seq(T)
    BY PickedType
  <2>3. F[x] \in V
    OBVIOUS
  <2> HIDE DEF m, p
  <2>4. MapsLast(r, x, F) /\ MapsLast(p, x, F)
    BY <2>2, MappedAppend
  <2>5. OneMore(r, x, I) /\ OneMore(m, F[x], I)
    BY <2>1, <2>3, PickedAppend
  <2>6. Mapped(p, F) = Picked(m, I)
    BY <1>2 DEF PicksAlike, m, p
  <2>7. Mapped(Picked(Append(r, x), I), F) = IF Len(r) + 1 \in I THEN Append(Mapped(p, F), F[x]) ELSE Mapped(p, F)
    BY <2>4, <2>5 DEF MapsLast, OneMore, p
  <2>8. Picked(Mapped(Append(r, x), F), I) = IF Len(r) + 1 \in I THEN Append(Picked(m, I), F[x]) ELSE Picked(m, I)
    BY <2>1, <2>4, <2>5 DEF MapsLast, OneMore, m
  <2>9. PicksAlike(F, Append(r, x), I)
    BY <2>6, <2>7, <2>8 DEF PicksAlike
  <2>10. Append(r, x) \in Seq(T)
    OBVIOUS
  <2> QED BY <2>9, <2>10
<1> HIDE DEF P
<1>3. Seq(T) \subseteq P
  BY <1>1, <1>2, ListInduction
<1> QED BY <1>3 DEF P

\* Nothing picked, nothing there.
LEMMA PickedNone ==
  ASSUME NEW T, NEW s \in Seq(T), NEW I, \A i \in DOMAIN s : i \notin I
  PROVE  Picked(s, I) = <<>>
<1> DEFINE p == Picked(s, {})
<1>1. Picked(s, I) = p
  BY PickedSame
<1>2. IsList(s)
  BY DEF IsList
<1>3. IsList(p) /\ ToSet(p) = {}
  BY <1>2, PickedFacts
<1> HIDE DEF p
<1>4. DOMAIN p = {}
  BY <1>3 DEF ToSet
<1> QED BY <1>1, <1>3, <1>4, EmptySeq DEF IsList

\* Positions that all come before others are picked before them.
Ahead(s, I, J) == \A i \in I, j \in J : i \in DOMAIN s /\ j \in DOMAIN s => i < j
PicksInTurn(s, I, J) == Ahead(s, I, J) => Picked(s, I \cup J) = Picked(s, I) \o Picked(s, J)
LEMMA PickedSplit ==
  ASSUME NEW T, NEW s \in Seq(T), NEW I, NEW J
  PROVE  PicksInTurn(s, I, J)
<1> DEFINE P == {r \in Seq(T) : PicksInTurn(r, I, J)}
<1>1. <<>> \in P
  <2>1. <<>> \in Seq(T) /\ DOMAIN <<>> = {} /\ <<>> \o <<>> = <<>>
    OBVIOUS
  <2>2. \A K : Picked(<<>>, K) = <<>>
    BY <2>1, PickedNone
  <2> QED BY <2>1, <2>2 DEF PicksInTurn
<1>2. ASSUME NEW r \in Seq(T), r \in P, NEW x \in T
      PROVE  Append(r, x) \in P
  <2>0. SUFFICES PicksInTurn(Append(r, x), I, J)
    OBVIOUS
  <2> DEFINE a == Append(r, x)
             n == Len(r) + 1
             p == Picked(r, I)
             q == Picked(r, J)
             b == Picked(r, I \cup J)
  <2>1. SUFFICES ASSUME Ahead(a, I, J) PROVE Picked(a, I \cup J) = Picked(a, I) \o Picked(a, J)
    BY DEF PicksInTurn
  <2>2. /\ DOMAIN a = DOMAIN r \cup {n} /\ n \in Nat /\ \A i \in DOMAIN r : i \in Nat /\ i < n
        /\ DOMAIN r = 1 .. Len(r)
    OBVIOUS
  <2>3. OneMore(r, x, I) /\ OneMore(r, x, J) /\ OneMore(r, x, I \cup J)
    BY PickedAppend
  <2>4. /\ Picked(a, I) = IF n \in I THEN Append(p, x) ELSE p
        /\ Picked(a, J) = IF n \in J THEN Append(q, x) ELSE q
        /\ Picked(a, I \cup J) = IF n \in I \cup J THEN Append(b, x) ELSE b
    BY <2>3 DEF OneMore
  <2>5. p \in Seq(T) /\ q \in Seq(T)
    BY PickedType
  <2> HIDE DEF a, n
  <2>6. b = p \o q
    <3>1. Ahead(r, I, J)
      BY <2>1, <2>2 DEF Ahead
    <3> QED BY <1>2, <3>1 DEF PicksInTurn
  <2>7. ~(n \in I /\ n \in J) /\ (n \in I => \A j \in DOMAIN r : j \notin J)
    BY <2>1, <2>2 DEF Ahead
  <2>8. n \in I => q = <<>>
    BY <2>7, PickedNone
  <2> HIDE DEF p, q, b
  <2>9. CASE n \in I
    <3>1. n \notin J /\ p \o <<>> = p /\ Append(p, x) \o <<>> = Append(p, x)
      BY <2>5, <2>7, <2>9
    <3> QED BY <2>4, <2>6, <2>8, <2>9, <3>1
  <2>10. CASE n \notin I /\ n \in J
    <3> HIDE DEF P
    <3>1. p \o Append(q, x) = Append(p \o q, x)
      BY <2>5, AppendBehind
    <3> QED BY <2>4, <2>6, <2>10, <3>1
  <2>11. CASE n \notin I /\ n \notin J
    BY <2>4, <2>6, <2>11
  <2> QED BY <2>9, <2>10, <2>11
<1> HIDE DEF P
<1>3. Seq(T) \subseteq P
  BY <1>1, <1>2, ListInduction
<1> QED BY <1>3 DEF P

\* sqlc knows the schemas of its tables; a script has them in order when it
\* creates no table in an earlier schema than the one before it.
Placed(u) == {"schema", "name"} \subseteq DOMAIN u /\ u.schema \in {DefaultSchema} \cup ToSet(Schemas)
SchemasInOrder ==
  \A i, j \in DOMAIN sqlc : \A h, k \in DOMAIN Schemas :
    i < j /\ sqlc[i].schema = Schemas[h] /\ sqlc[j].schema = Schemas[k] => h <= k

\* The history and sqlc's catalog are lists, of statements and of tables.
CatalogLists == IsList(collected) /\ IsList(sqlc) /\ \A i \in DOMAIN sqlc : Placed(sqlc[i])

\* The tables of one schema after the other are the tables as they came.
LEMMA GroupsInOrder ==
  ASSUME IsList(sqlc), \A i \in DOMAIN sqlc : Placed(sqlc[i]), SchemasInOrder,
         NEW E, E = {i \in DOMAIN sqlc : sqlc[i].schema # DefaultSchema}
  PROVE  FlattenSeq([k \in DOMAIN Schemas |-> TablesIn(Schemas[k])]) = Picked(sqlc, E)
<1>1. PICK T : sqlc \in Seq(T)
  BY DEF IsList
<1>2. Schemas \in Seq(ToSet(Schemas)) /\ IsInjective(Schemas) /\ DefaultSchema \notin ToSet(Schemas)
  BY ScriptAssumption
<1> DEFINE n == Len(Schemas)
           Q == Seq(T)
           parts == [k \in DOMAIN Schemas |-> TablesIn(Schemas[k])]
           G(k) == {i \in DOMAIN sqlc : sqlc[i].schema = Schemas[k]}
           H(k) == {i \in DOMAIN sqlc : \E h \in 1 .. k : sqlc[i].schema = Schemas[h]}
<1>3. n \in Nat /\ DOMAIN Schemas = 1 .. n
  BY <1>2
<1>4. \A i \in DOMAIN sqlc : sqlc[i].schema # DefaultSchema <=> \E h \in 1 .. n : sqlc[i].schema = Schemas[h]
  BY <1>2, <1>3 DEF Placed, ToSet
<1>5. E = H(n)
  BY <1>4
<1>6. \A k \in DOMAIN Schemas : parts[k] = Picked(sqlc, G(k)) /\ parts[k] \in Q
  BY <1>1, PickedType DEF TablesIn
<1>7. parts \in Seq(Q) /\ Len(parts) = n
  <2>1. parts \in [1 .. n -> Q]
    BY <1>3, <1>6
  <2> HIDE DEF parts, Q, n
  <2> QED BY <1>3, <2>1
<1> HIDE DEF n, parts
<1>8. CASE n = 0
  <2>1. FlattenSeq(parts) = parts /\ parts = <<>>
    BY <1>7, <1>8, EmptySeq DEF FlattenSeq
  <2>2. Picked(sqlc, E) = <<>>
    BY <1>1, <1>5, <1>8, PickedNone
  <2> QED BY <2>1, <2>2 DEF parts
<1>9. CASE n # 0
  <2>1. PICK f : /\ FlattenSeq(parts) = f[n]
                 /\ f[1] = parts[1]
                 /\ \A i \in 2 .. n : f[i] = f[i - 1] \o parts[i]
    BY <1>7, <1>9, FlattenSteps DEF Q
  <2> DEFINE Good(k) == f[k + 1] = Picked(sqlc, H(k + 1))
             Reached == {k \in Nat : k + 1 <= n => Good(k)}
  <2>2. 0 \in Reached
    <3>1. 1 \in DOMAIN Schemas /\ 0 + 1 = 1 /\ 1 .. 1 = {1}
      BY <1>3, <1>9
    <3>2. H(1) = G(1)
      BY <3>1
    <3> HIDE DEF H, G
    <3>3. f[1] = Picked(sqlc, H(1))
      BY <1>6, <2>1, <3>1, <3>2
    <3> QED BY <3>1, <3>3
  <2>3. ASSUME NEW k \in Nat, k \in Reached
        PROVE  k + 1 \in Reached
    <3>1. SUFFICES ASSUME k + 2 <= n PROVE f[k + 2] = Picked(sqlc, H(k + 2))
      <4>1. (k + 1) + 1 = k + 2 /\ k + 1 \in Nat
        OBVIOUS
      <4> HIDE DEF H
      <4> QED BY <4>1
    <3>2. k + 1 <= n /\ k + 2 \in 2 .. n /\ (k + 2) - 1 = k + 1 /\ k + 2 \in 1 .. n
      BY <1>3, <3>1
    <3>3. f[k + 1] = Picked(sqlc, H(k + 1))
      <4> HIDE DEF H
      <4> QED BY <2>3, <3>2
    <3>4. f[k + 2] = Picked(sqlc, H(k + 1)) \o Picked(sqlc, G(k + 2))
      <4> HIDE DEF H, G
      <4> QED BY <1>3, <1>6, <2>1, <3>2, <3>3
    <3>5. H(k + 2) = H(k + 1) \cup G(k + 2)
      <4>1. 1 .. (k + 2) = (1 .. (k + 1)) \cup {k + 2}
        OBVIOUS
      <4> QED BY <4>1
    <3>6. Ahead(sqlc, H(k + 1), G(k + 2))
      <4>1. SUFFICES ASSUME NEW i \in H(k + 1), NEW j \in G(k + 2) PROVE i < j
        BY DEF Ahead
      <4>2. PICK h \in 1 .. (k + 1) : sqlc[i].schema = Schemas[h]
        OBVIOUS
      <4>3. h \in DOMAIN Schemas /\ k + 2 \in DOMAIN Schemas /\ h < k + 2 /\ h \in Nat
        BY <1>3, <3>2
      <4>4. ~(j < i)
        BY <4>2, <4>3 DEF SchemasInOrder
      <4>5. i # j
        BY <1>2, <4>2, <4>3 DEF IsInjective
      <4>6. i \in Nat /\ j \in Nat
        BY <1>1
      <4> QED BY <4>4, <4>5, <4>6
    <3>7. PicksInTurn(sqlc, H(k + 1), G(k + 2))
      BY <1>1, PickedSplit
    <3> HIDE DEF H, G
    <3> QED BY <3>4, <3>5, <3>6, <3>7 DEF PicksInTurn
  <2>4. Nat \subseteq Reached
    <3> HIDE DEF Reached
    <3> QED BY <2>2, <2>3, Counting
  <2>5. n - 1 \in Nat /\ (n - 1) + 1 = n
    BY <1>3, <1>9
  <2>6. Good(n - 1)
    <3>1. (n - 1) + 1 <= n
      BY <1>3, <2>5
    <3>2. n - 1 \in Reached
      <4> HIDE DEF Reached
      <4> QED BY <2>4, <2>5
    <3> HIDE DEF Good
    <3> QED BY <3>1, <3>2
  <2>7. f[n] = Picked(sqlc, H(n))
    <3> HIDE DEF H
    <3> QED BY <2>5, <2>6
  <2> QED BY <1>5, <2>1, <2>7 DEF parts
<1> QED BY <1>8, <1>9

\* Then the request is what the plugin edition gets.
LEMMA AlignedEnough == CatalogLists /\ SchemasInOrder /\ Aligned => EditionsAgree
<1> SUFFICES ASSUME CatalogLists, SchemasInOrder, Aligned PROVE EditionsAgree
  OBVIOUS
<1>1. IsList(schema) /\ IsList(sqlc) /\ Len(schema) = Len(sqlc) /\ \A i \in DOMAIN schema : SameTable(schema[i], sqlc[i])
  BY DEF Aligned
<1> DEFINE T == ToSet(schema)
           F == [t \in T |-> Homed(t)]
           V == {Homed(t) : t \in T}
           I == {i \in DOMAIN schema : schema[i].schema = <<>>}
           J == DOMAIN schema \ I
           D == {i \in DOMAIN sqlc : sqlc[i].schema = DefaultSchema}
           E == DOMAIN sqlc \ D
           first == Picked(schema, I)
           rest == Picked(schema, J)
           all == first \o rest
<1>2. /\ DOMAIN schema = 1 .. Len(schema) /\ DOMAIN sqlc = 1 .. Len(schema) /\ Len(schema) \in Nat
      /\ schema = [i \in 1 .. Len(schema) |-> schema[i]] /\ sqlc = [i \in 1 .. Len(schema) |-> sqlc[i]]
  BY <1>1, ListDomain DEF IsList
<1>3. schema \in Seq(T)
  <2>1. \A i \in 1 .. Len(schema) : schema[i] \in T
    BY <1>2 DEF ToSet
  <2> HIDE DEF T
  <2> QED BY <1>2, <2>1
<1>4. F \in [T -> V] /\ \A t \in T : F[t] = Homed(t)
  OBVIOUS
<1>5. \A i \in DOMAIN schema : sqlc[i] = Homed(schema[i]) /\ (schema[i].schema = <<>> <=> sqlc[i].schema = DefaultSchema)
  BY <1>1, SameTableHomed
<1>6. sqlc = Mapped(schema, F)
  <2>1. \A i \in 1 .. Len(schema) : F[schema[i]] = sqlc[i]
    BY <1>2, <1>4, <1>5 DEF ToSet
  <2> HIDE DEF F
  <2> QED BY <1>2, <2>1 DEF Mapped
<1>7. I = D /\ J = E
  BY <1>2, <1>5
<1> HIDE DEF T, V
<1>8. first \in Seq(T) /\ rest \in Seq(T)
  BY <1>3, PickedType
<1>11. Requested = [k \in DOMAIN all |-> Homed(all[k])]
  BY DEF Requested, Homed
<1> HIDE DEF I, J, D, E, F, first, rest
<1>12. all \in Seq(T)
  BY <1>8, ConcatProperties
<1>13. Requested = Mapped(all, F)
  <2> HIDE DEF all
  <2>1. \A k \in DOMAIN all : F[all[k]] = Homed(all[k])
    BY <1>4, <1>12
  <2> QED BY <1>11, <2>1 DEF Mapped
<1>14. MapsApart(first, rest, F)
  BY <1>4, <1>8, MappedConcat
<1>15. PicksAlike(F, schema, I) /\ PicksAlike(F, schema, J)
  BY <1>3, <1>4, PickedMapped
<1>16. Requested = Picked(sqlc, D) \o Picked(sqlc, E)
  BY <1>6, <1>7, <1>13, <1>14, <1>15 DEF MapsApart, PicksAlike, first, rest
<1>17. Picked(sqlc, E) = FlattenSeq([k \in DOMAIN Schemas |-> TablesIn(Schemas[k])])
  <2>1. E = {i \in DOMAIN sqlc : sqlc[i].schema # DefaultSchema}
    BY DEF D, E
  <2> QED BY <2>1, GroupsInOrder DEF CatalogLists
<1>18. Picked(sqlc, D) = TablesIn(DefaultSchema)
  BY DEF TablesIn, D
<1> QED BY <1>16, <1>17, <1>18 DEF EditionsAgree, Built

-----------------------------------------------------------------------------
(* Scripts *)

\* The tables a statement takes columns from or changes: both editions look for
\* them by name, and the command by nothing else.
NamesUsed(d) ==
  CASE d.kind = "alter" -> {d.rel.name}
    [] d.kind = "create" -> {p.name : p \in ToSet(d.parents)}
    [] OTHER -> {}

\* A statement that the command understands as sqlc does: no view of columns that
\* it resolves, the default schema left unsaid, keys behind their columns, a
\* partition of one table.
PlainStatement(d) ==
  /\ d.kind \in {"view", "table_as"} => d.targets = <<>>
  /\ d.kind \in {"create", "alter"} => PlainElements(d.kind, d.elts)
  /\ d.kind = "create" =>
       /\ d.rel.schema # DefaultSchema
       /\ d.parents = <<>> \/ (NamedIn(d.elts, "column") = {} /\ \E p \in ToSet(d.parents) : d.parents = <<p>>)
PlainScript ==
  /\ \A d \in ToSet(collected) :
       /\ PlainStatement(d)
       /\ \A n \in NamesUsed(d) : \A i, j \in DOMAIN sqlc : sqlc[i].name = n /\ sqlc[j].name = n => i = j
  /\ SchemasInOrder

\* What is plain with one statement more was plain before: tables keep their names.
LEMMA PlainBefore ==
  ASSUME CatalogLists, NEW d, Collect(d)
  PROVE  /\ CatalogLists'
         /\ PlainScript' => PlainScript /\ PlainStatement(d)
         /\ PlainScript' => \A n \in NamesUsed(d) : \A i, j \in DOMAIN sqlc : sqlc[i].name = n /\ sqlc[j].name = n => i = j
<1>1. collected' = Append(collected, d) /\ sqlc' = Analyzed(d)
  BY DEF Collect
<1>2. IsList(collected) /\ IsList(sqlc) /\ \A i \in DOMAIN sqlc : Placed(sqlc[i])
  BY DEF CatalogLists
<1>3. ToSet(collected') = ToSet(collected) \cup {d} /\ IsList(collected')
  <2>1. PICK S : collected \in Seq(S)
    BY <1>2 DEF IsList
  <2>2. /\ DOMAIN collected' = DOMAIN collected \cup {Len(collected) + 1}
        /\ \A i \in DOMAIN collected : collected'[i] = collected[i]
        /\ collected'[Len(collected) + 1] = d
    BY <1>1, <2>1, AppendOne
  <2> QED BY <1>1, <1>2, <2>2, AppendList DEF ToSet
<1>4. /\ IsList(sqlc') /\ \A i \in DOMAIN sqlc' : Placed(sqlc'[i])
      /\ \A i \in DOMAIN sqlc : /\ i \in DOMAIN sqlc'
                               /\ sqlc'[i].name = sqlc[i].name /\ sqlc'[i].schema = sqlc[i].schema
  <2> DEFINE Home0 == {DefaultSchema} \cup ToSet(Schemas)
  <2>1. \/ \E s \in Home0 : \E n, cs : sqlc' = Append(sqlc, [schema |-> s, name |-> n, cols |-> cs])
        \/ /\ DOMAIN sqlc' = DOMAIN sqlc /\ sqlc' = [i \in DOMAIN sqlc |-> sqlc'[i]]
           /\ \A i \in DOMAIN sqlc : sqlc'[i] = sqlc[i] \/ \E cs : sqlc'[i] = [sqlc[i] EXCEPT !.cols = cs]
        \/ sqlc' = sqlc
    <3>5. d.kind \in {"create", "view", "table_as"} => Home(d.rel) \in Home0
      BY DEF Collect, Valid, Creatable
    <3>1. CASE d.kind = "create"
      BY <1>1, <3>1, <3>5 DEF Analyzed
    <3>2. CASE d.kind = "alter"
      <4>1. sqlc' = [i \in DOMAIN sqlc |->
                       IF i \notin Of(d.rel) THEN sqlc[i]
                       ELSE [sqlc[i] EXCEPT !.cols = Without(@, NamedIn(d.elts, "drop")) \o Declared(d.elts)]]
        BY <1>1, <3>2 DEF Analyzed
      <4> QED BY <4>1
    <3>3. CASE d.kind \in {"view", "table_as"} /\ d.targets # <<>>
      BY <1>1, <3>3, <3>5 DEF Analyzed
    <3>4. CASE d.kind \notin {"create", "alter"} /\ ~(d.kind \in {"view", "table_as"} /\ d.targets # <<>>)
      BY <1>1, <3>4 DEF Analyzed
    <3> QED BY <3>1, <3>2, <3>3, <3>4
  <2>2. CASE \E s \in Home0 : \E n, cs : sqlc' = Append(sqlc, [schema |-> s, name |-> n, cols |-> cs])
    <3>1. PICK s \in Home0 : \E n, cs : sqlc' = Append(sqlc, [schema |-> s, name |-> n, cols |-> cs])
      BY <2>2
    <3>6. PICK n, cs : sqlc' = Append(sqlc, [schema |-> s, name |-> n, cols |-> cs])
      BY <3>1
    <3> DEFINE t == [schema |-> s, name |-> n, cols |-> cs]
    <3>2. Placed(t)
      BY DEF Placed
    <3>3. sqlc' = Append(sqlc, t)
      BY <3>6
    <3> HIDE DEF t
    <3>4. PICK S : sqlc \in Seq(S)
      BY <1>2 DEF IsList
    <3>5. /\ DOMAIN sqlc' = DOMAIN sqlc \cup {Len(sqlc) + 1}
          /\ \A i \in DOMAIN sqlc : sqlc'[i] = sqlc[i]
          /\ sqlc'[Len(sqlc) + 1] = t
      BY <3>3, <3>4, AppendOne
    <3> QED BY <1>2, <3>2, <3>3, <3>5, AppendList
  <2>3. CASE /\ DOMAIN sqlc' = DOMAIN sqlc /\ sqlc' = [i \in DOMAIN sqlc |-> sqlc'[i]]
             /\ \A i \in DOMAIN sqlc : sqlc'[i] = sqlc[i] \/ \E cs : sqlc'[i] = [sqlc[i] EXCEPT !.cols = cs]
    <3>1. IsList(sqlc')
      BY <1>2, <2>3, ChangedList
    <3>2. ASSUME NEW i \in DOMAIN sqlc
          PROVE  Placed(sqlc'[i]) /\ sqlc'[i].name = sqlc[i].name /\ sqlc'[i].schema = sqlc[i].schema
      <4>1. Placed(sqlc[i])
        BY <1>2
      <4>2. CASE sqlc'[i] = sqlc[i]
        BY <4>1, <4>2
      <4>3. CASE \E cs : sqlc'[i] = [sqlc[i] EXCEPT !.cols = cs]
        <5>1. PICK cs : sqlc'[i] = [sqlc[i] EXCEPT !.cols = cs]
          BY <4>3
        <5>2. /\ DOMAIN sqlc'[i] = DOMAIN sqlc[i]
              /\ sqlc'[i].name = sqlc[i].name /\ sqlc'[i].schema = sqlc[i].schema
          BY <4>1, <5>1 DEF Placed
        <5> QED BY <4>1, <5>2 DEF Placed
      <4> QED BY <2>3, <4>2, <4>3
    <3> QED BY <2>3, <3>1, <3>2
  <2>4. CASE sqlc' = sqlc
    BY <1>2, <2>4
  <2> QED BY <2>1, <2>2, <2>3, <2>4
<1>5. CatalogLists'
  BY <1>3, <1>4 DEF CatalogLists
<1>7. SchemasInOrder' => SchemasInOrder
  BY <1>4 DEF SchemasInOrder
<1>6. ASSUME PlainScript', NEW e \in ToSet(collected')
      PROVE  /\ PlainStatement(e)
             /\ \A n \in NamesUsed(e) : \A i, j \in DOMAIN sqlc : sqlc[i].name = n /\ sqlc[j].name = n => i = j
  <2>1. /\ PlainStatement(e)
        /\ \A n \in NamesUsed(e) : \A i, j \in DOMAIN sqlc' : sqlc'[i].name = n /\ sqlc'[j].name = n => i = j
    BY <1>6 DEF PlainScript
  <2> QED BY <1>4, <2>1
<1> QED BY <1>3, <1>5, <1>6, <1>7 DEF PlainScript

\* A table collected in both catalogs.
LEMMA TableCollected ==
  ASSUME Aligned, NEW t, NEW u, SameTable(t, u), schema' = Append(schema, t), sqlc' = Append(sqlc, u)
  PROVE  Aligned'
<1>1. IsList(schema) /\ IsList(sqlc) /\ Len(schema) = Len(sqlc) /\ \A i \in DOMAIN schema : SameTable(schema[i], sqlc[i])
  BY DEF Aligned
<1>2. PICK S : schema \in Seq(S)
  BY <1>1 DEF IsList
<1>3. PICK Q : sqlc \in Seq(Q)
  BY <1>1 DEF IsList
<1>4. /\ DOMAIN schema' = DOMAIN schema \cup {Len(schema) + 1}
      /\ \A i \in DOMAIN schema : schema'[i] = schema[i]
      /\ schema'[Len(schema) + 1] = t
  BY <1>2, AppendOne
<1>5. /\ \A i \in DOMAIN sqlc : sqlc'[i] = sqlc[i]
      /\ sqlc'[Len(sqlc) + 1] = u
  BY <1>3, AppendOne
<1>6. DOMAIN schema = DOMAIN sqlc
  BY <1>1, ListDomain
<1>7. IsList(schema') /\ IsList(sqlc') /\ Len(schema') = Len(sqlc')
  BY <1>1, AppendList
<1>8. \A i \in DOMAIN schema' : SameTable(schema'[i], sqlc'[i])
  BY <1>1, <1>4, <1>5, <1>6
<1> QED BY <1>7, <1>8 DEF Aligned

\* Tables that are the same have one name and the same columns.
LEMMA SameParts ==
  ASSUME NEW t, NEW u, SameTable(t, u)
  PROVE  t.name = u.name /\ t.cols = u.cols /\ IsList(t.cols)
<1>1. PICK s, n, cols :
        /\ IsList(cols)
        /\ t = [schema |-> s, name |-> n, cols |-> cols]
        /\ u = [schema |-> IF s = <<>> THEN DefaultSchema ELSE s, name |-> n, cols |-> cols]
  BY DEF SameTable
<1>2. t.name = n /\ u.name = n /\ t.cols = cols /\ u.cols = cols
  BY <1>1
<1> QED BY <1>1, <1>2

\* CREATE TABLE says the same in both editions, a partition included.
LEMMA CreateAligned ==
  ASSUME Aligned, NEW d, Parsed(d), CollectCreate(d), PlainStatement(d),
         \A n \in NamesUsed(d) : \A i, j \in DOMAIN sqlc : sqlc[i].name = n /\ sqlc[j].name = n => i = j
  PROVE  Aligned'
<1> DEFINE own == collectElements("create", <<>>, d.elts)
           mine == IF own # <<>> THEN own ELSE ofParents(d.parents)
           theirs == IF d.parents = <<>> THEN Declared(d.elts) ELSE sqlc[CHOOSE i \in Of(d.parents[1]) : TRUE].cols
           t == [schema |-> d.rel.schema, name |-> d.rel.name, cols |-> mine]
           u == [schema |-> Home(d.rel), name |-> d.rel.name, cols |-> theirs]
<1>1. d.kind = "create" /\ schema' = Append(schema, t) /\ sqlc' = Append(sqlc, u) /\ Valid(d)
  BY DEF CollectCreate, Collect, Analyzed
<1>2. IsList(d.elts) /\ PlainElements("create", d.elts) /\ d.rel.schema # DefaultSchema
  BY <1>1 DEF Parsed, IsList, PlainStatement
<1>3. own = Declared(d.elts)
  <2>1. IsList(<<>>)
    BY DEF IsList
  <2>2. own = Altered(<<>>, d.elts)
    BY <1>2, <2>1, StatementCollected
  <2>3. PICK S : Declared(d.elts) \in Seq(S)
    BY <1>2, DeclaresList DEF IsList
  <2>4. <<>> \o Declared(d.elts) = Declared(d.elts)
    BY <2>3
  <2> QED BY <2>2, <2>4, WithoutEmpty DEF Altered
<1>4. IsList(Declared(d.elts)) /\ (NamedIn(d.elts, "column") = {} => Declared(d.elts) = <<>>)
  BY <1>2, DeclaresList
<1> HIDE DEF own
<1>5. mine = theirs /\ IsList(theirs)
  <2>1. CASE d.parents = <<>>
    <3>1. ofParents(<<>>) = <<>>
      BY DEF ofParents, FlattenSeq
    <3> QED BY <1>3, <1>4, <2>1, <3>1
  <2>2. CASE d.parents # <<>>
    <3>1. PICK p : d.parents = <<p>> /\ NamedIn(d.elts, "column") = {}
      BY <1>1, <2>2 DEF PlainStatement
    <3>2. ToSet(d.parents) = {p} /\ d.parents[1] = p
      BY <3>1 DEF ToSet
    <3>3. Of(p) # {} /\ p.name \in NamesUsed(d)
      BY <1>1, <3>2 DEF Valid, NamesUsed
    <3> DEFINE o == CHOOSE i \in Of(p) : TRUE
    <3>4. o \in Of(p)
      BY <3>3
    <3> HIDE DEF o
    <3>5. o \in DOMAIN sqlc /\ sqlc[o].name = p.name
      BY <3>4 DEF Of
    <3>6. \A i \in DOMAIN sqlc : sqlc[i].name = p.name => i = o
      BY <3>3, <3>5
    <3>7. /\ IsList(schema) /\ IsList(sqlc) /\ Len(schema) = Len(sqlc)
          /\ \A i \in DOMAIN schema : SameTable(schema[i], sqlc[i])
      BY DEF Aligned
    <3>8. DOMAIN schema = DOMAIN sqlc /\ DOMAIN schema = 1 .. Len(schema) /\ Len(schema) \in Nat
      BY <3>7, ListDomain
    <3>9. ASSUME NEW i \in DOMAIN schema
          PROVE  schema[i].name = sqlc[i].name /\ schema[i].cols = sqlc[i].cols /\ IsList(schema[i].cols)
      BY <3>7, SameParts
    <3> DEFINE part(i) == IF schema[i].name = p.name THEN schema[i].cols ELSE <<>>
               parts == [i \in DOMAIN schema |-> part(i)]
               S == UNION {ToSet(schema[i].cols) : i \in DOMAIN schema}
               L == Seq(S)
               c == schema[o].cols
    <3>10. part(o) = c /\ \A i \in DOMAIN schema : i # o => part(i) = <<>>
      BY <3>5, <3>6, <3>8, <3>9
    <3>11. \A i \in DOMAIN schema : part(i) \in L
      <4>1. ASSUME NEW i \in DOMAIN schema PROVE schema[i].cols \in L
        <5> DEFINE cs == schema[i].cols
        <5>1. IsList(cs)
          BY <3>9
        <5>2. \A k \in DOMAIN cs : cs[k] \in S
          BY DEF ToSet
        <5> HIDE DEF cs, S
        <5>3. cs \in Seq(S)
          BY <5>1, <5>2, ListOf
        <5> QED BY <5>3 DEF cs
      <4>2. <<>> \in L
        OBVIOUS
      <4> QED BY <4>1, <4>2
    <3>12. parts \in Seq(L) /\ DOMAIN parts = DOMAIN schema /\ parts[o] = c /\ \A i \in DOMAIN parts : i # o => parts[i] = <<>>
      <4> HIDE DEF part, L, c
      <4>1. parts \in [1 .. Len(schema) -> L]
        BY <3>8, <3>11
      <4>2. parts \in Seq(L)
        BY <3>8, <4>1
      <4> QED BY <3>5, <3>8, <3>10, <4>2
    <3>13. FlattenSeq(parts) = c
      <4>1. o \in DOMAIN parts
        BY <3>5, <3>8
      <4> HIDE DEF parts, c, S
      <4> QED BY <3>12, <4>1, FlattenOnly
    <3>14. ofParents(<<p>>) = FlattenSeq(<<FlattenSeq(parts)>>)
      <4>1. [k \in DOMAIN <<p>> |-> FlattenSeq([i \in DOMAIN schema |-> IF schema[i].name = <<p>>[k].name THEN schema[i].cols ELSE <<>>])]
              = <<FlattenSeq(parts)>>
        OBVIOUS
      <4> QED BY <4>1 DEF ofParents
    <3>15. c \in Seq(S)
      BY <3>5, <3>8, <3>10, <3>11
    <3> HIDE DEF parts, c, S, part
    <3>16. FlattenSeq(<<c>>) = c
      <4> DEFINE one == <<c>>
                 L2 == Seq(S)
      <4>1. c \in L2
        BY <3>15
      <4> HIDE DEF L2
      <4>2. one \in Seq(L2) /\ DOMAIN one = {1} /\ one[1] = c
        BY <4>1
      <4> HIDE DEF one
      <4>3. FlattenSeq(one) = one[1]
        BY <4>2, FlattenOnly DEF L2
      <4> QED BY <4>2, <4>3 DEF one
    <3>17. mine = c
      BY <1>3, <1>4, <3>1, <3>13, <3>14, <3>16
    <3>18. theirs = sqlc[o].cols
      BY <2>2, <3>2 DEF o
    <3>19. sqlc[o].cols = c /\ IsList(c)
      BY <3>5, <3>8, <3>9 DEF c
    <3> QED BY <3>17, <3>18, <3>19
  <2> QED BY <2>1, <2>2
<1> HIDE DEF mine, theirs
<1>6. SameTable(t, u)
  BY <1>2, <1>5 DEF SameTable, Home
<1> HIDE DEF t, u
<1> QED BY <1>1, <1>6, TableCollected

\* ALTER TABLE changes the same table in both editions, in the same way.
LEMMA AlterAligned ==
  ASSUME Aligned, NEW d, Parsed(d), CollectAlter(d), PlainStatement(d),
         \A n \in NamesUsed(d) : \A i, j \in DOMAIN sqlc : sqlc[i].name = n /\ sqlc[j].name = n => i = j
  PROVE  Aligned'
<1>1. /\ d.kind = "alter" /\ Valid(d)
      /\ schema' = [i \in DOMAIN schema |->
                      IF schema[i].name = d.rel.name
                      THEN [schema[i] EXCEPT !.cols = collectElements("alter", @, d.elts)] ELSE schema[i]]
      /\ sqlc' = [i \in DOMAIN sqlc |->
                    IF i \notin Of(d.rel) THEN sqlc[i] ELSE [sqlc[i] EXCEPT !.cols = Altered(@, d.elts)]]
  BY DEF CollectAlter, Collect, Analyzed, Altered
<1>2. IsList(d.elts) /\ PlainElements("alter", d.elts)
  BY <1>1 DEF Parsed, IsList, PlainStatement
<1>3. /\ IsList(schema) /\ IsList(sqlc) /\ Len(schema) = Len(sqlc)
      /\ \A i \in DOMAIN schema : SameTable(schema[i], sqlc[i])
  BY DEF Aligned
<1>4. DOMAIN schema = DOMAIN sqlc /\ DOMAIN schema = 1 .. Len(schema) /\ Len(schema) \in Nat
  BY <1>3, ListDomain
<1>5. d.rel.name \in NamesUsed(d) /\ Of(d.rel) # {}
  BY <1>1 DEF NamesUsed, Valid
<1>6. PICK o : o \in Of(d.rel)
  BY <1>5
<1>7. \A i \in DOMAIN sqlc : i \in Of(d.rel) <=> sqlc[i].name = d.rel.name
  BY <1>5, <1>6 DEF Of
<1>8. Of(d.rel) = {o} /\ o \in DOMAIN sqlc
  BY <1>5, <1>6 DEF Of
<1>9. Applicable(sqlc[o].cols, d.elts)
  <2> DEFINE has == {c.name : c \in ColumnsOf(d.rel)}
  <2>1. NamedIn(d.elts, "drop") \subseteq has /\ NamedIn(d.elts, "column") \cap has = {}
    BY <1>1 DEF Valid
  <2>2. ColumnsOf(d.rel) = ToSet(sqlc[o].cols)
    BY <1>8 DEF ColumnsOf
  <2>3. has = NamesOf(sqlc[o].cols)
    BY <2>2 DEF NamesOf, ToSet
  <2> QED BY <2>1, <2>3 DEF Applicable
<1>10. ASSUME NEW i \in DOMAIN schema
       PROVE  SameTable(schema'[i], sqlc'[i])
  <2> DEFINE t == schema[i]
             u == sqlc[i]
  <2>1. SameTable(t, u) /\ t.name = u.name
    BY <1>3, SameParts
  <2>2. CASE i \notin Of(d.rel)
    <3>1. schema'[i] = t /\ sqlc'[i] = u
      BY <1>1, <1>4, <1>7, <2>1, <2>2
    <3> QED BY <2>1, <3>1
  <2>3. CASE i \in Of(d.rel)
    <3>1. PICK s, n, cols :
            /\ IsList(cols) /\ s # DefaultSchema
            /\ t = [schema |-> s, name |-> n, cols |-> cols]
            /\ u = [schema |-> IF s = <<>> THEN DefaultSchema ELSE s, name |-> n, cols |-> cols]
      BY <2>1 DEF SameTable
    <3> DEFINE h == IF s = <<>> THEN DefaultSchema ELSE s
               new == Altered(cols, d.elts)
    <3>2. t.cols = cols /\ u.cols = cols /\ i = o
      BY <1>8, <2>3, <3>1
    <3>3. collectElements("alter", cols, d.elts) = new
      BY <1>2, <1>9, <3>1, <3>2, StatementCollected
    <3>4. IsList(new)
      <4>1. PICK C : cols \in Seq(C)
        BY <3>1 DEF IsList
      <4>2. Remaining(C, cols, NamedIn(d.elts, "drop"))
        BY <4>1, WithoutType
      <4>3. PICK D : Declared(d.elts) \in Seq(D)
        BY <1>2, DeclaresList DEF IsList
      <4> DEFINE W == C \cup D
                 w == Without(cols, NamedIn(d.elts, "drop"))
                 l == Declared(d.elts)
      <4>4. w \in Seq(W) /\ l \in Seq(W)
        BY <4>2, <4>3, SeqMonotonic DEF Remaining
      <4> HIDE DEF W, w, l
      <4>5. w \o l \in Seq(W)
        BY <4>4, ConcatProperties
      <4> QED BY <4>5 DEF IsList, Altered, w, l
    <3> HIDE DEF new
    <3>5. schema'[i] = [t EXCEPT !.cols = new]
      <4>1. schema'[i] = [t EXCEPT !.cols = collectElements("alter", t.cols, d.elts)]
        BY <1>1, <1>4, <1>7, <2>1, <2>3
      <4> QED BY <3>2, <3>3, <4>1
    <3>6. sqlc'[i] = [u EXCEPT !.cols = new]
      <4>1. sqlc'[i] = [u EXCEPT !.cols = Altered(u.cols, d.elts)]
        BY <1>1, <1>4, <2>3
      <4> QED BY <3>2, <4>1 DEF new
    <3> HIDE DEF h
    <3>7. \A x : [[schema |-> x, name |-> n, cols |-> cols] EXCEPT !.cols = new] = [schema |-> x, name |-> n, cols |-> new]
      <4> TAKE x
      <4> DEFINE a == [schema |-> x, name |-> n, cols |-> cols]
                 b == [a EXCEPT !.cols = new]
                 R == [schema : {x}, name : {n}, cols : {cols, new}]
      <4>1. a \in R
        OBVIOUS
      <4> HIDE DEF a
      <4>2. b \in R /\ b.schema = x /\ b.name = n /\ b.cols = new
        BY <4>1
      <4> HIDE DEF b
      <4>3. b = [schema |-> x, name |-> n, cols |-> new]
        BY <4>2
      <4> QED BY <4>3 DEF a, b
    <3>8. u = [schema |-> h, name |-> n, cols |-> cols]
      BY <3>1 DEF h
    <3>9. schema'[i] = [schema |-> s, name |-> n, cols |-> new] /\ sqlc'[i] = [schema |-> h, name |-> n, cols |-> new]
      BY <3>1, <3>5, <3>6, <3>7, <3>8
    <3> QED BY <3>1, <3>4, <3>9 DEF SameTable, h
  <2> QED BY <2>2, <2>3
<1>11. IsList(schema') /\ IsList(sqlc') /\ Len(schema') = Len(sqlc') /\ DOMAIN schema' = DOMAIN schema
  <2>1. /\ DOMAIN schema' = DOMAIN schema /\ schema' = [i \in DOMAIN schema |-> schema'[i]]
        /\ DOMAIN sqlc' = DOMAIN sqlc /\ sqlc' = [i \in DOMAIN sqlc |-> sqlc'[i]]
    BY <1>1
  <2>2. IsList(schema') /\ IsList(sqlc')
    BY <1>3, <2>1, ChangedList
  <2>3. DOMAIN schema' = 1 .. Len(schema') /\ DOMAIN sqlc' = 1 .. Len(sqlc') /\ Len(schema') \in Nat /\ Len(sqlc') \in Nat
    BY <2>2, ListDomain
  <2> QED BY <1>4, <2>1, <2>2, <2>3
<1> QED BY <1>10, <1>11 DEF Aligned

\* One statement more.
CatalogInv == CatalogLists /\ (PlainScript => Aligned)
LEMMA CatalogInvStatement ==
  ASSUME CatalogInv, CollectStmt
  PROVE  CatalogInv'
<1>1. PICK d \in Script : CollectCreate(d) \/ CollectAlter(d) \/ CollectView(d) \/ CollectOther(d)
  BY DEF CollectStmt
<1>2. Collect(d) /\ Parsed(d)
  BY <1>1, ScriptAssumption DEF CollectCreate, CollectAlter, CollectView, CollectOther
<1>3. /\ CatalogLists'
      /\ PlainScript' => PlainScript /\ PlainStatement(d)
      /\ PlainScript' => \A n \in NamesUsed(d) : \A i, j \in DOMAIN sqlc : sqlc[i].name = n /\ sqlc[j].name = n => i = j
  BY <1>2, PlainBefore DEF CatalogInv
<1>4. ASSUME PlainScript'
      PROVE  Aligned'
  <2>1. /\ Aligned /\ PlainStatement(d)
        /\ \A n \in NamesUsed(d) : \A i, j \in DOMAIN sqlc : sqlc[i].name = n /\ sqlc[j].name = n => i = j
    BY <1>3, <1>4 DEF CatalogInv
  <2>2. CASE CollectCreate(d)
    BY <1>2, <2>1, <2>2, CreateAligned
  <2>3. CASE CollectAlter(d)
    BY <1>2, <2>1, <2>3, AlterAligned
  <2>4. CASE CollectView(d)
    <3>1. d.kind \in {"view", "table_as"} /\ d.targets = <<>>
      BY <2>1, <2>4 DEF CollectView, PlainStatement
    <3>2. sqlc' = sqlc
      BY <2>4, <3>1 DEF CollectView, Collect, Analyzed
    <3>3. viewTable(d) = {}
      <4>1. \A R : \A f \in [DOMAIN <<>> -> R] : f = <<>>
        OBVIOUS
      <4> QED BY <3>1, <4>1 DEF viewTable
    <3> QED BY <2>1, <2>4, <3>2, <3>3 DEF CollectView, Aligned
  <2>5. CASE CollectOther(d)
    <3>1. schema' = schema /\ sqlc' = sqlc
      BY <2>5 DEF CollectOther, Collect, Analyzed
    <3> QED BY <2>1, <3>1 DEF Aligned
  <2> QED BY <1>1, <2>2, <2>3, <2>4, <2>5
<1> QED BY <1>3, <1>4 DEF CatalogInv

\* So on every script, from the start, and whatever the run does afterwards.
LEMMA CatalogInvInit == StandaloneInit => CatalogInv
<1> SUFFICES ASSUME StandaloneInit PROVE CatalogInv
  OBVIOUS
<1>1. schema = <<>> /\ sqlc = <<>> /\ collected = <<>>
  BY DEF StandaloneInit, CatalogStart
<1>2. IsList(<<>>) /\ DOMAIN <<>> = {}
  BY DEF IsList
<1> QED BY <1>1, <1>2 DEF CatalogInv, CatalogLists, Aligned

LEMMA CatalogInvStep == CatalogInv /\ [StandaloneNext]_standaloneVars => CatalogInv'
<1> SUFFICES ASSUME CatalogInv, [StandaloneNext]_standaloneVars PROVE CatalogInv'
  OBVIOUS
<1>1. CASE ReadStmt
  BY <1>1, CatalogInvStatement DEF ReadStmt
<1>2. CASE UNCHANGED catalogVars
  BY <1>2 DEF CatalogInv, CatalogLists, PlainScript, SchemasInOrder, Aligned, catalogVars
<1>3. CASE ReadFails \/ buildRequest \/ Replay \/ Generating \/ MkdirAll \/ WriteFile \/ WriteFails \/ Report
  BY <1>2, <1>3 DEF ReadFails, buildRequest, Replay, Generating, MkdirAll, WriteFile, WriteFails, Report, Ends
<1>4. CASE UNCHANGED standaloneVars
  BY <1>2, <1>4 DEF standaloneVars
<1> QED BY <1>1, <1>3, <1>4 DEF StandaloneNext

\* cmd/pgb/main.go:3-7: on every script whose statements say their keys behind
\* their columns, leave the default schema out, change and partition no table that
\* shares its name, declare no view that resolves, and have the tables of other
\* schemas schema by schema, the command requests what Build makes of sqlc's
\* catalog: the same tables, in the same order, with the same columns, types and
\* nullability.
THEOREM EditionsCollectAlike == StandaloneSpec => [](PlainScript => EditionsAgree)
<1> DEFINE Agree == PlainScript => EditionsAgree
<1>1. CatalogInv => Agree
  BY AlignedEnough DEF CatalogInv, PlainScript
<1> HIDE DEF Agree
<1>2. StandaloneSpec => []Agree
  BY <1>1, CatalogInvInit, CatalogInvStep, PTL DEF StandaloneSpec
<1> QED BY <1>2 DEF Agree
=============================================================================
