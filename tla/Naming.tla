------------------------------- MODULE Naming -------------------------------
(***************************************************************************)
(* How tables get their Go names: goTableNames of gen/pass_builders.go with *)
(* pascalIdent and singularize of gen/pass_models.go.  Every pass calls it  *)
(* again; it is a function of the schema, so it is modelled once.           *)
(*                                                                         *)
(* The code compares names in lower case, so a name is the sequence of its  *)
(* pieces in lower case: users is <<"user", "s">>, app_users is             *)
(* <<"app", "_", "user", "s">>, users2 is <<"user", "s", "2">>.  An ending that *)
(* singularize looks at is a piece of its own, as are a separator and a     *)
(* digit: houses is <<"hous", "es">>.  Names begin with a letter.           *)
(***************************************************************************)
EXTENDS Integers, FiniteSets, SequencesExt

CONSTANTS
  Piece,    \* pieces of names
  Hissing,  \* the pieces that end in s, x, z, ch or sh
  SS,       \* the pieces that end in s
  U,        \* the pieces that end in u
  DefaultSchema

Digits == <<"1", "2", "3", "4", "5", "6", "7", "8", "9">>

ASSUME NamingAssumption ==
  /\ {"_", "s", "es", "ies", "y", "v", "person"} \subseteq Piece
  /\ {Digits[k] : k \in DOMAIN Digits} \subseteq Piece
  /\ SS \subseteq Hissing /\ Hissing \subseteq Piece /\ U \subseteq Piece
  /\ DefaultSchema \in Seq(Piece)

\* A table, or a reference to one, whose names are spelled in pieces.
Spelled(t) == t.schema \in Seq(Piece) /\ t.name \in Seq(Piece)

VARIABLES
  tables,   \* sch.Tables: the tables to be named, in catalog order
  turn,     \* how many of them the loop has passed
  final,    \* the names given out, by schema and name of the table
  takenP, takenS, takenFb  \* the names in use: descriptors, models, file stems
namingVars == <<tables, turn, final, takenP, takenS, takenFb>>

Key(t) == <<t.schema, t.name>>

\* The elements of a list at some of its positions, in their order.
Picked(s, I) == FlattenSeq([i \in DOMAIN s |-> IF i \in I THEN <<s[i]>> ELSE <<>>])
-----------------------------------------------------------------------------
\* pascalIdent, seen in lower case: separators vanish, but a part that begins
\* with a digit gets a V.
pascalIdent(name) ==
  FlattenSeq([i \in DOMAIN name |->
                IF name[i] # "_" THEN <<name[i]>>
                ELSE IF i < Len(name) /\ \E d \in DOMAIN Digits : name[i + 1] = Digits[d]
                  THEN <<"v">> ELSE <<>>])

EndsIn(name, e) == Len(name) > 1 /\ Last(name) = e
Before(name) == name[Len(name) - 1]

\* singularize: ies to y, es after a hiss, s but neither ss nor us; the
\* exceptions that the rules would not give as well.
singularize(name) ==
  CASE name = <<"people">> -> <<"person">>
    [] EndsIn(name, "ies") /\ name # <<"ser", "ies">> -> Append(Front(name), "y")
    [] EndsIn(name, "es") /\ Before(name) \in Hissing -> Front(name)
    [] EndsIn(name, "s") /\ Before(name) \notin SS \cup U -> Front(name)
    [] OTHER -> name

\* The names a table would have on its own.
baseTableNames(t) ==
  LET foreign == t.schema \notin {<<>>, DefaultSchema}
      p == IF foreign THEN pascalIdent(t.schema) \o pascalIdent(t.name) ELSE pascalIdent(t.name)
      sg == singularize(p)
  IN [p |-> IF sg = p THEN Append(p, "s") ELSE p,
      s |-> sg,
      fb |-> IF foreign THEN t.schema \o <<"_">> \o t.name ELSE t.name]

Suffixed(b, k) == [p |-> Append(b.p, Digits[k]), s |-> Append(b.s, Digits[k]), fb |-> Append(b.fb, Digits[k])]

\* System catalogs are in the schema and get neither names nor files.
genSchema(t) == t.schema \notin {<<"pg_catalog">>, <<"information_schema">>}

Free(b) == b.p \notin takenP /\ b.s \notin takenS /\ b.fb \notin takenFb
-----------------------------------------------------------------------------
(* One step is one turn of the loop over the tables. *)

Now == turn + 1
Unnamed == Now \in DOMAIN tables

Take(b) ==
  /\ turn' = Now
  /\ final' = [k \in DOMAIN final \cup {Key(tables[Now])} |-> IF k = Key(tables[Now]) THEN b ELSE final[k]]
  /\ takenP' = takenP \cup {b.p}
  /\ takenS' = takenS \cup {b.s}
  /\ takenFb' = takenFb \cup {b.fb}
  /\ UNCHANGED tables

PassOver ==
  /\ Unnamed /\ ~genSchema(tables[Now])
  /\ turn' = Now
  /\ UNCHANGED <<tables, final, takenP, takenS, takenFb>>

KeepBase ==
  /\ Unnamed /\ genSchema(tables[Now])
  /\ Free(baseTableNames(tables[Now]))
  /\ Take(baseTableNames(tables[Now]))

\* Mutant: the suffix is the table's position when that is free.
SuffixByPosition ==
  /\ Unnamed /\ genSchema(tables[Now])
  /\ LET b == baseTableNames(tables[Now])
     IN /\ ~Free(b)
        /\ \E k \in Now .. 9 : /\ Free(Suffixed(b, k))
                               /\ \A j \in Now .. (k - 1) : ~Free(Suffixed(b, j))
                               /\ Take(Suffixed(b, k))

\* Mutant: the file stem is not looked at.
SuffixIgnoringFiles ==
  /\ Unnamed /\ genSchema(tables[Now])
  /\ LET b == baseTableNames(tables[Now])
         Ok(k) == Suffixed(b, k).p \notin takenP /\ Suffixed(b, k).s \notin takenS
     IN /\ ~Free(b)
        /\ \E k \in 2 .. 9 : /\ Ok(k) /\ \A j \in 2 .. (k - 1) : ~Ok(j)
                             /\ Take(Suffixed(b, k))

\* The lowest suffix free in all three spaces.  Bound: suffixes of one digit,
\* which are enough while fewer than nine tables compete for a name.
TakeSuffix ==
  /\ Unnamed /\ genSchema(tables[Now])
  /\ LET b == baseTableNames(tables[Now])
     IN /\ ~Free(b)
        /\ \E k \in 2 .. 9 : /\ Free(Suffixed(b, k))
                             /\ \A j \in 2 .. (k - 1) : ~Free(Suffixed(b, j))
                             /\ Take(Suffixed(b, k))

NamingStep == PassOver \/ KeepBase \/ TakeSuffix

NamingStart == turn = 0 /\ final = <<>> /\ takenP = {} /\ takenS = {} /\ takenFb = {}

\* The names of a table that the loop has passed, as every pass asks for them.
goTableNames(i) == final[Key(tables[i])]
Named == {i \in 1 .. turn : genSchema(tables[i])}
-----------------------------------------------------------------------------
(* Properties *)

\* pass_builders.go:138-146: no two tables share a descriptor, a model or a
\* file stem, in the case-insensitive sense of Go files and of the code's own
\* comparison.  It takes tables that differ in schema or name: the map holds
\* one entry for two that do not.
NamesDistinct ==
  \A i, j \in Named : i # j =>
    /\ goTableNames(i).p # goTableNames(j).p
    /\ goTableNames(i).s # goTableNames(j).s
    /\ goTableNames(i).fb # goTableNames(j).fb

\* pass_builders.go:142-145: a table keeps its base names unless an earlier
\* table has one of them, and each number below its suffix is refused for the
\* sake of an earlier table too; so no table loses its names to a later one,
\* or to the own, unused names of a table that was itself moved.
Candidate(i, k) ==
  IF k = 1 THEN baseTableNames(tables[i]) ELSE Suffixed(baseTableNames(tables[i]), k)
Meets(a, b) == a.p = b.p \/ a.s = b.s \/ a.fb = b.fb
EarlierTablesFirst ==
  \A i \in Named : \E k \in 1 .. 9 :
    /\ goTableNames(i) = Candidate(i, k)
    /\ \A m \in 1 .. (k - 1) : \E j \in Named : j < i /\ Meets(Candidate(i, m), goTableNames(j))
=============================================================================
