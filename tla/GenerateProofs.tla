--------------------------- MODULE GenerateProofs ---------------------------
(***************************************************************************)
(* The generator, in both editions, for every schema, DDL script, catalog   *)
(* and output directory: names stay distinct whatever pascalIdent and       *)
(* singularize make of them, what is skipped is nowhere emitted, and the    *)
(* directory holds what the run generated.                                  *)
(***************************************************************************)
EXTENDS Standalone, Package, DataLemmas, FiniteSetTheorems

\* What the loop of pass_builders.go:167-194 keeps, whatever the tables: it has
\* not begun before naming, the map has an entry for each table it named, the
\* names of the map are taken, and no name is in two entries.
NamingInv ==
  /\ turn \in Nat
  /\ phase \in {"collect", "enrich"} => turn = 0 /\ final = <<>> /\ takenP = {} /\ takenS = {} /\ takenFb = {}
  /\ Named \subseteq DOMAIN tables
  /\ DOMAIN final = {Key(tables[i]) : i \in Named}
  /\ \A k \in DOMAIN final : final[k].p \in takenP /\ final[k].s \in takenS /\ final[k].fb \in takenFb
  /\ \A k, l \in DOMAIN final : k # l =>
       final[k].p # final[l].p /\ final[k].s # final[l].s /\ final[k].fb # final[l].fb

\* What a turn of the loop does.
LEMMA NamingTurn ==
  ASSUME NamingInv, Unnamed, NEW b, genSchema(tables[Now]), Take(b)
  PROVE  /\ turn' = Now /\ Now \in DOMAIN tables /\ Now \notin Named
         /\ Named' = Named \cup {Now} /\ \A i \in Named : i < Now
         /\ DOMAIN final' = DOMAIN final \cup {Key(tables[Now])}
         /\ final'[Key(tables[Now])] = b
         /\ \A k \in DOMAIN final : k # Key(tables[Now]) => final'[k] = final[k]
<1>1. turn' = turn + 1 /\ turn \in Nat /\ tables' = tables /\ Now = turn + 1
  BY DEF Take, Now, NamingInv
<1>2. 1 .. (turn + 1) = (1 .. turn) \cup {turn + 1} /\ turn + 1 \notin 1 .. turn
  BY <1>1
<1>3. Named' = Named \cup {Now} /\ Now \notin Named
  BY <1>1, <1>2 DEF Named, genSchema
<1>4. \A i \in Named : i < Now
  BY <1>1 DEF Named
<1> QED BY <1>1, <1>3, <1>4 DEF Take, Unnamed

\* Names free in all three spaces can be given to the next table.
LEMMA TakeKeepsNames ==
  ASSUME NamingInv, phase = "name", UNCHANGED phase,
         Unnamed, NEW b, genSchema(tables[Now]), Free(b), Take(b)
  PROVE  NamingInv'
<1>1. /\ turn' = Now /\ Now \in DOMAIN tables
      /\ Named' = Named \cup {Now}
      /\ DOMAIN final' = DOMAIN final \cup {Key(tables[Now])}
      /\ final'[Key(tables[Now])] = b
      /\ \A k \in DOMAIN final : k # Key(tables[Now]) => final'[k] = final[k]
  BY NamingTurn
<1>2. /\ tables' = tables /\ turn' \in Nat
      /\ takenP' = takenP \cup {b.p} /\ takenS' = takenS \cup {b.s} /\ takenFb' = takenFb \cup {b.fb}
  BY <1>1 DEF Take, Now, NamingInv
<1>3. Named' \subseteq DOMAIN tables' /\ DOMAIN final' = {Key(tables'[i]) : i \in Named'}
  BY <1>1, <1>2 DEF NamingInv
<1>4. \A k \in DOMAIN final' :
        final'[k].p \in takenP' /\ final'[k].s \in takenS' /\ final'[k].fb \in takenFb'
  BY <1>1, <1>2 DEF NamingInv
<1>5. \A k \in DOMAIN final : final[k].p # b.p /\ final[k].s # b.s /\ final[k].fb # b.fb
  BY DEF NamingInv, Free
<1>6. \A k, l \in DOMAIN final' : k # l =>
        final'[k].p # final'[l].p /\ final'[k].s # final'[l].s /\ final'[k].fb # final'[l].fb
  BY <1>1, <1>5 DEF NamingInv
<1> QED BY <1>2, <1>3, <1>4, <1>6 DEF NamingInv

\* A table of a system schema is passed over without a name.
LEMMA PassingOver ==
  ASSUME NamingInv, PassOver
  PROVE  turn' = Now /\ turn' \in Nat /\ Named' = Named
<1>1. turn' = turn + 1 /\ turn \in Nat /\ tables' = tables /\ Now = turn + 1
  BY DEF PassOver, Now, NamingInv
<1>2. 1 .. (turn + 1) = (1 .. turn) \cup {turn + 1}
  BY <1>1
<1> QED BY <1>1, <1>2 DEF Named, PassOver, genSchema
LEMMA PassOverKeepsNames ==
  ASSUME NamingInv, phase = "name", UNCHANGED phase, PassOver
  PROVE  NamingInv'
BY PassingOver DEF NamingInv, PassOver

\* Steps that give no name and do not go back before naming.
KeepsNames ==
  /\ UNCHANGED namingVars
  /\ phase' \in {"collect", "enrich"} => phase \in {"collect", "enrich"}
LEMMA KeepingNames == NamingInv /\ KeepsNames => NamingInv'
BY DEF KeepsNames, namingVars, NamingInv, Named

\* The schema is settled before the first name is given.
LEMMA NoNamesYet ==
  ASSUME NamingStart
  PROVE  NamingInv /\ Named = {}
<1>1. Named = {} /\ DOMAIN final = {}
  BY DEF NamingStart, Named
<1> QED BY <1>1 DEF NamingStart, NamingInv

\* Every step of the generator keeps the names as they should be.
LEMMA NamingInvStep == NamingInv /\ [Next]_generateVars => NamingInv'
<1> SUFFICES ASSUME NamingInv, [Next]_generateVars PROVE NamingInv'
  OBVIOUS
<1>1. CASE DropSkipped
  <2>1. /\ phase = "enrich" /\ phase' = "name" /\ UNCHANGED <<turn, final, takenP, takenS, takenFb>>
    BY <1>1 DEF DropSkipped
  <2>2. turn' = 0 /\ Named' = {} /\ Named = {}
    BY <2>1 DEF NamingInv, Named
  <2> QED BY <2>1, <2>2 DEF NamingInv
<1>2. CASE NameTables
  <2>1. CASE PassOver
    BY <1>2, <2>1, PassOverKeepsNames DEF NameTables
  <2>2. CASE KeepBase
    BY <1>2, <2>2, TakeKeepsNames DEF NameTables, KeepBase
  <2>3. CASE TakeSuffix
    <3>1. PICK k \in 2 .. 9 : /\ Free(Suffixed(baseTableNames(tables[Now]), k))
                              /\ Take(Suffixed(baseTableNames(tables[Now]), k))
      BY <2>3 DEF TakeSuffix
    <3>2. QED
      BY <1>2, <2>3, <3>1, TakeKeepsNames DEF NameTables, TakeSuffix
  <2>4. QED
    BY <1>2, <2>1, <2>2, <2>3 DEF NameTables, NamingStep
<1>3. CASE KeepsNames
  BY <1>3, KeepingNames
<1>4. Enriching \/ PassModels \/ PassBuilders \/ PassStatics \/ PassSearch \/ Fails
        \/ UNCHANGED generateVars
      => KeepsNames
  BY DEF Enriching, PassModels, PassBuilders, PassStatics, PassSearch, Fails, Pass, generateVars,
         KeepsNames
<1>5. QED
  BY <1>1, <1>2, <1>3, <1>4 DEF Next
-----------------------------------------------------------------------------
(* What is skipped is nowhere emitted *)

\* What is picked of a list is a list of the elements picked.
LEMMA PickedFacts ==
  ASSUME NEW s, IsList(s), NEW I, I \subseteq DOMAIN s
  PROVE  IsList(Picked(s, I)) /\ ToSet(Picked(s, I)) = {s[i] : i \in I}
<1>1. PICK S : s \in Seq(S)
  BY DEF IsList
<1> DEFINE parts == [i \in DOMAIN s |-> IF i \in I THEN <<s[i]>> ELSE <<>>]
<1>2. DOMAIN s = 1 .. Len(s) /\ Len(s) \in Nat /\ \A i \in DOMAIN s : s[i] \in S
  BY <1>1
<1>3. \A i \in DOMAIN s : parts[i] \in Seq(S) /\ ToSet(parts[i]) = IF i \in I THEN {s[i]} ELSE {}
  BY <1>2 DEF ToSet
<1>4. parts \in Seq(Seq(S))
  <2> DEFINE T == Seq(S)
  <2>1. parts \in [1 .. Len(s) -> T]
    BY <1>2, <1>3
  <2> HIDE DEF parts, T
  <2> QED BY <1>2, <2>1 DEF T
<1>5. DOMAIN parts = DOMAIN s
  OBVIOUS
<1>6. Picked(s, I) = FlattenSeq(parts)
  BY DEF Picked
<1> HIDE DEF parts
<1>7. Picked(s, I) \in Seq(S)
  BY <1>4, <1>6, FlattenType
<1>8. ToSet(Picked(s, I)) = UNION {ToSet(parts[i]) : i \in DOMAIN s}
  BY <1>4, <1>5, <1>6, FlattenElements
<1>9. UNION {ToSet(parts[i]) : i \in DOMAIN s} = {s[i] : i \in I}
  BY <1>3
<1> QED BY <1>7, <1>8, <1>9 DEF IsList

\* One more element, which was not there, leaves all elements different.
LEMMA OneMoreApart ==
  ASSUME NEW S, NEW s \in Seq(S), IsInjective(s), NEW x, x \notin ToSet(s)
  PROVE  IsInjective(s \o <<x>>)
<1> DEFINE u == Append(s, x)
<1>1. /\ DOMAIN u = DOMAIN s \cup {Len(s) + 1} /\ Len(s) + 1 \notin DOMAIN s
      /\ \A i \in DOMAIN s : u[i] = s[i]
      /\ u[Len(s) + 1] = x
  BY AppendOne
<1>2. s \o <<x>> = u
  OBVIOUS
<1> HIDE DEF u
<1>3. \A i \in DOMAIN s : u[i] # x
  BY <1>1 DEF ToSet
<1>4. \A i, j \in DOMAIN s : u[i] = u[j] => i = j
  BY <1>1 DEF IsInjective
<1>5. \A i, j \in DOMAIN u : u[i] = u[j] => i = j
  BY <1>1, <1>3, <1>4
<1> QED BY <1>2, <1>5 DEF IsInjective

\* What is picked of different elements are different elements.
LEMMA PickedApart ==
  ASSUME NEW s, IsList(s), IsInjective(s), NEW I, I \subseteq DOMAIN s
  PROVE  IsInjective(Picked(s, I))
<1>1. PICK S : s \in Seq(S)
  BY DEF IsList
<1> DEFINE parts == [i \in DOMAIN s |-> IF i \in I THEN <<s[i]>> ELSE <<>>]
           Q == Seq(S)
           m == Len(s)
<1>2. DOMAIN s = 1 .. m /\ m \in Nat /\ \A i \in 1 .. m : s[i] \in S
  BY <1>1
<1>3. \A i \in 1 .. m : \/ parts[i] = <<>>
                        \/ parts[i] = <<s[i]>>
  BY <1>2
<1>4. parts \in Seq(Q) /\ Len(parts) = m
  <2>1. \A i \in 1 .. m : parts[i] \in Q
    <3> TAKE i \in 1 .. m
    <3> HIDE DEF parts
    <3>1. <<>> \in Q /\ <<s[i]>> \in Q
      BY <1>2
    <3> QED BY <1>3, <3>1
  <2>2. parts \in [1 .. m -> Q]
    BY <1>2, <2>1
  <2> HIDE DEF parts, Q
  <2> QED BY <1>2, <2>2
<1>5. Picked(s, I) = FlattenSeq(parts)
  BY DEF Picked
<1> HIDE DEF parts, m
<1>6. CASE m = 0
  <2>1. Picked(s, I) = parts /\ DOMAIN parts = {}
    BY <1>4, <1>5, <1>6 DEF FlattenSeq
  <2> QED BY <2>1 DEF IsInjective
<1>7. CASE m # 0
  <2>1. PICK f : /\ FlattenSeq(parts) = f[m]
                 /\ f[1] = parts[1]
                 /\ \A i \in 2 .. m : f[i] = f[i - 1] \o parts[i]
    BY <1>4, <1>7, FlattenSteps DEF Q
  <2> DEFINE Firsts(k) == {s[i] : i \in 1 .. (k + 1)}
             Good(k) == f[k + 1] \in Seq(S) /\ IsInjective(f[k + 1]) /\ ToSet(f[k + 1]) \subseteq Firsts(k)
             Reached == {k \in Nat : k + 1 <= m => Good(k)}
  <2>2. 0 \in Reached
    <3> DEFINE x == s[1]
               u == f[1]
    <3>1. 1 \in 1 .. m /\ x \in S /\ 1 .. (0 + 1) = {1} /\ 0 + 1 = 1
      BY <1>2, <1>7
    <3>2. Firsts(0) = {x}
      BY <3>1
    <3>3. u = <<>> \/ u = <<x>>
      BY <1>3, <2>1, <3>1
    <3> HIDE DEF u, x, Firsts
    <3>4. u \in Seq(S) /\ IsInjective(u) /\ ToSet(u) \subseteq {x}
      <4>1. CASE u = <<>>
        <5>1. <<>> \in Seq(S) /\ DOMAIN <<>> = {}
          OBVIOUS
        <5> QED BY <4>1, <5>1 DEF IsInjective, ToSet
      <4>2. CASE u = <<x>>
        <5>1. <<x>> \in Seq(S) /\ DOMAIN <<x>> = {1} /\ <<x>>[1] = x
          BY <3>1
        <5> QED BY <4>2, <5>1 DEF IsInjective, ToSet
      <4> QED BY <3>3, <4>1, <4>2
    <3>5. Good(0)
      BY <3>1, <3>2, <3>4 DEF u
    <3> HIDE DEF Good
    <3> QED BY <3>5
  <2>3. ASSUME NEW k \in Nat, k \in Reached
        PROVE  k + 1 \in Reached
    <3>1. SUFFICES ASSUME k + 2 <= m PROVE Good(k + 1)
      <4>1. (k + 1) + 1 = k + 2 /\ k + 1 \in Nat
        OBVIOUS
      <4> HIDE DEF Good
      <4> QED BY <4>1
    <3> DEFINE x == s[k + 2]
               u == f[k + 1]
               v == f[k + 2]
    <3>2. Good(k)
      <4>1. k + 1 <= m
        BY <1>2, <3>1
      <4> HIDE DEF Good
      <4> QED BY <2>3, <4>1
    <3>3. k + 2 \in 1 .. m /\ k + 2 \in 2 .. m /\ (k + 2) - 1 = k + 1 /\ (k + 1) + 1 = k + 2
      BY <1>2, <3>1
    <3>4. x \in S /\ (parts[k + 2] = <<>> \/ parts[k + 2] = <<x>>)
      BY <1>2, <1>3, <3>3
    <3>5. v = u \o parts[k + 2]
      BY <2>1, <3>3
    <3>6. u \in Seq(S) /\ IsInjective(u) /\ ToSet(u) \subseteq Firsts(k)
      BY <3>2
    <3>7. x \notin Firsts(k)
      <4>1. \A i \in 1 .. (k + 1) : i \in DOMAIN s /\ k + 2 \in DOMAIN s /\ i # k + 2
        BY <1>2, <3>3
      <4> QED BY <4>1 DEF IsInjective
    <3>8. Firsts(k + 1) = Firsts(k) \cup {x}
      <4>1. 1 .. ((k + 1) + 1) = (1 .. (k + 1)) \cup {k + 2}
        OBVIOUS
      <4> QED BY <4>1
    <3> HIDE DEF x, u, v, Firsts
    <3>9. v \in Seq(S) /\ IsInjective(v) /\ ToSet(v) \subseteq Firsts(k) \cup {x}
      <4>1. CASE parts[k + 2] = <<>>
        <5>1. v = u
          BY <3>5, <3>6, <4>1
        <5> QED BY <3>6, <5>1
      <4>2. CASE parts[k + 2] = <<x>>
        <5>1. v = u \o <<x>>
          BY <3>5, <4>2
        <5>2. x \notin ToSet(u)
          BY <3>6, <3>7
        <5>3. IsInjective(v)
          BY <3>6, <5>1, <5>2, OneMoreApart
        <5> DEFINE o == <<x>>
        <5>4. o \in Seq(S) /\ ToSet(o) = {x}
          BY <3>4 DEF ToSet
        <5> HIDE DEF o
        <5>5. v \in Seq(S) /\ ToSet(v) = ToSet(u) \cup ToSet(o)
          BY <3>6, <5>1, <5>4, ConcatElements, ConcatProperties DEF o
        <5> QED BY <3>6, <5>3, <5>4, <5>5
      <4> QED BY <3>4, <4>1, <4>2
    <3> QED BY <3>3, <3>8, <3>9 DEF v
  <2>4. Nat \subseteq Reached
    <3> HIDE DEF Reached
    <3> QED BY <2>2, <2>3, Counting
  <2>5. Good(m - 1)
    <3>1. m - 1 \in Nat /\ (m - 1) + 1 <= m
      BY <1>2, <1>7
    <3> HIDE DEF Good
    <3> QED BY <2>4, <3>1
  <2>6. (m - 1) + 1 = m
    BY <1>2
  <2> QED BY <1>5, <2>1, <2>5, <2>6
<1> QED BY <1>6, <1>7

\* The tables a pass wrote a file for, those that should have one, and those
\* the passes go through.
FilesFor(pass) == {f.table : f \in {x \in files : x.pass = pass /\ x.table # 0}}
Wanted == {Key(sch[i]) : i \in {j \in DOMAIN sch : ~Skipped(sch[j]) /\ genSchema(sch[j])}}
PassedOn == {Key(tables[i]) : i \in {j \in DOMAIN tables : genSchema(tables[j])}}

\* Nothing is named or written while the schema is enriched; from then on the
\* schema of the passes is that of the tables not skipped, every table has had
\* its turn when the passes begin, and each pass that is done wrote for all.
EmitInv ==
  /\ IsList(sch) /\ IsList(tables) /\ turn \in Nat
  /\ phase \in {"collect", "enrich"} => turn = 0 /\ files = {}
  /\ phase \in {"name", "builders", "statics", "search", "done"} => PassedOn = Wanted
  /\ phase = "name" => turn <= Len(tables) /\ files = {}
  /\ phase \in {"builders", "statics", "search", "done"} => turn = Len(tables)
  /\ phase = "builders" => \A pass \in {"builders", "statics", "search"} : FilesFor(pass) = {}
  /\ phase \in {"statics", "search", "done"} => FilesFor("builders") = Named
  /\ phase = "statics" => FilesFor("statics") = {}
  /\ phase \in {"search", "done"} => FilesFor("statics") = Named
  /\ phase \in {"statics", "search"} => FilesFor("search") = {}
  /\ phase = "done" => FilesFor("search") \subseteq Named

LEMMA EmitInvSkips == EmitInv => SkippedEmitNothing
<1> SUFFICES ASSUME EmitInv, phase = "done" PROVE SkippedEmitNothing
  BY DEF SkippedEmitNothing
<1> DEFINE Emitted(pass) == {Key(tables[f.table]) : f \in {x \in files : x.pass = pass /\ x.table # 0}}
<1>1. \A pass : Emitted(pass) = {Key(tables[i]) : i \in FilesFor(pass)}
  BY DEF FilesFor
<1>2. /\ IsList(tables) /\ turn = Len(tables) /\ PassedOn = Wanted
      /\ FilesFor("builders") = Named /\ FilesFor("statics") = Named /\ FilesFor("search") \subseteq Named
  BY DEF EmitInv
<1>3. 1 .. turn = DOMAIN tables
  BY <1>2, ListDomain
<1>4. {Key(tables[i]) : i \in Named} = Wanted
  BY <1>2, <1>3 DEF Named, PassedOn
<1> HIDE DEF Emitted
<1>5. Emitted("builders") = Wanted /\ Emitted("statics") = Wanted /\ Emitted("search") \subseteq Wanted
  BY <1>1, <1>2, <1>4
<1> QED BY <1>5 DEF SkippedEmitNothing, Wanted, Emitted

\* A pass adds a file for each of its tables; its own file is of no table.
LEMMA PassFiles ==
  ASSUME NEW pass, NEW next, NEW S, NEW ending, NEW own,
         Pass(pass, next, S, ending, own), 0 \notin S, \A f \in own : f.table = 0
  PROVE  /\ FilesFor(pass)' = FilesFor(pass) \cup S
         /\ \A p : p # pass => FilesFor(p)' = FilesFor(p)
<1> DEFINE new == {File(pass, i, goTableNames(i).fb \o ending) : i \in S}
<1>1. files' = files \cup new \cup own
  BY DEF Pass
<1>2. /\ \A f \in new : f.pass = pass /\ f.table \in S
      /\ \A i \in S : \E f \in new : f.table = i
  <2>1. \A i, name : File(pass, i, name).pass = pass /\ File(pass, i, name).table = i
    BY DEF File
  <2>2. \A i \in S : File(pass, i, goTableNames(i).fb \o ending) \in new
    OBVIOUS
  <2> QED BY <2>1, <2>2
<1> HIDE DEF new
<1>3. FilesFor(pass)' = FilesFor(pass) \cup S
  BY <1>1, <1>2 DEF FilesFor
<1>4. ASSUME NEW p, p # pass
      PROVE  FilesFor(p)' = FilesFor(p)
  BY <1>1, <1>2, <1>4 DEF FilesFor
<1> QED BY <1>3, <1>4

\* A statement of the DDL changes tables but makes and drops none.
LEMMA EnrichKeepsList ==
  ASSUME IsList(sch), NEW d, enrichStmt(d)
  PROVE  IsList(sch')
<1>1. sch' = [i \in DOMAIN sch |-> sch'[i]] \/ sch' = sch
  BY DEF enrichStmt, EnrichCreate, EnrichAlterTable, EnrichIndex, EnrichView, EnrichTableAs,
         EnrichComment, OnTable
<1> QED BY <1>1, ChangedList

\* Dropping the skipped tables leaves those that are wanted.
LEMMA DropSkippedEmits ==
  ASSUME EmitInv, DropSkipped
  PROVE  EmitInv'
<1> DEFINE I == {i \in DOMAIN sch : ~Skipped(sch[i])}
<1>1. /\ phase = "enrich" /\ phase' = "name" /\ tables' = Picked(sch, I)
      /\ UNCHANGED <<sch, dir, turn, files>>
  BY DEF DropSkipped, enrichVars
<1>2. /\ IsList(sch) /\ turn = 0 /\ files = {}
  BY <1>1 DEF EmitInv
<1>3. IsList(tables') /\ ToSet(tables') = {sch[i] : i \in I}
  BY <1>1, <1>2, PickedFacts
<1>4. PassedOn' = {Key(t) : t \in {x \in ToSet(tables') : genSchema(x)}}
  BY DEF PassedOn, ToSet
<1>5. Wanted' = Wanted
  BY <1>1 DEF Wanted, Skipped
<1>6. Wanted = {Key(t) : t \in {x \in ToSet(tables') : genSchema(x)}}
  BY <1>3 DEF Wanted
<1>7. turn' <= Len(tables') /\ Len(tables') \in Nat
  <2>1. Len(tables') \in Nat
    BY <1>3, ListDomain
  <2> QED BY <1>1, <1>2, <2>1
<1> QED BY <1>1, <1>2, <1>3, <1>4, <1>5, <1>6, <1>7 DEF EmitInv

\* One more table is named, or passed over.
LEMMA NamingEmits ==
  ASSUME EmitInv, NameTables
  PROVE  EmitInv'
<1>1. /\ phase = "name" /\ phase' = "name" /\ UNCHANGED <<sch, dir, files, tables>> /\ Unnamed
      /\ turn' = Now
  BY DEF NameTables, NamingStep, PassOver, KeepBase, TakeSuffix, Take, enrichVars
<1>2. /\ IsList(sch) /\ IsList(tables) /\ turn \in Nat /\ PassedOn = Wanted /\ files = {}
  BY <1>1 DEF EmitInv
<1>3. turn' \in Nat
  BY <1>1, <1>2 DEF Now
<1>4. turn' <= Len(tables)
  BY <1>1, <1>2, ListDomain DEF Unnamed, Now
<1>5. PassedOn' = Wanted'
  BY <1>1, <1>2 DEF PassedOn, Wanted, Skipped
<1> QED BY <1>1, <1>2, <1>3, <1>4, <1>5 DEF EmitInv

\* A pass finds every table named and writes for those that have names.
LEMMA PassEmits ==
  ASSUME EmitInv, PassModels \/ PassBuilders \/ PassStatics \/ PassSearch
  PROVE  EmitInv'
<1>1. UNCHANGED <<sch, dir, tables, turn>> /\ Named' = Named /\ PassedOn' = PassedOn /\ Wanted' = Wanted
  BY DEF PassModels, PassBuilders, PassStatics, PassSearch, Pass, enrichVars, namingVars, Named,
         PassedOn, Wanted, Skipped
<1>2. IsList(sch') /\ IsList(tables') /\ turn' \in Nat
  BY <1>1 DEF EmitInv
<1>3. 0 \notin Named
  <2>1. turn \in Nat
    BY DEF EmitInv
  <2> QED BY <2>1 DEF Named
<1>4. CASE PassModels
  <2>1. /\ phase = "name" /\ phase' = "builders" /\ ~Unnamed
        /\ files' = files \cup {File("models", 0, <<"model", "s">>)}
    BY <1>4 DEF PassModels
  <2>2. files = {} /\ turn <= Len(tables) /\ PassedOn = Wanted
    BY <2>1 DEF EmitInv
  <2>3. turn = Len(tables)
    <3>1. turn \in Nat /\ Len(tables) \in Nat /\ DOMAIN tables = 1 .. Len(tables)
      BY ListDomain DEF EmitInv
    <3>2. turn + 1 \notin 1 .. Len(tables) /\ turn <= Len(tables)
      BY <2>1, <2>2, <3>1 DEF Unnamed, Now
    <3> DEFINE m == Len(tables)
    <3> HIDE DEF m
    <3>3. turn \in Nat /\ m \in Nat /\ turn + 1 \notin 1 .. m /\ turn <= m
      BY <3>1, <3>2 DEF m
    <3>4. turn = m
      BY <3>3
    <3> QED BY <3>4 DEF m
  <2>4. \A pass : FilesFor(pass)' = {}
    BY <2>1, <2>2 DEF FilesFor, File
  <2> QED BY <1>1, <1>2, <2>1, <2>2, <2>3, <2>4 DEF EmitInv
<1>5. CASE PassBuilders
  <2>1. /\ FilesFor("builders")' = FilesFor("builders") \cup Named
        /\ \A p : p # "builders" => FilesFor(p)' = FilesFor(p)
    BY <1>3, <1>5, PassFiles DEF PassBuilders
  <2>2. phase = "builders" /\ phase' = "statics"
    BY <1>5 DEF PassBuilders, Pass
  <2> QED BY <1>1, <1>2, <2>1, <2>2 DEF EmitInv
<1>6. CASE PassStatics
  <2> DEFINE own == IF Named = {} THEN {} ELSE {File("statics", 0, <<"pgb", "_", "helper", "s">>)}
  <2>1. \A f \in own : f.table = 0
    <3>1. File("statics", 0, <<"pgb", "_", "helper", "s">>).table = 0
      BY DEF File
    <3> QED BY <3>1
  <2>2. Pass("statics", "search", Named, <<"_", "repo">>, own)
    BY <1>6 DEF PassStatics
  <2> HIDE DEF own
  <2>3. /\ FilesFor("statics")' = FilesFor("statics") \cup Named
        /\ \A p : p # "statics" => FilesFor(p)' = FilesFor(p)
    BY <1>3, <2>1, <2>2, PassFiles
  <2>4. phase = "statics" /\ phase' = "search"
    BY <2>2 DEF Pass
  <2> QED BY <1>1, <1>2, <2>3, <2>4 DEF EmitInv
<1>7. CASE PassSearch
  <2> DEFINE S == {i \in Named : tables[i].search # {}}
             own == {}
  <2>1. Pass("search", "done", S, <<"_", "search">>, own) /\ S \subseteq Named /\ 0 \notin S
    BY <1>3, <1>7 DEF PassSearch
  <2>4. \A f \in own : f.table = 0
    OBVIOUS
  <2> HIDE DEF S, own
  <2>2. /\ FilesFor("search")' = FilesFor("search") \cup S
        /\ \A p : p # "search" => FilesFor(p)' = FilesFor(p)
    BY <2>1, <2>4, PassFiles
  <2>3. phase = "search" /\ phase' = "done"
    BY <2>1 DEF Pass
  <2> QED BY <1>1, <1>2, <2>1, <2>2, <2>3 DEF EmitInv
<1> QED BY <1>4, <1>5, <1>6, <1>7

\* Steps after which none of the phases above has begun, or none goes on.
LEMMA OtherEmits ==
  ASSUME EmitInv, IsList(sch'), UNCHANGED namingVars,
         \/ phase \in {"collect", "enrich"} /\ phase' \in {"collect", "enrich"} /\ UNCHANGED files
         \/ phase' \in {"failed", "write", "stopped", "written"}
  PROVE  EmitInv'
BY DEF EmitInv, namingVars

LEMMA EmitInvInit == Init => EmitInv
<1> SUFFICES ASSUME Init PROVE EmitInv
  OBVIOUS
<1>1. IsList(<<>>)
  BY DEF IsList
<1>2. IsList(sch)
  BY CatalogAssumption DEF Init, EnrichStart, IsList
<1> QED BY <1>1, <1>2 DEF Init, NamingStart, EmitInv

LEMMA EmitInvStep ==
  ASSUME EmitInv, [Next]_generateVars
  PROVE  EmitInv'
<1>1. CASE Enriching
  <2>1. PICK d \in DDL : enrichStmt(d)
    BY <1>1 DEF Enriching, EnrichAny
  <2>2. IsList(sch')
    BY <2>1, EnrichKeepsList DEF EmitInv
  <2> QED BY <1>1, <2>2, OtherEmits DEF Enriching
<1>2. CASE Fails
  BY <1>2, OtherEmits DEF Fails, enrichVars, EmitInv
<1>3. CASE UNCHANGED generateVars
  BY <1>3 DEF generateVars, enrichVars, namingVars, EmitInv, PassedOn, Wanted, Skipped, Named, FilesFor
<1> QED BY <1>1, <1>2, <1>3, DropSkippedEmits, NamingEmits, PassEmits DEF Next

\* gen.go:44-46, for every catalog and DDL: what the latest directives skip is
\* emitted by no pass, and everything else of the application by all of them.
THEOREM SkippedAreLeftOut == Spec => []SkippedEmitNothing
<1> QED BY EmitInvInit, EmitInvStep, EmitInvSkips, PTL DEF Spec

-----------------------------------------------------------------------------
(* The two editions *)

\* The steps around Generate leave the names alone; its own are GenerateProofs'.
LEMMA StandaloneNamesStep == NamingInv /\ [StandaloneNext]_standaloneVars => NamingInv'
<1> SUFFICES ASSUME NamingInv, [StandaloneNext]_standaloneVars PROVE NamingInv'
  OBVIOUS
<1>1. CASE Generating
  <2>1. Next
    BY <1>1 DEF Generating, Next
  <2>2. QED
    BY <2>1, NamingInvStep
<1>2. ReadStmt \/ ReadFails \/ buildRequest \/ Replay \/ MkdirAll \/ WriteFile \/ WriteFails
        \/ Report \/ UNCHANGED standaloneVars
      => KeepsNames
  BY DEF ReadStmt, ReadFails, buildRequest, Replay, MkdirAll, WriteFile, WriteFails, Report, Ends,
         standaloneVars, generateVars, KeepsNames
<1>3. QED
  BY <1>1, <1>2, KeepingNames DEF StandaloneNext

\* The tables collected by the command are a list, and so is what it requests.
LEMMA CollectKeepsList ==
  ASSUME IsList(schema), CollectStmt
  PROVE  IsList(schema')
<1>1. \/ \E x : schema' = Append(schema, x)
      \/ schema' = [i \in DOMAIN schema |-> schema'[i]]
      \/ schema' = schema
  <2>1. PICK d \in Script : CollectCreate(d) \/ CollectAlter(d) \/ CollectView(d) \/ CollectOther(d)
    BY DEF CollectStmt
  <2>2. CollectCreate(d) => \E x : schema' = Append(schema, x)
    BY DEF CollectCreate
  <2>3. CollectAlter(d) => schema' = [i \in DOMAIN schema |-> schema'[i]]
    BY DEF CollectAlter
  <2>4. CollectView(d) => (\E x : schema' = Append(schema, x)) \/ schema' = schema
    BY DEF CollectView
  <2>5. CollectOther(d) => schema' = schema
    BY DEF CollectOther
  <2> QED BY <2>1, <2>2, <2>3, <2>4, <2>5
<1> QED BY <1>1, AppendList, ChangedList

\* Tables whose names are spelled in pieces.
HasNames(t) == {"schema", "name"} \subseteq DOMAIN t /\ Spelled(t)
AllSpelled(ts) == \A i \in DOMAIN ts : HasNames(ts[i])

LEMMA CollectKeepsSpelling ==
  ASSUME IsList(schema), AllSpelled(schema), CollectStmt
  PROVE  AllSpelled(schema')
<1>1. ASSUME NEW x, HasNames(x), schema' = Append(schema, x)
      PROVE  AllSpelled(schema')
  <2>1. PICK S : schema \in Seq(S)
    BY DEF IsList
  <2>2. /\ DOMAIN schema' = DOMAIN schema \cup {Len(schema) + 1}
        /\ schema'[Len(schema) + 1] = x
        /\ \A i \in DOMAIN schema : schema'[i] = schema[i]
    BY <1>1, <2>1, AppendOne
  <2> QED BY <1>1, <2>2 DEF AllSpelled
<1>2. <<>> \in Seq(Piece)
  OBVIOUS
<1>3. PICK d \in Script : CollectCreate(d) \/ CollectAlter(d) \/ CollectView(d) \/ CollectOther(d)
  BY DEF CollectStmt
<1>4. Spelled(d.rel)
  BY ScriptAssumption DEF Parsed
<1>5. CASE CollectCreate(d)
  <2>1. PICK cs : schema' = Append(schema, [schema |-> d.rel.schema, name |-> d.rel.name, cols |-> cs])
    BY <1>5 DEF CollectCreate
  <2> QED BY <1>1, <1>4, <2>1 DEF HasNames, Spelled
<1>6. CASE CollectAlter(d)
  <2>1. /\ DOMAIN schema' = DOMAIN schema
        /\ \A i \in DOMAIN schema :
             schema'[i] = schema[i] \/ \E cs : schema'[i] = [schema[i] EXCEPT !.cols = cs]
    BY <1>6 DEF CollectAlter
  <2>2. ASSUME NEW u, HasNames(u), NEW cs
        PROVE  HasNames([u EXCEPT !.cols = cs])
    BY <2>2 DEF HasNames, Spelled
  <2> QED BY <2>1, <2>2 DEF AllSpelled
<1>7. CASE CollectView(d)
  <2>1. \A x \in viewTable(d) : \E cs : x = [schema |-> <<>>, name |-> d.rel.name, cols |-> cs]
    BY DEF viewTable
  <2>2. ASSUME NEW cs
        PROVE  HasNames([schema |-> <<>>, name |-> d.rel.name, cols |-> cs])
    BY <1>2, <1>4 DEF HasNames, Spelled
  <2>3. \A x \in viewTable(d) : HasNames(x)
    BY <2>1, <2>2
  <2> QED BY <1>1, <1>7, <2>3 DEF CollectView
<1>8. CASE CollectOther(d)
  BY <1>8 DEF CollectOther
<1> QED BY <1>3, <1>5, <1>6, <1>7, <1>8

LEMMA RequestedList ==
  ASSUME IsList(schema)
  PROVE  /\ Len(Requested) \in Nat /\ DOMAIN Requested = 1 .. Len(Requested)
         /\ AllSpelled(schema) => AllSpelled(Requested)
<1> DEFINE unnamed == {i \in DOMAIN schema : schema[i].schema = <<>>}
           named == DOMAIN schema \ unnamed
           first == Picked(schema, unnamed)
           rest == Picked(schema, named)
           tables0 == first \o rest
<1>1. /\ IsList(first) /\ IsList(rest)
      /\ ToSet(first) = {schema[i] : i \in unnamed}
      /\ ToSet(rest) = {schema[i] : i \in named}
  BY PickedFacts
<1>2. AllSpelled(schema) => \A x \in ToSet(first) \cup ToSet(rest) : HasNames(x)
  BY <1>1 DEF AllSpelled
<1>3. DOMAIN Requested = DOMAIN tables0 /\ Requested = [k \in DOMAIN tables0 |-> Requested[k]]
  BY DEF Requested
<1>4. \A k \in DOMAIN tables0 :
        Requested[k] = [tables0[k] EXCEPT !.schema = IF @ = <<>> THEN DefaultSchema ELSE @]
  BY DEF Requested
<1> HIDE DEF first, rest
<1>5. IsList(tables0) /\ ToSet(tables0) = ToSet(first) \cup ToSet(rest)
  <2>1. PICK S : first \in Seq(S)
    BY <1>1 DEF IsList
  <2>2. PICK T : rest \in Seq(T)
    BY <1>1 DEF IsList
  <2> DEFINE W == S \cup T
  <2>3. first \in Seq(W) /\ rest \in Seq(W)
    BY <2>1, <2>2, SeqMonotonic
  <2> HIDE DEF W
  <2>4. tables0 \in Seq(W)
    BY <2>3
  <2>5. ToSet(tables0) = ToSet(first) \cup ToSet(rest)
    BY <2>3, ConcatElements
  <2> HIDE DEF tables0
  <2> QED BY <2>4, <2>5 DEF IsList
<1> HIDE DEF tables0
<1>6. IsList(Requested)
  BY <1>3, <1>5, ChangedList
<1>7. AllSpelled(schema) => AllSpelled(Requested)
  <2>1. SUFFICES ASSUME AllSpelled(schema), NEW k \in DOMAIN tables0 PROVE HasNames(Requested[k])
    BY <1>3 DEF AllSpelled
  <2>2. HasNames(tables0[k])
    <3>1. tables0[k] \in ToSet(tables0)
      BY DEF ToSet
    <3> QED BY <1>2, <1>5, <2>1, <3>1
  <2> QED BY <1>4, <2>2, NamingAssumption DEF HasNames, Spelled
<1> QED BY <1>6, <1>7, ListDomain

LEMMA EditionsEmitInit == StandaloneInit => EmitInv /\ IsList(schema)
<1> SUFFICES ASSUME StandaloneInit PROVE EmitInv /\ IsList(schema)
  OBVIOUS
<1>1. IsList(<<>>)
  BY DEF IsList
<1>2. IsList(sch)
  BY <1>1, CatalogAssumption DEF StandaloneInit, EnrichStart, IsList
<1> QED BY <1>1, <1>2 DEF StandaloneInit, NamingStart, CatalogStart, EmitInv

LEMMA EditionsEmitStep ==
  ASSUME EmitInv, IsList(schema), [StandaloneNext]_standaloneVars
  PROVE  EmitInv' /\ IsList(schema')
<1>1. CASE ReadStmt
  <2>1. IsList(schema') /\ UNCHANGED generateVars /\ phase = "collect"
    BY <1>1, CollectKeepsList DEF ReadStmt
  <2>2. IsList(sch') /\ UNCHANGED <<files, phase>> /\ UNCHANGED namingVars
    BY <2>1 DEF generateVars, enrichVars, EmitInv
  <2> QED BY <2>1, <2>2, OtherEmits
<1>2. CASE buildRequest
  <2>1. sch' = [k \in DOMAIN Requested |-> sch'[k]] /\ schema' = schema
    BY <1>2 DEF buildRequest, catalogVars
  <2>2. IsList(sch')
    <3>1. Len(Requested) \in Nat /\ DOMAIN Requested = 1 .. Len(Requested)
      BY RequestedList
    <3> DEFINE T == {sch'[k] : k \in DOMAIN Requested}
    <3>2. sch' \in [1 .. Len(Requested) -> T]
      BY <2>1, <3>1
    <3> HIDE DEF T
    <3>3. sch' \in Seq(T)
      BY <3>1, <3>2
    <3> QED BY <3>3 DEF IsList
  <2> QED BY <1>2, <2>1, <2>2, OtherEmits DEF buildRequest
<1>3. CASE Replay
  <2>1. IsList(sch')
    BY <1>3, EnrichKeepsList DEF Replay, EmitInv
  <2> QED BY <1>3, <2>1, OtherEmits DEF Replay, catalogVars
<1>4. CASE Generating
  <2>1. Next /\ schema' = schema
    BY <1>4 DEF Generating, Next, catalogVars
  <2> QED BY <2>1, EmitInvStep
<1>5. CASE ReadFails \/ MkdirAll \/ WriteFile \/ WriteFails \/ Report
  <2>1. UNCHANGED <<sch, schema>> /\ UNCHANGED namingVars /\ phase' \in {"failed", "write", "stopped", "written"}
    BY <1>5 DEF ReadFails, MkdirAll, WriteFile, WriteFails, Report, Ends, enrichVars, catalogVars
  <2> QED BY <2>1, OtherEmits DEF EmitInv
<1>6. CASE UNCHANGED standaloneVars
  <2>1. UNCHANGED generateVars /\ schema' = schema
    BY <1>6 DEF standaloneVars, catalogVars
  <2> QED BY <2>1, EmitInvStep
<1> QED BY <1>1, <1>2, <1>3, <1>4, <1>5, <1>6 DEF StandaloneNext

\* gen.go:44-46 in both editions: what the files skip is emitted by no pass,
\* whatever catalog sqlc or collectStmt made of them.
THEOREM EditionsSkip == StandaloneSpec => []SkippedEmitNothing
<1> DEFINE Inv == EmitInv /\ IsList(schema)
<1>1. StandaloneInit => Inv
  BY EditionsEmitInit
<1>2. Inv /\ [StandaloneNext]_standaloneVars => Inv'
  BY EditionsEmitStep
<1>3. Inv => SkippedEmitNothing
  BY EmitInvSkips
<1> HIDE DEF Inv
<1> QED BY <1>1, <1>2, <1>3, PTL DEF StandaloneSpec
-----------------------------------------------------------------------------
(* What the schema says is what the statements say *)

\* The keys of a kind among constraints, and the columns that they fill.
KeysIn(E, type) == {KeysOf(con) : con \in {e \in E : e.type = type}}
Filled(C, types, t) == {e.col : e \in {x \in C : x.type \in types}} \cap t.cols

\* A table t of which constraints E were said, C of them by CREATE TABLE.
Agrees(t, E, C) ==
  /\ Fields \subseteq DOMAIN t
  /\ {t.pk} \ {<<>>} \subseteq KeysIn(E, "primary")
  /\ KeysIn(E, "primary") # {} => t.pk # <<>>
  /\ IsList(t.uniques) /\ ToSet(t.uniques) = KeysIn(E, "unique") /\ IsInjective(t.uniques)
  /\ t.generated = Filled(C, {"generated"}, t)
  /\ t.hasDefault = Filled(C, {"identity", "default"}, t)

\* What no statement of the DDL changes of a table, and what no constraint does.
Same(t, u) ==
  /\ DOMAIN u = DOMAIN t
  /\ u.schema = t.schema /\ u.name = t.name /\ u.cols = t.cols /\ u.skip = t.skip
  /\ u.comments = t.comments
SameBesides(t, u) == Same(t, u) /\ u.view = t.view /\ u.search = t.search

\* A key has columns.
Keyed(e) == e.type \in {"primary", "unique"} => KeysOf(e) # <<>>

\* One constraint more.
LEMMA KeysOfMore ==
  ASSUME NEW E, NEW e
  PROVE  /\ e.type = "primary" => KeysIn(E \cup {e}, "primary") = KeysIn(E, "primary") \cup {KeysOf(e)}
         /\ e.type # "primary" => KeysIn(E \cup {e}, "primary") = KeysIn(E, "primary")
         /\ e.type = "unique" => KeysIn(E \cup {e}, "unique") = KeysIn(E, "unique") \cup {KeysOf(e)}
         /\ e.type # "unique" => KeysIn(E \cup {e}, "unique") = KeysIn(E, "unique")
BY DEF KeysIn

LEMMA FilledByMore ==
  ASSUME NEW C, NEW e, NEW t
  PROVE  /\ Filled(C \cup {e}, {"generated"}, t)
             = IF e.type = "generated" THEN Filled(C, {"generated"}, t) \cup ({e.col} \cap t.cols)
               ELSE Filled(C, {"generated"}, t)
         /\ Filled(C \cup {e}, {"identity", "default"}, t)
             = IF e.type \in {"identity", "default"}
               THEN Filled(C, {"identity", "default"}, t) \cup ({e.col} \cap t.cols)
               ELSE Filled(C, {"identity", "default"}, t)
BY DEF Filled

\* A list without repetition gets one more element.
LEMMA AppendNew ==
  ASSUME NEW s, IsList(s), IsInjective(s), NEW x, x \notin ToSet(s)
  PROVE  /\ IsList(Append(s, x)) /\ IsInjective(Append(s, x))
         /\ ToSet(Append(s, x)) = ToSet(s) \cup {x}
<1>1. PICK S : s \in Seq(S)
  BY DEF IsList
<1> DEFINE u == Append(s, x)
<1>2. /\ u \in Seq(S \cup {x})
      /\ DOMAIN u = DOMAIN s \cup {Len(s) + 1}
      /\ Len(s) + 1 \notin DOMAIN s
      /\ \A i \in DOMAIN s : u[i] = s[i]
      /\ u[Len(s) + 1] = x
  BY <1>1, AppendOne
<1> HIDE DEF u
<1>3. IsInjective(u)
  BY <1>2 DEF IsInjective, ToSet
<1>4. ToSet(u) = ToSet(s) \cup {x}
  BY <1>2 DEF ToSet
<1> QED BY <1>2, <1>3, <1>4 DEF IsList, u

\* One constraint more, of the table's keys.
LEMMA ConstraintAgrees ==
  ASSUME NEW t, NEW E, NEW C, NEW e, Agrees(t, E, C), Keyed(e)
  PROVE  Agrees(applyConstraint(t, e), E \cup {e}, C) /\ SameBesides(t, applyConstraint(t, e))
<1> DEFINE u == applyConstraint(t, e)
<1>1. /\ Fields \subseteq DOMAIN t
      /\ \A f \in Fields : f \in DOMAIN t
  BY DEF Agrees
<1>2. CASE e.type = "primary" /\ t.pk = <<>>
  <2>1. u = [t EXCEPT !.pk = KeysOf(e)]
    BY <1>2 DEF applyConstraint
  <2>2. /\ DOMAIN u = DOMAIN t /\ u.pk = KeysOf(e)
        /\ \A f \in Fields \ {"pk"} : u[f] = t[f]
    BY <1>1, <2>1 DEF Fields
  <2> HIDE DEF u
  <2>3. SameBesides(t, u) /\ u.uniques = t.uniques /\ u.generated = t.generated /\ u.hasDefault = t.hasDefault
    BY <2>2 DEF SameBesides, Same, Fields
  <2>4. KeysOf(e) # <<>>
    BY <1>2 DEF Keyed
  <2>5. /\ KeysIn(E \cup {e}, "primary") = KeysIn(E, "primary") \cup {KeysOf(e)}
        /\ KeysIn(E \cup {e}, "unique") = KeysIn(E, "unique")
    BY <1>2, KeysOfMore
  <2>6. \A types : Filled(C, types, u) = Filled(C, types, t)
    BY <2>3 DEF Filled, SameBesides, Same
  <2>7. Agrees(u, E \cup {e}, C)
    BY <2>2, <2>3, <2>4, <2>5, <2>6 DEF Agrees
  <2> QED BY <2>3, <2>7 DEF u
<1>3. CASE e.type = "unique" /\ KeysOf(e) \notin {<<>>} \cup ToSet(t.uniques)
  <2>1. u = [t EXCEPT !.uniques = Append(t.uniques, KeysOf(e))]
    BY <1>3 DEF applyConstraint
  <2>2. /\ DOMAIN u = DOMAIN t /\ u.uniques = Append(t.uniques, KeysOf(e))
        /\ \A f \in Fields \ {"uniques"} : u[f] = t[f]
    BY <1>1, <2>1 DEF Fields
  <2> HIDE DEF u
  <2>3. SameBesides(t, u) /\ u.pk = t.pk /\ u.generated = t.generated /\ u.hasDefault = t.hasDefault
    BY <2>2 DEF SameBesides, Same, Fields
  <2>4. /\ KeysIn(E \cup {e}, "unique") = KeysIn(E, "unique") \cup {KeysOf(e)}
        /\ KeysIn(E \cup {e}, "primary") = KeysIn(E, "primary")
    BY <1>3, KeysOfMore
  <2>5. IsList(u.uniques) /\ IsInjective(u.uniques) /\ ToSet(u.uniques) = ToSet(t.uniques) \cup {KeysOf(e)}
    BY <1>3, <2>2, AppendNew DEF Agrees
  <2>6. \A types : Filled(C, types, u) = Filled(C, types, t)
    BY <2>3 DEF Filled, SameBesides, Same
  <2>7. Agrees(u, E \cup {e}, C)
    BY <2>2, <2>3, <2>4, <2>5, <2>6 DEF Agrees
  <2> QED BY <2>3, <2>7 DEF u
<1>4. CASE /\ ~(e.type = "primary" /\ t.pk = <<>>)
           /\ ~(e.type = "unique" /\ KeysOf(e) \notin {<<>>} \cup ToSet(t.uniques))
  <2>1. u = t
    BY <1>4 DEF applyConstraint
  <2>2. KeysIn(E \cup {e}, "unique") = KeysIn(E, "unique")
    <3>1. CASE e.type = "unique"
      <4>1. KeysOf(e) # <<>>
        BY <3>1 DEF Keyed
      <4>2. KeysOf(e) \in KeysIn(E, "unique")
        BY <1>4, <3>1, <4>1 DEF Agrees
      <4>3. KeysIn(E \cup {e}, "unique") = KeysIn(E, "unique") \cup {KeysOf(e)}
        BY <3>1, KeysOfMore
      <4> QED BY <4>2, <4>3
    <3> QED BY <3>1, KeysOfMore
  <2>3. /\ KeysIn(E \cup {e}, "primary") # {} => t.pk # <<>>
        /\ KeysIn(E, "primary") \subseteq KeysIn(E \cup {e}, "primary")
    BY <1>4, KeysOfMore DEF Agrees
  <2>4. Agrees(t, E \cup {e}, C)
    BY <2>2, <2>3 DEF Agrees
  <2> QED BY <2>1, <2>4 DEF SameBesides, Same
<1> QED BY <1>2, <1>3, <1>4

\* The constraints of C together with one more, where CREATE TABLE says it.
Created(kind, C, S) == IF kind = "create" THEN C \cup S ELSE C

LEMMA ElementAgrees ==
  ASSUME NEW t, NEW E, NEW C, NEW e, Agrees(t, E, C), Keyed(e), NEW kind
  PROVE  /\ Agrees(applyElement(kind, t, e), E \cup {e}, Created(kind, C, {e}))
         /\ SameBesides(t, applyElement(kind, t, e))
<1> DEFINE u == applyElement(kind, t, e)
           D == Created(kind, C, {e})
<1>1. Fields \subseteq DOMAIN t /\ \A f \in Fields : f \in DOMAIN t
  BY DEF Agrees
<1>2. CASE kind = "create" /\ e.type = "generated"
  <2>1. u = [t EXCEPT !.generated = t.generated \cup ({e.col} \cap t.cols)]
    BY <1>2 DEF applyElement
  <2>2. /\ DOMAIN u = DOMAIN t /\ u.generated = t.generated \cup ({e.col} \cap t.cols)
        /\ \A f \in Fields \ {"generated"} : u[f] = t[f]
    BY <1>1, <2>1 DEF Fields
  <2> HIDE DEF u
  <2>3. SameBesides(t, u) /\ u.pk = t.pk /\ u.uniques = t.uniques /\ u.hasDefault = t.hasDefault
    BY <2>2 DEF SameBesides, Same, Fields
  <2>4. /\ KeysIn(E \cup {e}, "unique") = KeysIn(E, "unique")
        /\ KeysIn(E \cup {e}, "primary") = KeysIn(E, "primary")
    BY <1>2, KeysOfMore
  <2>5. /\ Filled(C \cup {e}, {"generated"}, t) = Filled(C, {"generated"}, t) \cup ({e.col} \cap t.cols)
        /\ Filled(C \cup {e}, {"identity", "default"}, t) = Filled(C, {"identity", "default"}, t)
    BY <1>2, FilledByMore
  <2>6. \A types : Filled(C \cup {e}, types, u) = Filled(C \cup {e}, types, t)
    BY <2>3 DEF Filled, SameBesides, Same
  <2>7. Agrees(u, E \cup {e}, C \cup {e})
    BY <2>2, <2>3, <2>4, <2>5, <2>6 DEF Agrees
  <2> QED BY <1>2, <2>3, <2>7 DEF u, Created
<1>3. CASE kind = "create" /\ e.type \in {"identity", "default"}
  <2>1. u = [t EXCEPT !.hasDefault = t.hasDefault \cup ({e.col} \cap t.cols)]
    BY <1>3 DEF applyElement
  <2>2. /\ DOMAIN u = DOMAIN t /\ u.hasDefault = t.hasDefault \cup ({e.col} \cap t.cols)
        /\ \A f \in Fields \ {"hasDefault"} : u[f] = t[f]
    BY <1>1, <2>1 DEF Fields
  <2> HIDE DEF u
  <2>3. SameBesides(t, u) /\ u.pk = t.pk /\ u.uniques = t.uniques /\ u.generated = t.generated
    BY <2>2 DEF SameBesides, Same, Fields
  <2>4. /\ KeysIn(E \cup {e}, "unique") = KeysIn(E, "unique")
        /\ KeysIn(E \cup {e}, "primary") = KeysIn(E, "primary")
    BY <1>3, KeysOfMore
  <2>5. /\ Filled(C \cup {e}, {"generated"}, t) = Filled(C, {"generated"}, t)
        /\ Filled(C \cup {e}, {"identity", "default"}, t)
             = Filled(C, {"identity", "default"}, t) \cup ({e.col} \cap t.cols)
    BY <1>3, FilledByMore
  <2>6. \A types : Filled(C \cup {e}, types, u) = Filled(C \cup {e}, types, t)
    BY <2>3 DEF Filled, SameBesides, Same
  <2>7. Agrees(u, E \cup {e}, C \cup {e})
    BY <2>2, <2>3, <2>4, <2>5, <2>6 DEF Agrees
  <2> QED BY <1>3, <2>3, <2>7 DEF u, Created
<1>4. CASE kind = "create" => e.type \notin {"generated", "identity", "default"}
  <2>1. u = applyConstraint(t, e)
    BY <1>4 DEF applyElement
  <2> HIDE DEF u
  <2>2. Agrees(u, E \cup {e}, C) /\ SameBesides(t, u)
    BY <2>1, ConstraintAgrees
  <2>3. /\ Filled(D, {"generated"}, u) = Filled(C, {"generated"}, u)
        /\ Filled(D, {"identity", "default"}, u) = Filled(C, {"identity", "default"}, u)
    BY <1>4, FilledByMore DEF Created
  <2>4. Agrees(u, E \cup {e}, D)
    <3> HIDE DEF D
    <3> QED BY <2>2, <2>3 DEF Agrees
  <2> QED BY <2>2, <2>4 DEF u
<1> QED BY <1>2, <1>3, <1>4

\* The m elements of a statement act one after the other.
OneByOne(kind, t, elts, m) ==
  \E g : /\ g[0] = t /\ applyElements(kind, t, elts) = g[m]
         /\ \A k \in 0 .. (m - 1) : g[k + 1] = applyElement(kind, g[k], elts[k + 1])
LEMMA ElementSteps ==
  ASSUME NEW kind, NEW t, NEW elts, NEW m \in Nat, DOMAIN elts = 1 .. m
  PROVE  OneByOne(kind, t, elts, m)
<1> DEFINE Body(g, S) == IF S = {} THEN t ELSE applyElement(kind, g[S \ {Max(S)}], elts[Max(S)])
           Defined(k) == \E g : g = [S \in SUBSET (1 .. k) |-> Body(g, S)]
           Reached == {k \in Nat : Defined(k)}
           f == CHOOSE g : g = [S \in SUBSET (1 .. m) |-> Body(g, S)]
<1>1. \A k \in Nat : \A S \in SUBSET (1 .. (k + 1)) : k + 1 \in S => Max(S) = k + 1
  BY LastIsMax
<1>2. 0 \in Reached
  <2> DEFINE g == [S \in SUBSET (1 .. 0) |-> t]
  <2>1. SUBSET (1 .. 0) = {{}}
    OBVIOUS
  <2>2. g = [S \in SUBSET (1 .. 0) |-> Body(g, S)]
    BY <2>1
  <2>3. Defined(0)
    BY <2>2
  <2> HIDE DEF Defined
  <2> QED BY <2>3
<1>3. ASSUME NEW k \in Nat, k \in Reached
      PROVE  k + 1 \in Reached
  <2>1. PICK g : g = [S \in SUBSET (1 .. k) |-> Body(g, S)]
    BY <1>3
  <2>2. \A S \in SUBSET (1 .. k) : g[S] = Body(g, S)
    <3> HIDE DEF Body
    <3> QED BY <2>1
  <2> DEFINE h == [S \in SUBSET (1 .. (k + 1)) |-> IF k + 1 \in S THEN Body(g, S) ELSE g[S]]
  <2>3. \A S \in SUBSET (1 .. k) : S \in SUBSET (1 .. (k + 1)) /\ h[S] = g[S]
    OBVIOUS
  <2>4. ASSUME NEW S \in SUBSET (1 .. (k + 1))
        PROVE  h[S] = Body(h, S)
    <3>1. CASE k + 1 \in S
      <4>1. Max(S) = k + 1 /\ S \ {k + 1} \in SUBSET (1 .. k)
        BY <1>1, <3>1
      <4>2. h[S] = Body(g, S) /\ h[S \ {Max(S)}] = g[S \ {Max(S)}]
        BY <3>1, <4>1, <2>3
      <4> HIDE DEF h
      <4> QED BY <4>2
    <3>2. CASE k + 1 \notin S
      <4>1. S \in SUBSET (1 .. k) /\ S \ {Max(S)} \in SUBSET (1 .. k)
        <5>1. \A y \in S : y \in 1 .. k
          BY <3>2
        <5> QED BY <5>1
      <4>2. h[S] = Body(g, S) /\ h[S \ {Max(S)}] = g[S \ {Max(S)}]
        BY <4>1, <2>2, <2>3
      <4> HIDE DEF h
      <4> QED BY <4>2
    <3> QED BY <3>1, <3>2
  <2>5. h = [S \in SUBSET (1 .. (k + 1)) |-> h[S]]
    OBVIOUS
  <2> HIDE DEF h
  <2>6. Defined(k + 1)
    BY <2>4, <2>5
  <2> HIDE DEF Defined
  <2> QED BY <2>6
<1>4. Nat \subseteq Reached
  <2> HIDE DEF Reached
  <2> QED BY <1>2, <1>3, Counting
<1>5. applyElements(kind, t, elts) = f[1 .. m]
  BY DEF applyElements, FoldLeft, MapThenFoldSet
<1>6. f = [S \in SUBSET (1 .. m) |-> Body(f, S)]
  <2>1. Defined(m)
    BY <1>4
  <2> QED BY <2>1
<1>7. \A S \in SUBSET (1 .. m) : f[S] = Body(f, S)
  <2> HIDE DEF Body, f
  <2> QED BY <1>6
<1> HIDE DEF f
<1> DEFINE g == [k \in 0 .. m |-> f[1 .. k]]
<1>8. g[0] = t /\ g[m] = f[1 .. m]
  <2>1. 1 .. 0 = {} /\ {} \in SUBSET (1 .. m) /\ 0 \in 0 .. m /\ m \in 0 .. m
    OBVIOUS
  <2> QED BY <2>1, <1>7
<1>9. ASSUME NEW k \in 0 .. (m - 1)
      PROVE  g[k + 1] = applyElement(kind, g[k], elts[k + 1])
  <2> DEFINE S == 1 .. (k + 1)
  <2>1. k \in Nat /\ k \in 0 .. m /\ k + 1 \in 0 .. m
    OBVIOUS
  <2>2. S \in SUBSET (1 .. m) /\ k + 1 \in S /\ S # {} /\ S \ {k + 1} = 1 .. k
    OBVIOUS
  <2>3. Max(S) = k + 1
    BY <1>1, <2>1, <2>2
  <2> HIDE DEF S
  <2>4. f[S] = applyElement(kind, f[1 .. k], elts[k + 1])
    BY <1>7, <2>2, <2>3
  <2> QED BY <2>1, <2>4 DEF S
<1> HIDE DEF g
<1> QED BY <1>5, <1>8, <1>9 DEF OneByOne

\* What a list of constraints says of a table is what it says one by one.
LEMMA ElementsAgree ==
  ASSUME NEW t, NEW E, NEW C, Agrees(t, E, C), NEW kind,
         NEW elts, IsList(elts), \A e \in ToSet(elts) : Keyed(e)
  PROVE  /\ Agrees(applyElements(kind, t, elts), E \cup ToSet(elts), Created(kind, C, ToSet(elts)))
         /\ SameBesides(t, applyElements(kind, t, elts))
<1> DEFINE m == Len(elts)
           Said(k) == {elts[j] : j \in 1 .. k}
<1>1. m \in Nat /\ DOMAIN elts = 1 .. m
  BY ListDomain
<1> HIDE DEF m
<1>2. PICK g : /\ g[0] = t /\ applyElements(kind, t, elts) = g[m]
               /\ \A k \in 0 .. (m - 1) : g[k + 1] = applyElement(kind, g[k], elts[k + 1])
  <2>1. OneByOne(kind, t, elts, m)
    BY <1>1, ElementSteps
  <2> QED BY <2>1 DEF OneByOne
<1>3. \A k \in 1 .. m : Keyed(elts[k])
  BY <1>1 DEF ToSet
<1> DEFINE Good(k) == /\ Agrees(g[k], E \cup Said(k), Created(kind, C, Said(k)))
                      /\ SameBesides(t, g[k])
           Done == {k \in Nat : k <= m => Good(k)}
<1>4. 0 \in Done
  <2>1. Said(0) = {}
    OBVIOUS
  <2>2. E \cup Said(0) = E /\ Created(kind, C, Said(0)) = C
    BY <2>1 DEF Created
  <2>3. SameBesides(t, t)
    BY DEF SameBesides, Same
  <2> HIDE DEF Said
  <2>4. Good(0)
    BY <1>2, <2>2, <2>3
  <2> HIDE DEF Good
  <2> QED BY <2>4
<1>5. ASSUME NEW k \in Nat, k \in Done
      PROVE  k + 1 \in Done
  <2> SUFFICES ASSUME k + 1 <= m PROVE Good(k + 1)
    <3> HIDE DEF Good
    <3> QED OBVIOUS
  <2>1. Good(k)
    <3> HIDE DEF Good
    <3> QED BY <1>1, <1>5
  <2>2. k \in 0 .. (m - 1) /\ k + 1 \in 1 .. m
    BY <1>1
  <2> DEFINE e == elts[k + 1]
  <2>3. Said(k + 1) = Said(k) \cup {e}
    <3>1. 1 .. (k + 1) = (1 .. k) \cup {k + 1}
      OBVIOUS
    <3> QED BY <3>1
  <2>4. g[k + 1] = applyElement(kind, g[k], e) /\ Keyed(e)
    BY <1>2, <1>3, <2>2
  <2> HIDE DEF e, Said
  <2>5. /\ Agrees(g[k + 1], (E \cup Said(k)) \cup {e}, Created(kind, Created(kind, C, Said(k)), {e}))
        /\ SameBesides(g[k], g[k + 1])
    BY <2>1, <2>4, ElementAgrees
  <2>6. /\ (E \cup Said(k)) \cup {e} = E \cup Said(k + 1)
        /\ Created(kind, Created(kind, C, Said(k)), {e}) = Created(kind, C, Said(k + 1))
    BY <2>3 DEF Created
  <2>7. SameBesides(t, g[k + 1])
    BY <2>1, <2>5 DEF SameBesides, Same
  <2> QED BY <2>5, <2>6, <2>7
<1>6. Nat \subseteq Done
  <2> HIDE DEF Done
  <2> QED BY <1>4, <1>5, Counting
<1>7. Good(m)
  <2> HIDE DEF Good
  <2> QED BY <1>1, <1>6
<1>8. Said(m) = ToSet(elts)
  BY <1>1 DEF ToSet
<1> HIDE DEF Said
<1> QED BY <1>2, <1>7, <1>8

-----------------------------------------------------------------------------
(* One statement more *)

\* Constraints said of the table at i, those said by CREATE TABLE alone, and its
\* search indexes.
CreatedAt(i) == UNION {ToSet(done[j].elts) : j \in Statements({"create"}, i)}
Indexes(i) == {j \in Statements({"index"}, i) : done[j].using \in {"bm25", "paradedb"}}

\* The tables are a list of whole tables, and so are the statements, as parsed.
Whole ==
  /\ IsList(sch) /\ \A i \in DOMAIN sch : Fields \subseteq DOMAIN sch[i] /\ Spelled(sch[i])
  /\ IsList(done) /\ \A j \in DOMAIN done : Parsed(done[j])

\* The schema is what the statements have said of it, in whatever order.
EnrichInv ==
  /\ Whole
  /\ \A i \in DOMAIN sch :
       /\ Agrees(sch[i], Elements(i), CreatedAt(i))
       /\ sch[i].view <=> Statements({"view"}, i) # {}
       /\ sch[i].search = {SearchOf(d) : d \in LatestOf(Indexes(i))}

\* The table at i after a statement d.
After(d, i) ==
  IF i \notin Found(d.rel) THEN sch[i]
  ELSE CASE d.kind = "create" -> applyElements("create", sch[i], d.elts)
         [] d.kind = "alter" -> applyElements("alter", sch[i], OfTable(d.elts))
         [] d.kind = "index" /\ d.using \in {"bm25", "paradedb"} ->
              [sch[i] EXCEPT !.search = {SearchOf(d)}]
         [] d.kind = "view" -> [sch[i] EXCEPT !.view = TRUE]
         [] OTHER -> sch[i]

LEMMA StatementEffect ==
  ASSUME NEW d, enrichStmt(d)
  PROVE  /\ d.kind \in {"create", "alter", "index", "view", "table_as", "comment"}
         /\ done' = Append(done, d)
         /\ DOMAIN sch' = DOMAIN sch
         /\ \A i \in DOMAIN sch : sch'[i] = After(d, i)
<1>1. CASE EnrichCreate(d)
  BY <1>1 DEF EnrichCreate, Process, OnTable, After
<1>2. CASE EnrichAlterTable(d)
  BY <1>2 DEF EnrichAlterTable, Process, OnTable, After
<1>3. CASE EnrichIndex(d)
  BY <1>3 DEF EnrichIndex, Process, OnTable, After
<1>4. CASE EnrichView(d)
  BY <1>4 DEF EnrichView, Process, OnTable, After
<1>5. CASE EnrichTableAs(d) \/ EnrichComment(d)
  BY <1>5 DEF EnrichTableAs, EnrichComment, Process, After
<1> QED BY <1>1, <1>2, <1>3, <1>4, <1>5 DEF enrichStmt

\* The constraints a statement says of the tables it names.
SaidBy(d) ==
  CASE d.kind = "create" -> ToSet(d.elts)
    [] d.kind = "alter" -> ToSet(OfTable(d.elts))
    [] OTHER -> {}

LEMMA SaidIsKeyed ==
  ASSUME NEW d, Parsed(d)
  PROVE  /\ d.kind \in {"create", "alter"} => IsList(d.elts) /\ \A e \in ToSet(d.elts) : Keyed(e)
         /\ d.kind = "alter" => IsList(OfTable(d.elts)) /\ \A e \in ToSet(OfTable(d.elts)) : Keyed(e)
<1>1. d.kind \in {"create", "alter"} => IsList(d.elts) /\ \A e \in ToSet(d.elts) : Keyed(e)
  BY DEF Parsed, IsList, Keyed
<1>2. ASSUME d.kind = "alter"
      PROVE  IsList(OfTable(d.elts)) /\ \A e \in ToSet(OfTable(d.elts)) : Keyed(e)
  <2> DEFINE elts == d.elts
             I == {k \in DOMAIN elts : elts[k].col = None}
  <2>1. IsList(elts) /\ \A e \in ToSet(elts) : Keyed(e)
    BY <1>1, <1>2
  <2>2. OfTable(elts) = Picked(elts, I) /\ I \subseteq DOMAIN elts
    BY DEF OfTable
  <2> HIDE DEF I, elts
  <2>3. IsList(OfTable(elts)) /\ ToSet(OfTable(elts)) = {elts[k] : k \in I}
    BY <2>1, <2>2, PickedFacts
  <2>4. \A k \in I : elts[k] \in ToSet(elts)
    BY <2>2 DEF ToSet
  <2> QED BY <2>1, <2>3, <2>4 DEF elts
<1> QED BY <1>1, <1>2

\* A statement leaves alone what a table is called, its columns and comments,
\* and adds what it says of the tables it names.
LEMMA StatementAgrees ==
  ASSUME EnrichInv, NEW d, Parsed(d), enrichStmt(d), NEW i \in DOMAIN sch,
         NEW E, NEW C, Agrees(sch[i], E, C)
  PROVE  /\ Same(sch[i], sch'[i])
         /\ i \notin Found(d.rel) => sch'[i] = sch[i]
         /\ i \in Found(d.rel) =>
              /\ Agrees(sch'[i], E \cup SaidBy(d), IF d.kind = "create" THEN C \cup ToSet(d.elts) ELSE C)
              /\ sch'[i].view = IF d.kind = "view" THEN TRUE ELSE sch[i].view
              /\ sch'[i].search = IF d.kind = "index" /\ d.using \in {"bm25", "paradedb"}
                                    THEN {SearchOf(d)} ELSE sch[i].search
<1> DEFINE t == sch[i]
           u == sch'[i]
<1>1. u = After(d, i) /\ d.kind \in {"create", "alter", "index", "view", "table_as", "comment"}
  BY StatementEffect
<1>2. Fields \subseteq DOMAIN t
  BY DEF Agrees
<1>3. CASE i \notin Found(d.rel)
  BY <1>1, <1>3 DEF After, Same
<1>4. CASE i \in Found(d.rel) /\ d.kind \in {"create", "alter"}
  <2> DEFINE elts == IF d.kind = "create" THEN d.elts ELSE OfTable(d.elts)
  <2>1. u = applyElements(d.kind, t, elts)
    BY <1>1, <1>4 DEF After
  <2>2. IsList(elts) /\ \A e \in ToSet(elts) : Keyed(e)
    BY <1>4, SaidIsKeyed
  <2>3. ToSet(elts) = SaidBy(d) /\ (d.kind = "create" => elts = d.elts)
    BY <1>4 DEF SaidBy
  <2> HIDE DEF elts, t, u
  <2>4. /\ Agrees(u, E \cup ToSet(elts), Created(d.kind, C, ToSet(elts)))
        /\ SameBesides(t, u)
    <3>1. Agrees(t, E, C)
      BY DEF t
    <3> QED BY <2>1, <2>2, <3>1, ElementsAgree
  <2> QED BY <1>4, <2>3, <2>4 DEF Created, SameBesides, t, u
<1>5. CASE i \in Found(d.rel) /\ d.kind \notin {"create", "alter"}
  <2> DEFINE v == IF d.kind = "view" THEN TRUE ELSE t.view
             s == IF d.kind = "index" /\ d.using \in {"bm25", "paradedb"} THEN {SearchOf(d)} ELSE t.search
  <2>1. \/ u = [t EXCEPT !.search = s] /\ v = t.view
        \/ u = [t EXCEPT !.view = v] /\ s = t.search
        \/ u = t /\ s = t.search /\ v = t.view
    BY <1>1, <1>5 DEF After
  <2>2. SaidBy(d) = {} /\ d.kind # "create"
    BY <1>5 DEF SaidBy
  <2> HIDE DEF v, s, t, u
  <2>3. /\ DOMAIN u = DOMAIN t /\ u.view = v /\ u.search = s
        /\ \A f \in Fields \ {"view", "search"} : u[f] = t[f]
    BY <1>2, <2>1 DEF Fields, t
  <2>4. /\ Same(t, u) /\ u.pk = t.pk /\ u.uniques = t.uniques /\ u.generated = t.generated
        /\ u.hasDefault = t.hasDefault
    BY <2>3 DEF Same, Fields
  <2>5. \A types : Filled(C, types, u) = Filled(C, types, t)
    BY <2>4 DEF Filled, Same
  <2>6. Agrees(u, E, C)
    BY <2>3, <2>4, <2>5 DEF Agrees, t
  <2> QED BY <1>5, <2>2, <2>3, <2>4, <2>6 DEF v, s, t, u
<1> QED BY <1>3, <1>4, <1>5

\* Tables called as before are found as before.
LEMMA FoundAsBefore ==
  ASSUME DOMAIN sch' = DOMAIN sch, \A i \in DOMAIN sch : Same(sch[i], sch'[i]), IsList(sch), NEW rel
  PROVE  Found(rel)' = Found(rel)
<1>1. \A i \in DOMAIN sch : \A j \in 1 .. (i - 1) : j \in DOMAIN sch
  BY ListDomain
<1>2. \A i \in DOMAIN sch : Matches(sch'[i], rel) = Matches(sch[i], rel)
  BY DEF Matches, Same
<1>3. Found(rel)' = {i \in DOMAIN sch' : Matches(sch'[i], rel) /\ \A j \in 1 .. (i - 1) : ~Matches(sch'[j], rel)}
  BY DEF Found
<1> QED BY <1>1, <1>2, <1>3 DEF Found

\* The statement processed last comes after all the others.
LEMMA DoneGrows ==
  ASSUME IsList(done), NEW d, done' = Append(done, d)
  PROVE  /\ IsList(done') /\ DOMAIN done' = DOMAIN done \cup {Len(done) + 1}
         /\ done'[Len(done) + 1] = d
         /\ Len(done) + 1 \in Nat
         /\ \A j \in DOMAIN done : j \in Nat /\ j < Len(done) + 1 /\ done'[j] = done[j]
<1>1. PICK S : done \in Seq(S)
  BY DEF IsList
<1>2. /\ DOMAIN done' = DOMAIN done \cup {Len(done) + 1} /\ done'[Len(done) + 1] = d
      /\ \A j \in DOMAIN done : done'[j] = done[j]
  BY <1>1, AppendOne
<1>3. Len(done) \in Nat /\ DOMAIN done = 1 .. Len(done)
  BY <1>1
<1>4. IsList(done')
  BY AppendList
<1> QED BY <1>2, <1>3, <1>4

\* It is one of those at i if it is of the kinds asked for and finds i.
LEMMA StatementsGrow ==
  ASSUME IsList(done), NEW d, done' = Append(done, d), \A rel : Found(rel)' = Found(rel),
         NEW kinds, NEW i
  PROVE  /\ Statements(kinds, i) \subseteq DOMAIN done
         /\ d.kind \in kinds /\ i \in Found(d.rel) =>
              Statements(kinds, i)' = Statements(kinds, i) \cup {Len(done) + 1}
         /\ ~(d.kind \in kinds /\ i \in Found(d.rel)) =>
              Statements(kinds, i)' = Statements(kinds, i)
<1> DEFINE n == Len(done) + 1
<1>1. /\ DOMAIN done' = DOMAIN done \cup {n} /\ done'[n] = d /\ n \notin DOMAIN done
      /\ \A j \in DOMAIN done : done'[j] = done[j]
  BY DoneGrows
<1> HIDE DEF n
<1>2. Statements(kinds, i)' = {j \in DOMAIN done' : done'[j].kind \in kinds /\ i \in Found(done'[j].rel)}
  BY DEF Statements
<1> QED BY <1>1, <1>2 DEF Statements, n

\* The latest of some statements and the last one is the last one.
LEMMA LatestGrows ==
  ASSUME IsList(done), NEW d, done' = Append(done, d), NEW J, J \subseteq DOMAIN done
  PROVE  {done'[j] : j \in {k \in J \cup {Len(done) + 1} : \A l \in J \cup {Len(done) + 1} : l <= k}} = {d}
<1> DEFINE n == Len(done) + 1
           K == J \cup {n}
<1>1. /\ done'[n] = d /\ n \in Nat
      /\ \A j \in J : j \in Nat /\ j < n /\ done'[j] = done[j]
  BY DoneGrows
<1> HIDE DEF n
<1>2. {k \in K : \A l \in K : l <= k} = {n}
  <2>1. \A l \in K : l <= n
    BY <1>1
  <2>2. \A k \in K : (\A l \in K : l <= k) => k = n
    <3> TAKE k \in K
    <3>1. ASSUME k # n PROVE ~(n <= k)
      BY <1>1, <3>1
    <3> QED BY <3>1
  <2> QED BY <2>1, <2>2
<1> QED BY <1>1, <1>2 DEF n

\* What has been said of the table at i, after one more statement.
LEMMA SaidGrows ==
  ASSUME IsList(done), NEW d, done' = Append(done, d), \A rel : Found(rel)' = Found(rel), NEW i
  PROVE  /\ Elements(i)' = Elements(i) \cup (IF i \in Found(d.rel) THEN SaidBy(d) ELSE {})
         /\ CreatedAt(i)' = CreatedAt(i)
              \cup (IF i \in Found(d.rel) /\ d.kind = "create" THEN ToSet(d.elts) ELSE {})
         /\ LatestOf(Indexes(i))'
              = IF i \in Found(d.rel) /\ d.kind = "index" /\ d.using \in {"bm25", "paradedb"}
                  THEN {d} ELSE LatestOf(Indexes(i))
         /\ (Statements({"view"}, i) # {})' <=>
              (Statements({"view"}, i) # {} \/ (i \in Found(d.rel) /\ d.kind = "view"))
<1> DEFINE n == Len(done) + 1
           hit == i \in Found(d.rel)
<1>1. /\ done'[n] = d /\ \A j \in DOMAIN done : done'[j] = done[j]
  BY DoneGrows
<1>2. /\ Statements({"create"}, i) \subseteq DOMAIN done
      /\ Statements({"create"}, i)' = Statements({"create"}, i) \cup (IF hit /\ d.kind = "create" THEN {n} ELSE {})
  BY StatementsGrow
<1>3. /\ Statements({"alter"}, i) \subseteq DOMAIN done
      /\ Statements({"alter"}, i)' = Statements({"alter"}, i) \cup (IF hit /\ d.kind = "alter" THEN {n} ELSE {})
  BY StatementsGrow
<1>4. /\ Statements({"index"}, i) \subseteq DOMAIN done
      /\ Statements({"index"}, i)' = Statements({"index"}, i) \cup (IF hit /\ d.kind = "index" THEN {n} ELSE {})
  BY StatementsGrow
<1>5. Statements({"view"}, i)' = Statements({"view"}, i) \cup (IF hit /\ d.kind = "view" THEN {n} ELSE {})
  BY StatementsGrow
<1> HIDE DEF n, hit
<1>6. CreatedAt(i)' = CreatedAt(i) \cup (IF hit /\ d.kind = "create" THEN ToSet(d.elts) ELSE {})
  BY <1>1, <1>2 DEF CreatedAt
<1> DEFINE altered == UNION {ToSet(OfTable(done[j].elts)) : j \in Statements({"alter"}, i)}
<1>7. altered' = altered \cup (IF hit /\ d.kind = "alter" THEN ToSet(OfTable(d.elts)) ELSE {})
  BY <1>1, <1>3
<1>8. Elements(i) = CreatedAt(i) \cup altered
  BY DEF Elements, CreatedAt
<1>9. Elements(i)' = CreatedAt(i)' \cup altered'
  BY DEF Elements, CreatedAt
<1> HIDE DEF altered
<1>10. Elements(i)' = Elements(i) \cup (IF hit THEN SaidBy(d) ELSE {})
  BY <1>6, <1>7, <1>8, <1>9 DEF SaidBy
<1>11. Indexes(i)' = Indexes(i) \cup
         (IF hit /\ d.kind = "index" /\ d.using \in {"bm25", "paradedb"} THEN {n} ELSE {})
  BY <1>1, <1>4 DEF Indexes
<1>12. Indexes(i) \subseteq DOMAIN done
  BY <1>4 DEF Indexes
<1>13. LatestOf(Indexes(i))' = {done'[j] : j \in {k \in Indexes(i)' : \A l \in Indexes(i)' : l <= k}}
  BY DEF LatestOf
<1>14. LatestOf(Indexes(i))'
         = IF hit /\ d.kind = "index" /\ d.using \in {"bm25", "paradedb"} THEN {d} ELSE LatestOf(Indexes(i))
  <2> DEFINE J == Indexes(i)
  <2>1. /\ {done'[j] : j \in {k \in J : \A l \in J : l <= k}} = {done[j] : j \in {k \in J : \A l \in J : l <= k}}
        /\ {done'[j] : j \in {k \in J \cup {n} : \A l \in J \cup {n} : l <= k}} = {d}
    <3>1. \A j \in J : done'[j] = done[j]
      BY <1>1, <1>12
    <3> HIDE DEF J
    <3>2. {done'[j] : j \in {k \in J : \A l \in J : l <= k}} = {done[j] : j \in {k \in J : \A l \in J : l <= k}}
      BY <3>1
    <3>3. J \subseteq DOMAIN done
      BY <1>12 DEF J
    <3>4. {done'[j] : j \in {k \in J \cup {n} : \A l \in J \cup {n} : l <= k}} = {d}
      BY <3>3, LatestGrows DEF n
    <3> QED BY <3>2, <3>4
  <2> QED BY <1>11, <1>13, <2>1 DEF LatestOf
<1> QED BY <1>5, <1>6, <1>10, <1>14 DEF hit

LEMMA EnrichInvStatement ==
  ASSUME EnrichInv, NEW d, Parsed(d), enrichStmt(d)
  PROVE  /\ EnrichInv'
         /\ DOMAIN sch' = DOMAIN sch /\ \A i \in DOMAIN sch : Same(sch[i], sch'[i])
         /\ \A rel : Found(rel)' = Found(rel)
<1>1. /\ IsList(sch) /\ IsList(done) /\ \A j \in DOMAIN done : Parsed(done[j])
      /\ \A i \in DOMAIN sch : Agrees(sch[i], Elements(i), CreatedAt(i))
  BY DEF EnrichInv, Whole
<1>2. done' = Append(done, d) /\ DOMAIN sch' = DOMAIN sch
  BY StatementEffect
<1>3. \A i \in DOMAIN sch : Same(sch[i], sch'[i])
  BY <1>1, StatementAgrees
<1>4. \A rel : Found(rel)' = Found(rel)
  BY <1>1, <1>2, <1>3, FoundAsBefore
<1>5. IsList(sch')
  BY <1>1, EnrichKeepsList
<1>6. IsList(done') /\ \A j \in DOMAIN done' : Parsed(done'[j])
  BY <1>1, <1>2, DoneGrows
<1>7. ASSUME NEW i \in DOMAIN sch
      PROVE  /\ Agrees(sch'[i], Elements(i)', CreatedAt(i)')
             /\ sch'[i].view <=> (Statements({"view"}, i) # {})'
             /\ sch'[i].search = {SearchOf(x) : x \in LatestOf(Indexes(i))'}
  <2>1. /\ i \notin Found(d.rel) => sch'[i] = sch[i]
        /\ i \in Found(d.rel) =>
             /\ Agrees(sch'[i], Elements(i) \cup SaidBy(d),
                       IF d.kind = "create" THEN CreatedAt(i) \cup ToSet(d.elts) ELSE CreatedAt(i))
             /\ sch'[i].view = IF d.kind = "view" THEN TRUE ELSE sch[i].view
             /\ sch'[i].search = IF d.kind = "index" /\ d.using \in {"bm25", "paradedb"}
                                   THEN {SearchOf(d)} ELSE sch[i].search
    BY <1>1, StatementAgrees
  <2>2. /\ Elements(i)' = Elements(i) \cup (IF i \in Found(d.rel) THEN SaidBy(d) ELSE {})
        /\ CreatedAt(i)' = CreatedAt(i)
             \cup (IF i \in Found(d.rel) /\ d.kind = "create" THEN ToSet(d.elts) ELSE {})
        /\ LatestOf(Indexes(i))'
             = IF i \in Found(d.rel) /\ d.kind = "index" /\ d.using \in {"bm25", "paradedb"}
                 THEN {d} ELSE LatestOf(Indexes(i))
        /\ (Statements({"view"}, i) # {})' <=>
             (Statements({"view"}, i) # {} \/ (i \in Found(d.rel) /\ d.kind = "view"))
    BY <1>1, <1>2, <1>4, SaidGrows
  <2>3. /\ sch[i].view <=> Statements({"view"}, i) # {}
        /\ sch[i].search = {SearchOf(x) : x \in LatestOf(Indexes(i))}
        /\ Agrees(sch[i], Elements(i), CreatedAt(i))
    BY DEF EnrichInv
  <2>4. Agrees(sch'[i], Elements(i)', CreatedAt(i)')
    <3>1. CASE i \notin Found(d.rel)
      <4>1. Elements(i)' = Elements(i) /\ CreatedAt(i)' = CreatedAt(i)
        BY <2>2, <3>1
      <4> QED BY <2>1, <2>3, <3>1, <4>1
    <3>2. CASE i \in Found(d.rel) /\ d.kind = "create"
      BY <2>1, <2>2, <3>2
    <3>3. CASE i \in Found(d.rel) /\ d.kind # "create"
      <4>1. CreatedAt(i)' = CreatedAt(i)
        BY <2>2, <3>3
      <4> QED BY <2>1, <2>2, <3>3, <4>1
    <3> QED BY <3>1, <3>2, <3>3
  <2>5. sch'[i].view <=> (Statements({"view"}, i) # {})'
    BY <2>1, <2>2, <2>3
  <2>6. sch'[i].search = {SearchOf(x) : x \in LatestOf(Indexes(i))'}
    <3>1. CASE i \in Found(d.rel) /\ d.kind = "index" /\ d.using \in {"bm25", "paradedb"}
      <4>1. LatestOf(Indexes(i))' = {d} /\ sch'[i].search = {SearchOf(d)}
        BY <2>1, <2>2, <3>1
      <4> QED BY <4>1
    <3>2. CASE ~(i \in Found(d.rel) /\ d.kind = "index" /\ d.using \in {"bm25", "paradedb"})
      <4>1. LatestOf(Indexes(i))' = LatestOf(Indexes(i)) /\ sch'[i].search = sch[i].search
        BY <2>1, <2>2, <3>2
      <4> QED BY <2>3, <4>1
    <3> QED BY <3>1, <3>2
  <2> QED BY <2>4, <2>5, <2>6
<1>8. \A i \in DOMAIN sch' : Fields \subseteq DOMAIN sch'[i] /\ Spelled(sch'[i])
  BY <1>2, <1>3, <1>7 DEF Agrees, EnrichInv, Whole, Spelled, Same
<1>9. EnrichInv'
  BY <1>2, <1>5, <1>6, <1>7, <1>8 DEF EnrichInv, Whole
<1> QED BY <1>2, <1>3, <1>4, <1>9

\* Tables as they come in, before any statement.
LEMMA NothingSaid ==
  ASSUME IsList(sch), done = <<>>, \A i \in DOMAIN sch : Fresh(sch[i])
  PROVE  EnrichInv
<1>1. IsList(done) /\ DOMAIN done = {}
  BY DEF IsList
<1>2. ASSUME NEW i \in DOMAIN sch
      PROVE  /\ Agrees(sch[i], Elements(i), CreatedAt(i))
             /\ sch[i].view <=> Statements({"view"}, i) # {}
             /\ sch[i].search = {SearchOf(d) : d \in LatestOf(Indexes(i))}
  <2>1. \A kinds : Statements(kinds, i) = {}
    BY <1>1 DEF Statements
  <2>2. Elements(i) = {} /\ CreatedAt(i) = {}
    BY <2>1 DEF Elements, CreatedAt
  <2>3. LatestOf(Indexes(i)) = {}
    BY <2>1 DEF LatestOf, Indexes
  <2>4. /\ Fields \subseteq DOMAIN sch[i]
        /\ sch[i].pk = <<>> /\ sch[i].uniques = <<>> /\ sch[i].generated = {} /\ sch[i].hasDefault = {}
        /\ sch[i].search = {} /\ sch[i].view = FALSE
    BY DEF Fresh
  <2> DEFINE none == {}
  <2>5. /\ KeysIn(none, "primary") = {} /\ KeysIn(none, "unique") = {}
        /\ \A types : Filled(none, types, sch[i]) = {}
    BY DEF KeysIn, Filled
  <2>6. IsList(<<>>) /\ IsInjective(<<>>) /\ ToSet(<<>>) = {}
    BY DEF IsList, IsInjective, ToSet
  <2>7. Elements(i) = none /\ CreatedAt(i) = none
    BY <2>2
  <2> HIDE DEF none
  <2>8. Agrees(sch[i], Elements(i), CreatedAt(i))
    BY <2>4, <2>5, <2>6, <2>7 DEF Agrees
  <2> QED BY <2>1, <2>3, <2>4, <2>8
<1>3. \A i \in DOMAIN sch : Fields \subseteq DOMAIN sch[i] /\ Spelled(sch[i])
  BY DEF Fresh
<1>4. \A j \in DOMAIN done : Parsed(done[j])
  BY <1>1
<1> QED BY <1>1, <1>2, <1>3, <1>4 DEF EnrichInv, Whole

\* A database gives a table one primary key; more than one statement may say it.
OnePrimaryKey == \A i \in DOMAIN sch : \A k, l \in KeysSaid(i, "primary") : k = l

LEMMA EnrichInvEnough == EnrichInv /\ OnePrimaryKey => EnrichedAsDeclared
<1> SUFFICES ASSUME EnrichInv, OnePrimaryKey, NEW i \in DOMAIN sch
             PROVE  LET t == sch[i]
                        created == UNION {ToSet(done[j].elts) : j \in Statements({"create"}, i)}
                        filled(types) == {e.col : e \in {x \in created : x.type \in types}} \cap t.cols
                        indexes == {j \in Statements({"index"}, i) : done[j].using \in {"bm25", "paradedb"}}
                    IN /\ {t.pk} \ {<<>>} = KeysSaid(i, "primary")
                       /\ ToSet(t.uniques) = KeysSaid(i, "unique") /\ IsInjective(t.uniques)
                       /\ t.generated = filled({"generated"})
                       /\ t.hasDefault = filled({"identity", "default"})
                       /\ t.view <=> Statements({"view"}, i) # {}
                       /\ t.search = {SearchOf(d) : d \in LatestOf(indexes)}
  BY DEF EnrichedAsDeclared
<1>1. /\ KeysSaid(i, "primary") = KeysIn(Elements(i), "primary")
      /\ KeysSaid(i, "unique") = KeysIn(Elements(i), "unique")
  BY DEF KeysSaid, KeysIn
<1>2. Agrees(sch[i], Elements(i), CreatedAt(i))
  BY DEF EnrichInv
<1>3. {sch[i].pk} \ {<<>>} = KeysSaid(i, "primary")
  <2>1. \A k, l \in KeysSaid(i, "primary") : k = l
    BY DEF OnePrimaryKey
  <2>2. /\ {sch[i].pk} \ {<<>>} \subseteq KeysSaid(i, "primary")
        /\ KeysSaid(i, "primary") # {} => sch[i].pk # <<>>
    BY <1>1, <1>2 DEF Agrees
  <2> QED BY <2>1, <2>2
<1>4. ToSet(sch[i].uniques) = KeysSaid(i, "unique") /\ IsInjective(sch[i].uniques)
  BY <1>1, <1>2 DEF Agrees
<1>5. /\ sch[i].generated = Filled(CreatedAt(i), {"generated"}, sch[i])
      /\ sch[i].hasDefault = Filled(CreatedAt(i), {"identity", "default"}, sch[i])
  BY <1>2 DEF Agrees
<1>6. /\ sch[i].view <=> Statements({"view"}, i) # {}
      /\ sch[i].search = {SearchOf(d) : d \in LatestOf(Indexes(i))}
  BY DEF EnrichInv
<1> QED BY <1>3, <1>4, <1>5, <1>6 DEF Filled, CreatedAt, Indexes

-----------------------------------------------------------------------------
(* The latest directives *)

\* Tables of different schemas or names.
Apart(s) == \A i, j \in DOMAIN s : Key(s[i]) = Key(s[j]) => i = j
TablesDistinct == Apart(sch)

\* The comments on a table or a column that have directives, and what the
\* schema knows of them.
CommentsOn(i, col) == {j \in Statements({"comment"}, i) : done[j].col = col /\ done[j].directives # {}}
Now0(i, col) == {d.directives : d \in LatestOf(CommentsOn(i, col))}
Before0(i, col) == {c.directives : c \in {x \in sch[i].comments : x.col = col}}
Known(i, col) == LET k == DirectiveKey(i, col) IN IF k \in DOMAIN dir THEN {dir[k]} ELSE {}
LatestAt(i, col) == Known(i, col) = IF Now0(i, col) # {} THEN Now0(i, col) ELSE Before0(i, col)

LEMMA DirectivesOf ==
  DirectivesAreTheLatest <=> \A i \in DOMAIN sch : \A col \in sch[i].cols \cup {None} : LatestAt(i, col)
BY DEF DirectivesAreTheLatest, LatestAt, Known, Now0, Before0, CommentsOn

\* Directives of different tables or columns are kept apart.
LEMMA DirectiveKeysApart ==
  ASSUME TablesDistinct, NEW i \in DOMAIN sch, NEW j \in DOMAIN sch, NEW c, NEW e,
         DirectiveKey(i, c) = DirectiveKey(j, e)
  PROVE  i = j /\ c = e
<1>1. ASSUME NEW k, NEW x
      PROVE  LET s == Append(Key(sch[k]), x)
             IN /\ Len(Key(sch[k])) = 2 /\ Len(s) = 3
                /\ s[1] = sch[k].schema /\ s[2] = sch[k].name /\ s[3] = x
  <2> DEFINE a == sch[k].schema
             b == sch[k].name
             s == Append(<<a, b>>, x)
  <2>1. <<a, b>> \in Seq({a, b}) /\ Len(<<a, b>>) = 2 /\ <<a, b>>[1] = a /\ <<a, b>>[2] = b
        /\ DOMAIN <<a, b>> = {1, 2}
    OBVIOUS
  <2>2. Key(sch[k]) = <<a, b>>
    BY DEF Key
  <2>3. Len(s) = 3 /\ s[1] = a /\ s[2] = b /\ s[3] = x
    <3> DEFINE p == <<a, b>>
               S == {a, b}
               q == Append(p, x)
    <3>1. p \in Seq(S) /\ Len(p) = 2 /\ DOMAIN p = {1, 2} /\ p[1] = a /\ p[2] = b
      BY <2>1
    <3> HIDE DEF p, S
    <3>2. /\ q \in Seq(S \cup {x}) /\ DOMAIN q = DOMAIN p \cup {Len(p) + 1}
          /\ q[Len(p) + 1] = x /\ \A l \in DOMAIN p : q[l] = p[l]
      BY <3>1, AppendOne
    <3>3. Len(p) + 1 = 3
      BY <3>1
    <3>4. q[3] = x /\ q[1] = a /\ q[2] = b
      BY <3>1, <3>2, <3>3
    <3>5. DOMAIN q = 1 .. Len(q) /\ Len(q) \in Nat
      <4> DEFINE W == S \cup {x}
      <4> HIDE DEF W, q
      <4>1. q \in Seq(W)
        BY <3>2 DEF W
      <4> QED BY <4>1
    <3>6. DOMAIN q = {1, 2, 3}
      BY <3>1, <3>2, <3>3
    <3>7. Len(q) = 3
      <4> HIDE DEF q
      <4> DEFINE m == Len(q)
      <4>1. m \in Nat /\ 1 .. m = {1, 2, 3}
        BY <3>5, <3>6
      <4> HIDE DEF m, s
      <4>2. m >= 3
        <5>1. 3 \in 1 .. m
          BY <4>1
        <5> QED BY <5>1, <4>1
      <4>3. ~(m >= 4)
        <5>1. 4 \notin 1 .. m
          BY <4>1
        <5> QED BY <5>1, <4>1
      <4>4. m = 3
        BY <4>1, <4>2, <4>3
      <4> QED BY <4>4 DEF m
    <3> QED BY <3>4, <3>7 DEF p
  <2> HIDE DEF s
  <2> QED BY <2>1, <2>2, <2>3 DEF s
<1>2. (c = None) <=> (e = None)
  <2>1. ASSUME NEW y, NEW k, NEW l, Key(sch[k]) = Append(Key(sch[l]), y)
        PROVE  FALSE
    <3>1. Len(Key(sch[k])) = 2 /\ Len(Append(Key(sch[l]), y)) = 3
      BY <1>1
    <3> QED BY <2>1, <3>1
  <2> QED BY <2>1 DEF DirectiveKey
<1>3. CASE c = None /\ e = None
  BY <1>3 DEF DirectiveKey, TablesDistinct, Apart
<1>4. CASE c # None /\ e # None
  <2>1. Append(Key(sch[i]), c) = Append(Key(sch[j]), e)
    BY <1>4 DEF DirectiveKey
  <2>2. /\ Append(Key(sch[i]), c)[1] = sch[i].schema /\ Append(Key(sch[i]), c)[2] = sch[i].name
        /\ Append(Key(sch[i]), c)[3] = c
    BY <1>1
  <2>3. /\ Append(Key(sch[j]), e)[1] = sch[j].schema /\ Append(Key(sch[j]), e)[2] = sch[j].name
        /\ Append(Key(sch[j]), e)[3] = e
    BY <1>1
  <2>4. sch[i].schema = sch[j].schema /\ sch[i].name = sch[j].name /\ c = e
    BY <2>1, <2>2, <2>3
  <2> QED BY <2>4 DEF TablesDistinct, Apart, Key
<1> QED BY <1>2, <1>3, <1>4

\* Which comments there are on a column, after one more statement.
LEMMA CommentsGrow ==
  ASSUME IsList(done), NEW d, done' = Append(done, d), \A rel : Found(rel)' = Found(rel),
         NEW i, NEW col
  PROVE  Now0(i, col)' = IF d.kind = "comment" /\ i \in Found(d.rel) /\ d.col = col /\ d.directives # {}
                           THEN {d.directives} ELSE Now0(i, col)
<1> DEFINE n == Len(done) + 1
           new == d.kind = "comment" /\ i \in Found(d.rel) /\ d.col = col /\ d.directives # {}
           J == CommentsOn(i, col)
<1>1. /\ done'[n] = d /\ \A j \in DOMAIN done : done'[j] = done[j]
  BY DoneGrows
<1>2. /\ Statements({"comment"}, i) \subseteq DOMAIN done
      /\ Statements({"comment"}, i)'
           = Statements({"comment"}, i) \cup (IF i \in Found(d.rel) /\ d.kind = "comment" THEN {n} ELSE {})
  BY StatementsGrow
<1>3. J \subseteq DOMAIN done
  BY <1>2 DEF CommentsOn
<1>4. {done'[j] : j \in {k \in J \cup {n} : \A l \in J \cup {n} : l <= k}} = {d}
  <2> HIDE DEF J
  <2> QED BY <1>3, LatestGrows
<1> HIDE DEF n
<1>5. CommentsOn(i, col)' = J \cup (IF new THEN {n} ELSE {})
  BY <1>1, <1>2 DEF CommentsOn
<1>6. LatestOf(CommentsOn(i, col))'
        = {done'[j] : j \in {k \in CommentsOn(i, col)' : \A l \in CommentsOn(i, col)' : l <= k}}
  BY DEF LatestOf
<1>7. CASE new
  <2>1. CommentsOn(i, col)' = J \cup {n}
    BY <1>5, <1>7
  <2> HIDE DEF J, new
  <2>2. LatestOf(CommentsOn(i, col))' = {d}
    BY <1>4, <1>6, <2>1
  <2>3. Now0(i, col)' = {d.directives}
    BY <2>2 DEF Now0
  <2> QED BY <1>7, <2>3 DEF new
<1>8. CASE ~new
  <2>1. CommentsOn(i, col)' = J
    BY <1>5, <1>8
  <2>2. \A j \in J : done'[j] = done[j]
    BY <1>1, <1>3
  <2> HIDE DEF new
  <2>3. LatestOf(CommentsOn(i, col))' = LatestOf(J)
    <3> HIDE DEF J
    <3> QED BY <1>6, <2>1, <2>2 DEF LatestOf
  <2>4. Now0(i, col)' = Now0(i, col)
    BY <2>3 DEF Now0
  <2> QED BY <1>8, <2>4 DEF new
<1> QED BY <1>7, <1>8

LEMMA DirectivesStatement ==
  ASSUME EnrichInv, TablesDistinct, DirectivesAreTheLatest, NEW d, Parsed(d), enrichStmt(d)
  PROVE  DirectivesAreTheLatest' /\ TablesDistinct'
<1>1. /\ IsList(done) /\ done' = Append(done, d)
      /\ DOMAIN sch' = DOMAIN sch /\ \A i \in DOMAIN sch : Same(sch[i], sch'[i])
      /\ \A rel : Found(rel)' = Found(rel)
  BY EnrichInvStatement, StatementEffect DEF EnrichInv, Whole
<1>2. TablesDistinct'
  BY <1>1 DEF TablesDistinct, Apart, Key, Same
<1>3. ASSUME NEW i \in DOMAIN sch, NEW col \in sch[i].cols \cup {None}
      PROVE  LatestAt(i, col)'
  <2>1. LatestAt(i, col)
    BY DirectivesOf
  <2>2. Now0(i, col)' = IF d.kind = "comment" /\ i \in Found(d.rel) /\ d.col = col /\ d.directives # {}
                          THEN {d.directives} ELSE Now0(i, col)
    BY <1>1, CommentsGrow
  <2>3. Before0(i, col)' = Before0(i, col)
    BY <1>1 DEF Before0, Same
  <2> DEFINE k == DirectiveKey(i, col)
  <2>4. DirectiveKey(i, col)' = k
    BY <1>1 DEF DirectiveKey, Key, Same
  <2>5. Known(i, col)' = IF k \in DOMAIN dir' THEN {dir'[k]} ELSE {}
    BY <2>4 DEF Known
  <2>6. Known(i, col) = IF k \in DOMAIN dir THEN {dir[k]} ELSE {}
    BY DEF Known
  <2>7. CASE EnrichComment(d)
    <3> DEFINE keys == IF d.directives = {} THEN {} ELSE {DirectiveKey(j, d.col) : j \in Commented(d)}
    <3>1. /\ d.kind = "comment"
          /\ dir' = [x \in DOMAIN dir \cup keys |-> IF x \in keys THEN d.directives ELSE dir[x]]
      BY <2>7 DEF EnrichComment
    <3>2. k \in keys <=> (i \in Found(d.rel) /\ d.col = col /\ d.directives # {})
      <4>1. ASSUME i \in Found(d.rel), d.col = col, d.directives # {}
            PROVE  k \in keys
        BY <4>1 DEF Commented
      <4>2. ASSUME k \in keys
            PROVE  i \in Found(d.rel) /\ d.col = col /\ d.directives # {}
        <5>1. PICK j \in Commented(d) : k = DirectiveKey(j, d.col) /\ d.directives # {}
          BY <4>2
        <5>2. j \in DOMAIN sch /\ j \in Found(d.rel)
          BY <5>1 DEF Commented, Found
        <5>3. j = i /\ d.col = col
          BY <5>1, <5>2, DirectiveKeysApart
        <5> QED BY <5>1, <5>2, <5>3
      <4> QED BY <4>1, <4>2
    <3> HIDE DEF keys, k
    <3>3. k \in DOMAIN dir' <=> (k \in DOMAIN dir \/ k \in keys)
      BY <3>1
    <3>4. CASE k \in keys
      <4>1. k \in DOMAIN dir' /\ dir'[k] = d.directives
        BY <3>1, <3>4
      <4>2. Known(i, col)' = {d.directives}
        BY <2>5, <4>1
      <4>3. Now0(i, col)' = {d.directives}
        BY <2>2, <3>1, <3>2, <3>4
      <4> QED BY <4>2, <4>3 DEF LatestAt
    <3>5. CASE k \notin keys
      <4>1. k \in DOMAIN dir => dir'[k] = dir[k]
        BY <3>1, <3>5
      <4>2. Known(i, col)' = Known(i, col)
        BY <2>5, <2>6, <3>3, <3>5, <4>1
      <4>3. Now0(i, col)' = Now0(i, col)
        BY <2>2, <3>2, <3>5
      <4> QED BY <2>1, <2>3, <4>2, <4>3 DEF LatestAt
    <3> QED BY <3>4, <3>5
  <2>8. CASE ~EnrichComment(d)
    <3>1. dir' = dir /\ d.kind # "comment"
      BY <2>8 DEF enrichStmt, EnrichCreate, EnrichAlterTable, EnrichIndex, EnrichView, EnrichTableAs
    <3>2. Known(i, col)' = Known(i, col) /\ Now0(i, col)' = Now0(i, col)
      BY <2>2, <2>5, <2>6, <3>1
    <3> QED BY <2>1, <2>3, <3>2 DEF LatestAt
  <2> QED BY <2>7, <2>8
<1>4. \A i \in DOMAIN sch' : \A col \in sch'[i].cols \cup {None} : LatestAt(i, col)'
  BY <1>1, <1>3 DEF Same
<1>5. DirectivesAreTheLatest'
  BY <1>4 DEF DirectivesAreTheLatest, LatestAt, Known, Now0, Before0, CommentsOn
<1> QED BY <1>2, <1>5

\* Before any statement the directives are those of the catalog's comments.
LEMMA CatalogDirectives ==
  ASSUME EnrichStart, TablesDistinct, \A i \in DOMAIN sch : Fresh(sch[i])
  PROVE  DirectivesAreTheLatest
<1> DEFINE D == UNION {{DirectiveKey(i, c.col) : c \in sch[i].comments} : i \in DOMAIN sch}
           Said(k, ds) == \E i \in DOMAIN sch : \E c \in sch[i].comments :
                            DirectiveKey(i, c.col) = k /\ c.directives = ds
<1>1. dir = [k \in D |-> CHOOSE ds \in SUBSET Directives : Said(k, ds)] /\ done = <<>>
  BY DEF EnrichStart
<1>2. ASSUME NEW i \in DOMAIN sch, NEW col \in sch[i].cols \cup {None}
      PROVE  LatestAt(i, col)
  <2> DEFINE k == DirectiveKey(i, col)
             C == {x \in sch[i].comments : x.col = col}
  <2>1. Statements({"comment"}, i) = {}
    BY <1>1 DEF Statements
  <2>2. Now0(i, col) = {}
    BY <2>1 DEF Now0, CommentsOn, LatestOf
  <2>3. ASSUME NEW j \in DOMAIN sch, NEW c \in sch[j].comments, DirectiveKey(j, c.col) = k
        PROVE  c \in C
    BY <2>3, DirectiveKeysApart
  <2>4. \A c, e \in C : c = e
    BY DEF Fresh
  <2>5. \A c \in C : c.directives \in SUBSET Directives /\ DirectiveKey(i, c.col) = k /\ c \in sch[i].comments
    BY DEF Fresh
  <2> HIDE DEF k, C
  <2>6. k \in D <=> C # {}
    BY <2>3, <2>5
  <2>7. ASSUME k \in D
        PROVE  {dir[k]} = {c.directives : c \in C}
    <3>1. PICK c \in C : TRUE
      BY <2>6, <2>7
    <3>2. C = {c}
      BY <2>4, <3>1
    <3>3. Said(k, c.directives) /\ c.directives \in SUBSET Directives
      BY <2>5
    <3>4. \A ds : Said(k, ds) => ds = c.directives
      BY <2>3, <3>2
    <3>5. dir[k] = CHOOSE ds \in SUBSET Directives : Said(k, ds)
      BY <1>1, <2>7
    <3> HIDE DEF Said
    <3>6. dir[k] = c.directives
      BY <3>3, <3>4, <3>5
    <3> QED BY <3>2, <3>6
  <2>8. DOMAIN dir = D
    BY <1>1
  <2>9. Known(i, col) = {c.directives : c \in C}
    <3> HIDE DEF D
    <3>1. Known(i, col) = IF k \in DOMAIN dir THEN {dir[k]} ELSE {}
      BY DEF Known, k
    <3> QED BY <2>6, <2>7, <2>8, <3>1
  <2> QED BY <2>2, <2>9 DEF LatestAt, Before0, C
<1> QED BY <1>2, DirectivesOf

-----------------------------------------------------------------------------
(* In the generator, and in both editions *)

\* Steps that leave the schema alone leave what is said of it.
LEMMA SchemaKept ==
  ASSUME UNCHANGED enrichVars
  PROVE  /\ EnrichInv => EnrichInv'
         /\ TablesDistinct' <=> TablesDistinct
         /\ DirectivesAreTheLatest => DirectivesAreTheLatest'
<1>1. sch' = sch /\ dir' = dir /\ done' = done
  BY DEF enrichVars
<1>2. \A rel : Found(rel)' = Found(rel)
  BY <1>1 DEF Found
<1>3. \A kinds, i : Statements(kinds, i)' = Statements(kinds, i)
  BY <1>1, <1>2 DEF Statements
<1>4. ASSUME NEW i
      PROVE  Elements(i)' = Elements(i) /\ CreatedAt(i)' = CreatedAt(i) /\ LatestOf(Indexes(i))' = LatestOf(Indexes(i))
  BY <1>1, <1>3 DEF Elements, CreatedAt, Indexes, LatestOf
<1>5. EnrichInv => EnrichInv'
  BY <1>1, <1>3, <1>4 DEF EnrichInv, Whole
<1>6. TablesDistinct' <=> TablesDistinct
  BY <1>1 DEF TablesDistinct, Apart
<1>7. ASSUME NEW i, NEW col
      PROVE  LatestAt(i, col)' <=> LatestAt(i, col)
  <2>1. CommentsOn(i, col)' = CommentsOn(i, col)
    BY <1>1, <1>3 DEF CommentsOn
  <2>2. Now0(i, col)' = Now0(i, col)
    BY <1>1, <2>1 DEF Now0, LatestOf
  <2>3. Known(i, col)' = Known(i, col) /\ Before0(i, col)' = Before0(i, col)
    BY <1>1 DEF Known, Before0, DirectiveKey
  <2> QED BY <2>2, <2>3 DEF LatestAt
<1>8. DirectivesAreTheLatest' <=> \A i \in DOMAIN sch' : \A col \in sch'[i].cols \cup {None} : LatestAt(i, col)'
  BY DEF DirectivesAreTheLatest, LatestAt, Known, Now0, Before0, CommentsOn
<1> QED BY <1>1, <1>5, <1>6, <1>7, <1>8, DirectivesOf

\* Tables of which no statement and no comment has said anything yet.
Unsaid == IsList(sch) /\ done = <<>> /\ \A i \in DOMAIN sch : Fresh(sch[i])
LEMMA UnsaidAgrees == Unsaid => EnrichInv
BY NothingSaid DEF Unsaid

Uncommented == done = <<>> /\ DOMAIN dir = {} /\ \A i \in DOMAIN sch : sch[i].comments = {}
LEMMA UncommentedAgrees == Uncommented => DirectivesAreTheLatest
<1> SUFFICES ASSUME Uncommented, NEW i \in DOMAIN sch, NEW col \in sch[i].cols \cup {None}
             PROVE  LatestAt(i, col)
  BY DirectivesOf
<1>1. Statements({"comment"}, i) = {}
  BY DEF Statements, Uncommented
<1>2. Now0(i, col) = {}
  BY <1>1 DEF Now0, CommentsOn, LatestOf
<1> QED BY <1>2 DEF LatestAt, Known, Before0, Uncommented

\* Build's tables, as sqlc's catalog has them.
LEMMA CatalogAgrees ==
  EnrichStart => EnrichInv /\ TablesDistinct /\ DirectivesAreTheLatest
<1> SUFFICES ASSUME EnrichStart PROVE EnrichInv /\ TablesDistinct /\ DirectivesAreTheLatest
  OBVIOUS
<1>1. PICK c \in Catalogs : sch = c /\ done = <<>>
  BY DEF EnrichStart
<1>2. /\ c \in Seq(ToSet(c)) /\ \A t \in ToSet(c) : Fresh(t)
      /\ \A i, j \in DOMAIN c : Key(c[i]) = Key(c[j]) => i = j
  BY <1>1, CatalogAssumption
<1>3. \A i \in DOMAIN sch : Fresh(sch[i])
  BY <1>1, <1>2 DEF ToSet
<1>4. IsList(sch)
  BY <1>1, <1>2 DEF IsList
<1>5. TablesDistinct
  BY <1>1, <1>2 DEF TablesDistinct, Apart
<1> QED BY <1>1, <1>3, <1>4, <1>5, NothingSaid, CatalogDirectives

\* The schema of the plugin edition, at every step of the generator.
SchemaInv == EnrichInv /\ TablesDistinct /\ DirectivesAreTheLatest
LEMMA SchemaInvStep == SchemaInv /\ [Next]_generateVars => SchemaInv'
<1> SUFFICES ASSUME SchemaInv, [Next]_generateVars PROVE SchemaInv'
  OBVIOUS
<1>1. CASE Enriching
  <2>1. PICK d \in DDL : enrichStmt(d)
    BY <1>1 DEF Enriching, EnrichAny
  <2>2. Parsed(d)
    BY DDLAssumption
  <2> QED BY <2>1, <2>2, EnrichInvStatement, DirectivesStatement DEF SchemaInv
<1>2. CASE UNCHANGED enrichVars
  BY <1>2, SchemaKept DEF SchemaInv
<1>3. Enriching \/ UNCHANGED enrichVars
  BY DEF Next, DropSkipped, NameTables, PassModels, PassBuilders, PassStatics, PassSearch, Pass, Fails,
         generateVars
<1> QED BY <1>1, <1>2, <1>3

\* load_ddl.go:526-529, for every catalog and every DDL, in whatever order: the
\* directives of a table and of a column are those of the last comment that had
\* any, the catalog's where none had.
THEOREM LatestDirectives == Spec => []DirectivesAreTheLatest
<1>1. Init => SchemaInv
  BY CatalogAgrees DEF Init, SchemaInv
<1>2. SchemaInv => DirectivesAreTheLatest
  BY DEF SchemaInv
<1> QED BY <1>1, <1>2, SchemaInvStep, PTL DEF Spec

\* load_ddl.go:18-27, for every catalog and every DDL, in whatever order: as
\* long as no table is given two primary keys, the schema says of every table
\* what the statements said of it.
THEOREM SchemaAsDeclared == Spec => [](OnePrimaryKey => EnrichedAsDeclared)
<1>1. Init => SchemaInv
  BY CatalogAgrees DEF Init, SchemaInv
<1>2. SchemaInv => (OnePrimaryKey => EnrichedAsDeclared)
  BY EnrichInvEnough DEF SchemaInv
<1> QED BY <1>1, <1>2, SchemaInvStep, PTL DEF Spec

\* The command: no table before the request is built, then those it collected;
\* the statements replayed are those it read.
EditionInv ==
  /\ IsList(schema) /\ AllSpelled(schema)
  /\ IsList(collected) /\ \A j \in DOMAIN collected : collected[j] \in Script
  /\ phase = "collect" => sch = <<>> /\ dir = <<>> /\ done = <<>>
  /\ EnrichInv
  /\ TablesDistinct => DirectivesAreTheLatest

LEMMA EditionInvInit == StandaloneInit => EditionInv
<1> SUFFICES ASSUME StandaloneInit PROVE EditionInv
  OBVIOUS
<1>1. IsList(<<>>) /\ DOMAIN <<>> = {}
  BY DEF IsList
<1>2. IsList(schema) /\ AllSpelled(schema) /\ IsList(collected) /\ DOMAIN collected = {}
  BY <1>1 DEF StandaloneInit, CatalogStart, AllSpelled
<1>3. CASE EnrichStart /\ phase = "enrich"
  BY <1>2, <1>3, CatalogAgrees DEF EditionInv
<1>4. CASE sch = <<>> /\ dir = <<>> /\ done = <<>>
  <2>1. Unsaid /\ Uncommented
    BY <1>1, <1>4 DEF Unsaid, Uncommented
  <2> QED BY <1>2, <1>4, <2>1, UnsaidAgrees, UncommentedAgrees DEF EditionInv
<1> QED BY <1>3, <1>4 DEF StandaloneInit

\* The request says nothing of its tables but their names and columns.
LEMMA RequestUnsaid ==
  ASSUME EditionInv, buildRequest
  PROVE  EditionInv'
<1>1. /\ phase = "collect" /\ phase' = "enrich" /\ UNCHANGED <<dir, done, schema, collected>>
      /\ DOMAIN sch' = DOMAIN Requested
      /\ \A k \in DOMAIN sch' : sch'[k] =
           [schema |-> Requested[k].schema, name |-> Requested[k].name,
            cols |-> {c.name : c \in ToSet(Requested[k].cols)},
            pk |-> <<>>, uniques |-> <<>>, generated |-> {}, hasDefault |-> {}, search |-> {},
            skip |-> FALSE, view |-> FALSE, comments |-> {}]
  BY DEF buildRequest, catalogVars
<1>2. dir' = <<>> /\ done' = <<>> /\ IsList(schema) /\ AllSpelled(schema)
  BY <1>1 DEF EditionInv
<1>6. \A k \in DOMAIN sch' : sch'[k].comments = {} /\ Fresh(sch'[k])
  <2>1. AllSpelled(Requested)
    BY <1>2, RequestedList
  <2> QED BY <1>1, <2>1 DEF Fresh, Fields, Spelled, AllSpelled, HasNames
<1>3. IsList(sch')
  <2>1. sch' = [k \in DOMAIN Requested |-> sch'[k]]
    BY DEF buildRequest
  <2>2. Len(Requested) \in Nat /\ DOMAIN Requested = 1 .. Len(Requested)
    BY <1>2, RequestedList
  <2> DEFINE T == {sch'[k] : k \in DOMAIN Requested}
  <2>3. sch' \in [1 .. Len(Requested) -> T]
    BY <2>1, <2>2
  <2> HIDE DEF T
  <2>4. sch' \in Seq(T)
    BY <2>2, <2>3
  <2> QED BY <2>4 DEF IsList
<1>4. Unsaid' /\ Uncommented'
  BY <1>1, <1>2, <1>3, <1>6 DEF Unsaid, Uncommented
<1>5. (Unsaid' => EnrichInv') /\ (Uncommented' => DirectivesAreTheLatest')
  BY UnsaidAgrees, UncommentedAgrees, PTL
<1> QED BY <1>1, <1>2, <1>4, <1>5 DEF EditionInv

LEMMA EditionInvStep ==
  ASSUME EditionInv, [StandaloneNext]_standaloneVars
  PROVE  EditionInv'
<1>1. CASE ReadStmt
  <2>1. phase = "collect" /\ CollectStmt /\ UNCHANGED generateVars
    BY <1>1 DEF ReadStmt
  <2>2. IsList(schema') /\ AllSpelled(schema')
    BY <2>1, CollectKeepsList, CollectKeepsSpelling DEF EditionInv
  <2>3. PICK d \in Script : collected' = Append(collected, d)
    BY <2>1 DEF CollectStmt, CollectCreate, CollectAlter, CollectView, CollectOther, Collect
  <2>4. IsList(collected') /\ \A j \in DOMAIN collected' : collected'[j] \in Script
    <3>1. PICK S : collected \in Seq(S)
      BY DEF EditionInv, IsList
    <3>2. /\ DOMAIN collected' = DOMAIN collected \cup {Len(collected) + 1}
          /\ collected'[Len(collected) + 1] = d
          /\ \A j \in DOMAIN collected : collected'[j] = collected[j]
      BY <2>3, <3>1, AppendOne
    <3>3. IsList(collected')
      BY <2>3, AppendList DEF EditionInv
    <3> QED BY <3>2, <3>3 DEF EditionInv
  <2>5. UNCHANGED enrichVars /\ phase' = phase
    BY <2>1 DEF generateVars
  <2> QED BY <2>2, <2>4, <2>5, SchemaKept DEF EditionInv, enrichVars
<1>2. CASE Replay \/ (Generating /\ Enriching)
  <2>1. \E d : Parsed(d) /\ enrichStmt(d)
    <3>1. CASE Replay
      <4>1. /\ Len(collected) \in Nat /\ DOMAIN collected = 1 .. Len(collected)
            /\ Len(done) \in Nat
        BY ListDomain DEF EditionInv, EnrichInv, Whole
      <4>2. Len(done) + 1 \in DOMAIN collected
        BY <3>1, <4>1 DEF Replay
      <4>3. collected[Len(done) + 1] \in Script
        BY <4>2 DEF EditionInv
      <4> QED BY <3>1, <4>3, ScriptAssumption DEF Replay
    <3>2. CASE Enriching
      BY <3>2, DDLAssumption DEF Enriching, EnrichAny
    <3> QED BY <1>2, <3>1, <3>2
  <2>2. PICK d : Parsed(d) /\ enrichStmt(d)
    BY <2>1
  <2>3. phase' = "enrich" /\ UNCHANGED <<schema, collected>>
    BY <1>2 DEF Replay, Generating, Enriching, catalogVars
  <2>4. EnrichInv' /\ DOMAIN sch' = DOMAIN sch /\ \A i \in DOMAIN sch : Same(sch[i], sch'[i])
    BY <2>2, EnrichInvStatement DEF EditionInv
  <2>5. TablesDistinct' => TablesDistinct
    BY <2>4 DEF TablesDistinct, Apart, Key, Same
  <2>6. TablesDistinct' => DirectivesAreTheLatest'
    BY <2>2, <2>5, DirectivesStatement DEF EditionInv
  <2> QED BY <2>3, <2>4, <2>6 DEF EditionInv
<1>3. CASE UNCHANGED <<schema, collected>> /\ UNCHANGED enrichVars /\ (phase' = "collect" => phase = "collect")
  BY <1>3, SchemaKept DEF EditionInv, enrichVars
<1>4. \/ DropSkipped \/ NameTables \/ PassModels \/ PassBuilders \/ PassStatics \/ PassSearch \/ Fails
      => UNCHANGED enrichVars /\ phase' # "collect"
  BY DEF DropSkipped, NameTables, PassModels, PassBuilders, PassStatics, PassSearch, Pass, Fails
<1>5. CASE Generating /\ ~Enriching
  BY <1>3, <1>4, <1>5 DEF Generating, catalogVars
<1>6. CASE ReadFails \/ MkdirAll \/ WriteFile \/ WriteFails \/ Report \/ UNCHANGED standaloneVars
  BY <1>3, <1>6 DEF ReadFails, MkdirAll, WriteFile, WriteFails, Report, Ends, catalogVars,
     standaloneVars, generateVars
<1> QED BY <1>1, <1>2, <1>5, <1>6, RequestUnsaid DEF StandaloneNext

\* load_ddl.go:18-27 in both editions: the keys, fills, views and indexes of the
\* tables are those of the files, whatever catalog sqlc or collectStmt made.
THEOREM EditionsSchemaAsDeclared == StandaloneSpec => [](OnePrimaryKey => EnrichedAsDeclared)
<1>1. EditionInv => (OnePrimaryKey => EnrichedAsDeclared)
  BY EnrichInvEnough DEF EditionInv
<1>2. EditionInv /\ [StandaloneNext]_standaloneVars => EditionInv'
  BY EditionInvStep
<1> QED BY <1>1, <1>2, EditionInvInit, PTL DEF StandaloneSpec

\* load_ddl.go:526-529 in both editions, for every schema whose tables have
\* names of their own; the command forgets the schema of a view, which may
\* then share the name of a table.
THEOREM EditionsLatestDirectives == StandaloneSpec => [](TablesDistinct => DirectivesAreTheLatest)
<1>1. EditionInv => (TablesDistinct => DirectivesAreTheLatest)
  BY DEF EditionInv
<1>2. EditionInv /\ [StandaloneNext]_standaloneVars => EditionInv'
  BY EditionInvStep
<1> QED BY <1>1, <1>2, EditionInvInit, PTL DEF StandaloneSpec
-----------------------------------------------------------------------------
(* Names *)

\* What is picked of tables with keys of their own has keys of its own.
LEMMA PickedKeysApart ==
  ASSUME NEW s, IsList(s), Apart(s), NEW I, I \subseteq DOMAIN s
  PROVE  Apart(Picked(s, I))
<1> DEFINE r == Picked(s, I)
<1>1. IsInjective(s)
  BY DEF Apart, IsInjective
<1>2. ToSet(r) = {s[i] : i \in I} /\ IsInjective(r)
  BY <1>1, PickedFacts, PickedApart
<1> HIDE DEF r
<1>3. ASSUME NEW a \in DOMAIN r, NEW b \in DOMAIN r, Key(r[a]) = Key(r[b])
      PROVE  a = b
  <2>1. r[a] \in ToSet(r) /\ r[b] \in ToSet(r)
    BY DEF ToSet
  <2>2. PICK i \in I : r[a] = s[i]
    BY <1>2, <2>1
  <2>3. PICK j \in I : r[b] = s[j]
    BY <1>2, <2>1
  <2>4. i = j
    BY <1>3, <2>2, <2>3 DEF Apart
  <2> QED BY <1>2, <2>2, <2>3, <2>4 DEF IsInjective
<1> QED BY <1>3 DEF Apart, r

\* The tables that are left of the schema; and where they are apart, the taken
\* sets hold what the tables were given and nothing else, the condition under
\* which a name is refused for the sake of an earlier table.
Recorded ==
  /\ takenP = {goTableNames(i).p : i \in Named}
  /\ takenS = {goTableNames(i).s : i \in Named}
  /\ takenFb = {goTableNames(i).fb : i \in Named}
OrderInv ==
  /\ phase \in {"collect", "enrich"} => tables = <<>>
  /\ TablesDistinct => Apart(tables)
  /\ Apart(tables) => Recorded /\ EarlierTablesFirst

\* The k-th name of the next table is given when the ones before are refused.
LEMMA TakeKeepsOrder ==
  ASSUME NamingInv, Apart(tables), Recorded, EarlierTablesFirst,
         Unnamed, genSchema(tables[Now]), NEW k \in 1 .. 9,
         \A m \in 1 .. (k - 1) : ~Free(Candidate(Now, m)),
         Take(Candidate(Now, k))
  PROVE  Recorded' /\ EarlierTablesFirst'
<1> DEFINE b == Candidate(Now, k)
<1>1. /\ turn' = Now /\ Now \in DOMAIN tables /\ Now \notin Named
      /\ Named' = Named \cup {Now} /\ \A i \in Named : i < Now
      /\ DOMAIN final' = DOMAIN final \cup {Key(tables[Now])}
      /\ final'[Key(tables[Now])] = b
      /\ \A l \in DOMAIN final : l # Key(tables[Now]) => final'[l] = final[l]
  BY NamingTurn
<1>2. /\ tables' = tables
      /\ takenP' = takenP \cup {b.p} /\ takenS' = takenS \cup {b.s} /\ takenFb' = takenFb \cup {b.fb}
  BY DEF Take
<1>3. \A i, m : Candidate(i, m)' = Candidate(i, m)
  BY <1>2 DEF Candidate
<1> HIDE DEF b
<1>4. ASSUME NEW i \in Named
      PROVE  goTableNames(i)' = goTableNames(i)
  <2>1. i \in DOMAIN tables /\ i # Now /\ Key(tables[i]) \in DOMAIN final
    BY <1>1 DEF NamingInv
  <2>2. Key(tables[i]) # Key(tables[Now])
    BY <1>1, <2>1 DEF Apart
  <2> QED BY <1>1, <1>2, <2>1, <2>2 DEF goTableNames
<1>5. ASSUME NEW i, i = Now
      PROVE  goTableNames(i)' = b
  BY <1>1, <1>2, <1>5 DEF goTableNames
<1>6. Recorded'
  <2>1. ASSUME NEW f
        PROVE  {goTableNames(i)'[f] : i \in Named'} = {goTableNames(i)[f] : i \in Named} \cup {b[f]}
    <3>1. PICK n : n = Now
      OBVIOUS
    <3>2. Named' = Named \cup {n} /\ goTableNames(n)' = b
      BY <1>1, <1>5, <3>1
    <3> QED BY <1>4, <3>2
  <2>2. /\ takenP' = {goTableNames(i)'.p : i \in Named'}
        /\ takenS' = {goTableNames(i)'.s : i \in Named'}
        /\ takenFb' = {goTableNames(i)'.fb : i \in Named'}
    BY <1>2, <2>1 DEF Recorded
  <2> QED BY <2>2 DEF Recorded
<1>7. ASSUME NEW i \in Named'
      PROVE  \E n \in 1 .. 9 :
               /\ goTableNames(i)' = Candidate(i, n)
               /\ \A m \in 1 .. (n - 1) : \E j \in Named' : j < i /\ Meets(Candidate(i, m), goTableNames(j)')
  <2>1. CASE i \in Named
    BY <1>1, <1>4, <2>1 DEF EarlierTablesFirst
  <2>2. CASE i = Now
    <3>1. ASSUME NEW m \in 1 .. (k - 1)
          PROVE  \E j \in Named : Meets(Candidate(Now, m), goTableNames(j))
      <4> DEFINE c == Candidate(Now, m)
      <4>1. ~Free(c)
        OBVIOUS
      <4> HIDE DEF c
      <4>2. c.p \in takenP \/ c.s \in takenS \/ c.fb \in takenFb
        BY <4>1 DEF Free
      <4>3. \E j \in Named : Meets(c, goTableNames(j))
        BY <4>2 DEF Recorded, Meets
      <4> QED BY <4>3 DEF c
    <3>2. goTableNames(i)' = Candidate(i, k)
      BY <1>5, <2>2 DEF b
    <3> QED BY <1>1, <1>4, <2>2, <3>1, <3>2
  <2> QED BY <1>1, <2>1, <2>2
<1>8. EarlierTablesFirst'
  BY <1>3, <1>7 DEF EarlierTablesFirst, Meets
<1> QED BY <1>6, <1>8

\* Before the first name, and on steps that give none.
LEMMA NoOrderYet ==
  ASSUME Named = {}, takenP = {}, takenS = {}, takenFb = {}
  PROVE  Recorded /\ EarlierTablesFirst
BY DEF Recorded, EarlierTablesFirst
LEMMA OrderKept ==
  ASSUME UNCHANGED <<tables, final, takenP, takenS, takenFb>>, Named' = Named, Recorded, EarlierTablesFirst
  PROVE  Recorded' /\ EarlierTablesFirst'
<1>1. \A i : goTableNames(i)' = goTableNames(i)
  BY DEF goTableNames
<1>2. \A i, m : Candidate(i, m)' = Candidate(i, m)
  BY DEF Candidate
<1>3. Recorded'
  BY <1>1 DEF Recorded
<1> QED BY <1>1, <1>2, <1>3 DEF EarlierTablesFirst, Meets

\* One more table is named, or passed over.
LEMMA NameTablesKeepsOrder ==
  ASSUME NamingInv, Apart(tables), Recorded, EarlierTablesFirst, NamingStep
  PROVE  Recorded' /\ EarlierTablesFirst'
<1>1. CASE PassOver
  BY <1>1, PassingOver, OrderKept DEF PassOver
<1>2. CASE KeepBase
  <2>1. Candidate(Now, 1) = baseTableNames(tables[Now]) /\ 1 .. (1 - 1) = {} /\ 1 \in 1 .. 9
    BY DEF Candidate
  <2> QED BY <1>2, <2>1, TakeKeepsOrder DEF KeepBase
<1>3. CASE TakeSuffix
  <2> DEFINE base == baseTableNames(tables[Now])
  <2>1. PICK k \in 2 .. 9 : /\ \A j \in 2 .. (k - 1) : ~Free(Suffixed(base, j))
                            /\ Take(Suffixed(base, k))
    BY <1>3 DEF TakeSuffix
  <2>2. Unnamed /\ genSchema(tables[Now]) /\ ~Free(base)
    BY <1>3 DEF TakeSuffix
  <2> HIDE DEF base
  <2>3. Candidate(Now, 1) = base /\ \A j \in 2 .. 9 : Candidate(Now, j) = Suffixed(base, j)
    BY DEF Candidate, base
  <2>4. k \in 1 .. 9 /\ \A m \in 1 .. (k - 1) : m = 1 \/ (m \in 2 .. (k - 1) /\ m \in 2 .. 9)
    OBVIOUS
  <2>5. \A m \in 1 .. (k - 1) : ~Free(Candidate(Now, m))
    BY <2>1, <2>2, <2>3, <2>4
  <2>6. Take(Candidate(Now, k))
    BY <2>1, <2>3
  <2> QED BY <2>2, <2>4, <2>5, <2>6, TakeKeepsOrder
<1> QED BY <1>1, <1>2, <1>3 DEF NamingStep

\* Steps that neither name nor drop tables.
LEMMA OtherKeepsOrder ==
  ASSUME OrderInv, UNCHANGED namingVars, phase' \in {"collect", "enrich"} => phase \in {"collect", "enrich"},
         (phase \in {"collect", "enrich"} /\ phase' \in {"collect", "enrich"}) \/ (TablesDistinct' => TablesDistinct)
  PROVE  OrderInv'
<1>1. UNCHANGED <<tables, final, takenP, takenS, takenFb>> /\ Named' = Named /\ (Apart(tables)' <=> Apart(tables))
  BY DEF namingVars, Named, Apart
<1>2. Apart(tables)' => Recorded' /\ EarlierTablesFirst'
  BY <1>1, OrderKept DEF OrderInv
<1>3. TablesDistinct' => Apart(tables)'
  <2>1. CASE phase \in {"collect", "enrich"}
    <3>1. tables = <<>>
      BY <2>1 DEF OrderInv
    <3> QED BY <1>1, <3>1 DEF Apart
  <2>2. CASE TablesDistinct' => TablesDistinct
    BY <1>1, <2>2 DEF OrderInv
  <2> QED BY <2>1, <2>2
<1> QED BY <1>1, <1>2, <1>3 DEF OrderInv

\* In either edition the schema does not change any more when names are given.
LEMMA OrderInvStep ==
  ASSUME OrderInv, NamingInv, IsList(sch), [Next]_generateVars
  PROVE  OrderInv'
<1>1. CASE DropSkipped
  <2> DEFINE I == {i \in DOMAIN sch : ~Skipped(sch[i])}
  <2>1. /\ phase = "enrich" /\ phase' = "name" /\ tables' = Picked(sch, I)
        /\ UNCHANGED <<sch, turn, final, takenP, takenS, takenFb>>
    BY <1>1 DEF DropSkipped, enrichVars
  <2>2. Named' = {} /\ takenP' = {} /\ takenS' = {} /\ takenFb' = {}
    BY <2>1 DEF NamingInv, Named
  <2>3. Recorded' /\ EarlierTablesFirst'
    BY <2>2 DEF Recorded, EarlierTablesFirst
  <2>4. TablesDistinct' => Apart(tables)'
    <3>1. SUFFICES ASSUME Apart(sch) PROVE Apart(Picked(sch, I))
      BY <2>1 DEF TablesDistinct, Apart
    <3> QED BY <3>1, PickedKeysApart
  <2> QED BY <2>1, <2>3, <2>4 DEF OrderInv
<1>2. CASE NameTables
  <2>1. phase = "name" /\ phase' = "name" /\ UNCHANGED <<sch, tables>> /\ NamingStep
    BY <1>2 DEF NameTables, NamingStep, PassOver, KeepBase, TakeSuffix, Take, enrichVars
  <2>2. (Apart(tables)' <=> Apart(tables)) /\ (TablesDistinct' <=> TablesDistinct)
    BY <2>1 DEF Apart, TablesDistinct
  <2> QED BY <2>1, <2>2, NameTablesKeepsOrder DEF OrderInv
<1>3. CASE Enriching
  BY <1>3, OtherKeepsOrder DEF Enriching
<1>4. CASE PassModels \/ PassBuilders \/ PassStatics \/ PassSearch \/ Fails \/ UNCHANGED generateVars
  <2>1. /\ UNCHANGED namingVars /\ sch' = sch
        /\ phase' \in {"collect", "enrich"} => phase \in {"collect", "enrich"}
    BY <1>4 DEF PassModels, PassBuilders, PassStatics, PassSearch, Pass, Fails, generateVars, enrichVars
  <2>2. TablesDistinct' => TablesDistinct
    BY <2>1 DEF TablesDistinct, Apart
  <2> QED BY <2>1, <2>2, OtherKeepsOrder
<1> QED BY <1>1, <1>2, <1>3, <1>4 DEF Next

LEMMA OrderInvInit ==
  ASSUME tables = <<>>, NamingStart
  PROVE  OrderInv
<1>1. Apart(tables)
  BY DEF Apart
<1> QED BY <1>1, NoNamesYet, NoOrderYet DEF OrderInv, NamingStart

\* Where tables are apart, so are their names.
LEMMA ApartEnough == NamingInv /\ OrderInv /\ TablesDistinct => NamesDistinct /\ EarlierTablesFirst
<1> SUFFICES ASSUME NamingInv, OrderInv, TablesDistinct PROVE NamesDistinct
  BY DEF OrderInv
<1>1. ASSUME NEW i \in Named, NEW j \in Named, i # j
      PROVE  /\ goTableNames(i).p # goTableNames(j).p
             /\ goTableNames(i).s # goTableNames(j).s
             /\ goTableNames(i).fb # goTableNames(j).fb
  <2>1. i \in DOMAIN tables /\ j \in DOMAIN tables /\ Apart(tables)
    BY DEF NamingInv, OrderInv
  <2>2. Key(tables[i]) # Key(tables[j]) /\ Key(tables[i]) \in DOMAIN final /\ Key(tables[j]) \in DOMAIN final
    BY <1>1, <2>1 DEF Apart, NamingInv
  <2> QED BY <2>2 DEF NamingInv, goTableNames
<1> QED BY <1>1 DEF NamesDistinct

\* The names of the plugin edition, whose catalog has tables of different keys.
NamesInv == SchemaInv /\ NamingInv /\ OrderInv
LEMMA NamesInvInit == Init => NamesInv
BY CatalogAgrees, NoNamesYet, OrderInvInit DEF Init, SchemaInv, NamesInv
LEMMA NamesInvStep == NamesInv /\ [Next]_generateVars => NamesInv'
<1> SUFFICES ASSUME SchemaInv, NamingInv, OrderInv, [Next]_generateVars PROVE OrderInv'
  BY SchemaInvStep, NamingInvStep DEF NamesInv
<1> QED BY OrderInvStep DEF SchemaInv, EnrichInv, Whole

\* pass_builders.go:138-146, for every catalog and every DDL: no two tables of
\* the generated package share a descriptor, a model or a file stem.
THEOREM TableNamesDistinct == Spec => []NamesDistinct
<1>1. NamesInv => NamesDistinct
  BY ApartEnough DEF NamesInv, SchemaInv
<1> QED BY <1>1, NamesInvInit, NamesInvStep, PTL DEF Spec

\* pass_builders.go:142-145, for every catalog and every DDL: tables earlier in
\* catalog order keep their base names, and a suffix passes over no free number.
THEOREM EarlierTablesKeepNames == Spec => []EarlierTablesFirst
<1>1. NamesInv => EarlierTablesFirst
  BY ApartEnough DEF NamesInv, SchemaInv
<1> QED BY <1>1, NamesInvInit, NamesInvStep, PTL DEF Spec

\* The names of both editions.
EditionNamesInv == EditionInv /\ NamingInv /\ OrderInv
LEMMA EditionNamesInvInit == StandaloneInit => EditionNamesInv
BY EditionInvInit, NoNamesYet, OrderInvInit DEF StandaloneInit, EditionNamesInv
LEMMA EditionNamesInvStep == EditionNamesInv /\ [StandaloneNext]_standaloneVars => EditionNamesInv'
<1> SUFFICES ASSUME EditionInv, NamingInv, OrderInv, [StandaloneNext]_standaloneVars PROVE OrderInv'
  BY EditionInvStep, StandaloneNamesStep DEF EditionNamesInv
<1>1. CASE Generating
  <2>1. Next
    BY <1>1 DEF Generating, Next
  <2> QED BY <2>1, OrderInvStep DEF EditionInv, EnrichInv, Whole
<1>2. CASE ReadStmt \/ buildRequest \/ Replay
  <2>1. UNCHANGED namingVars /\ phase \in {"collect", "enrich"} /\ phase' \in {"collect", "enrich"}
    BY <1>2 DEF ReadStmt, buildRequest, Replay, generateVars
  <2> QED BY <2>1, OtherKeepsOrder
<1>3. CASE ReadFails \/ MkdirAll \/ WriteFile \/ WriteFails \/ Report \/ UNCHANGED standaloneVars
  <2>1. /\ UNCHANGED namingVars /\ sch' = sch
        /\ phase' \in {"collect", "enrich"} => phase \in {"collect", "enrich"}
    BY <1>3 DEF ReadFails, MkdirAll, WriteFile, WriteFails, Report, Ends, standaloneVars, generateVars, enrichVars
  <2>2. TablesDistinct' => TablesDistinct
    BY <2>1 DEF TablesDistinct, Apart
  <2> QED BY <2>1, <2>2, OtherKeepsOrder
<1> QED BY <1>1, <1>2, <1>3 DEF StandaloneNext

\* pass_builders.go:138-146 in both editions: tables of different schemas or
\* names share no descriptor, model or file stem.  The command may collect two
\* of one key (a view whose schema it drops, main.go:348), which then share all
\* three.
THEOREM EditionsNamesDistinct == StandaloneSpec => [](TablesDistinct => NamesDistinct)
<1>1. EditionNamesInv => (TablesDistinct => NamesDistinct)
  BY ApartEnough DEF EditionNamesInv
<1> QED BY <1>1, EditionNamesInvInit, EditionNamesInvStep, PTL DEF StandaloneSpec

\* pass_builders.go:142-145 in both editions: the earlier of such tables come
\* first.
THEOREM EditionsEarlierFirst == StandaloneSpec => [](TablesDistinct => EarlierTablesFirst)
<1>1. EditionNamesInv => (TablesDistinct => EarlierTablesFirst)
  BY ApartEnough DEF EditionNamesInv
<1> QED BY <1>1, EditionNamesInvInit, EditionNamesInvStep, PTL DEF StandaloneSpec
-----------------------------------------------------------------------------
(* File names *)

Models == <<"model", "s">>
Helpers == <<"pgb", "_", "helper", "s">>
RepoEnding == <<"_", "repo">>
SearchEnding == <<"_", "search">>
Repo(i) == goTableNames(i).fb \o RepoEnding
Search(i) == goTableNames(i).fb \o SearchEnding

\* A file is one of the four passes', for a table that has names.
OfPass(f) ==
  \/ f = File("models", 0, Models)
  \/ f = File("statics", 0, Helpers)
  \/ \E i \in Named : f \in {File("builders", i, goTableNames(i).fb), File("statics", i, Repo(i)),
                             File("search", i, Search(i))}

\* Stems are spelled in pieces, and while names are given there are no files.
FilesInv ==
  /\ \A i \in DOMAIN tables : Spelled(tables[i])
  /\ \A i \in Named : goTableNames(i).fb \in Seq(Piece)
  /\ phase \in {"collect", "enrich", "name"} => files = {}
  /\ \A f \in files : OfPass(f)

\* The only names that could meet: a stem that is another one with the ending
\* of a pass, or the name of a file that a pass writes beside.
PlainStems ==
  \A i \in Named : /\ goTableNames(i).fb \notin {Models, Helpers}
                   /\ \A j \in Named : goTableNames(i).fb \notin {Repo(j), Search(j)}

\* Texts that end alike, in as many pieces, begin alike.
LEMMA SameEnding ==
  ASSUME NEW S, NEW a \in Seq(S), NEW b \in Seq(S), NEW e \in Seq(S), NEW d \in Seq(S),
         Len(e) = Len(d), a \o e = b \o d
  PROVE  a = b /\ e = d
<1> DEFINE m == Len(a)
           k == Len(e)
           u == a \o e
<1>1. m \in Nat /\ k \in Nat /\ Len(b) \in Nat
  OBVIOUS
<1>2. Len(u) = m + k /\ Len(u) = Len(b) + k
  <2>1. Len(a \o e) = Len(a) + Len(e) /\ Len(b \o d) = Len(b) + Len(d)
    BY ConcatProperties, Zenon
  <2> QED BY <2>1
<1>3. Len(b) = m
  <2> HIDE DEF m, k, u
  <2> QED BY <1>1, <1>2
<1>4. /\ \A i \in 1 .. (m + k) : u[i] = IF i <= m THEN a[i] ELSE e[i - m]
      /\ \A i \in 1 .. (m + k) : u[i] = IF i <= m THEN b[i] ELSE d[i - m]
  BY <1>3, ConcatProperties
<1> HIDE DEF u
<1>5. \A i \in 1 .. m : a[i] = b[i]
  <2> HIDE DEF m, k
  <2>1. \A i \in 1 .. m : i \in 1 .. (m + k) /\ i <= m
    BY <1>1
  <2> QED BY <1>4, <2>1
<1>6. \A i \in 1 .. k : e[i] = d[i]
  <2> HIDE DEF m, k
  <2>1. \A i \in 1 .. k : m + i \in 1 .. (m + k) /\ ~(m + i <= m) /\ (m + i) - m = i
    BY <1>1
  <2>2. ASSUME NEW i \in 1 .. k
        PROVE  e[i] = d[i]
    <3>1. u[m + i] = e[i] /\ u[m + i] = d[i]
      BY <1>4, <2>1
    <3> QED BY <3>1
  <2> QED BY <2>2
<1>7. a = b
  BY <1>3, <1>5, SeqEqual
<1> QED BY <1>6, <1>7, SeqEqual

LEMMA LastOfEnding ==
  ASSUME NEW S, NEW a \in Seq(S), NEW e \in Seq(S), Len(e) = 2
  PROVE  (a \o e)[Len(a \o e)] = e[2]
<1> DEFINE m == Len(a)
<1>1. /\ Len(a \o e) = Len(a) + Len(e)
      /\ \A i \in 1 .. Len(a) + Len(e) : (a \o e)[i] = IF i <= Len(a) THEN a[i] ELSE e[i - Len(a)]
  BY ConcatProperties, Zenon
<1>2. /\ m \in Nat /\ Len(a \o e) = m + 2
      /\ \A i \in 1 .. m + 2 : (a \o e)[i] = IF i <= m THEN a[i] ELSE e[i - m]
  BY <1>1
<1> HIDE DEF m
<1>3. m + 2 \in 1 .. m + 2 /\ ~(m + 2 <= m) /\ (m + 2) - m = 2
  BY <1>2
<1>4. (a \o e)[m + 2] = e[2]
  BY <1>2, <1>3
<1> QED BY <1>2, <1>4

StemPiece == Piece \cup {"_", "repo", "search"}
LEMMA Endings ==
  /\ RepoEnding \in Seq(StemPiece) /\ Len(RepoEnding) = 2 /\ RepoEnding[2] = "repo"
  /\ SearchEnding \in Seq(StemPiece) /\ Len(SearchEnding) = 2 /\ SearchEnding[2] = "search"
  /\ Models[Len(Models)] = "s" /\ Helpers[Len(Helpers)] = "s"
BY DEF RepoEnding, SearchEnding, StemPiece, Models, Helpers

LEMMA StemsInSpelling ==
  ASSUME FilesInv, NEW i \in Named
  PROVE  goTableNames(i).fb \in Seq(StemPiece)
<1>1. goTableNames(i).fb \in Seq(Piece) /\ Piece \subseteq StemPiece
  BY DEF FilesInv, StemPiece
<1> QED BY <1>1, SeqMonotonic

LEMMA PlainStemsEnough == FilesInv /\ NamesDistinct /\ PlainStems => FilesDistinct
<1> SUFFICES ASSUME FilesInv, NamesDistinct, PlainStems,
                    NEW f \in files, NEW g \in files, f.name = g.name
             PROVE  f = g
  BY DEF FilesDistinct
<1>1. ASSUME NEW i \in Named, NEW j \in Named
      PROVE  /\ goTableNames(i).fb = goTableNames(j).fb => i = j
             /\ Repo(i) = Repo(j) => i = j
             /\ Search(i) = Search(j) => i = j
             /\ Repo(i) # Search(j)
             /\ goTableNames(i).fb # Repo(j) /\ goTableNames(i).fb # Search(j)
  <2> DEFINE a == goTableNames(i).fb
             b == goTableNames(j).fb
  <2>1. a \in Seq(StemPiece) /\ b \in Seq(StemPiece)
    BY StemsInSpelling
  <2>2. goTableNames(i).fb = goTableNames(j).fb => i = j
    BY DEF NamesDistinct
  <2>3. /\ Repo(i) = a \o RepoEnding /\ Repo(j) = b \o RepoEnding
        /\ Search(i) = a \o SearchEnding /\ Search(j) = b \o SearchEnding
    BY DEF Repo, Search
  <2>4. /\ RepoEnding \in Seq(StemPiece) /\ SearchEnding \in Seq(StemPiece)
        /\ Len(RepoEnding) = Len(SearchEnding) /\ RepoEnding # SearchEnding
    BY Endings
  <2> HIDE DEF a, b
  <2>5. a \o RepoEnding = b \o RepoEnding => a = b
    BY <2>1, <2>4, SameEnding, Zenon
  <2>6. a \o SearchEnding = b \o SearchEnding => a = b
    BY <2>1, <2>4, SameEnding, Zenon
  <2>7. a \o RepoEnding # b \o SearchEnding
    BY <2>1, <2>4, SameEnding, Zenon
  <2>8. Repo(i) = Repo(j) => goTableNames(i).fb = goTableNames(j).fb
    BY <2>3, <2>5 DEF a, b
  <2>9. Search(i) = Search(j) => goTableNames(i).fb = goTableNames(j).fb
    BY <2>3, <2>6 DEF a, b
  <2>10. Repo(i) # Search(j)
    BY <2>3, <2>7
  <2>11. goTableNames(i).fb # Repo(j) /\ goTableNames(i).fb # Search(j)
    BY DEF PlainStems
  <2> QED BY <2>2, <2>8, <2>9, <2>10, <2>11
<1>2. ASSUME NEW i \in Named
      PROVE  /\ goTableNames(i).fb \notin {Models, Helpers}
             /\ Repo(i) \notin {Models, Helpers} /\ Search(i) \notin {Models, Helpers}
  <2>1. goTableNames(i).fb \in Seq(StemPiece)
    BY StemsInSpelling
  <2>2. Repo(i)[Len(Repo(i))] = "repo"
    BY <2>1, Endings, LastOfEnding DEF Repo
  <2>3. Search(i)[Len(Search(i))] = "search"
    BY <2>1, Endings, LastOfEnding DEF Search
  <2>4. Repo(i) \notin {Models, Helpers} /\ Search(i) \notin {Models, Helpers}
    BY <2>2, <2>3, Endings
  <2> QED BY <2>4 DEF PlainStems
<1>3. Models # Helpers
  BY DEF Models, Helpers
<1>4. \A pass, i, name : File(pass, i, name).name = name
  BY DEF File
<1>5. OfPass(f) /\ OfPass(g)
  BY DEF FilesInv
<1>6. CASE f \in {File("models", 0, Models), File("statics", 0, Helpers)}
  BY <1>2, <1>3, <1>4, <1>5, <1>6 DEF OfPass
<1>7. ASSUME NEW i \in Named, f = File("builders", i, goTableNames(i).fb)
      PROVE  f = g
  BY <1>1, <1>2, <1>4, <1>5, <1>7 DEF OfPass
<1>8. ASSUME NEW i \in Named, f = File("statics", i, Repo(i))
      PROVE  f = g
  BY <1>1, <1>2, <1>4, <1>5, <1>8 DEF OfPass
<1>9. ASSUME NEW i \in Named, f = File("search", i, Search(i))
      PROVE  f = g
  BY <1>1, <1>2, <1>4, <1>5, <1>9 DEF OfPass
<1> QED BY <1>5, <1>6, <1>7, <1>8, <1>9 DEF OfPass

\* A pass adds files of its own.
LEMMA PassKeepsFiles ==
  ASSUME FilesInv, PassModels \/ PassBuilders \/ PassStatics \/ PassSearch
  PROVE  FilesInv'
<1>1. /\ UNCHANGED <<tables, final>> /\ Named' = Named /\ (\A i : goTableNames(i)' = goTableNames(i))
      /\ phase' \notin {"collect", "enrich", "name"}
  BY DEF PassModels, PassBuilders, PassStatics, PassSearch, Pass, namingVars, Named, goTableNames
<1>2. \A f : OfPass(f)' <=> OfPass(f)
  BY <1>1 DEF OfPass, Repo, Search
<1>3. ASSUME NEW f \in files', f \notin files
      PROVE  OfPass(f)
  <2>1. CASE PassModels
    BY <1>3, <2>1 DEF PassModels, OfPass, Models
  <2>2. CASE PassBuilders
    <3>1. PICK i \in Named : f = File("builders", i, goTableNames(i).fb \o <<>>)
      BY <1>3, <2>2 DEF PassBuilders, Pass
    <3>2. goTableNames(i).fb \o <<>> = goTableNames(i).fb
      BY DEF FilesInv
    <3> QED BY <3>1, <3>2 DEF OfPass
  <2>3. CASE PassStatics
    <3>1. f = File("statics", 0, Helpers) \/ \E i \in Named : f = File("statics", i, Repo(i))
      BY <1>3, <2>3 DEF PassStatics, Pass, Helpers, Repo, RepoEnding
    <3> QED BY <3>1 DEF OfPass
  <2>4. CASE PassSearch
    <3>1. \E i \in Named : f = File("search", i, Search(i))
      BY <1>3, <2>4 DEF PassSearch, Pass, Search, SearchEnding
    <3> QED BY <3>1 DEF OfPass
  <2> QED BY <2>1, <2>2, <2>3, <2>4
<1> QED BY <1>1, <1>2, <1>3 DEF FilesInv

\* The stem of a table, suffixed or not, is spelled in pieces.
LEMMA StemSpelled ==
  ASSUME NEW t, Spelled(t), NEW k \in DOMAIN Digits
  PROVE  LET b == baseTableNames(t) IN b.fb \in Seq(Piece) /\ Suffixed(b, k).fb \in Seq(Piece)
<1> DEFINE b == baseTableNames(t)
<1>1. "_" \in Piece /\ Digits[k] \in Piece
  BY NamingAssumption
<1>2. b.fb \in {t.name, t.schema \o <<"_">> \o t.name}
  BY DEF baseTableNames
<1>3. t.schema \o <<"_">> \o t.name \in Seq(Piece)
  <2> DEFINE piece == "_"
             bar == <<piece>>
  <2>1. piece \in Piece
    BY <1>1
  <2> HIDE DEF piece
  <2>2. bar \in Seq(Piece)
    BY <2>1
  <2>3. t.schema \in Seq(Piece) /\ t.name \in Seq(Piece)
    BY DEF Spelled
  <2> HIDE DEF bar
  <2>4. t.schema \o bar \o t.name \in Seq(Piece)
    BY <2>2, <2>3
  <2> QED BY <2>4 DEF bar, piece
<1>4. b.fb \in Seq(Piece)
  BY <1>2, <1>3 DEF Spelled
<1> HIDE DEF b
<1>5. Suffixed(b, k).fb = Append(b.fb, Digits[k])
  BY DEF Suffixed
<1>6. Append(b.fb, Digits[k]) \in Seq(Piece)
  <2> DEFINE digit == Digits[k]
             stem == b.fb
  <2>1. digit \in Piece /\ stem \in Seq(Piece)
    BY <1>1, <1>4
  <2> HIDE DEF digit, stem
  <2>2. Append(stem, digit) \in Seq(Piece)
    BY <2>1
  <2> QED BY <2>2 DEF digit, stem
<1> QED BY <1>4, <1>5, <1>6 DEF b

\* One more table is named, with a stem of its own or a suffixed one.
LEMMA NamingKeepsFiles ==
  ASSUME FilesInv, NamingInv, NameTables
  PROVE  FilesInv'
<1>2. /\ phase = "name" /\ UNCHANGED <<phase, files, tables>> /\ Unnamed /\ files = {}
  BY DEF NameTables, NamingStep, PassOver, KeepBase, TakeSuffix, Take, FilesInv
<1>3. ASSUME NEW x, genSchema(tables[Now]), Take(x), x.fb \in Seq(Piece)
      PROVE  FilesInv'
  <2>1. /\ Named' = Named \cup {Now}
        /\ DOMAIN final' = DOMAIN final \cup {Key(tables[Now])}
        /\ final'[Key(tables[Now])] = x
        /\ \A k \in DOMAIN final : k # Key(tables[Now]) => final'[k] = final[k]
    BY <1>2, <1>3, NamingTurn
  <2>2. \A i \in Named : Key(tables[i]) \in DOMAIN final /\ final[Key(tables[i])].fb \in Seq(Piece)
    BY DEF NamingInv, FilesInv, goTableNames
  <2>3. \A i \in Named' : final'[Key(tables[i])].fb \in Seq(Piece)
    BY <1>3, <2>1, <2>2
  <2>4. \A i \in Named' : goTableNames(i)'.fb \in Seq(Piece)
    BY <1>2, <2>3 DEF goTableNames
  <2> QED BY <1>2, <2>4 DEF FilesInv
<1>4. Spelled(tables[Now])
  BY <1>2 DEF Unnamed, FilesInv
<1>5. CASE PassOver
  BY <1>2, <1>5, PassingOver DEF PassOver, FilesInv, goTableNames
<1>6. CASE KeepBase
  <2>1. baseTableNames(tables[Now]).fb \in Seq(Piece)
    <3>1. 2 \in DOMAIN Digits
      BY DEF Digits
    <3> QED BY <1>4, <3>1, StemSpelled
  <2> QED BY <1>3, <1>6, <2>1 DEF KeepBase
<1>7. CASE TakeSuffix
  <2>1. PICK k \in 2 .. 9 : genSchema(tables[Now]) /\ Take(Suffixed(baseTableNames(tables[Now]), k))
    BY <1>7 DEF TakeSuffix
  <2>2. k \in DOMAIN Digits
    BY DEF Digits
  <2>3. Suffixed(baseTableNames(tables[Now]), k).fb \in Seq(Piece)
    BY <1>4, <2>2, StemSpelled
  <2> QED BY <1>3, <2>1, <2>3
<1> QED BY <1>5, <1>6, <1>7 DEF NameTables, NamingStep

\* Steps that leave the names and the files, or drop the files.
LEMMA OtherKeepsFiles ==
  ASSUME FilesInv, UNCHANGED namingVars,
         files' = {} \/ (UNCHANGED files /\ (phase' \in {"collect", "enrich", "name"}
                                               => phase \in {"collect", "enrich", "name"}))
  PROVE  FilesInv'
<1>1. UNCHANGED <<tables, final>> /\ Named' = Named /\ (\A i : goTableNames(i)' = goTableNames(i))
  BY DEF namingVars, Named, goTableNames
<1>2. \A f : OfPass(f)' <=> OfPass(f)
  BY <1>1 DEF OfPass, Repo, Search
<1> QED BY <1>1, <1>2 DEF FilesInv

LEMMA FilesInvStep ==
  ASSUME FilesInv, NamingInv, IsList(sch), \A i \in DOMAIN sch : Spelled(sch[i]), [Next]_generateVars
  PROVE  FilesInv'
<1>1. CASE DropSkipped
  <2> DEFINE I == {i \in DOMAIN sch : ~Skipped(sch[i])}
  <2>1. /\ phase = "enrich" /\ phase' = "name" /\ tables' = Picked(sch, I) /\ UNCHANGED <<turn, files>>
    BY <1>1 DEF DropSkipped
  <2>2. ToSet(tables') = {sch[i] : i \in I}
    BY <2>1, PickedFacts
  <2>3. \A i \in DOMAIN tables' : Spelled(tables'[i])
    <3>1. \A i \in DOMAIN tables' : tables'[i] \in ToSet(tables')
      BY DEF ToSet
    <3> QED BY <2>2, <3>1
  <2>4. turn' = 0 /\ files' = {}
    BY <2>1 DEF NamingInv, FilesInv
  <2>5. Named' = {}
    BY <2>4 DEF Named
  <2> QED BY <2>3, <2>4, <2>5 DEF FilesInv
<1>2. CASE Enriching \/ Fails \/ UNCHANGED generateVars
  BY <1>2, OtherKeepsFiles DEF Enriching, Fails, generateVars
<1> QED BY <1>1, <1>2, NamingKeepsFiles, PassKeepsFiles DEF Next

LEMMA SchemaSpelled == EnrichInv => IsList(sch) /\ \A i \in DOMAIN sch : Spelled(sch[i])
BY DEF EnrichInv, Whole

LEMMA NoFilesYet ==
  ASSUME tables = <<>>, NamingStart, files = {}
  PROVE  FilesInv
BY DEF NamingStart, FilesInv, Named

\* gen.go:17-22, pass_builders.go:138-146, for every catalog and DDL: two files
\* of one name there are only when a stem is another stem with _repo or _search,
\* or when a table is called models or pgb_helpers.
THEOREM PlainFilesDistinct == Spec => [](PlainStems => FilesDistinct)
<1> DEFINE Inv == NamesInv /\ FilesInv
<1>1. Init => Inv
  BY NamesInvInit, NoFilesYet DEF Init
<1>2. Inv /\ [Next]_generateVars => Inv'
  BY NamesInvStep, FilesInvStep, SchemaSpelled DEF NamesInv, SchemaInv
<1>3. Inv => (PlainStems => FilesDistinct)
  BY PlainStemsEnough, ApartEnough DEF NamesInv, SchemaInv
<1> HIDE DEF Inv
<1> QED BY <1>1, <1>2, <1>3, PTL DEF Spec

\* The same in both editions, whose files the command then writes one by one
\* (main.go:76-80), for tables of different schemas or names: two tables of one
\* key have one stem, and the later file replaces the earlier.
THEOREM EditionsFilesDistinct == StandaloneSpec => [](TablesDistinct /\ PlainStems => FilesDistinct)
<1> DEFINE Inv == EditionNamesInv /\ FilesInv
<1>1. StandaloneInit => Inv
  BY EditionNamesInvInit, NoFilesYet DEF StandaloneInit
<1>2. Inv /\ [StandaloneNext]_standaloneVars => Inv'
  <2> SUFFICES ASSUME EditionNamesInv, FilesInv, [StandaloneNext]_standaloneVars
               PROVE  FilesInv'
    BY EditionNamesInvStep
  <2>1. CASE Generating
    <3>1. Next
      BY <2>1 DEF Generating, Next
    <3> QED BY <3>1, FilesInvStep, SchemaSpelled DEF EditionNamesInv, EditionInv
  <2>2. CASE ~Generating
    <3>1. /\ UNCHANGED namingVars /\ UNCHANGED files
          /\ phase' \in {"collect", "enrich", "name"} => phase \in {"collect", "enrich", "name"}
      BY <2>2 DEF StandaloneNext, ReadStmt, ReadFails, buildRequest, Replay, MkdirAll, WriteFile,
         WriteFails, Report, Ends, standaloneVars, generateVars
    <3> QED BY <3>1, OtherKeepsFiles
  <2> QED BY <2>1, <2>2
<1>3. Inv => (TablesDistinct /\ PlainStems => FilesDistinct)
  BY PlainStemsEnough, ApartEnough DEF EditionNamesInv
<1> HIDE DEF Inv
<1> QED BY <1>1, <1>2, <1>3, PTL DEF StandaloneSpec

-----------------------------------------------------------------------------
(* The output directory *)

Contents(name) == {g \in files : g.name = name}

\* The directory is untouched until the first write; what has been written
\* since is there whole, under the name of a file of the run; nothing is lost.
DiskInv ==
  /\ phase \notin {"write", "stopped", "written"} => disk = OldDisk /\ written = {}
  /\ \A n \in DOMAIN disk : disk[n].pass # "old" => \E f \in files : f.name = n
  /\ OldFiles \subseteq DOMAIN disk
  /\ phase \in {"write", "written"} =>
       \A f \in written : f.name \in DOMAIN disk /\ disk[f.name] \in Contents(f.name)
  /\ phase = "written" => files \subseteq written

LEMMA Untouched ==
  /\ DOMAIN OldDisk = OldFiles
  /\ \A n \in OldFiles : OldDisk[n].pass = "old"
BY DEF OldDisk, File

\* One entry of the directory is replaced, or made.
LEMMA Replaced ==
  ASSUME NEW f, disk' = Put(f)
  PROVE  /\ DOMAIN disk' = DOMAIN disk \cup {f.name}
         /\ disk'[f.name] = f
         /\ \A m \in DOMAIN disk : m # f.name => disk'[m] = disk[m]
BY DEF Put

LEMMA DiskInvInit == StandaloneInit => DiskInv
BY Untouched DEF StandaloneInit, DiskInv

\* Nothing is written before Generate has returned.
LEMMA DiskInvBefore ==
  ASSUME DiskInv, phase \notin {"write", "stopped", "written"}, UNCHANGED outVars,
         phase' \notin {"written"}
  PROVE  DiskInv'
BY Untouched DEF DiskInv, outVars, OldDisk, Contents

LEMMA DiskInvStep == DiskInv /\ [StandaloneNext]_standaloneVars => DiskInv'
<1> SUFFICES ASSUME DiskInv, [StandaloneNext]_standaloneVars PROVE DiskInv'
  OBVIOUS
<1>1. CASE WriteFile
  <2>1. /\ NextFile \in files /\ NextFile \notin written
        /\ written' = written \cup {NextFile}
        /\ disk' = Put(NextFile)
        /\ phase = "write" /\ phase' = "write" /\ files' = files
    BY <1>1 DEF WriteFile, NextFile, ToWrite, Ends
  <2>2. /\ DOMAIN disk' = DOMAIN disk \cup {NextFile.name}
        /\ disk'[NextFile.name] = NextFile
        /\ \A m \in DOMAIN disk : m # NextFile.name => disk'[m] = disk[m]
    BY <2>1, Replaced
  <2>3. \A f \in written' : f.name \in DOMAIN disk' /\ disk'[f.name] \in Contents(f.name)'
    BY <2>1, <2>2 DEF DiskInv, Contents
  <2>4. \A n \in DOMAIN disk' : disk'[n].pass # "old" => \E f \in files' : f.name = n
    BY <2>1, <2>2 DEF DiskInv
  <2>5. QED
    BY <2>1, <2>2, <2>3, <2>4 DEF DiskInv
<1>2. CASE WriteFails
  <2>1. NextFile \in files /\ phase' = "stopped" /\ files' = files
    BY <1>2 DEF WriteFails, NextFile, ToWrite, Ends
  <2>2. CASE disk' = disk
    BY <2>1, <2>2 DEF DiskInv
  <2>3. CASE disk' = Put(File("part", 0, NextFile.name))
    <3>1. /\ DOMAIN disk' = DOMAIN disk \cup {NextFile.name}
          /\ \A m \in DOMAIN disk : m # NextFile.name => disk'[m] = disk[m]
      BY <2>3, Replaced DEF File
    <3>2. QED
      BY <2>1, <3>1 DEF DiskInv
  <2>4. QED
    BY <1>2, <2>2, <2>3 DEF WriteFails, Half
<1>3. CASE Report
  BY <1>3 DEF Report, Ends, ToWrite, outVars, DiskInv, Contents
<1>4. CASE UNCHANGED standaloneVars
  BY <1>4 DEF standaloneVars, generateVars, outVars, DiskInv, Contents
<1>5. CASE Generating
  <2>1. UNCHANGED outVars
    BY <1>5 DEF Generating
  <2>2. PassBuilders \/ PassStatics \/ PassSearch
          => phase \in {"builders", "statics", "search"} /\ phase' \in {"statics", "search", "done"}
    BY DEF PassBuilders, PassStatics, PassSearch, Pass
  <2>3. PassModels \/ Fails \/ Enriching \/ DropSkipped \/ NameTables
          => /\ phase \in {"enrich", "name", "builders", "statics", "search"}
             /\ phase' \in {"enrich", "name", "builders", "failed"}
    BY DEF PassModels, Fails, Enriching, DropSkipped, NameTables
  <2>4. \/ Enriching \/ DropSkipped \/ NameTables
        \/ PassModels \/ PassBuilders \/ PassStatics \/ PassSearch \/ Fails
    BY <1>5 DEF Generating
  <2>5. phase \notin {"write", "stopped", "written"} /\ phase' # "written"
    BY <2>2, <2>3, <2>4
  <2>6. QED
    BY <2>1, <2>5, DiskInvBefore
<1>6. CASE ReadStmt \/ ReadFails \/ buildRequest \/ Replay \/ MkdirAll
  <2>1. /\ phase \notin {"write", "stopped", "written"} /\ UNCHANGED outVars
        /\ phase' # "written"
    BY <1>6 DEF ReadStmt, ReadFails, buildRequest, Replay, MkdirAll, Ends,
           generateVars
  <2>2. QED
    BY <2>1, DiskInvBefore
<1>7. QED
  BY <1>1, <1>2, <1>3, <1>4, <1>5, <1>6 DEF StandaloneNext

\* main.go:67-83, for every run: a run that reports success has left every file
\* whole, and no run changes a file that it did not generate.
THEOREM DiskHolds == StandaloneSpec => []DiskHoldsTheRun
<1>1. DiskInv => DiskHoldsTheRun
  BY DEF DiskInv, DiskHoldsTheRun, Contents
<1>2. QED
  BY <1>1, DiskInvInit, DiskInvStep, PTL DEF StandaloneSpec
-----------------------------------------------------------------------------
(* Fields of structs and methods of descriptors *)

\* What is numbered stays apart: no identifier that occurs twice has, with a
\* number behind it, the form of another one.  Bound: nine of a base.
Numberable(bases) ==
  /\ \A i, j, k \in DOMAIN bases, d \in DOMAIN Digits :
        j # k /\ bases[j] = bases[k] => bases[i] # Append(bases[j], Digits[d])
  /\ \A j \in DOMAIN bases : Cardinality({i \in DOMAIN bases : bases[i] = bases[j]}) <= 9

\* Lists with one element behind them are equal only part by part.
LEMMA AppendsApart ==
  ASSUME NEW s, IsList(s), NEW t, IsList(t), NEW x, NEW y, Append(s, x) = Append(t, y)
  PROVE  s = t /\ x = y
<1>1. PICK S : s \in Seq(S)
  BY DEF IsList
<1>2. PICK T : t \in Seq(T)
  BY DEF IsList
<1> DEFINE u == Append(s, x)
<1>3. /\ DOMAIN u = DOMAIN s \cup {Len(s) + 1} /\ \A i \in DOMAIN s : u[i] = s[i]
      /\ u[Len(s) + 1] = x
  BY <1>1, AppendOne
<1>4. /\ DOMAIN u = DOMAIN t \cup {Len(t) + 1} /\ \A i \in DOMAIN t : u[i] = t[i]
      /\ u[Len(t) + 1] = y
  BY <1>2, AppendOne
<1> HIDE DEF u
<1>5. DOMAIN s = 1 .. Len(s) /\ Len(s) \in Nat /\ DOMAIN t = 1 .. Len(t) /\ Len(t) \in Nat
  BY ListDomain
<1>6. Len(s) = Len(t)
  <2>1. Len(s) + 1 \in DOMAIN t \cup {Len(t) + 1} /\ Len(t) + 1 \in DOMAIN s \cup {Len(s) + 1}
    BY <1>3, <1>4
  <2> DEFINE a == Len(s)
             b == Len(t)
  <2>2. a \in Nat /\ b \in Nat /\ a + 1 \in (1 .. b) \cup {b + 1} /\ b + 1 \in (1 .. a) \cup {a + 1}
    BY <2>1, <1>5
  <2> HIDE DEF a, b
  <2>3. a = b
    BY <2>2
  <2> QED BY <2>3 DEF a, b
<1>7. s \in Seq(S \cup T) /\ t \in Seq(S \cup T)
  BY <1>1, <1>2
<1>8. \A i \in 1 .. Len(s) : s[i] = t[i]
  BY <1>3, <1>4, <1>5, <1>6
<1>9. s = t
  <2> DEFINE R == S \cup T
  <2>1. s \in Seq(R) /\ t \in Seq(R)
    BY <1>7
  <2> HIDE DEF R
  <2> QED BY <2>1, <1>6, <1>8, SeqEqual
<1> QED BY <1>3, <1>4, <1>6, <1>9

\* The earlier places of a base, which numbered counts.
Seen(bases, i) == {j \in 1 .. (i - 1) : bases[j] = bases[i]}

\* How often a base was seen tells its places apart, and there is a digit for it.
LEMMA SeenCounts ==
  ASSUME NEW bases, IsList(bases), Numberable(bases), NEW i \in DOMAIN bases
  PROVE  /\ Cardinality(Seen(bases, i)) \in 0 .. 8
         /\ Cardinality(Seen(bases, i)) = 0 <=> Seen(bases, i) = {}
         /\ \A j \in Seen(bases, i) : /\ j \in DOMAIN bases /\ j < i /\ bases[j] = bases[i]
                                      /\ Cardinality(Seen(bases, j)) # Cardinality(Seen(bases, i))
<1> DEFINE m == Len(bases)
           All == {k \in DOMAIN bases : bases[k] = bases[i]}
           S(k) == Seen(bases, k)
<1>1. DOMAIN bases = 1 .. m /\ m \in Nat
  BY ListDomain
<1> HIDE DEF m
<1>2. i \in 1 .. m /\ 1 .. (i - 1) \subseteq 1 .. m /\ i \notin 1 .. (i - 1)
  BY <1>1
<1>3. IsFiniteSet(All)
  <2>1. IsFiniteSet(1 .. m) /\ All \subseteq 1 .. m
    BY <1>1, FS_Interval
  <2> QED BY <2>1, FS_Subset
<1>4. S(i) \subseteq All /\ i \in All /\ i \notin S(i)
  BY <1>1, <1>2 DEF Seen
<1> HIDE DEF All
<1>5. IsFiniteSet(S(i)) /\ Cardinality(S(i)) <= Cardinality(All) /\ Cardinality(S(i)) # Cardinality(All)
  BY <1>3, <1>4, FS_Subset
<1>6. Cardinality(All) <= 9
  BY DEF Numberable, All
<1>7. Cardinality(S(i)) \in Nat /\ Cardinality(All) \in Nat
  BY <1>3, <1>5, FS_CardinalityType
<1>8. Cardinality(S(i)) \in 0 .. 8
  <2> DEFINE a == Cardinality(S(i))
             b == Cardinality(All)
  <2>1. a \in Nat /\ b \in Nat /\ a <= b /\ a # b /\ b <= 9
    BY <1>5, <1>6, <1>7
  <2> HIDE DEF a, b
  <2>2. a \in 0 .. 8
    BY <2>1
  <2> QED BY <2>2 DEF a
<1>9. Cardinality(S(i)) = 0 <=> S(i) = {}
  BY <1>5, FS_EmptySet
<1>10. ASSUME NEW j \in S(i)
       PROVE  /\ j \in DOMAIN bases /\ j < i /\ bases[j] = bases[i]
              /\ Cardinality(S(j)) # Cardinality(S(i))
  <2>1. j \in 1 .. (i - 1) /\ bases[j] = bases[i]
    BY DEF Seen
  <2>2. j \in 1 .. m /\ j < i /\ 1 .. (j - 1) \subseteq 1 .. (i - 1) /\ j \notin 1 .. (j - 1)
    BY <2>1, <1>2
  <2>3. S(j) \subseteq S(i) /\ j \notin S(j)
    BY <2>1, <2>2 DEF Seen
  <2> HIDE DEF S
  <2>4. Cardinality(S(j)) # Cardinality(S(i))
    BY <2>3, <1>5, FS_Subset
  <2> QED BY <1>1, <2>1, <2>2, <2>4
<1> QED BY <1>8, <1>9, <1>10

\* The digits differ.
LEMMA DigitsApart ==
  ASSUME NEW a \in 0 .. 8, NEW b \in 0 .. 8, Digits[a + 1] = Digits[b + 1]
  PROVE  a = b
BY DEF Digits

\* pass_builders.go:205-217: numbered fields differ.
LEMMA NumberedApart ==
  ASSUME NEW bases, IsList(bases), \A i \in DOMAIN bases : IsList(bases[i]), Numberable(bases)
  PROVE  IsInjective(numbered(bases))
<1> DEFINE c(i) == Cardinality(Seen(bases, i))
           u == numbered(bases)
<1>1. DOMAIN u = DOMAIN bases
  BY DEF numbered
<1>2. \A i \in DOMAIN bases : u[i] = IF c(i) = 0 THEN bases[i] ELSE Append(bases[i], Digits[c(i) + 1])
  BY DEF numbered, Seen
<1>3. \A i \in DOMAIN bases : c(i) \in 0 .. 8 /\ (c(i) = 0 <=> Seen(bases, i) = {})
  BY SeenCounts
<1>4. ASSUME NEW i \in DOMAIN bases, NEW j \in Seen(bases, i)
      PROVE  j \in DOMAIN bases /\ j # i /\ bases[j] = bases[i] /\ c(j) # c(i)
  <2>1. j < i /\ i \in Int /\ j \in Int
    <3>1. i \in 1 .. Len(bases) /\ j \in 1 .. (i - 1)
      BY ListDomain DEF Seen
    <3> QED BY <3>1
  <2>2. j \in DOMAIN bases /\ bases[j] = bases[i] /\ c(j) # c(i)
    BY SeenCounts
  <2> QED BY <2>1, <2>2
<1>5. ASSUME NEW i \in DOMAIN bases, NEW j \in DOMAIN bases, i # j, bases[i] = bases[j]
      PROVE  i \in Seen(bases, j) \/ j \in Seen(bases, i)
  <2>1. i \in 1 .. Len(bases) /\ j \in 1 .. Len(bases) /\ Len(bases) \in Nat
    BY ListDomain
  <2>2. i \in 1 .. (j - 1) \/ j \in 1 .. (i - 1)
    BY <1>5, <2>1
  <2> QED BY <1>5, <2>2 DEF Seen
<1> HIDE DEF c, u
<1>6. ASSUME NEW i \in DOMAIN bases, NEW j \in DOMAIN bases, bases[i] = bases[j], c(i) = c(j)
      PROVE  i = j
  BY <1>4, <1>5, <1>6
<1>7. ASSUME NEW i \in DOMAIN bases, NEW j \in DOMAIN bases, c(j) # 0
      PROVE  bases[i] # Append(bases[j], Digits[c(j) + 1])
  <2>1. PICK k : k \in Seen(bases, j)
    BY <1>3, <1>7
  <2>2. k \in DOMAIN bases /\ k # j /\ bases[k] = bases[j]
    BY <2>1, <1>4
  <2>3. c(j) + 1 \in DOMAIN Digits
    <3>1. c(j) \in 0 .. 8 /\ DOMAIN Digits = 1 .. 9
      BY <1>3 DEF Digits
    <3> QED BY <3>1
  <2> QED BY <2>2, <2>3 DEF Numberable
<1>8. ASSUME NEW i \in DOMAIN bases, NEW j \in DOMAIN bases, c(i) # 0, c(j) # 0,
             Append(bases[i], Digits[c(i) + 1]) = Append(bases[j], Digits[c(j) + 1])
      PROVE  i = j
  <2>1. bases[i] = bases[j] /\ Digits[c(i) + 1] = Digits[c(j) + 1]
    BY <1>8, AppendsApart
  <2>2. c(i) = c(j)
    BY <2>1, <1>3, DigitsApart
  <2> QED BY <2>1, <2>2, <1>6
<1>9. ASSUME NEW i \in DOMAIN u, NEW j \in DOMAIN u, u[i] = u[j]
      PROVE  i = j
  <2>1. i \in DOMAIN bases /\ j \in DOMAIN bases
    BY <1>1
  <2>2. CASE c(i) = 0 /\ c(j) = 0
    BY <1>2, <1>6, <1>9, <2>1, <2>2
  <2>3. CASE c(i) = 0 /\ c(j) # 0
    BY <1>2, <1>7, <1>9, <2>1, <2>3
  <2>4. CASE c(i) # 0 /\ c(j) = 0
    BY <1>2, <1>7, <1>9, <2>1, <2>4
  <2>5. CASE c(i) # 0 /\ c(j) # 0
    BY <1>2, <1>8, <1>9, <2>1, <2>5
  <2> QED BY <2>2, <2>3, <2>4, <2>5
<1> QED BY <1>9 DEF IsInjective, u

\* Names of pieces have identifiers of pieces.
LEMMA IdentIsList ==
  ASSUME NEW name, IsList(name)
  PROVE  IsList(pascalIdent(name))
<1>1. PICK S : name \in Seq(S)
  BY DEF IsList
<1> DEFINE T == S \cup {"v"}
           parts == [i \in DOMAIN name |->
                       IF name[i] # "_" THEN <<name[i]>>
                       ELSE IF i < Len(name) /\ \E d \in DOMAIN Digits : name[i + 1] = Digits[d]
                         THEN <<"v">> ELSE <<>>]
           Q == Seq(T)
<1>2. DOMAIN name = 1 .. Len(name) /\ Len(name) \in Nat /\ \A i \in DOMAIN name : name[i] \in T
  BY <1>1
<1>3. \A i \in DOMAIN name : parts[i] \in Seq(T)
  <2> TAKE i \in DOMAIN name
  <2>1. name[i] \in T /\ "v" \in T
    BY <1>2
  <2> HIDE DEF T
  <2>2. <<name[i]>> \in Seq(T) /\ <<"v">> \in Seq(T) /\ <<>> \in Seq(T)
    BY <2>1
  <2> QED BY <2>2
<1>4. parts \in Seq(Q)
  <2>1. parts \in [1 .. Len(name) -> Q]
    BY <1>2, <1>3
  <2> HIDE DEF parts, Q
  <2> QED BY <1>2, <2>1
<1>5. pascalIdent(name) = FlattenSeq(parts)
  BY DEF pascalIdent
<1> HIDE DEF parts, T
<1>6. FlattenSeq(parts) \in Seq(T)
  BY <1>4, FlattenType DEF Q
<1> QED BY <1>5, <1>6 DEF IsList

\* The columns of a table, and what their names make.
LEMMA IdentsAreLists ==
  ASSUME NEW t
  PROVE  /\ IsList(Columns(t)) /\ DOMAIN identsOf(t) = DOMAIN Columns(t)
         /\ IsList(identsOf(t)) /\ \A k \in DOMAIN identsOf(t) : IsList(identsOf(t)[k])
<1> DEFINE I == {i \in DOMAIN ColumnOrder : ColumnOrder[i] \in t.cols}
           c == Columns(t)
           b == identsOf(t)
<1>1. IsList(ColumnOrder) /\ ToSet(ColumnOrder) = {ColumnOrder[i] : i \in DOMAIN ColumnOrder}
  BY PackageAssumption DEF IsList, ToSet
<1>2. I \subseteq DOMAIN ColumnOrder /\ c = Picked(ColumnOrder, I)
  BY DEF Columns
<1> HIDE DEF I
<1>3. IsList(c) /\ ToSet(c) = {ColumnOrder[i] : i \in I}
  BY <1>1, <1>2, PickedFacts
<1>4. \A k \in DOMAIN c : c[k] \in ToSet(ColumnOrder)
  BY <1>1, <1>2, <1>3 DEF ToSet
<1> HIDE DEF c
<1>5. DOMAIN b = DOMAIN c /\ \A k \in DOMAIN c : b[k] = pascalIdent(Spelling[c[k]])
  BY DEF identsOf, c
<1>6. \A k \in DOMAIN c : IsList(Spelling[c[k]])
  BY <1>4, PackageAssumption DEF IsList
<1>7. \A k \in DOMAIN c : IsList(b[k])
  BY <1>5, <1>6, IdentIsList
<1>8. b = [k \in DOMAIN c |-> b[k]]
  BY <1>5 DEF identsOf, c
<1> HIDE DEF b
<1>9. IsList(b)
  BY <1>3, <1>8, ChangedList
<1> QED BY <1>3, <1>5, <1>7, <1>9 DEF b, c

\* A number behind an identifier leaves it a list of pieces.
LEMMA NumberedLists ==
  ASSUME NEW bases, IsList(bases), \A i \in DOMAIN bases : IsList(bases[i])
  PROVE  /\ DOMAIN numbered(bases) = DOMAIN bases /\ IsList(numbered(bases))
         /\ \A i \in DOMAIN bases : IsList(numbered(bases)[i])
<1> DEFINE u == numbered(bases)
           c(i) == Cardinality(Seen(bases, i))
<1>1. DOMAIN u = DOMAIN bases /\ u = [i \in DOMAIN bases |-> u[i]]
  BY DEF numbered
<1>2. \A i \in DOMAIN bases : u[i] = IF c(i) = 0 THEN bases[i] ELSE Append(bases[i], Digits[c(i) + 1])
  BY DEF numbered, Seen
<1> HIDE DEF u, c
<1>3. IsList(u)
  BY <1>1, ChangedList
<1>4. \A i \in DOMAIN bases : IsList(u[i])
  BY <1>2, AppendList
<1> QED BY <1>1, <1>3, <1>4 DEF u

\* So fields are such lists, one for each column.
LEMMA FieldsAreLists ==
  ASSUME NEW t
  PROVE  /\ DOMAIN fieldNames(t) = DOMAIN Columns(t) /\ IsList(fieldNames(t))
         /\ \A i \in DOMAIN Columns(t) : IsList(fieldNames(t)[i])
BY IdentsAreLists, NumberedLists DEF fieldNames

\* Two lists make a list.
LEMMA ConcatList ==
  ASSUME NEW s, IsList(s), NEW t, IsList(t)
  PROVE  IsList(s \o t)
<1>1. PICK S : s \in Seq(S)
  BY DEF IsList
<1>2. PICK T : t \in Seq(T)
  BY DEF IsList
<1> DEFINE R == S \cup T
<1>3. s \in Seq(R) /\ t \in Seq(R)
  BY <1>1, <1>2
<1> HIDE DEF R
<1>4. s \o t \in Seq(R)
  BY <1>3, ConcatProperties
<1> QED BY <1>4 DEF IsList

\* Short tuples are lists.
LEMMA TupleIsList ==
  /\ IsList(<<>>) /\ \A a : IsList(<<a>>)
  /\ \A a, b : IsList(<<a, b>>)
<1>1. <<>> \in Seq({})
  OBVIOUS
<1>2. \A a : <<a>> \in Seq({a})
  OBVIOUS
<1>3. ASSUME NEW a, NEW b
      PROVE  <<a, b>> \in Seq({a, b})
  OBVIOUS
<1> QED BY <1>1, <1>2, <1>3 DEF IsList

\* The endings that capsFor gives fields.
FilterEndings ==
  {<<>>, <<"in">>, <<"like">>, <<"i", "like">>, <<"gt">>, <<"lt">>, <<"gte">>, <<"lte">>}
LEMMA CapsAreEndings ==
  ASSUME NEW c
  PROVE  capsFor(c) \in Seq(FilterEndings)
<1> DEFINE E == FilterEndings
<1>1. /\ <<>> \in E /\ <<"in">> \in E /\ <<"like">> \in E /\ <<"i", "like">> \in E
      /\ <<"gt">> \in E /\ <<"lt">> \in E /\ <<"gte">> \in E /\ <<"lte">> \in E
  BY DEF FilterEndings
<1> HIDE DEF E
<1>2. <<<<>>, <<"in">>, <<"like">>, <<"i", "like">>>> \in Seq(E)
  BY <1>1
<1>3. <<<<>>, <<"in">>, <<"gt">>, <<"lt">>, <<"gte">>, <<"lte">>>> \in Seq(E)
  BY <1>1
<1>4. <<<<>>, <<"in">>>> \in Seq(E) /\ <<<<>>>> \in Seq(E)
  BY <1>1
<1>5. <<>> \in Seq(E)
  OBVIOUS
<1> QED BY <1>2, <1>3, <1>4, <1>5 DEF capsFor, E

\* What a filter's fields are called before they are numbered.
LEMMA FilterBasesAreLists ==
  ASSUME NEW t
  PROVE  IsList(filterBases(t)) /\ \A i \in DOMAIN filterBases(t) : IsList(filterBases(t)[i])
<1> DEFINE c == Columns(t)
           f == fieldNames(t)
           N(i, e) == f[i] \o e
           X == {N(i, e) : i \in DOMAIN c, e \in FilterEndings} \cup {<<"extra">>}
           parts == [i \in DOMAIN c |-> filterIdents(t, i)]
           Q == Seq(X)
<1>1. IsList(c) /\ \A i \in DOMAIN c : IsList(f[i])
  BY IdentsAreLists, FieldsAreLists
<1>2. \A e \in FilterEndings \cup {<<"extra">>} : IsList(e)
  <2>1. /\ IsList(<<>>) /\ IsList(<<"in">>) /\ IsList(<<"like">>) /\ IsList(<<"i", "like">>)
        /\ IsList(<<"gt">>) /\ IsList(<<"lt">>) /\ IsList(<<"gte">>) /\ IsList(<<"lte">>)
        /\ IsList(<<"extra">>)
    BY TupleIsList
  <2> HIDE DEF c, f, X, parts, Q
  <2> QED BY <2>1 DEF FilterEndings
<1>3. filterBases(t) = FlattenSeq(parts) \o <<<<"extra">>>>
  BY DEF filterBases
<1>4. \A i \in DOMAIN c : \/ filterIdents(t, i) = <<>>
                          \/ filterIdents(t, i) = [k \in DOMAIN capsFor(c[i]) |-> N(i, capsFor(c[i])[k])]
  BY DEF filterIdents
<1> HIDE DEF f, c
<1>5. \A i \in DOMAIN c, e \in FilterEndings : IsList(N(i, e))
  <2> TAKE i \in DOMAIN c, e \in FilterEndings
  <2> DEFINE a == f[i]
  <2>1. IsList(a) /\ IsList(e)
    BY <1>1, <1>2
  <2> HIDE DEF a
  <2>2. IsList(a \o e)
    BY <2>1, ConcatList
  <2> QED BY <2>2 DEF a
<1> HIDE DEF N
<1>6. /\ \A x \in X : IsList(x)
      /\ \A i \in DOMAIN c, e \in FilterEndings : N(i, e) \in X
      /\ <<"extra">> \in X
  BY <1>2, <1>5
<1> HIDE DEF X
<1>7. ASSUME NEW i \in DOMAIN c
      PROVE  filterIdents(t, i) \in Seq(X)
  <2> DEFINE e == capsFor(c[i])
             g == [k \in DOMAIN e |-> N(i, e[k])]
  <2>1. e \in Seq(FilterEndings)
    BY CapsAreEndings
  <2>2. filterIdents(t, i) = <<>> \/ filterIdents(t, i) = g
    BY <1>4
  <2> HIDE DEF e
  <2>3. DOMAIN e = 1 .. Len(e) /\ Len(e) \in Nat /\ \A k \in DOMAIN e : e[k] \in FilterEndings
    BY <2>1
  <2>4. g \in [1 .. Len(e) -> X]
    BY <1>6, <2>3
  <2> HIDE DEF g
  <2>5. g \in Seq(X) /\ <<>> \in Seq(X)
    BY <2>3, <2>4
  <2> QED BY <2>2, <2>5
<1>8. parts \in Seq(Q)
  <2>1. DOMAIN c = 1 .. Len(c) /\ Len(c) \in Nat
    BY <1>1, ListDomain
  <2>2. parts \in [1 .. Len(c) -> Q]
    BY <1>7, <2>1
  <2> HIDE DEF parts, Q
  <2> QED BY <2>1, <2>2
<1> HIDE DEF parts
<1>9. FlattenSeq(parts) \in Seq(X)
  BY <1>8, FlattenType DEF Q
<1>10. filterBases(t) \in Seq(X)
  BY <1>3, <1>6, <1>9
<1>11. \A i \in DOMAIN filterBases(t) : filterBases(t)[i] \in X
  BY <1>10
<1> QED BY <1>6, <1>10, <1>11 DEF IsList

\* Identifiers that differ are not numbered.
LEMMA DifferentNumberable ==
  ASSUME NEW bases, IsInjective(bases)
  PROVE  Numberable(bases)
<1>1. ASSUME NEW j \in DOMAIN bases
      PROVE  Cardinality({i \in DOMAIN bases : bases[i] = bases[j]}) <= 9
  <2>1. {i \in DOMAIN bases : bases[i] = bases[j]} = {j}
    BY DEF IsInjective
  <2> QED BY <2>1, FS_Singleton
<1>2. \A j, k \in DOMAIN bases : bases[j] = bases[k] => j = k
  BY DEF IsInjective
<1> QED BY <1>1, <1>2 DEF Numberable

\* pass_statics.go:326-350: a struct of some of the columns keeps their names.
LEMMA FieldsForApart ==
  ASSUME NEW t, IsInjective(fieldNames(t)), NEW S
  PROVE  IsInjective(FieldsFor(t, S))
<1> DEFINE c == Columns(t)
           f == fieldNames(t)
           places == [i \in DOMAIN c |-> i]
           I == {i \in DOMAIN c : c[i] \in S}
           at == Picked(places, I)
           b == [k \in DOMAIN at |-> f[at[k]]]
<1>1. IsList(c) /\ IsList(f) /\ DOMAIN f = DOMAIN c /\ \A i \in DOMAIN c : IsList(f[i])
  BY IdentsAreLists, FieldsAreLists
<1>2. FieldsFor(t, S) = numbered(b)
  BY DEF FieldsFor
<1>3. \A x, y \in DOMAIN c : f[x] = f[y] => x = y
  BY <1>1 DEF IsInjective
<1> HIDE DEF c, f
<1>4. IsList(places) /\ IsInjective(places) /\ DOMAIN places = DOMAIN c /\ \A i \in DOMAIN c : places[i] = i
  <2>1. places = [i \in DOMAIN c |-> places[i]] /\ DOMAIN places = DOMAIN c /\ \A i \in DOMAIN c : places[i] = i
    OBVIOUS
  <2> HIDE DEF places
  <2>2. IsList(places)
    BY <1>1, <2>1, ChangedList
  <2> QED BY <2>1, <2>2 DEF IsInjective
<1>5. I \subseteq DOMAIN c
  OBVIOUS
<1> HIDE DEF places, I
<1>6. IsList(at) /\ IsInjective(at) /\ ToSet(at) = {places[i] : i \in I}
  BY <1>4, <1>5, PickedFacts, PickedApart
<1>7. \A k \in DOMAIN at : at[k] \in DOMAIN c
  BY <1>4, <1>5, <1>6 DEF ToSet
<1> HIDE DEF at
<1>8. DOMAIN b = DOMAIN at /\ b = [k \in DOMAIN at |-> b[k]] /\ \A k \in DOMAIN at : b[k] = f[at[k]]
  OBVIOUS
<1> HIDE DEF b
<1>9. IsList(b)
  BY <1>6, <1>8, ChangedList
<1>10. \A k \in DOMAIN b : IsList(b[k])
  BY <1>1, <1>7, <1>8
<1>11. IsInjective(b)
  BY <1>3, <1>6, <1>7, <1>8 DEF IsInjective
<1>12. Numberable(b)
  BY <1>11, DifferentNumberable
<1> QED BY <1>2, <1>9, <1>10, <1>12, NumberedApart

\* The names from which numbering makes fields that differ.
PlainFields ==
  \A i \in Named : Numberable(identsOf(tables[i])) /\ Numberable(filterBases(tables[i]))

\* Every struct of a table has fields that differ, if the bases can be numbered.
LEMMA PlainFieldsEnough == PlainFields => FieldsDistinct
<1> SUFFICES ASSUME PlainFields, NEW i \in Named
             PROVE  LET t == tables[i]
                    IN /\ IsInjective(fieldNames(t)) /\ IsInjective(FilterFields(t))
                       /\ IsInjective(FieldsFor(t, settable(t))) /\ IsInjective(FieldsFor(t, insertable(t)))
  BY DEF FieldsDistinct
<1> DEFINE t == tables[i]
<1>1. Numberable(identsOf(t)) /\ Numberable(filterBases(t))
  BY DEF PlainFields
<1> HIDE DEF t
<1>2. IsInjective(fieldNames(t))
  BY <1>1, IdentsAreLists, NumberedApart DEF fieldNames
<1>3. IsInjective(FilterFields(t))
  BY <1>1, FilterBasesAreLists, NumberedApart DEF FilterFields
<1>4. \A S : IsInjective(FieldsFor(t, S))
  BY <1>2, FieldsForApart
<1> QED BY <1>2, <1>3, <1>4 DEF t

\* pass_builders.go:202-204, pass_statics.go:326-350: in every schema, whatever the
\* columns are called, the fields of every struct differ when their bases can be
\* numbered; a, a_ and a2 cannot.
THEOREM FieldNamesApart == Spec => [](PlainFields => FieldsDistinct)
BY PlainFieldsEnough, PTL

\* No column's field is the accessor of a column that has to make way.
PlainAccessors ==
  \A i \in Named :
    LET f == fieldNames(tables[i])
    IN /\ Numberable(identsOf(tables[i]))
       /\ \A k, l \in DOMAIN f :
             f[k] \in {<<"select">>, <<"update">>, <<"delete">>} => f[l] # Append(f[k], "col")

\* What is suffixed is none of the entry points.
LEMMA EntryPointsFree ==
  ASSUME NEW m \in {"select", "update", "delete"}, NEW f
  PROVE  accessorName(f) # <<m>>
<1>1. \A x : IsList(<<x>>) /\ Len(<<x>>) = 1
  BY TupleIsList
<1>2. ASSUME NEW x
      PROVE  Len(Append(<<x>>, "col")) = 2
  <2> DEFINE s == <<x>>
  <2>1. IsList(s) /\ Len(s) = 1
    BY <1>1
  <2> HIDE DEF s
  <2>2. Len(Append(s, "col")) = Len(s) + 1
    BY <2>1, AppendList
  <2>3. Len(Append(s, "col")) = 2
    BY <2>1, <2>2
  <2> QED BY <2>3 DEF s
<1>3. ASSUME NEW x, NEW z PROVE Append(<<x>>, "col") # <<z>>
  BY <1>1, <1>2
<1>4. CASE f \in {<<"select">>, <<"update">>, <<"delete">>}
  <2>1. accessorName(f) = Append(f, "col")
    BY <1>4 DEF accessorName
  <2> QED BY <1>3, <1>4, <2>1
<1>5. CASE f \notin {<<"select">>, <<"update">>, <<"delete">>}
  BY <1>5 DEF accessorName
<1> QED BY <1>4, <1>5

\* Then no two methods of a descriptor meet, of whichever kinds they are.
LEMMA PlainAccessorsEnough == PlainAccessors => AccessorsDistinct
<1> SUFFICES ASSUME PlainAccessors, NEW i \in Named, NEW x \in Methods(i), NEW y \in Methods(i), x.id = y.id
             PROVE  x = y
  BY DEF AccessorsDistinct
<1> DEFINE t == tables[i]
           c == Columns(t)
           f == fieldNames(t)
           R == {<<"select">>, <<"update">>, <<"delete">>}
           Column(k) == [of |-> <<"column", c[k]>>, id |-> accessorName(f[k])]
           Entry(m) == [of |-> <<"table">>, id |-> <<m>>]
           Score == [of |-> <<"search">>, id |-> <<"score">>]
<1>1. DOMAIN f = DOMAIN c /\ \A k \in DOMAIN f : IsList(f[k])
  BY FieldsAreLists
<1>2. \A k, l \in DOMAIN f : f[k] = f[l] => k = l
  <2>1. Numberable(identsOf(t))
    BY DEF PlainAccessors
  <2>2. IsInjective(fieldNames(t))
    BY <2>1, IdentsAreLists, NumberedApart DEF fieldNames
  <2> QED BY <2>2 DEF IsInjective
<1>3. \A k, l \in DOMAIN f : f[k] \in R => f[l] # Append(f[k], "col")
  BY DEF PlainAccessors
<1>4. \A z \in Methods(i) : \/ \E k \in DOMAIN f : z = Column(k)
                            \/ \E m \in {"select", "update", "delete"} : z = Entry(m)
                            \/ z = Score /\ HasScore(i)
  BY DEF Methods, Accessors, EntryPoints, Some
<1>5. HasScore(i) => \A k \in DOMAIN f : Column(k).id # <<"score">>
  BY DEF HasScore, Accessors
<1> HIDE DEF c, f
<1>6. ASSUME NEW k \in DOMAIN f, NEW l \in DOMAIN f, accessorName(f[k]) = accessorName(f[l])
      PROVE  k = l
  <2>1. \A g : accessorName(g) = IF g \in R THEN Append(g, "col") ELSE g
    BY DEF accessorName
  <2> HIDE DEF R
  <2>2. CASE f[k] \in R /\ f[l] \in R
    <3>1. Append(f[k], "col") = Append(f[l], "col")
      BY <1>6, <2>1, <2>2
    <3>2. f[k] = f[l]
      BY <1>1, <3>1, AppendsApart
    <3> QED BY <1>2, <3>2
  <2>3. CASE f[k] \notin R /\ f[l] \notin R
    BY <1>2, <1>6, <2>1, <2>3
  <2>4. CASE f[k] \in R /\ f[l] \notin R
    BY <1>3, <1>6, <2>1, <2>4
  <2>5. CASE f[k] \notin R /\ f[l] \in R
    BY <1>3, <1>6, <2>1, <2>5
  <2> QED BY <2>2, <2>3, <2>4, <2>5
<1>7. ASSUME NEW k \in DOMAIN f, NEW m \in {"select", "update", "delete"}
      PROVE  accessorName(f[k]) # <<m>>
  BY EntryPointsFree
<1>8. ASSUME NEW m \in {"select", "update", "delete"}
      PROVE  <<m>> # <<"score">>
  BY <1>8
<1>9. /\ \A k : Column(k).id = accessorName(f[k])
      /\ \A m : Entry(m).id = <<m>>
      /\ Score.id = <<"score">>
  OBVIOUS
<1> HIDE DEF Column, Entry, Score
<1>10. CASE \E k \in DOMAIN f : x = Column(k)
  <2>1. PICK k \in DOMAIN f : x = Column(k)
    BY <1>10
  <2>2. x.id = accessorName(f[k])
    BY <1>9, <2>1
  <2>3. ASSUME NEW l \in DOMAIN f, y = Column(l)
        PROVE  k = l
    BY <1>6, <1>9, <2>2, <2>3
  <2>4. ASSUME NEW m \in {"select", "update", "delete"}, y = Entry(m)
        PROVE  FALSE
    BY <1>7, <1>9, <2>2, <2>4
  <2>5. ~(y = Score /\ HasScore(i))
    BY <1>5, <1>9, <2>1
  <2> QED BY <1>4, <2>1, <2>3, <2>4, <2>5
<1>11. CASE \E m \in {"select", "update", "delete"} : x = Entry(m)
  <2>1. PICK m \in {"select", "update", "delete"} : x = Entry(m)
    BY <1>11
  <2>2. x.id = <<m>>
    BY <1>9, <2>1
  <2>3. ASSUME NEW l \in DOMAIN f, y = Column(l)
        PROVE  FALSE
    BY <1>7, <1>9, <2>2, <2>3
  <2>4. ASSUME NEW n \in {"select", "update", "delete"}, y = Entry(n)
        PROVE  m = n
    <3>1. <<m>> = <<n>>
      BY <1>9, <2>2, <2>4
    <3> QED BY <3>1
  <2>5. ~(y = Score /\ HasScore(i))
    BY <1>8, <1>9, <2>2
  <2> QED BY <1>4, <2>1, <2>3, <2>4, <2>5
<1>12. CASE x = Score /\ HasScore(i)
  BY <1>4, <1>5, <1>8, <1>9, <1>12
<1> QED BY <1>4, <1>10, <1>11, <1>12

\* pass_builders.go:373-386, pass_search.go:118-129: no accessor takes the name of
\* an entry point, of Score or of another accessor, in any schema.
THEOREM AccessorsApart == Spec => [](PlainAccessors => AccessorsDistinct)
BY PlainAccessorsEnough, PTL

\* Tables whose names were free, and whose model has the plural that
\* singularize undoes.
PlainModels ==
  \A i \in Searched : hasStatic(i) =>
    /\ goTableNames(i) = baseTableNames(tables[i])
    /\ goTableNames(i).p = Append(goTableNames(i).s, "s") => goTableNames(i).s # <<>> /\ Last(goTableNames(i).s) \notin SS \cup U

\* The plural made by an s is undone, where the s is no part of the word.
LEMMA PluralUndone ==
  ASSUME NEW w, IsList(w), w # <<>>, Last(w) \notin SS \cup U
  PROVE  singularize(Append(w, "s")) = w
<1> DEFINE u == Append(w, "s")
           n == Len(w)
<1>1. n \in Nat /\ n # 0
  <2>1. PICK S : w \in Seq(S)
    BY DEF IsList
  <2> QED BY <2>1
<1>2. Len(u) = n + 1 /\ Last(u) = "s" /\ Before(u) = Last(w) /\ Front(u) = w
  <2>1. PICK S : w \in Seq(S)
    BY DEF IsList
  <2>2. Len(u) = n + 1 /\ u[n + 1] = "s" /\ \A i \in 1 .. n : u[i] = w[i]
    BY <2>1
  <2>3. Last(u) = "s"
    BY <2>2 DEF Last
  <2>4. (n + 1) - 1 = n /\ n \in 1 .. n
    BY <1>1
  <2> HIDE DEF u
  <2>5. Before(u) = Last(w)
    BY <2>2, <2>4 DEF Before, Last
  <2>6. Front(u) = w
    BY <2>1 DEF Front, u
  <2> QED BY <2>2, <2>3, <2>5, <2>6
<1> HIDE DEF u, n
<1>3. EndsIn(u, "s") /\ ~EndsIn(u, "ies") /\ ~EndsIn(u, "es") /\ u # <<"people">>
  <2>1. Len(<<"people">>) = 1
    OBVIOUS
  <2>2. n + 1 > 1 /\ n + 1 # 1
    BY <1>1
  <2> QED BY <1>2, <2>1, <2>2 DEF EndsIn
<1>4. singularize(u) = Front(u)
  BY <1>2, <1>3 DEF singularize
<1> QED BY <1>2, <1>4 DEF u

\* The model is the singular of the descriptor, where it was not suffixed.
LEMMA BaseNamesFollow ==
  ASSUME NEW t, IsList(pascalIdent(t.schema)), IsList(pascalIdent(t.name)),
         LET b == baseTableNames(t)
         IN b.p = Append(b.s, "s") => b.s # <<>> /\ Last(b.s) \notin SS \cup U
  PROVE  singularize(baseTableNames(t).p) = baseTableNames(t).s
<1> DEFINE foreign == t.schema \notin {<<>>, DefaultSchema}
           p == IF foreign THEN pascalIdent(t.schema) \o pascalIdent(t.name) ELSE pascalIdent(t.name)
           b == baseTableNames(t)
<1>1. b.s = singularize(p) /\ b.p = IF singularize(p) = p THEN Append(p, "s") ELSE p
  BY DEF baseTableNames
<1>2. IsList(p)
  BY ConcatList
<1> HIDE DEF p
<1>3. CASE singularize(p) = p
  <2>1. b.s = p /\ b.p = Append(p, "s")
    BY <1>1, <1>3
  <2>2. p # <<>> /\ Last(p) \notin SS \cup U
    BY <2>1
  <2> QED BY <1>2, <2>1, <2>2, PluralUndone
<1>4. CASE singularize(p) # p
  BY <1>1, <1>4
<1> QED BY <1>3, <1>4

\* What the models and builders passes declare for a table.
LEMMA DeclaredForSearch ==
  ASSUME NEW i \in Searched
  PROVE  /\ tables[i].cols # {} => Decl(i, <<"model">>, goTableNames(i).s) \in DeclaredTypes(i)
         /\ Decl(i, <<"table type">>, Append(typeBase(goTableNames(i)), "table")) \in DeclaredTypes(i)
         /\ \A k \in DOMAIN Columns(tables[i]) :
              Decl(i, <<"column type", Columns(tables[i])[k]>>, colType(goTableNames(i), fieldNames(tables[i])[k]))
                \in DeclaredTypes(i)
<1> DEFINE c == Columns(tables[i])
           f == fieldNames(tables[i])
           M == Decl(i, <<"model">>, goTableNames(i).s)
           T == Decl(i, <<"table type">>, Append(typeBase(goTableNames(i)), "table"))
           C(k) == Decl(i, <<"column type", c[k]>>, colType(goTableNames(i), f[k]))
           D == ModelDecls(i) \cup BuilderDecls(i)
<1>1. i \in Named /\ DOMAIN f = DOMAIN c
  BY FieldsAreLists DEF Searched
<1>2. D \subseteq Declarations
  <2> DEFINE E(j) == ModelDecls(j) \cup BuilderDecls(j) \cup StaticDecls(j)
             All == UNION {E(j) : j \in Named}
  <2>1. All \subseteq Declarations
    BY DEF Declarations
  <2>2. D \subseteq E(i)
    OBVIOUS
  <2> HIDE DEF D, E
  <2>3. E(i) \subseteq All
    BY <1>1
  <2> QED BY <2>1, <2>2, <2>3
<1>3. tables[i].cols # {} => M \in D
  BY DEF ModelDecls, Some
<1>4. T \in D /\ \A k \in DOMAIN f : C(k) \in D
  BY DEF BuilderDecls
<1> HIDE DEF c, f, D
<1>5. /\ M.table = i /\ M.what[1] = "model"
      /\ T.table = i /\ T.what[1] = "table type"
      /\ \A k \in DOMAIN c : C(k).table = i /\ C(k).what[1] = "column type"
  BY DEF Decl
<1>6. \A d \in D : d.table = i /\ d.what[1] \in {"model", "table type", "column type"} => d \in DeclaredTypes(i)
  BY <1>2 DEF DeclaredTypes
<1> HIDE DEF M, T, C
<1>7. /\ tables[i].cols # {} => M \in DeclaredTypes(i)
      /\ T \in DeclaredTypes(i) /\ \A k \in DOMAIN c : C(k) \in DeclaredTypes(i)
  BY <1>1, <1>3, <1>4, <1>5, <1>6
<1> QED BY <1>7 DEF M, T, C, c, f

\* What a search file uses is then among what was declared for its table.
LEMMA PlainModelsEnough == EmitInv /\ FilesInv /\ PlainModels => SearchTypesDeclared
<1> SUFFICES ASSUME EmitInv, FilesInv, PlainModels, phase = "done", NEW i \in Searched, NEW x \in SearchUses(i)
             PROVE  x \in {d.id : d \in DeclaredTypes(i)}
  BY DEF SearchTypesDeclared
<1> DEFINE t == tables[i]
           c == Columns(t)
           f == fieldNames(t)
<1>1. i \in DOMAIN tables
  <2>1. i \in 1 .. turn
    BY DEF Searched, Named
  <2> QED BY <2>1, ListDomain DEF EmitInv
<1>2. hasStatic(i) => singularize(goTableNames(i).p) = goTableNames(i).s
  <2>1. t.schema \in Seq(Piece) /\ t.name \in Seq(Piece)
    BY <1>1 DEF FilesInv, Spelled
  <2>2. IsList(pascalIdent(t.schema)) /\ IsList(pascalIdent(t.name))
    BY <2>1, IdentIsList DEF IsList
  <2>3. SUFFICES ASSUME hasStatic(i) PROVE singularize(goTableNames(i).p) = goTableNames(i).s
    OBVIOUS
  <2> DEFINE b == baseTableNames(t)
  <2>4. goTableNames(i) = b /\ (b.p = Append(b.s, "s") => b.s # <<>> /\ Last(b.s) \notin SS \cup U)
    BY <2>3 DEF PlainModels
  <2> HIDE DEF t
  <2>5. singularize(b.p) = b.s
    BY <2>2, <2>4, BaseNamesFollow
  <2> HIDE DEF b
  <2> QED BY <2>4, <2>5
<1>3. \/ hasStatic(i) /\ x = typeBase(goTableNames(i))
      \/ x = Append(typeBase(goTableNames(i)), "table")
      \/ \E k \in DOMAIN c : x = colType(goTableNames(i), f[k])
  BY DEF SearchUses, Some
<1>4. Decl(i, <<"model">>, goTableNames(i).s).id = goTableNames(i).s
  BY DEF Decl
<1>5. \A w, y : Decl(i, w, y).id = y
  BY DEF Decl
<1>6. CASE hasStatic(i) /\ x = typeBase(goTableNames(i))
  <2>1. t.cols # {}
    BY <1>6 DEF hasStatic
  <2>2. x = goTableNames(i).s
    BY <1>2, <1>6 DEF typeBase
  <2> QED BY <1>5, <2>1, <2>2, DeclaredForSearch
<1>7. CASE x = Append(typeBase(goTableNames(i)), "table")
  BY <1>5, <1>7, DeclaredForSearch
<1>8. CASE \E k \in DOMAIN c : x = colType(goTableNames(i), f[k])
  BY <1>5, <1>8, DeclaredForSearch
<1> QED BY <1>3, <1>6, <1>7, <1>8

\* pass_models.go:53-56: model, descriptor and file names agree wherever a
\* table has its names to itself and its plural is the one singularize undoes.
THEOREM SearchTypesFollow == Spec => [](PlainModels => SearchTypesDeclared)
<1> DEFINE Inv == SchemaInv /\ NamingInv /\ FilesInv /\ EmitInv
<1>1. Init => Inv
  BY CatalogAgrees, NoNamesYet, NoFilesYet, EmitInvInit DEF Init, SchemaInv
<1>2. Inv /\ [Next]_generateVars => Inv'
  BY SchemaInvStep, NamingInvStep, FilesInvStep, EmitInvStep, SchemaSpelled DEF SchemaInv
<1>3. Inv => (PlainModels => SearchTypesDeclared)
  BY PlainModelsEnough
<1> HIDE DEF Inv
<1> QED BY <1>1, <1>2, <1>3, PTL DEF Spec
=============================================================================
