------------------------------- MODULE Package -------------------------------
(***************************************************************************)
(* The names in one generated package: what the files of all passes declare *)
(* beside each other, the fields of the generated structs, the methods of   *)
(* the descriptors, and the types that the search files use.  The text is   *)
(* left out.  Identifiers are sequences of pieces in lower case, as in      *)
(* Naming; "unexported" begins those with a small letter.                   *)
(***************************************************************************)
EXTENDS Generate

CONSTANTS
  ColumnOrder,     \* the columns, in the order in which every catalog has them
  Spelling,        \* the pieces of the name of a column, or of the text of a path
  Family,          \* what predicates a column's type has
  NotNull,         \* the columns that are NOT NULL
  IncludeDefaults  \* the option

ASSUME PackageAssumption ==
  /\ IncludeDefaults \in BOOLEAN
  /\ ColumnOrder \in Seq(ToSet(ColumnOrder))
  /\ \A c \in ToSet(ColumnOrder) : Spelling[c] \in Seq(ToSet(Spelling[c]))

Columns(t) == Picked(ColumnOrder, {i \in DOMAIN ColumnOrder : ColumnOrder[i] \in t.cols})
Has(t, c, directive) == LET k == Append(Key(t), c) IN k \in DOMAIN dir /\ directive \in dir[k]
-----------------------------------------------------------------------------
(* Fields *)

\* Mutant: nothing is numbered.
unnumbered(bases) == bases

\* A base seen before takes its count: name, name2, name3.
\* Bound: nine of a base.
numbered(bases) ==
  [i \in DOMAIN bases |->
     LET n == Cardinality({j \in 1 .. (i - 1) : bases[j] = bases[i]})
     IN IF n = 0 THEN bases[i] ELSE Append(bases[i], Digits[n + 1])]

identsOf(t) == [i \in DOMAIN Columns(t) |-> pascalIdent(Spelling[Columns(t)[i]])]
fieldNames(t) == numbered(identsOf(t))

\* The fields of a struct that has some of the columns, numbered once more.
FieldsFor(t, S) ==
  LET at == Picked([i \in DOMAIN Columns(t) |-> i], {i \in DOMAIN Columns(t) : Columns(t)[i] \in S})
  IN numbered([k \in DOMAIN at |-> fieldNames(t)[at[k]]])

\* The endings of a column's filter fields: Eq has none.
capsFor(c) ==
  CASE Family[c] = "text" -> <<<<>>, <<"in">>, <<"like">>, <<"i", "like">>>>
    [] Family[c] \in {"ordered", "serial"} -> <<<<>>, <<"in">>, <<"gt">>, <<"lt">>, <<"gte">>, <<"lte">>>>
    [] Family[c] = "plain" -> <<<<>>, <<"in">>>>
    [] Family[c] \in {"json", "enum", "array"} -> <<<<>>>>
    [] OTHER -> <<>>
filterIdents(t, i) ==
  IF Has(t, Columns(t)[i], "no_filter") THEN <<>>
  ELSE [k \in DOMAIN capsFor(Columns(t)[i]) |-> fieldNames(t)[i] \o capsFor(Columns(t)[i])[k]]
filterBases(t) == FlattenSeq([i \in DOMAIN Columns(t) |-> filterIdents(t, i)]) \o <<<<"extra">>>>
FilterFields(t) == numbered(filterBases(t))

\* The single column that Get, Update, Upsert and Delete are keyed by.
heuristicPK(t) ==
  LET single == SelectSeq(t.uniques, LAMBDA u : Len(u) = 1)
  IN CASE Len(t.pk) = 1 -> ToSet(t.pk)
       [] Len(t.pk) # 1 /\ single # <<>> -> ToSet(single[1])
       [] t.pk = <<>> /\ t.uniques = <<>> -> {"id"} \cap NotNull
       [] OTHER -> {}
isSerial(c) == Family[c] = "serial"
insertable(t) ==
  {c \in t.cols \ t.generated : /\ ~t.view /\ ~isSerial(c)
                                /\ c \in t.hasDefault => IncludeDefaults}
settable(t) ==
  {c \in t.cols \ (t.generated \cup heuristicPK(t)) : ~t.view /\ ~isSerial(c) /\ ~Has(t, c, "no_patch")}
batchable(t) == \A c \in insertable(t) : Family[c] \in {"text", "ordered", "plain"}
-----------------------------------------------------------------------------
(* Declarations: of which table, what for, under which identifier *)

Decl(i, what, id) == [table |-> i, what |-> what, id |-> id]
Some(cond, S) == IF cond THEN S ELSE {}

\* Mutant: the descriptor's own name.
typeBaseOfVar(n) == n.p

\* The stem of the types of the builders and of the search pass.
typeBase(n) == singularize(n.p)

\* Mutant: column types without the table's name.
colTypeBare(n, field) == Append(field, "col")
colType(n, field) == typeBase(n) \o Append(field, "col")

ModelDecls(i) == Some(tables[i].cols # {}, {Decl(i, <<"model">>, goTableNames(i).s)})

BuilderDecls(i) ==
  LET names == fieldNames(tables[i])
  IN {Decl(i, <<"descriptor">>, goTableNames(i).p),
      Decl(i, <<"table type">>, Append(typeBase(goTableNames(i)), "table"))}
     \cup {Decl(i, <<"column type", Columns(tables[i])[k]>>, colType(goTableNames(i), names[k])) : k \in DOMAIN names}

StaticDecls(i) ==
  LET t == tables[i]
      p == goTableNames(i).p
      s == goTableNames(i).s
      D(what, id) == {Decl(i, <<what>>, id)}
      keyed == heuristicPK(t) \cap t.cols # {}
      inserts == insertable(t) # {}
      sets == settable(t) # {}
  IN D("filter", Append(s, "filter")) \cup D("where", <<"unexported">> \o p \o <<"filter", "where">>)
     \cup D("scan", <<"unexported", "scan">> \o s)
     \cup D("list", <<"list">> \o p) \cup D("count", <<"count">> \o p)
     \cup Some(keyed, D("get", <<"get">> \o s))
     \cup Some(sets, D("set", Append(s, "set")) \cup D("update bulk", <<"update">> \o p))
     \cup Some(sets /\ keyed, D("update", <<"update">> \o s))
     \cup Some(inserts, D("params", <<"insert">> \o s \o <<"params">>) \cup D("insert", <<"insert">> \o s))
     \cup Some(inserts /\ batchable(t), D("batch", <<"insert">> \o p) \cup
                                        D("sql", <<"unexported", "insert">> \o p \o <<"sql">>))
     \cup Some(inserts /\ keyed, D("upsert", <<"upsert">> \o s))
     \cup Some(~t.view, D("delete bulk", <<"delete">> \o p))
     \cup Some(~t.view /\ keyed, D("delete", <<"delete">> \o s))

HelperDecls ==
  Some(Named # {}, {Decl(0, <<"helper", ToString(h)>>, h) :
                      h \in {<<"set">>, <<"set", "of">>, <<"set", "null">>, <<"opt">>}})

Searched == {i \in Named : tables[i].search # {}}
SearchIndex(i) == CHOOSE s \in tables[i].search : TRUE
hasStatic(i) == SearchIndex(i).key # None /\ tables[i].cols # {}

\* The first of equal fields.
dedupeSearchFields(fields) ==
  FoldLeft(LAMBDA out, f : IF f \in ToSet(out) THEN out ELSE Append(out, f), <<>>, fields)

\* pathWrapperName: a type for each indexed path, called by the path or, when a
\* column or an earlier path has that name, with Path behind it.  Paths have no
\* alias here.
PathTypes(i) ==
  LET Short(f) == colType(goTableNames(i), pascalIdent(Spelling[f.path]))
      Long(f) == colType(goTableNames(i), Append(pascalIdent(Spelling[f.path]), "path"))
      columns == {colType(goTableNames(i), n) : n \in ToSet(fieldNames(tables[i]))}
      Add(out, f) ==
        LET taken == columns \cup {w.id : w \in ToSet(out)}
        IN Append(out, [field |-> f, id |-> IF Short(f) \in taken THEN Long(f) ELSE Short(f)])
      paths == SelectSeq(dedupeSearchFields(SearchIndex(i).fields), LAMBDA f : f.path # None)
  IN ToSet(FoldLeft(Add, <<>>, paths))

SearchDecls(i) ==
  {Decl(i, <<"path", w.field.col, w.field.path>>, w.id) : w \in PathTypes(i)}
  \cup Some(hasStatic(i),
            {Decl(i, <<"search opts">>, <<"search">> \o goTableNames(i).p \o <<"opts">>),
             Decl(i, <<"hit">>, Append(typeBase(goTableNames(i)), "hit")),
             Decl(i, <<"scan hit">>, <<"scan">> \o goTableNames(i).p),
             Decl(i, <<"search">>, <<"search">> \o goTableNames(i).p)})

Declarations ==
  HelperDecls \cup UNION {ModelDecls(i) \cup BuilderDecls(i) \cup StaticDecls(i) : i \in Named}
  \cup UNION {SearchDecls(i) : i \in Searched}
-----------------------------------------------------------------------------
(* Methods of a descriptor, and what a search file uses *)

\* Mutant: an accessor may take the name of an entry point.
accessorNamePlain(field) == field

accessorName(field) ==
  IF field \in {<<"select">>, <<"update">>, <<"delete">>} THEN Append(field, "col") ELSE field

Accessors(i) == {[of |-> <<"column", Columns(tables[i])[k]>>, id |-> accessorName(fieldNames(tables[i])[k])] :
                   k \in DOMAIN fieldNames(tables[i])}
EntryPoints(i) == {[of |-> <<"table">>, id |-> <<m>>] :
                     m \in {"select"} \cup Some(~tables[i].view, {"update", "delete"})}

\* Score is left to a column that is called so.
HasScore(i) == /\ i \in Searched /\ SearchIndex(i).key # None
               /\ \A a \in Accessors(i) : a.id # <<"score">>
Methods(i) == Accessors(i) \cup EntryPoints(i) \cup Some(HasScore(i), {[of |-> <<"search">>, id |-> <<"score">>]})

\* The types of a table that the models and builders passes declare.
DeclaredTypes(i) == {d \in Declarations : d.table = i /\ d.what[1] \in {"model", "table type", "column type"}}

\* The types that the search file takes for declared by the other passes.
SearchUses(i) ==
  LET plain == {f.col : f \in {x \in ToSet(SearchIndex(i).fields) : x.path = None}}
  IN Some(hasStatic(i), {typeBase(goTableNames(i))})
     \cup Some(HasScore(i), {Append(typeBase(goTableNames(i)), "table")})
     \cup {colType(goTableNames(i), fieldNames(tables[i])[k]) : k \in {j \in DOMAIN Columns(tables[i]) : Columns(tables[i])[j] \in plain}}
-----------------------------------------------------------------------------
(* Properties *)

\* integration_test.go:161, "the emitted package must compile": what the passes
\* declare for all tables has identifiers of its own, although each pass and
\* each file makes them without looking at the others.
DeclaredOnce ==
  phase = "done" => \A d, e \in Declarations : d.id = e.id => d = e

\* CONTRACTS.md:178-180, pass_builders.go:202-204: whatever the columns are
\* called and whatever endings filters add, the fields of a struct differ.
FieldsDistinct ==
  phase = "done" =>
    \A i \in Named :
      LET t == tables[i]
      IN /\ IsInjective(fieldNames(t)) /\ IsInjective(FilterFields(t))
         /\ IsInjective(FieldsFor(t, settable(t))) /\ IsInjective(FieldsFor(t, insertable(t)))

\* pass_builders.go:373-375, pass_search.go:118-129: a column's accessor never
\* takes the name of an entry point or of the search pass' Score.
AccessorsDistinct ==
  phase = "done" => \A i \in Named : \A m, n \in Methods(i) : m.id = n.id => m = n

\* pass_models.go:53-56: model, descriptor and file names agree, so what the
\* search file calls its table's model, descriptor type and column types are
\* the ones that the other passes declare for this table.
SearchTypesDeclared ==
  phase = "done" =>
    \A i \in Searched : SearchUses(i) \subseteq {d.id : d \in DeclaredTypes(i)}
=============================================================================
