------------------------------ MODULE Catalog ------------------------------
(***************************************************************************)
(* The catalog of the standalone command (cmd/pgb/main.go): collectStmt     *)
(* folds the parsed DDL into schema.Tables, in file order, where the plugin *)
(* edition gets the catalog of sqlc's analyzer.  Both feed one generator    *)
(* and must say the same.                                                   *)
(*                                                                         *)
(* sqlc is external: what it has of a valid script is kept beside, as what  *)
(* each statement means for the tables it names.  Enum types and array      *)
(* bounds are left out.                                                     *)
(***************************************************************************)
EXTENDS Enrich

CONSTANTS
  Script,  \* the statements that may be in the schema files
  Schemas  \* the schemas besides the default one, in the order they are created in

ASSUME ScriptAssumption ==
  /\ \A d \in Script : Parsed(d)
  /\ Schemas \in Seq(ToSet(Schemas)) /\ IsInjective(Schemas)
  /\ ToSet(Schemas) \cap {<<>>, DefaultSchema} = {}

VARIABLES
  schema,    \* schema.Tables; a schema that was not written is <<>>
  sqlc,      \* the tables of sqlc's catalog, each under its schema
  collected  \* the statements of the files, as far as they were read
catalogVars == <<schema, sqlc, collected>>

\* Elements of CREATE TABLE and commands of ALTER TABLE: a column, followed by
\* the constraints of its own (e.col); constraints of the table (e.keys).
ImpliesNotNull(e) == e.type \in {"notnull", "primary", "identity"}
ColumnOf(e) == [name |-> e.col, type |-> e.of, notnull |-> FALSE]
MarkNotNull(cols, names) ==
  [k \in DOMAIN cols |-> IF cols[k].name \in names THEN [cols[k] EXCEPT !.notnull = TRUE] ELSE cols[k]]
Without(cols, names) == Picked(cols, {k \in DOMAIN cols : cols[k].name \notin names})
-----------------------------------------------------------------------------
(* collectStmt *)

\* column, and the primary keys of the table.
collectElement(cols, e) ==
  CASE e.type = "column" -> Append(cols, ColumnOf(e))
    [] ImpliesNotNull(e) -> MarkNotNull(cols, ToSet(KeysOf(e)))
    [] OTHER -> cols

\* ADD COLUMN and DROP COLUMN; constraints of the table are passed over.
alterCommand(cols, e) ==
  CASE e.type = "drop" -> Without(cols, {e.col})
    [] e.col # None /\ e.type # "drop" -> collectElement(cols, e)
    [] OTHER -> cols

\* The elements and commands of a statement act in their order.
collect(kind, cols, e) == IF kind = "alter" THEN alterCommand(cols, e) ELSE collectElement(cols, e)
collectElements(kind, cols, elts) == FoldLeft(LAMBDA cs, e : collect(kind, cs, e), cols, elts)

\* A partition declares no columns: it gets those of every table that has the
\* parent's name.
ofParents(parents) ==
  FlattenSeq([k \in DOMAIN parents |->
    FlattenSeq([i \in DOMAIN schema |-> IF schema[i].name = parents[k].name THEN schema[i].cols ELSE <<>>])])

\* Mutant: the last table of that name, whatever its schema.
sourcesByName(from) ==
  LET see(srcs, r, i) == IF schema[i].name = r.name THEN r.name :> i @@ srcs ELSE srcs
      each == [i \in DOMAIN schema |-> i]
  IN FoldLeft(LAMBDA srcs, r : FoldLeft(LAMBDA s, i : see(s, r, i), srcs, each), <<>>, from)

\* The sources of a view: a map by the name in FROM, schema-aware; what is no
\* plain table there (a join, a subquery) is not in d.from.
sources(from) ==
  LET see(srcs, r, i) ==
        IF schema[i].name = r.name
           /\ \/ r.schema # <<>> /\ schema[i].schema = r.schema
              \/ r.schema = <<>> /\ (r.name \notin DOMAIN srcs \/ schema[i].schema = <<>>)
        THEN r.name :> i @@ srcs ELSE srcs
      each == [i \in DOMAIN schema |-> i]
  IN FoldLeft(LAMBDA srcs, r : FoldLeft(LAMBDA s, i : see(s, r, i), srcs, each), <<>>, from)

\* The type of a view's column, by what is projected and the columns of that
\* name: several sources are searched in the order of a Go map.
Projected(x, found) ==
  CASE x.fn = "column" -> {[name |-> x.as, type |-> c.type, notnull |-> c.notnull] : c \in found}
    [] x.fn \in {"count", "sum", "avg"} -> {[name |-> x.as, type |-> "bigint", notnull |-> TRUE]}
    [] x.fn \in {"min", "max", "coalesce"} -> {[name |-> x.as, type |-> c.type, notnull |-> FALSE] : c \in found}
    [] OTHER -> {}
viewTable(d) ==
  LET srcs == sources(d.from)
      found(x) == {c \in UNION {ToSet(schema[srcs[n]].cols) : n \in DOMAIN srcs} : c.name = x.col}
      may == [k \in DOMAIN d.targets |-> Projected(d.targets[k], found(d.targets[k]))]
  IN {[schema |-> <<>>, name |-> d.rel.name, cols |-> cs] :
        cs \in {f \in [DOMAIN may -> UNION {may[k] : k \in DOMAIN may}] :
                  f # <<>> /\ \A k \in DOMAIN may : f[k] \in may[k]}}
-----------------------------------------------------------------------------
(* What sqlc makes of a statement; a query that neither edition can resolve   *)
(* projects nothing here, and has no table there either.                      *)

Home(rel) == IF rel.schema = <<>> THEN DefaultSchema ELSE rel.schema
Of(rel) == {i \in DOMAIN sqlc : sqlc[i].schema = Home(rel) /\ sqlc[i].name = rel.name}
ColumnsOf(rel) == UNION {ToSet(sqlc[i].cols) : i \in Of(rel)}
DeclaredNotNull(elts) == UNION {ToSet(KeysOf(e)) : e \in {x \in ToSet(elts) : ImpliesNotNull(x)}}
NamedIn(elts, type) == {e.col : e \in {x \in ToSet(elts) : x.type = type}}
Declared(elts) ==
  LET cols == Picked(elts, {k \in DOMAIN elts : elts[k].type = "column"})
  IN MarkNotNull([k \in DOMAIN cols |-> ColumnOf(cols[k])], DeclaredNotNull(elts))

Analyzed(d) ==
  CASE d.kind = "create" ->
         LET cols == IF d.parents = <<>> THEN Declared(d.elts)
                     ELSE sqlc[CHOOSE i \in Of(d.parents[1]) : TRUE].cols
         IN Append(sqlc, [schema |-> Home(d.rel), name |-> d.rel.name, cols |-> cols])
    [] d.kind = "alter" ->
         [i \in DOMAIN sqlc |->
            IF i \notin Of(d.rel) THEN sqlc[i]
            ELSE [sqlc[i] EXCEPT !.cols =
                    Without(@, NamedIn(d.elts, "drop")) \o Declared(d.elts)]]
    [] d.kind \in {"view", "table_as"} /\ d.targets # <<>> ->
         LET column(x) == CHOOSE c \in Projected(x, {y \in ColumnsOf(d.from[x.of]) : y.name = x.col}) : TRUE
         IN Append(sqlc, [schema |-> Home(d.rel), name |-> d.rel.name,
                          cols |-> [k \in DOMAIN d.targets |-> column(d.targets[k])]])
    [] OTHER -> sqlc

\* What Postgres accepts after the statements before.
Creatable(rel) == Of(rel) = {} /\ Home(rel) \in {DefaultSchema} \cup ToSet(Schemas)
Valid(d) ==
  CASE d.kind = "create" -> Creatable(d.rel) /\ \A p \in ToSet(d.parents) : Of(p) # {}
    [] d.kind = "alter" ->
         /\ Of(d.rel) # {}
         /\ LET has == {c.name : c \in ColumnsOf(d.rel)}
            IN NamedIn(d.elts, "drop") \subseteq has /\ NamedIn(d.elts, "column") \cap has = {}
    [] d.kind \in {"view", "table_as"} ->
         /\ Creatable(d.rel)
         /\ \A x \in ToSet(d.targets) : x.fn = "count" \/ \E c \in ColumnsOf(d.from[x.of]) : c.name = x.col
    [] OTHER -> Of(d.rel) # {}
-----------------------------------------------------------------------------
Collect(d) ==
  /\ Len(collected) < MaxDDL /\ Valid(d)
  /\ collected' = Append(collected, d)
  /\ sqlc' = Analyzed(d)

CollectCreate(d) ==
  /\ d.kind = "create" /\ Collect(d)
  /\ LET own == collectElements("create", <<>>, d.elts)
     IN schema' = Append(schema, [schema |-> d.rel.schema, name |-> d.rel.name,
                                  cols |-> IF own # <<>> THEN own ELSE ofParents(d.parents)])

CollectAlter(d) ==
  /\ d.kind = "alter" /\ Collect(d)
  /\ schema' = [i \in DOMAIN schema |->
       IF schema[i].name = d.rel.name
         THEN [schema[i] EXCEPT !.cols = collectElements("alter", @, d.elts)] ELSE schema[i]]

\* CREATE VIEW, CREATE MATERIALIZED VIEW, CREATE TABLE AS; one that does not
\* resolve is dropped with a warning.
CollectView(d) ==
  /\ d.kind \in {"view", "table_as"} /\ Collect(d)
  /\ \/ \E t \in viewTable(d) : schema' = Append(schema, t)
     \/ viewTable(d) = {} /\ UNCHANGED schema

CollectOther(d) ==
  /\ d.kind \in {"index", "comment"} /\ Collect(d)
  /\ UNCHANGED schema

CollectStmt ==
  \E d \in Script : CollectCreate(d) \/ CollectAlter(d) \/ CollectView(d) \/ CollectOther(d)

CatalogStart == schema = <<>> /\ sqlc = <<>> /\ collected = <<>>

\* buildRequest puts the tables without a schema first; Build gives them theirs.
Requested ==
  LET unnamed == {i \in DOMAIN schema : schema[i].schema = <<>>}
      tables0 == Picked(schema, unnamed) \o Picked(schema, DOMAIN schema \ unnamed)
  IN [k \in DOMAIN tables0 |-> [tables0[k] EXCEPT !.schema = IF @ = <<>> THEN DefaultSchema ELSE @]]

\* Build walks the schemas of sqlc's catalog, and the tables of each.
TablesIn(s) == Picked(sqlc, {i \in DOMAIN sqlc : sqlc[i].schema = s})
Built == TablesIn(DefaultSchema) \o FlattenSeq([k \in DOMAIN Schemas |-> TablesIn(Schemas[k])])
-----------------------------------------------------------------------------
(* Properties *)

\* cmd/pgb/main.go:3-7: the standalone edition sees what the plugin edition
\* sees, after every statement of every script: the same tables in the same
\* order, with the same columns, types and nullability.
EditionsAgree == Requested = Built
=============================================================================
