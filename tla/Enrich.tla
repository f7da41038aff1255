------------------------------- MODULE Enrich -------------------------------
(***************************************************************************)
(* The DDL extraction of gen/load_ddl.go: the catalog sqlc hands over lacks *)
(* keys, defaults, generated columns, views, search indexes and directives, *)
(* so the schema files are parsed once more and every statement fills in    *)
(* its part of the tables built by gen/sqlcat.go.  One action is one        *)
(* statement; the files decide on the order, and a file that cannot be read *)
(* or parsed contributes no statement.                                     *)
(***************************************************************************)
EXTENDS Naming

CONSTANTS
  Catalogs,  \* what Build makes of a catalog: sequences of tables
  DDL,       \* the statements of the schema files
  Directives, \* skip, no_filter, no_patch, type
  None,      \* no column, no path
  MaxDDL     \* bound on the statements

ASSUME EnrichAssumption == MaxDDL \in Nat

VARIABLES
  sch,   \* the tables, being enriched
  dir,   \* DirectiveSet: directives per table key, or key and column
  done   \* history: the statements processed
enrichVars == <<sch, dir, done>>

\* A table as Build leaves it (sqlcat.go:66-71): a catalog knows no keys, fills,
\* views and indexes; a table and a column have one comment each, which counts
\* when it has directives.
Fields == {"schema", "name", "cols", "pk", "uniques", "generated", "hasDefault", "search", "skip",
           "view", "comments"}
Fresh(t) ==
  /\ Fields \subseteq DOMAIN t /\ Spelled(t)
  /\ t.pk = <<>> /\ t.uniques = <<>> /\ t.generated = {} /\ t.hasDefault = {}
  /\ t.search = {} /\ t.view = FALSE
  /\ \A c \in t.comments : c.directives \in SUBSET Directives \ {{}}
  /\ \A c, e \in t.comments : c.col = e.col => c = e

\* A database has no two tables of one schema and name.
ASSUME CatalogAssumption ==
  \A c \in Catalogs :
    /\ c \in Seq(ToSet(c)) /\ \A t \in ToSet(c) : Fresh(t)
    /\ \A i, j \in DOMAIN c : Key(c[i]) = Key(c[j]) => i = j

\* findTable: the first table of that name in the schema, or the default one.
\* The code compares without regard to case; names here are in one case.
Matches(t, rel) ==
  /\ t.name = rel.name
  /\ LET s == IF rel.schema = <<>> THEN DefaultSchema ELSE rel.schema
     IN t.schema = s \/ (t.schema = <<>> /\ s = DefaultSchema)
Found(rel) == {i \in DOMAIN sch : Matches(sch[i], rel) /\ \A j \in 1 .. (i - 1) : ~Matches(sch[j], rel)}
-----------------------------------------------------------------------------
(* Constraints *)

\* The key list of a constraint; a column's own constraint has an empty one.
KeysOf(con) == IF con.keys = <<>> /\ con.col # None THEN <<con.col>> ELSE con.keys

\* What the parser accepts: a key has columns.
Parsed(d) ==
  /\ Spelled(d.rel)
  /\ d.kind \in {"create", "alter"} =>
       /\ d.elts \in Seq(ToSet(d.elts))
       /\ \A e \in ToSet(d.elts) : e.type \in {"primary", "unique"} => KeysOf(e) # <<>>
ASSUME DDLAssumption == \A d \in DDL : Parsed(d)

\* Mutant: the last primary key or unique definition wins.
applyLast(t, con) ==
  CASE con.type = "primary" -> [t EXCEPT !.pk = KeysOf(con)]
    [] con.type = "unique" -> [t EXCEPT !.uniques = <<KeysOf(con)>>]
    [] OTHER -> t

\* applyConstraint: the first primary key stays, duplicate uniques are ignored.
applyConstraint(t, con) ==
  CASE con.type = "primary" /\ t.pk = <<>> -> [t EXCEPT !.pk = KeysOf(con)]
    [] con.type = "unique" /\ KeysOf(con) \notin {<<>>} \cup ToSet(t.uniques) ->
         [t EXCEPT !.uniques = Append(@, KeysOf(con))]
    [] OTHER -> t

\* An element of CREATE TABLE, where defaults and identities are both HasDefault
\* and columns the catalog does not know are skipped; or a constraint that ALTER
\* TABLE adds, which fills no column.
applyElement(kind, t, con) ==
  CASE kind = "create" /\ con.type = "generated" ->
         [t EXCEPT !.generated = @ \cup ({con.col} \cap t.cols)]
    [] kind = "create" /\ con.type \in {"identity", "default"} ->
         [t EXCEPT !.hasDefault = @ \cup ({con.col} \cap t.cols)]
    [] OTHER -> applyConstraint(t, con)

\* The elements of a statement in their order.
applyElements(kind, t, elts) == FoldLeft(LAMBDA x, con : applyElement(kind, x, con), t, elts)
-----------------------------------------------------------------------------
(* The extractors *)

Process(d) == Len(done) < MaxDDL /\ done' = Append(done, d)

\* What a statement says goes to the table it names; without one it is ignored.
OnTable(rel, New(_)) ==
  sch' = [i \in DOMAIN sch |-> IF i \in Found(rel) THEN New(sch[i]) ELSE sch[i]]

EnrichCreate(d) ==
  /\ d.kind = "create" /\ Process(d)
  /\ OnTable(d.rel, LAMBDA t : applyElements("create", t, d.elts))
  /\ UNCHANGED dir

\* Only the key constraints of the table: ADD COLUMN is skipped with the
\* constraints of its column, like every other command.
OfTable(elts) == Picked(elts, {k \in DOMAIN elts : elts[k].col = None})
EnrichAlterTable(d) ==
  /\ d.kind = "alter" /\ Process(d)
  /\ OnTable(d.rel, LAMBDA t : applyElements("alter", t, OfTable(d.elts)))
  /\ UNCHANGED dir

\* A later search index replaces an earlier one; other indexes are ignored.
\* Elements that name no column are dropped; without key_field the first plain
\* column is the key.
SearchOf(d) ==
  LET known == SelectSeq(d.fields, LAMBDA f : f.col # None)
      plain == SelectSeq(known, LAMBDA f : f.path = None)
  IN [fields |-> known,
      key |-> IF d.key # None THEN d.key ELSE IF plain # <<>> THEN plain[1].col ELSE None]
EnrichIndex(d) ==
  /\ d.kind = "index" /\ Process(d)
  /\ OnTable(d.rel, LAMBDA t : IF d.using \in {"bm25", "paradedb"}
                                 THEN [t EXCEPT !.search = {SearchOf(d)}] ELSE t)
  /\ UNCHANGED dir

\* CREATE VIEW and CREATE MATERIALIZED VIEW.
EnrichView(d) ==
  /\ d.kind = "view" /\ Process(d)
  /\ OnTable(d.rel, LAMBDA t : [t EXCEPT !.view = TRUE])
  /\ UNCHANGED dir

\* COMMENT ON TABLE or COLUMN: directives override those of the catalog's
\* comment and of earlier statements; a comment without any changes nothing.
DirectiveKey(i, col) == IF col = None THEN Key(sch[i]) ELSE Append(Key(sch[i]), col)
Commented(d) == {i \in Found(d.rel) : d.col = None \/ d.col \in sch[i].cols}

\* Mutant: what the catalog said stays.
EnrichCommentKeepsCatalog(d) ==
  /\ d.kind = "comment" /\ Process(d)
  /\ LET keys == IF d.directives = {} THEN {} ELSE {DirectiveKey(i, d.col) : i \in Commented(d)}
     IN dir' = [k \in DOMAIN dir \cup keys |-> IF k \in DOMAIN dir THEN dir[k] ELSE d.directives]
  /\ UNCHANGED sch
EnrichComment(d) ==
  /\ d.kind = "comment" /\ Process(d)
  /\ LET keys == IF d.directives = {} THEN {} ELSE {DirectiveKey(i, d.col) : i \in Commented(d)}
     IN dir' = [k \in DOMAIN dir \cup keys |-> IF k \in keys THEN d.directives ELSE dir[k]]
  /\ UNCHANGED sch

\* CREATE TABLE AS shares its node with materialized views and is ignored.
EnrichTableAs(d) ==
  /\ d.kind = "table_as" /\ Process(d)
  /\ UNCHANGED <<sch, dir>>

enrichStmt(d) ==
  \/ EnrichCreate(d) \/ EnrichAlterTable(d) \/ EnrichIndex(d)
  \/ EnrichView(d) \/ EnrichTableAs(d) \/ EnrichComment(d)
EnrichAny == \E d \in DDL : enrichStmt(d)

\* Build: the tables of the catalog, with the directives of its comments.
EnrichStart ==
  /\ sch \in Catalogs
  /\ dir = [k \in UNION {{DirectiveKey(i, c.col) : c \in sch[i].comments} : i \in DOMAIN sch} |->
              CHOOSE ds \in SUBSET Directives :
                \E i \in DOMAIN sch : \E c \in sch[i].comments : DirectiveKey(i, c.col) = k /\ c.directives = ds]
  /\ done = <<>>
-----------------------------------------------------------------------------
(* Properties *)

Statements(kinds, i) == {j \in DOMAIN done : done[j].kind \in kinds /\ i \in Found(done[j].rel)}
Elements(i) == UNION ({ToSet(done[j].elts) : j \in Statements({"create"}, i)}
                      \cup {ToSet(OfTable(done[j].elts)) : j \in Statements({"alter"}, i)})
KeysSaid(i, type) == {KeysOf(con) : con \in {e \in Elements(i) : e.type = type}}
LatestOf(J) == {done[j] : j \in {k \in J : \A l \in J : l <= k}}

\* load_ddl.go:18-27: the schema says of every table what the statements say of
\* it, in whatever order the files bring them: keys from CREATE and from ALTER,
\* each once, server-filled columns, views, and the last search index.
EnrichedAsDeclared ==
  \A i \in DOMAIN sch :
    LET t == sch[i]
        created == UNION {ToSet(done[j].elts) : j \in Statements({"create"}, i)}
        Filled(types) == {e.col : e \in {x \in created : x.type \in types}} \cap t.cols
        indexes == {j \in Statements({"index"}, i) : done[j].using \in {"bm25", "paradedb"}}
    IN /\ {t.pk} \ {<<>>} = KeysSaid(i, "primary")
       /\ ToSet(t.uniques) = KeysSaid(i, "unique") /\ IsInjective(t.uniques)
       /\ t.generated = Filled({"generated"})
       /\ t.hasDefault = Filled({"identity", "default"})
       /\ t.view <=> Statements({"view"}, i) # {}
       /\ t.search = {SearchOf(d) : d \in LatestOf(indexes)}

\* load_ddl.go:526-529: the directives of a table and of a column are those of
\* the last comment that had any, and only where no comment had are they those
\* of the catalog; a comment never reaches another table or column.
DirectivesAreTheLatest ==
  \A i \in DOMAIN sch : \A col \in sch[i].cols \cup {None} :
    LET said == {j \in Statements({"comment"}, i) : done[j].col = col /\ done[j].directives # {}}
        now == {d.directives : d \in LatestOf(said)}
        before == {c.directives : c \in {x \in sch[i].comments : x.col = col}}
        k == DirectiveKey(i, col)
    IN (IF k \in DOMAIN dir THEN {dir[k]} ELSE {}) = IF now # {} THEN now ELSE before
=============================================================================
