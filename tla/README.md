# pgb: verification of the query builder, its transactions and its generated code

pgb generates typed Go data access code from PostgreSQL DDL. Two parts matter at
run time: a small library, `core`, that builds SQL from expression trees and
runs transactions, and the functions that `gen` writes for every table. This
directory holds TLA+ models of both, of the generator and of the command that
feeds it, the TLC configurations that check them and proofs, checked by tlapm,
about every part that keeps state: the emitter, the builders, `WithTx`, the
generated functions, and the generator with its two editions.
File and line references are to `src/`.

## The system

| component | source | state | operations | interacts by |
|---|---|---|---|---|
| expression tree, emitter | `core/expr.go`, `core/emit.go` | text, arguments, placeholder counter | `emit` of each node, `Emit` | recursion over a tree; the counter is shared by everything in one statement |
| statement builders | `core/stmt.go`, `core/listopt.go` | one mutable object per statement | constructors, fluent setters, `SQL` | a CTE is a pointer to another builder; `SQL` drives the emitter |
| `WithTx` | `core/dbtx.go` | the open transaction of each call | begin, fn, commit, rollback | the pool, the server, the caller's fn, the caller's context |
| generated statics | `gen/pass_statics.go`, `helpers` | the rows of a table | Get, List, Count, Insert, InsertBatch, Update, UpdateBulk, Upsert, Delete, DeleteBulk | one statement per call |
| typed builders pass | `gen/pass_builders.go` | names chosen so far | table and field naming, predicates | feeds every later pass |
| DDL enrichment | `gen/load_ddl.go` | the schema being completed | one merge per DDL statement | reads DDL in file order |
| catalog to IR | `gen/sqlcat.go`, `ir/ir.go` | - | conversion, directives | |
| pipeline | `gen/gen.go` | files produced | enrich, drop skipped tables, four passes in order | a file name per pass and table |
| page cursors | `core/page.go` | - | encode, decode | nothing yet |
| search | `core/search.go` | - | constructors of trees | |
| quoting, keywords, table metadata | `core/emit.go`, `core/keywords.go`, `core/tablemeta.go` | - | text conversion | |
| models and search passes | `gen/pass_models.go`, `gen/pass_search.go` | - | structs; search methods and functions | the names the builders pass declares |
| type map, options | `gen/maptype.go`, `gen/options.go` | - | text generation | |
| standalone command | `cmd/pgb` | catalog under construction, output directory | fold over DDL statements, request, write the files | hands its catalog and its files to the pipeline |
| sqlc plugin command | `cmd/sqlc-gen-pgb` | - | one call of `Generate` | sqlc gives the catalog and writes the files |

What is hard here:

* *order of side effects in the emitter*: numbering depends on when a node binds
  its arguments relative to writing its text;
* *aliasing*: a builder stays mutable after it was rendered and after it became
  a CTE of another;
* *precedence*: text is concatenated, so a missing pair of parentheses changes a
  query silently;
* *transactions under faults*: errors, panics, `runtime.Goexit`, ended
  contexts, lost connections and lost answers to COMMIT, at any nesting depth;
* *the pool*: a finite number of connections and callers that wait;
* *order and names in the generator*: DDL statements of any files in any order,
  directives that replace each other, and one package that must hold the names
  and files of all schemas;
* *two editions*: the catalog comes from sqlc's analyzer or from a fold over the
  same statements, and both must make the generator write the same code; files
  are written one by one over those of an earlier run;
* *histories of generated calls*: what an upsert does to a column that an update
  may not touch, which column is the key, what an empty set or where means.

`PROJECT.json` lists these as hazards, each with its line and the properties
that would notice it going wrong.

## The modules

### Emitter, EmitterProofs, SqlMeaning, MCEmitter

`Emitter` is `core/emit.go` and the `emit` methods of `core/expr.go`. Go's
recursion becomes a stack `todo` of what is still to be written; one action is
one node's `emit` up to its first call on a child, which is enough to see the
order in which text, arguments and counter change. `sb`, `args` and `n` are
the struct's fields. Text is a sequence of words and placeholders; a placeholder
also remembers, as history, the value the tree had there.

| action | code |
|---|---|
| `Str`, `EmitCol`, `Param`, `ParamNull` | `emitter.str`, `Col.emit`, `emitter.param` |
| `EmitBin`, `EmitCall`, `EmitNamed`, `EmitCast` | the methods of those nodes |
| `EmitAnd`, `EmitOr`, `EmitNot` | the combinators, over `emitJoined` |
| `EmitRaw` | `Raw.emit` with `replaceQs` |

`SqlMeaning` gives the words their meaning for Postgres: how NOT, AND, OR and
parentheses group, and what a placeholder refers to. It uses recursive operators
and is for TLC only. Texts without a connective are atoms.

Properties:

* `Numbering`: the text holds exactly `$1..$n`, in order, one argument each.
  It relies on the contract of `Raw`, as many `?` as arguments.
* `Binding`: every placeholder refers to the value of its place. No contract.
* `ConnectivesApart`: an AND and an OR never stand in one group of the text, where
  precedence would decide between them. `Level` counts the open parentheses, and
  two places are in one group (`OneGroup`) when nothing between them is outside of
  it. It is the part of the meaning that can be said without recursion.
* `MeaningPreserved`: the finished text reads back as the tree.

### Stmt, MCStmt, StmtProofs, StmtTextProofs

A program owns builders, calls setters in any order, renders, and goes on.
`Stmt` extends `Emitter`: `SQLStart` makes a fresh emitter, `EmitStmt` pushes
what `emit` of a statement goes through (the clauses in the order of the code,
`SelectItems`, `InsertItems`, `UpdateItems`, `DeleteItems`), `EmitNode` is any
step of the emitter, `SQLReturn` is the return. `Where` stands for `Where` and
`WhereExpr` of all three statements; nil parts vanish in `appendWhere`. A CTE is
the number of a builder, so later calls on it show through the pointer, as in
Go. `asked` is history: the predicates and the page the caller wanted. `Column` is
the set of the words that quoted names of columns render to.

* `NoFullTableMutation`: an Update or Delete is refused exactly when no
  predicate was given, whatever the history.
* `WhereMeansConjunction`: the condition sent means the conjunction of all
  predicates given, with the caller's values.
* `LastPageWins`: LIMIT and OFFSET are the last positive values asked for,
  through `Limit`, `Offset` or `ApplyList`.
* `Numbering`, `Binding`, `ConnectivesApart`: also across CTEs and every clause.
* `WhereIsNeverBlank`: no WHERE without a condition. It holds as long as every tree
  renders to something; `stmt_blank` has an And without parts.

### WithTx, TxContract, MCWithTx, WithTxProofs

`WithTx` models `core.WithTx` for several clients on one pool. `frames` are a
client's open calls, `tx` a connection's stack of write sets: level 1 is the
transaction, each savepoint adds one. The actions follow the function:
`CallOnPool` / `Acquire` / `AcquireFails` and `CallOnTx` (`b.Begin`),
`FnEnds` (what fn returned, or that it panicked or left), `RollbackOnError`,
`RollbackOnPanic` (the deferred function, with the panic going on into the block
around), `Commit`, `CommitFails`, `CommitAnswerLost`. After `Goexit` the client
takes no step: the deferred function sees no panic, nothing is rolled back.
pgx, the pool and the server are external and modelled from how the code uses
them: a handle whose context is done sends nothing; a failed COMMIT or ROLLBACK
of the outermost handle closes the connection; a savepoint handle does nothing
of the kind.

`TxContract` is the promise of `dbtx.go:45-48` without connections: nested
blocks that hand their writes to the block around on success and lose them on
failure. `ImplementsContract` maps each open frame to the write set of its
savepoint level and says that `WithTx` implements `TxContract`.

* `FailedBlocksLeaveNothing`, `NoPartialBlock`, `SuccessIsDurable`: atomicity.
* `ConnectionsAccounted`: no connection is leaked, shared, or returned with a
  transaction open. A connection that `Goexit` leaves out still belongs to the
  frames of the goroutine that is gone, and the property counts it there: it
  describes that loss, which the code has, and does not exclude it. The run
  checks it while contexts last, the theorem `Accounted` also when they end.
* `ConnectionsComeBack`, `WaitersServed`: liveness.

### Statics, MCStatics, StaticsProofs

`Statics` has two halves. The operators `heuristicPK`, `insertable`,
`settable`, `upsertColumns`, `batchable` are the generator's decisions for a
table. The actions are the functions it generates, each one statement and
therefore one atomic step; interleaving clients is interleaving calls. A table
is a record of what `ir.Table` and the directives say. The server's half is
external: constraints, defaults, sequences, generated columns, `= ANY` with
NULL. `asked` is history: what callers last asked each cell to be.

* `NoWriteUndone`: rows are what callers asked for; no call changes a cell its
  caller did not name.
* `NeverPatched`: `pgb:no_patch` columns and keys never change.
* `SingleRow`: an Update, an Upsert or a Delete reaches only rows of the key it
  was given, what an upsert adds has that key although its params may hold
  another, and it is one row at most when the key is a declared constraint. On the
  heuristic id, which may repeat, it can be several.
* `BulkStaysInWhere`, `NotFoundIsAbsent`, `BatchIsAtomic`: how far the other
  functions reach, and that an answer is true.

### Naming, Enrich, Generate, MCGenerate, GenerateProofs

These three follow one run of the generator. `Enrich` is `load_ddl.go`: the schema
`sch` starts as what `Build` makes of sqlc's catalog (`EnrichStart`), and each DDL
statement is one action, `EnrichCreate`, `EnrichAlterTable`, `EnrichIndex`,
`EnrichView`, `EnrichComment`, that fills in the table `findTable` finds. `dir` is
the `DirectiveSet`. `done` is history: the statements so far. `Naming` is the loop
of `goTableNames`, one step per table: `PassOver` for the system schemas,
`KeepBase`, and `TakeSuffix` for a table whose names are taken. `final` is the
code's map from schema and name to the names given, which a second table of the
same schema and name overwrites, `turn` counts the tables passed, and
`goTableNames(i)` is what a pass gets for the i-th. Names are sequences of pieces
in lower case, which is what the code compares; `pascalIdent` and `singularize`
are modelled by what they do to them. `Generate` extends both with `DropSkipped`
and the four passes, which add files.

* `EnrichedAsDeclared`: in any order of statements, a table's keys, defaults,
  generated columns, view flag and search index are those declared of it.
* `DirectivesAreTheLatest`: the directives are those of the last comment that had
  any. That a comment without directives clears nothing is the code's own rule; the
  section on divergences says where a document reads otherwise.
* `NamesDistinct`: no two tables share a descriptor, a model or a file stem, also
  when a suffixed name is the own name of a later table.
* `EarlierTablesFirst`: a table has its base names or the lowest suffix, but for
  names that earlier tables were given: none is moved for the sake of a later
  table, or of the base names of one that was moved itself.
  `pass_builders.go:142-145` promises it.
* `SkippedEmitNothing`: a table skipped by the catalog or by DDL leaves no file,
  every other table has its files.

### Catalog, Standalone, CatalogProofs

`Catalog` is `collectStmt` of `cmd/pgb/main.go`. `schema` is `schema.Tables`,
each action one statement: `CollectCreate` (columns, then constraints, in the
order of the elements; a partition copies its parent's columns), `CollectAlter`,
`CollectView` (with `sources` for the map of FROM and `viewTable` for what the
projections resolve to, any of several where the code ranges over a map),
`CollectOther`. Beside it runs `sqlc`, what the other edition is given: an
external part that says what each statement means for the table it names, and
`Valid`, which statements succeed. `collected` is the statements read so far.
`Schemas` lists the schemas besides the default one in sqlc's order. `Requested` is
what the command makes of `schema`, `Built` what `Build` (`sqlcat.go:87-104`) makes
of sqlc's catalog: it walks the schemas, and the tables of each.

* `EditionsAgree`: after every statement, `Requested` has the tables, the order, the
  columns, the types and the nullability of `Built`.

`Standalone` composes `Catalog` with `Generate` for both editions. The plugin
edition starts where `Generate` does. The standalone edition reads (`ReadStmt`,
`ReadFails`), turns the catalog into a request (`buildRequest`), lets `Enrich`
read the same statements again in the same order (`Replay`), generates, and
writes (`MkdirAll`, `WriteFile`, `WriteFails`, `Report`) into a directory that
holds files of an earlier run. A failing `os.WriteFile` leaves the old file or a
piece of the new one.

* `DiskHoldsTheRun`: success means every file is there whole; a run that fails
  before the first write has touched nothing (`failed`, against `stopped` after
  it); no run changes a file that it did not generate. A failing write does leave
  a directory of new and old files.

All properties of `Generate` are checked over both editions, and `GenerateProofs`
is about both; `CatalogProofs` compares their catalogs.

### DataLemmas

Facts about data that several proofs need: induction over the natural numbers,
over lists, `FlattenSeq`, `Append`, lists of unknown elements, and lists with every
element changed (`Mapped`).

### Package, MCPackage

`Package` extends `Generate` with what the files say to each other: the
identifiers that each pass declares for each table (`ModelDecls`, `BuilderDecls`,
`StaticDecls`, `SearchDecls`, `HelperDecls`), the fields of the model, filter, set
and params structs (`fieldNames`, `FilterFields`, `FieldsFor`, all numbered by the
one rule `numbered`), the methods of a descriptor (`accessorName` and the entry
points), and the types a search file takes for granted (`SearchUses`). What
exists at all depends on keys, views, directives and families of types, so the
decisions of `pass_statics.go` are here too. It adds no step: it is about the
state in which `Generate` is done.

* `DeclaredOnce`: no identifier is declared twice in the package.
* `FieldsDistinct`: the fields of a struct differ.
* `AccessorsDistinct`: the methods of a descriptor differ.
* `SearchTypesDeclared`: the search file's types are those of its table.
* `FilesDistinct` (of `Generate`): no two passes write one file.

They hold on the tables of `package`, whose names come close; where they do meet,
`package_types` and the section on divergences show it.

## The runs

| run | question | bounds |
|---|---|---|
| `emitter` | Is every tree rendered with the right numbers, values and grouping? | all combinations of And, Or, Not over four leaves to depth two, a selection to depth three; every node kind with nil, casts, named arguments |
| `stmt` | Is the condition that is sent the one asked for, and never absent from a mutation; does one numbering run through clauses and shared CTEs; does the last page win? | five calls, several renderings among them: on one builder for conditions, on two for everything else (`session` says which) |
| `withtx` | Are blocks atomic under every exit and fault, and do savepoints and connections implement nested blocks? | two clients, two connections, two blocks of two writes, depth two, nesting on the transaction or the pool, one fault |
| `withtx_live` | Does every connection come back and every waiter get one? | two clients nesting on the pool, three connections, contexts ending at any moment |
| `statics` | Do generated functions write only what they are told, where they are told? | ten tables, two values and NULL, two rows, unbounded histories |
| `generate` | In both editions: do catalog and schema say what the DDL declares, does each table get names and files of its own, or none when skipped, and does the directory hold them? | plugin: six catalogs of up to four tables with colliding names in three schemas, any four of twelve DDL statements; standalone: any valid script of four out of ten statements, failures at each step |
| `package` | Do the files of one package fit together? | three of six tables in every order, two of seven statements |

Runs that TLC must find violated, because code and documents disagree:

| run | the code | the document |
|---|---|---|
| `stmt_blank` | `Where(And{})` leaves the text `WHERE` with nothing after it | `expr.go:82-83`: "empty And renders nothing (the WHERE layer simply omits it)" |
| `withtx_timeout` | the rollback of a nested block uses the caller's context; when it has ended nothing is sent, and the outer commit publishes the failed block's writes | `dbtx.go:45-46`: "Rollback on error or panic" |
| `statics_identity` | `UpsertX` of a table keyed by GENERATED ALWAYS AS IDENTITY names the key in its INSERT list | `load_ddl.go:374-379`: the column must not join INSERT column lists |
| `editions` | ALTER TABLE finds its table by name alone: a column added to `users` is added to `app.users` too | `cmd/pgb/main.go:5-6`: "both editions emit byte-identical code from the same schema" |
| `package_types` | a column's type is stem, field and `Col`, without a separator: `users.role_id` and `user_roles.id` both declare `UserRoleIDCol` | `integration_test.go:161`: "The emitted package must compile" |

Why the bounds suffice. The emitter's parentheses depend on a node and its
parent only, so depth three shows every pair with something around it, and the
numbering is proved without any bound. Five builder calls give a constructor,
two setters, a rendering and one more of either; setters append or overwrite,
so a third call of one kind does nothing a second did not. Two clients
and depth two give every pair of blocks that can disturb each other; deeper
savepoints, where the one below is itself a savepoint, are covered by the proofs.
Two rows and two values let a key, a unique column and a filter tell rows apart.
Four statements give one that sets, one that replaces and two for other
tables; in `package`, names meet between two tables, and a third lets a suffix
happen beside them. In a script, two tables of one name, a view on one of them and a
statement about the view. Suffixes have one digit, enough for nine tables after one name.
Model values are symmetric where the configuration says so (clients and
connections); no symmetry is used with liveness.

Deadlock is checked in `withtx_live`, `withtx_timeout` and the statics runs. It is
not in `withtx`, where a client waits for ever when Goexit took the connections or
both clients nest on the pool, nor in the emitter, builder and generator runs,
which end.

### Fairness

Only `withtx_live` assumes any. Each goroutine keeps running (weak fairness of
its steps inside `WithTx` and fn), fn ends, and the pool serves waiters in their
order (strong fairness of `Acquire`), which `pgxpool` documents. Nothing is
assumed about contexts: they may or may not end. With nesting on the pool the
run needs `clients * (depth - 1) + 1` connections; with fewer, all clients hold
one and wait for the next, and only a context's end gets them out. The function
itself does nothing about that: with two connections for `Conn` in
`MCWithTxLive.cfg`, TLC finds `WaitersServed` violated.

## The proofs

`EmitterProofs` proves, for every set of trees, words and values:

* `TypeCorrect`: `Spec => []TypeOK`, an inductive invariant as it stands. The
  work is in the sequences: what `emitJoined`, `replaceQs` and casts produce.
* `BindingInvariant`: `Spec => []Binding`. Inductive together with `TypeOK`:
  arguments are only appended (`BindingWrite`), so an old placeholder stays
  resolved, and new text resolves by `ParamResolves` and `RawResolves`.
* `NumberingInvariant`: `RawBalanced => (Spec => []Numbering)`. Written text
  whose placeholders run from `a+1` to `b`, followed by text from `b+1` to `c`,
  runs from `a+1` to `c` (`ConsecutiveConcat`). For a Raw the ordinals of its
  `?`s are a bijection onto `1..k` (`OrdinalOnto`, an injection between finite
  sets of one size). `RawBalanced` is the contract the comment on `Raw` states;
  without it the theorem is false.
* `ConnectivesApartInvariant`: `ConnectivesApart`, when no tree brings a bare
  connective (`Encloses`) and no Raw mixes them (`RawsUnmixed`). The text alone is
  not enough for an induction: what is still to write decides whether the text so
  far can go wrong. `ApartInv` is about the text to be, `Whole == sb \o todo`, the
  words written and the trees to come: its parentheses close and its connectives
  are apart. A step either moves a word from `todo` to `sb`, which leaves `Whole`
  alone, or replaces the tree at the head by what it renders to (`FillsAt` says
  where everything stands afterwards and at which level). What a tree renders to is
  closed and has no connective outside its parentheses (`StepRenders`), so two
  places of one group are both inside it, or were in one group before
  (`GroupsApart`, `GroupsOutside`, `UnmixedFill`).

`WithTxProofs` proves what `WithTx` promises for any number of clients,
connections, blocks, writes and faults, at any depth. The theorems build on each
other:

* `Types` and `Accounted`: `Spec => []TypeOK` and `Spec => []ConnectionsAccounted`.
  `ConnectionsAccounted` alone is not inductive: it counts what is in the pool and
  in frames, but a rollback or a commit needs to know which frame gives the
  connection back. `SafeInv` adds `Stacks`: connections in the pool carry no
  transaction (`PoolClean`), a frame's connection is out of the pool and still
  has the frame's savepoint (`Held`), levels of one client grow along its frames
  (`Grow`), two clients never share a connection (`Apart`), every connection
  that is out has the frame that took it (`Rooted`); and `Waits`: who is past fn
  has a frame to end.
* `NothingOfFailed` and `AllOrNothing`: `FailedBlocksLeaveNothing` and
  `NoPartialBlock`. `AtomInv` adds where writes are (`BlocksInv`, `LevelsInv`,
  `WritesInv`): those of an open block on its own level and on no other, those of
  a failed block nowhere but on a connection that is lost, those of a block that
  ended well all on one level or all in the store.
* `Durable` and `Refines`: `SuccessIsDurable` and `ImplementsContract`. `RefInv`
  adds that a block's marks are finitely many and numbered (`Counted`), so that a
  new one is fresh, and that every mark on a connection was written by the block
  it names (`Traced`). Then `Acquire` and
  `CallOnTx` map to opening a block or failing to, `Write` to adding, `Commit` to a
  success of a root or a nested block, the rollbacks and `CommitFails` to a
  failure, `CommitAnswerLost` to an unknown end; every other step is a stutter.

Atomicity, durability and the refinement assume `~CtxMayEnd`: no context ends
inside a block. The assumption is needed, since `withtx_timeout` shows a failed
block's writes published without it. Types and the account of connections are
proved with and without ending contexts.

`StmtProofs` proves, for any number of builders, predicates and calls with any
arguments, in any order with renderings between them:

* `StatementsTypeCorrect` (`StmtTypeOK`), `NoMutationWithoutCondition`
  (`NoFullTableMutation`) and `LastPositivePageIsHeld`. `StmtInv` is the inductive
  invariant. Beside the types it says that the CTEs of a builder, and those
  still to be written, are builders that exist; that a builder has conjuncts
  exactly when its caller gave a predicate, and holds the last positive page
  asked for; and that a mutation which is being rendered has a conjunct. The
  last part needs the history: `SQLStart` looks at the conjuncts, the property at
  what was asked. For `ApplyList` the proof follows the fold over the options
  one by one (`OneByOne`) and shows that the last positive one is what is left
  (`ApplyListKeeps`).
* `StatementNumbering` and `StatementBinding`: `Numbering` (if every Raw is
  balanced) and `Binding`, for the text being written and, by `SentNumbered` and
  `SentResolved`, for every text sent. The steps inside a tree are those of
  `EmitterProofs`, whose step lemmas are cited; what is new is that the clauses
  and CTEs a statement goes through are items of the same `todo` (`Items`), so
  that one numbering runs through all of them.

`StmtTextProofs` proves, under the same generality, what stands where in the text:

* `StatementConnectivesApart`: `ConnectivesApart`, and the same of every text sent.
* `LastPositivePageIsSent`: `LastPageWins`, when no tree writes LIMIT or OFFSET
  outside parentheses.
* `WhereHasACondition`: `WhereIsNeverBlank`, when every tree renders to something
  (`NoBlank`). The run `stmt_blank` shows what happens otherwise.

All three come from one invariant, `RenderedInv`, which says that the text to be and
every text sent are `WellFormed`: closed, CTEs in parentheses of their own, AND and
OR apart, LIMIT and OFFSET followed by the number held, or absent, and every WHERE
followed by something that begins no other clause. A statement's clauses are well
formed when `SQL()` has laid them out (`ItemsWellFormed`, by `Composes`: whatever is
closed under concatenation and parentheses and holds the parts holds the whole),
and stay so when a tree gives way to its text (`NodeStep`) or a CTE, which stands
between parentheses and may hold a LIMIT, a WHERE or an OR of its own, to its clauses
(`StatementStep`). What the properties read off the finished text then follows
(`PageIsRead`, `WhereIsRead`), for the page together with `StatementBinding`.

`StaticsProofs` proves, for every kind of table and any number of rows, callers
and draws: `StaticsTypeCorrect` (`TypeOK`), `WritesAreKept` (`NoWriteUndone`),
`NoPatchColumnsStay` (`NeverPatched`), `SingleRowOfTheKey` (`SingleRow`),
`BulkBounded` (`BulkStaysInWhere`), `NotFoundIsTrue` (`NotFoundIsAbsent`) and
`BatchAtomic` (`BatchIsAtomic`). `StaticsInv` adds to the types that the keys of
the table hold, which makes a declared key select one row at most
(`KeyedIsSingle`); that the rows reached and added are those of the key needs no
declared key (`OfTheKey`). Every call
is first shown to have one of four effects (`Effect`): it writes nothing, adds
fresh rows, patches columns that may be set, or removes rows; the theorems
follow from that. `NoWriteUndone` does not hold of a table with columns that can
be set but not inserted, which an upsert resets (see below): `WritesAreKept`
says so, names exactly these columns (`Reset`), and proves the property for
all other tables, and for all other columns of these. A batch may have any
length; its rows come as a flattened sequence, whose elements `FlattenElements`
of `DataLemmas` gives.

`GenerateProofs` is about every catalog, every DDL, every script of the command
and every output directory, the statements in any order:

* `TableNamesDistinct` and `EarlierTablesKeepNames`: `NamesDistinct`,
  `EarlierTablesFirst`. Neither is inductive, since the loop looks at the taken sets
  and not at the names: `NamingInv` adds that the entries of the map are taken and
  differ, that it has an entry for each table passed, and that the loop has not
  begun before the schema is settled; it holds of any tables. `OrderInv` adds what
  holds as long as no two tables share schema and name: the taken sets are exactly
  the names of the tables (`Recorded`), so that a refused name is the name of an
  earlier table. In the plugin edition a catalog has no two such tables
  (`CatalogAssumption`). The proof never looks into `baseTableNames`, so it holds for
  any rule that makes names. It does not say that the loop ends.
* `SkippedAreLeftOut` and, for both editions, `EditionsSkip`:
  `SkippedEmitNothing`. The property looks at the end only; `EmitInv` says at
  every phase which files there are for which tables, and that the passes go
  through exactly the tables that are wanted: no statement comes after
  `DropSkipped` has looked at the directives.
* `SchemaAsDeclared` and `EditionsSchemaAsDeclared`: `EnrichedAsDeclared`, as long
  as no table is given two primary keys (`OnePrimaryKey`), which Postgres refuses;
  the code keeps the first. `EnrichInv` says of each table that it agrees with the
  statements of the history (`Agrees`), also when they name two primary keys.
  One more statement adds its elements to what was said (`SaidGrows`), and the
  fold over the elements adds the same to the table (`ElementsAgree`).
* `LatestDirectives` and `EditionsLatestDirectives`: `DirectivesAreTheLatest`.
  The proof needs that keys of different tables and columns differ
  (`DirectiveKeysApart`). In the plugin edition they do, since a catalog has no
  two tables of a schema and name. The command can make two of them, when it
  forgets the schema of a view, and shares their directives; there the theorem
  says `TablesDistinct => DirectivesAreTheLatest`.
* `EditionsNamesDistinct` and `EditionsEarlierFirst` carry the names to both
  editions, under the same hypothesis: `TablesDistinct => NamesDistinct`,
  `TablesDistinct => EarlierTablesFirst`. Two tables of one schema and name, which
  the command can make, have one entry in the map and share all their names.
* `PlainFilesDistinct` and `EditionsFilesDistinct`: `FilesDistinct`, as long as the
  names of the tables are plain (`PlainStems`) and, in both editions, no two tables
  share schema and name (`TablesDistinct`): no stem is `models` or
  `pgb_helpers`, or another stem with `_repo` or `_search`. `FilesInv` says of every
  file which pass wrote it for which table, and that stems are sequences of
  pieces, so that two texts with endings of one length are equal only when they
  begin and end alike (`SameEnding`). With `NamesDistinct` no other two files can
  meet (`PlainStemsEnough`): the hypotheses name every way the promise at
  `pass_builders.go:138-144` can fail.
* `FieldNamesApart`: `FieldsDistinct`, as long as the names can be numbered
  (`PlainFields`). `numbered` looks at how often a base was seen and not at the names
  it has made, so `Numberable` asks that no base that occurs twice has, with a digit
  behind it, the form of another one. Then the count tells the places of a base
  apart (`SeenCounts`, `NumberedApart`). It is asked of the columns' identifiers
  and of the filter's bases, which can meet although the columns do not: `ain`,
  `a_in` and `a` make `Ain2` twice. The payload and the parameters need no hypothesis
  of their own, since a selection of different fields (`PickedApart`, by induction
  over the list) is not numbered again.
* `AccessorsApart`: `AccessorsDistinct`, as long as besides no column has the
  name that another one's accessor gives way to (`select` and `select_col`).
* `SearchTypesFollow`: `SearchTypesDeclared`, as long as a table with a search
  function has its names unsuffixed and its plural is not an s behind an s or a u
  (`PlainModels`). It needs the invariants of files and emission, which say that
  every table that has names is a table of the schema, spelled in pieces.
  All reached states of the run `package` satisfy `PlainFields`, `PlainAccessors` and
  `PlainModels`, with bases that occur twice and tables that have a search function.
* `DiskHolds`: `StandaloneSpec => []DiskHoldsTheRun`. `DiskInv` adds what is known
  halfway: before the first write the directory is the old one, and what has
  been written is there whole, also when two files of the run share a name.

`CatalogProofs` proves, for every script, that the two editions begin from one
catalog when nothing in the script is read by one of them only:

* `EditionsCollectAlike`: `StandaloneSpec => [](PlainScript => EditionsAgree)`. A
  statement is plain (`PlainStatement`) when its keys and NOT NULLs stand behind
  the columns they name, when it does not write the default schema out, when a
  partition has one parent and no columns of its own, and when it is no view that
  resolves; in an ALTER, what a new column says is about new columns and what the
  statement says of the table is not. A script is plain when its statements are, a
  table that is altered or partitioned has its name alone, and no table of a
  foreign schema comes after one of a later schema (`SchemasInOrder`): the command
  keeps the order of the statements where `Build` walks schema by schema.
  `CatalogInv` is the invariant: both catalogs have the same tables at the same
  places (`Aligned`). With the schemas in order, what `Build` walks is the tables
  outside the default schema as they came (`GroupsInOrder`), and so the request
  says the same (`AlignedEnough`, by `PickedMapped`). The work is in one
  statement: the command lets the elements act one by one, sqlc takes them
  together. `CollectOne` shows that one more element does the same to both, and
  `StatementCollected` goes through the elements. That columns are marked NOT
  NULL, dropped and added in any mixture comes from how these go through a list
  (`MarkConcat`, `WithoutTwice`, `WithoutConcat`). The hypothesis names the reason
  of every divergence listed below. On the runs' statements TLC finds plain
  scripts with ALTER and with partitions, and each diverging script not to be
  plain. Views that resolve stay with the run `generate`.

### What the proofs assume

Constants: `WithTxAssumption`, `StaticsAssumption`, `EnrichAssumption` (the bounds
are numbers, a sequence never gives NULL), `WordAssumption` (the emitter's own words
are words), `ExprAssumption` (a tree has one of the shapes of `expr.go` and its
children are trees), `NilAssumption` and `NoneAssumption` (nil is no value and no
statement), `StmtAssumption` (predicates and the literals of a page are trees),
`KeysAssumption` (the keys of a table are lists of its columns, and NOT NULL is said
of columns of its own),
`NamingAssumption` (which pieces there are to spell a name with),
`CatalogAssumption` (tables as `Build` leaves them, their names spelled in
pieces, no two of one schema and name), `DDLAssumption` and `ScriptAssumption`
(names spelled in pieces; a key constraint that parses has columns; the schemas
differ and the default one is not among them),
`PackageAssumption` (columns come in an order and have names). TLC evaluates
them in each run.

In the theorems themselves: `~CtxMayEnd` for atomicity, `RawBalanced` for the
numbering, `OnePrimaryKey`, `TablesDistinct`, `PlainStems`, `PlainFields`,
`PlainAccessors`, `PlainModels` and `PlainScript` as above, and for the
text `Encloses`, `RawsUnmixed`, `NoBlank` and `NamesApart`. `Encloses(W)` says that
no tree writes a word of W outside parentheses or leaves parentheses open: names are
quoted and operators are symbols, so it is a condition on Raws, and the Raws
that generated code makes keep it. `NamesApart` says that quoted names are not
the keywords. That the trees of the runs keep these conditions is an assumption of
`MCEmitter` and `MCStmt`, which TLC evaluates. Without each of the hypotheses but
`OnePrimaryKey` and `NamesApart`, something in the code is known to go wrong.

### Only model-checked

* `MeaningPreserved` and `WhereMeansConjunction`: the reading of a text by
  Postgres is recursive, and tlapm proves nothing in a module that reaches a
  RECURSIVE operator. That precedence never has to decide (`ConnectivesApart`) and
  that every placeholder has its value (`Binding`) are the parts that are proved.
* `DeclaredOnce`: it holds on the inputs of its run and not on all inputs, as the
  next section says.
* `EditionsAgree` of scripts with views whose columns resolve: what FROM and the
  projections make is one fold inside another.
* Liveness: `ConnectionsComeBack`, `WaitersServed`.

Induction over a predicate is not available either, since the library's theorems
take an operator. `Counting` of `DataLemmas` does it with the set of the numbers
of which the predicate holds, `ListInduction` with a set of lists, and unfolds one
fold at a time (`FlattenSteps`, the elements of a statement, the options of a
list). `SelectSeq` has a local definition that the provers cannot see; what is
selected has therefore a definition of its own (`Picked`), and `pascalIdent`
flattens, where a proof looks at it.

## Where code and documents part, beyond the runs

* `Raw` (`expr.go:125-127`) is said to compose at any expression position, but
  its text is written without parentheses: NOT over a Raw `b IS NULL OR c IS NULL`
  negates its first half. With `RawExpr` of `MCEmitter` in the place of `MCExpr`, TLC
  finds `MeaningPreserved` violated; the run `emitter` has Raws without a bare
  connective.
* `Bin` and `Cast` write their operands without parentheses as well (`expr.go:33-37`,
  `76-79`); arithmetic and `::` are not told apart in the model.
* `WithTx` on a bare `pgx.Tx` is not refused (`dbtx.go:47-48`): `pgx.Tx` has
  Begin, so the call nests by a savepoint. `core-api.mdx` relies on it.
* `UpsertX` resets columns with a default on conflict: they are settable but not
  in the INSERT list, so `EXCLUDED` holds the default
  (`pass_statics.go:539`; `ir/ir.go:36` says such columns are excluded).
  `NoWriteUndone` is checked on tables that have none.
* `UpdateXs` with nothing to set and no condition returns `0, nil`; the comment
  at `pass_statics.go:509` promises `ErrNoWhere`. The set is looked at first.
* With the directive that includes defaults, an identity ALWAYS column joins
  every INSERT list, not only the upsert's.
* An upsert under an explicit serial key leaves the sequence behind; a later
  insert draws the same number.
* Three sets in `MCPackage` can take the place of `RoleTables` in
  `MCPackageTypes.cfg`, each with its own property as the invariant.
  `FileTables`, `FilesDistinct`: passes compare stems, not file names, so a table
  `models` overwrites `models.gen.go`, and `users` with `users_repo` write one file
  twice; `pass_builders.go:138-144` calls this a "silent overwrite" and promises to
  prevent it. `NumberedColumns`, `FieldsDistinct`: a numbered field name is not
  recorded, so `a`, `a_` and `a2` give the fields `A`, `A2` and `A2`, where
  `pass_builders.go:202-204` says "deduped case-insensitively".
  `SuffixedTables` (with `SuffixedDDL` and `MaxDDL = 1`), `SearchTypesDeclared`:
  the search file takes the singular of the descriptor for the model. Of the
  suffixed `Users2` that is `Users2`, a variable, where the model is `User2`;
  `pass_models.go:54-56` says "model, descriptor and file names always agree".
  The same goes for a table that is no plural but ends in s (address, series).
* More ways to declare an identifier twice than `package_types` shows: `users`,
  `user` and `users2` give the variable and the struct `Users2`, and with `users2`
  first two types `Users2Table`; `user_filters` has the model `UserFilter`, which is
  the filter of `users`. The wrappers of three equal-named paths, or of two beside
  a column of that name, share the last candidate, though `pass_search.go:195-198`
  says "never colliding".
* A later COMMENT without directives does not clear an earlier `pgb:skip`, though
  `load_ddl.go:526-529` calls the DDL statement the source of truth; a skip in the
  catalog's own comment cannot be cleared at all.
* `enrichAlterTable` sees ADD CONSTRAINT only: constraints and defaults of ADD
  COLUMN and every DROP are passed over.
* Column names `select` and `select_col` both give the accessor `SelectCol`
  (`pass_builders.go:373-375`: "so the two never collide").
* `findTable` ignores case and takes the first match, so DDL for one of two quoted
  names that differ only in case goes to the other.
* The two editions part on more scripts than the run `editions` shows. Each of
  these sets in `MCGenerate` can take the place of `TwoSchemas` in
  `MCEditions.cfg`, and TLC finds `EditionsAgree` violated: `ExplicitPublic` (a
  table written `public.x` counts as one of another schema and is ordered after
  the others), `KeyBeforeColumns` (a table-level PRIMARY KEY before its columns
  marks none of them NOT NULL), `SameNameParents` (a partition gets the columns of
  every table of the parent's name), `ViewElsewhere` (a view loses its schema, so
  that `Enrich` does not find it and it is generated as a table that can be
  written), `JoinedView` (a column that several tables in FROM have, qualified or
  not, gets the type of any of them), `InterleavedSchemas` (tables of two foreign
  schemas in turn come in another order), `ViewOfSameName` (a view whose schema is
  lost gets the name of a table). With the last one and `NamesDistinct` as the
  invariant, TLC finds that violated too: the two share an entry of the map in
  `goTableNames` and every name. None of these scripts is in a run that must pass.
* Also read from the code, and not expressible in the scripts: `CREATE ... IF NOT
  EXISTS` of a table that exists and `CREATE OR REPLACE VIEW` add a second table
  of the schema and name (`main.go:249`), with the same names and files as the
  first; SET NOT NULL, DROP TABLE and RENAME are ignored; `LIKE parent` copies
  nothing, since the parser puts it among the elements (the comment at
  `main.go:229` says it does); `SELECT *` and every expression but columns and
  five functions drop a view. `expandSchemas` removes duplicates before it makes
  paths absolute, so one file named by a relative and an absolute path is read
  twice. Files that a run no longer generates, of a table dropped or skipped
  since, stay in the output directory and in the package.
* `DecodeCursor` is said to reverse `EncodeCursor` (`page.go:26`), but JSON numbers
  come back as `float64`: an `int64` beyond 2^53 comes back as another.
* The documents describe `UpsertOpts`, keyset pages, `CopyFrom` and `AllowAll`;
  this commit has no code for them in the statics.

## Not modelled, and the plan

Still worth doing, in this order:

1. Enums, composites and nullable array elements of the catalog, with the
   constants and types they declare beside those of `Package`.
2. Proofs: that the names inside the package differ, under a condition on the names of
   tables and columns that the pairs of the section above fail.

Left out for good: identifier quoting, the keyword table and the type map (pure
tables and text), the text of generated Go, plugin I/O, option decoding, enum
types, the resolution of schema paths, and the two conversions of page cursors,
which no code of this commit pages with. Search
expressions are constructors of trees that `Emitter` already covers as shapes.
