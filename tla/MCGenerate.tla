----------------------------- MODULE MCGenerate -----------------------------
(* Catalogs whose tables are hard to tell apart by name, and their DDL. *)
EXTENDS Standalone

MCPiece == {"_", "s", "es", "ies", "y", "user", "app", "len", "repo", "model", "public",
            "pg_catalog", "v", "person", "event", "stat"} \cup {Digits[k] : k \in 1 .. 9}
MCHissing == {"s"}

T(home, name) ==
  [schema |-> home, name |-> name, cols |-> {"id", "name"}, pk |-> <<>>, uniques |-> <<>>,
   generated |-> {}, hasDefault |-> {}, search |-> {}, skip |-> FALSE, view |-> FALSE,
   comments |-> {}]
Public == <<"public">>
users == T(Public, <<"user", "s">>)
user == T(Public, <<"user">>)
users2 == T(Public, <<"user", "s", "2">>)
app_users == T(Public, <<"app", "_", "user", "s">>)
appUsers == T(<<"app">>, <<"user", "s">>)
app_users2 == T(Public, <<"app", "_", "user", "s", "2">>)
class == T(<<"pg_catalog">>, <<"user", "s">>)
WithComment(t, ds) == [t EXCEPT !.comments = {[col |-> "none", directives |-> ds]}, !.skip = "skip" \in ds]

MCCatalogs ==
  {<<users, user, users2>>, <<users2, user, users>>,
   <<class, app_users, appUsers, app_users2>>, <<appUsers, app_users2, app_users>>,
   <<WithComment(users, {"skip"}), user, appUsers>>, <<WithComment(app_users, {"no_patch"}), appUsers>>}

Rel(t) == [schema |-> t.schema, name |-> t.name]
Unqualified(t) == [schema |-> <<>>, name |-> t.name]
Elt(type, col, keys, of) == [type |-> type, col |-> col, keys |-> keys, of |-> of]
Con(type, col, keys) == Elt(type, col, keys, "none")
Create(rel, elts, parents) == [kind |-> "create", rel |-> rel, elts |-> elts, parents |-> parents]
MCDDL ==
  {Create(Unqualified(users),
     <<Con("default", "id", <<>>), Con("unique", "name", <<>>), Con("unique", "none", <<"id", "name">>),
       Con("generated", "name", <<>>), Con("identity", "gone", <<>>), Con("unique", "none", <<"name">>)>>, <<>>),
   Create(Rel(appUsers), <<Con("identity", "id", <<>>), Con("primary", "id", <<>>)>>, <<>>),
   [kind |-> "alter", rel |-> Rel(users),
    elts |-> <<Con("check", "none", <<>>), Con("primary", "none", <<"id">>), Con("unique", "none", <<"name">>)>>],
   [kind |-> "index", rel |-> Rel(users), using |-> "bm25", key |-> "none",
    fields |-> <<[col |-> "name", path |-> "p"], [col |-> "none", path |-> "p"], [col |-> "id", path |-> "none"]>>],
   [kind |-> "index", rel |-> Unqualified(users), using |-> "paradedb", key |-> "name", fields |-> <<>>],
   [kind |-> "index", rel |-> Rel(users), using |-> "btree", key |-> "none", fields |-> <<>>],
   [kind |-> "view", rel |-> Rel(appUsers)],
   [kind |-> "comment", rel |-> Unqualified(app_users), col |-> "none", directives |-> {"skip"}],
   [kind |-> "comment", rel |-> Unqualified(app_users), col |-> "name", directives |-> {"no_patch"}],
   [kind |-> "comment", rel |-> Unqualified(users), col |-> "none", directives |-> {"type"}],
   [kind |-> "comment", rel |-> Rel(users), col |-> "none", directives |-> {}],
   [kind |-> "comment", rel |-> Rel(user), col |-> "none", directives |-> {"skip"}]}

\* Scripts for the standalone edition.  Columns come with their type; a view's
\* targets name the relation in FROM that they are taken from.
Column(col, of) == Elt("column", col, <<>>, of)
Bare(name) == [schema |-> <<>>, name |-> name]
View(kind, rel, from, targets) == [kind |-> kind, rel |-> rel, from |-> from, targets |-> targets]
Target(fn, col, as, of) == [fn |-> fn, col |-> col, as |-> as, of |-> of]
Events == Bare(<<"event", "s">>)
Users == Unqualified(users)
AppUsers == Rel(appUsers)
CreateUsers ==
  Create(Users, <<Column("id", "int8"), Con("identity", "id", <<>>), Column("name", "text")>>, <<>>)
CreateAppUsers ==
  Create(AppUsers, <<Column("id", "uuid"), Column("name", "text"), Con("notnull", "name", <<>>),
                     Con("primary", "none", <<"id">>), Con("unique", "name", <<>>)>>, <<>>)
MCScript ==
  {CreateUsers, CreateAppUsers,
   Create(Events, <<Column("id", "int8"), Column("name", "text"), Con("primary", "none", <<"id", "name">>)>>, <<>>),
   Create(Bare(<<"event", "s", "2">>), <<>>, <<Events>>),
   [kind |-> "alter", rel |-> Events,
    elts |-> <<Column("at", "int8"), Con("notnull", "at", <<>>), Con("unique", "none", <<"name">>), Con("drop", "name", <<>>)>>],
   View("view", Bare(<<"event">>), <<Users>>,
        <<Target("column", "id", "id", 1), Target("count", "none", "name", 1), Target("max", "name", "top", 1)>>),
   View("table_as", Bare(<<"app", "_", "user", "s">>), <<AppUsers>>,
        <<Target("column", "id", "id", 1), Target("min", "name", "name", 1)>>),
   View("view", Bare(<<"stat", "s">>), <<AppUsers, Events>>, <<>>),
   [kind |-> "comment", rel |-> Events, col |-> "none", directives |-> {"skip"}],
   [kind |-> "index", rel |-> AppUsers, using |-> "bm25", key |-> "none",
    fields |-> <<[col |-> "name", path |-> "none"]>>]}
MCSchemas == <<<<"app">>, <<"stat">>>>
MCOldFiles == {<<"model", "s">>, <<"user", "s">>}

\* Scripts on which the editions part: the first is the run editions, the others
\* can take its place in MCEditions.cfg; the README says what happens.
AddBio(rel) == [kind |-> "alter", rel |-> rel, elts |-> <<Column("bio", "text")>>]
TwoSchemas == {CreateUsers, CreateAppUsers, AddBio(Users), AddBio(AppUsers)}
ExplicitPublic == {CreateUsers, Create(Rel(user), <<Column("id", "int8")>>, <<>>), CreateAppUsers,
                   Create(Events, <<Column("id", "int8")>>, <<>>)}
KeyBeforeColumns == {Create(Users, <<Con("primary", "none", <<"id">>), Column("id", "int8")>>, <<>>)}
SameNameParents == {CreateUsers, CreateAppUsers, Create(Events, <<>>, <<Users>>)}
ViewElsewhere == {CreateUsers, View("view", [schema |-> <<"app">>, name |-> <<"event">>], <<Users>>, <<Target("column", "id", "id", 1)>>)}
JoinedView == {CreateUsers, Create(Events, <<Column("id", "uuid")>>, <<>>),
               View("view", Bare(<<"event">>), <<Users, Events>>, <<Target("column", "id", "id", 1)>>)}
InterleavedSchemas == {CreateAppUsers, Create([schema |-> <<"stat">>, name |-> <<"event">>], <<Column("id", "int8")>>, <<>>),
                       Create([schema |-> <<"app">>, name |-> <<"repo">>], <<Column("id", "int8")>>, <<>>)}
ViewOfSameName == {CreateUsers, CreateAppUsers,
                   View("view", [schema |-> <<"app">>, name |-> <<"user", "s">>], <<Users>>, <<Target("column", "id", "id", 1)>>)}
=============================================================================
