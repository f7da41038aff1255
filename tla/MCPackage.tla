----------------------------- MODULE MCPackage -----------------------------
(* Tables and columns whose names come close to each other. *)
EXTENDS Package

MCPiece == {"_", "s", "es", "ies", "y", "v", "user", "app", "people", "person", "categor", "statu", "role",
            "public", "model", "repo"}
           \cup {Digits[k] : k \in 1 .. 9}

MCColumns == <<"id", "name", "name_in", "last_login", "lastlogin", "data", "data_name", "created",
               "created_gt", "select", "delete", "score", "extra", "role_id", "a", "a_", "a2">>
MCSpelling ==
  [c \in ToSet(MCColumns) \cup {"data->name"} |->
     CASE c = "name_in" -> <<"name", "_", "in">>
       [] c = "last_login" -> <<"last", "_", "login">>
       [] c = "lastlogin" -> <<"last", "login">>
       [] c \in {"data_name", "data->name"} -> <<"data", "_", "name">>
       [] c = "created_gt" -> <<"created", "_", "gt">>
       [] c = "role_id" -> <<"role", "_", "id">>
       [] c = "a_" -> <<"a", "_">>
       [] c = "a2" -> <<"a", "2">>
       [] OTHER -> <<c>>]
MCFamily ==
  [c \in ToSet(MCColumns) |->
     CASE c \in {"name", "name_in", "last_login", "data_name"} -> "text"
       [] c \in {"created", "created_gt", "score", "extra"} -> "ordered"
       [] c \in {"id", "role_id"} -> "serial"
       [] c = "data" -> "json"
       [] c = "select" -> "array"
       [] c = "delete" -> "enum"
       [] OTHER -> "plain"]

T(home, name, cols) ==
  [schema |-> home, name |-> name, cols |-> cols, pk |-> <<>>, uniques |-> <<>>,
   generated |-> {}, hasDefault |-> {}, search |-> {}, skip |-> FALSE, view |-> FALSE,
   comments |-> {}]
Public == <<"public">>
users == T(Public, <<"user", "s">>, {"id", "name", "name_in", "last_login", "lastlogin", "data", "data_name", "extra"})
app_users == T(Public, <<"app", "_", "user", "s">>, {"id", "select", "created", "created_gt"})
appUsers == T(<<"app">>, <<"user", "s">>, {"name", "delete", "score"})
people == T(Public, <<"people">>, {"id", "select", "delete", "score", "name"})
categories == T(Public, <<"categor", "ies">>, {})
status == T(Public, <<"statu", "s">>, {"name", "created"})
MCTables == {users, app_users, appUsers, people, categories, status}
MCCatalogs == {c \in [1 .. 3 -> MCTables] : IsInjective(c)}

Rel(t) == [schema |-> t.schema, name |-> t.name]
Con(type, col, keys) == [type |-> type, col |-> col, keys |-> keys]
Field(col, path) == [col |-> col, path |-> path]
Index(t, key, fields) == [kind |-> "index", rel |-> Rel(t), using |-> "bm25", key |-> key, fields |-> fields]
MCDDL ==
  {[kind |-> "create", rel |-> Rel(users),
    elts |-> <<Con("primary", "none", <<"id", "name">>), Con("unique", "name_in", <<>>), Con("generated", "lastlogin", <<>>)>>],
   [kind |-> "alter", rel |-> Rel(people), elts |-> <<Con("primary", "none", <<"name">>)>>],
   Index(users, "none", <<Field("data", "data->name"), Field("name", "none"), Field("name", "none"), Field("data", "data->name")>>),
   Index(people, "id", <<Field("score", "none")>>),
   Index(categories, "none", <<>>),
   [kind |-> "view", rel |-> Rel(app_users)],
   [kind |-> "comment", rel |-> Rel(users), col |-> "name", directives |-> {"no_filter", "no_patch"}]}

\* Where the names do meet: RoleTables is the run package_types, the others can
\* take its place, with these columns and indexes; the README says what happens.
user == T(Public, <<"user">>, {"id", "name"})
RoleTables == {<<T(Public, <<"user", "s">>, {"id", "role_id"}), T(Public, <<"user", "_", "role", "s">>, {"id", "name"})>>}
NumberedColumns == {<<T(Public, <<"user", "s">>, {"a", "a_", "a2"})>>}
SuffixedTables == {<<users, user>>}
FileTables == {<<T(Public, <<"model", "s">>, {"id"})>>, <<users, T(Public, <<"user", "s", "_", "repo">>, {"id"})>>}
SuffixedDDL == {Index(user, "id", <<Field("name", "none")>>)}
=============================================================================
