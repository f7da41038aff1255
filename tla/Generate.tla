------------------------------ MODULE Generate ------------------------------
(***************************************************************************)
(* gen.Generate: enrich the catalog, drop the skipped tables, name the rest *)
(* and let four passes write their files.                                   *)
(***************************************************************************)
EXTENDS Enrich

VARIABLES
  phase,  \* what comes next
  files   \* the files written: which pass, for which table, under which name
generateVars == <<enrichVars, namingVars, phase, files>>

Enriching ==
  /\ phase = "enrich"
  /\ EnrichAny
  /\ UNCHANGED <<namingVars, phase, files>>

Skipped(t) == \/ t.skip
              \/ Key(t) \in DOMAIN dir /\ "skip" \in dir[Key(t)]

\* Mutant: only the catalog's comments count.
DropSkippedEarly ==
  /\ phase = "enrich"
  /\ tables' = Picked(sch, {i \in DOMAIN sch : ~sch[i].skip})
  /\ phase' = "name"
  /\ UNCHANGED <<enrichVars, turn, final, takenP, takenS, takenFb, files>>

\* pgb:skip tables leave the schema before any pass sees it.
DropSkipped ==
  /\ phase = "enrich"
  /\ tables' = Picked(sch, {i \in DOMAIN sch : ~Skipped(sch[i])})
  /\ phase' = "name"
  /\ UNCHANGED <<enrichVars, turn, final, takenP, takenS, takenFb, files>>

NameTables ==
  /\ phase = "name"
  /\ NamingStep
  /\ UNCHANGED <<enrichVars, phase, files>>

\* A pass: a file per table it is for, named by the table's stem, and files of
\* its own.
File(pass, i, name) == [pass |-> pass, table |-> i, name |-> name]
Pass(pass, next, S, ending, own) ==
  /\ phase = pass
  /\ files' = files \cup {File(pass, i, goTableNames(i).fb \o ending) : i \in S} \cup own
  /\ phase' = next
  /\ UNCHANGED <<enrichVars, namingVars>>

PassModels ==
  /\ phase = "name" /\ ~Unnamed
  /\ files' = files \cup {File("models", 0, <<"model", "s">>)}
  /\ phase' = "builders"
  /\ UNCHANGED <<enrichVars, namingVars>>
PassBuilders == Pass("builders", "statics", Named, <<>>, {})
\* Mutant: the statics go to the table's own file.
PassStaticsBare == Pass("statics", "search", Named, <<>>, {})
PassStatics ==
  Pass("statics", "search", Named, <<"_", "repo">>,
       IF Named = {} THEN {} ELSE {File("statics", 0, <<"pgb", "_", "helper", "s">>)})
PassSearch ==
  Pass("search", "done", {i \in Named : tables[i].search # {}}, <<"_", "search">>, {})

\* The text a pass wrote, of whatever table, is no Go: Generate returns the
\* error and no files.
Fails ==
  /\ phase \in {"name", "builders", "statics", "search"} /\ ~Unnamed
  /\ phase # "name" => Named # {}
  /\ phase' = "failed" /\ files' = {}
  /\ UNCHANGED <<enrichVars, namingVars>>

Init == EnrichStart /\ tables = <<>> /\ NamingStart /\ phase = "enrich" /\ files = {}

Next == \/ Enriching \/ DropSkipped \/ NameTables
        \/ PassModels \/ PassBuilders \/ PassStatics \/ PassSearch
        \/ Fails

Spec == Init /\ [][Next]_generateVars
-----------------------------------------------------------------------------
(* Properties *)

\* gen.go:44-46: a table whose latest directives say pgb:skip, or whose catalog
\* comment does, leaves no file and takes no name from another table; every
\* other table of the application has its descriptor and its statics.
SkippedEmitNothing ==
  phase = "done" =>
    LET Emitted(pass) == {Key(tables[f.table]) : f \in {x \in files : x.pass = pass /\ x.table # 0}}
        Wanted == {Key(sch[i]) : i \in {j \in DOMAIN sch : ~Skipped(sch[j]) /\ genSchema(sch[j])}}
    IN /\ Emitted("builders") = Wanted
       /\ Emitted("statics") = Wanted
       /\ Emitted("search") \subseteq Wanted

\* pass_builders.go:138-146: no two files share a name, the one silently
\* overwriting the other, whatever passes and tables they are of.
FilesDistinct == \A f, g \in files : f # g => f.name # g.name
=============================================================================
