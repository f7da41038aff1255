----------------------------- MODULE Standalone -----------------------------
(***************************************************************************)
(* The two editions of the compiler: as a plugin Generate gets its catalog  *)
(* from sqlc, which also writes the files; the command of cmd/pgb/main.go    *)
(* collects the catalog itself, hands the same files to Enrich, and writes   *)
(* what Generate returns into a directory that an earlier run may have used. *)
(***************************************************************************)
EXTENDS Catalog, Generate

CONSTANTS
  Editions,  \* those looked at: "plugin", "standalone"
  OldFiles   \* names in the output directory before the run

VARIABLES
  edition,
  written,   \* the files written so far
  disk       \* the output directory: what is in the file of each name
outVars == <<written, disk>>
standaloneVars == <<generateVars, catalogVars, edition, outVars>>

OldDisk == [n \in OldFiles |-> File("old", 0, n)]
ToWrite == files \ written
NextFile == CHOOSE f \in ToWrite : TRUE  \* stands for the order of their names
Put(f) == [n \in DOMAIN disk \cup {f.name} |-> IF n = f.name THEN f ELSE disk[n]]
-----------------------------------------------------------------------------
(* buildRequest *)

ReadStmt ==
  /\ phase = "collect"
  /\ CollectStmt
  /\ UNCHANGED <<generateVars, edition, outVars>>

\* A file that cannot be read or parsed ends the run, where Enrich would go on.
ReadFails ==
  /\ phase = "collect"
  /\ phase' = "failed"
  /\ UNCHANGED <<enrichVars, namingVars, files, catalogVars, edition, outVars>>

\* The request has names, columns and types, but no keys, comments or views.
buildRequest ==
  /\ phase = "collect"
  /\ sch' = [k \in DOMAIN Requested |->
       [schema |-> Requested[k].schema, name |-> Requested[k].name,
        cols |-> {c.name : c \in ToSet(Requested[k].cols)},
        pk |-> <<>>, uniques |-> <<>>, generated |-> {}, hasDefault |-> {}, search |-> {},
        skip |-> FALSE, view |-> FALSE, comments |-> {}]]
  /\ phase' = "enrich"
  /\ UNCHANGED <<dir, done, namingVars, files, catalogVars, edition, outVars>>

\* Enrich parses the same files again.
Replay ==
  /\ phase = "enrich" /\ Len(done) < Len(collected)
  /\ enrichStmt(collected[Len(done) + 1])
  /\ UNCHANGED <<namingVars, phase, files, catalogVars, edition, outVars>>
-----------------------------------------------------------------------------
(* gen.Generate, in either edition *)

Generating ==
  /\ \/ edition = "plugin" /\ Enriching
     \/ (edition = "standalone" => Len(done) = Len(collected)) /\ DropSkipped
     \/ NameTables \/ PassModels \/ PassBuilders \/ PassStatics \/ PassSearch \/ Fails
  /\ UNCHANGED <<catalogVars, edition, outVars>>
-----------------------------------------------------------------------------
(* The end of run *)

Ends(next) ==
  /\ phase' = next
  /\ UNCHANGED <<enrichVars, namingVars, files, catalogVars, edition>>

MkdirAll ==
  /\ phase = "done" /\ edition = "standalone"
  /\ \E next \in {"write", "failed"} : Ends(next)
  /\ UNCHANGED outVars

WriteFile ==
  /\ phase = "write" /\ ToWrite # {}
  /\ written' = written \cup {NextFile}
  /\ disk' = Put(NextFile)
  /\ Ends("write")

\* The file is as it was, or cut off.
Half == {disk, Put(File("part", 0, NextFile.name))}

\* Mutant: the error of one file does not stop the others.
WriteErrorIgnored ==
  /\ phase = "write" /\ ToWrite # {}
  /\ written' = written \cup {NextFile}
  /\ disk' \in Half
  /\ Ends("write")

WriteFails ==
  /\ phase = "write" /\ ToWrite # {}
  /\ disk' \in Half
  /\ Ends("stopped")
  /\ UNCHANGED written

Report ==
  /\ phase = "write" /\ ToWrite = {}
  /\ Ends("written")
  /\ UNCHANGED outVars

StandaloneInit ==
  /\ edition \in Editions
  /\ \/ edition = "plugin" /\ EnrichStart /\ phase = "enrich"
     \/ /\ edition = "standalone" /\ phase = "collect"
        /\ sch = <<>> /\ dir = <<>> /\ done = <<>>
  /\ tables = <<>> /\ NamingStart /\ files = {}
  /\ CatalogStart
  /\ written = {} /\ disk = OldDisk

StandaloneNext ==
  \/ ReadStmt \/ ReadFails \/ buildRequest \/ Replay
  \/ Generating
  \/ MkdirAll \/ WriteFile \/ WriteFails \/ Report

StandaloneSpec == StandaloneInit /\ [][StandaloneNext]_standaloneVars
-----------------------------------------------------------------------------
(* Properties *)

\* main.go:67-83: a run that reports its files has left each of them whole; one
\* that fails before the first write, making the directory included, has touched
\* nothing; and nothing that the run did not generate is changed.
DiskHoldsTheRun ==
  LET names == {f.name : f \in files}
  IN /\ phase = "written" => \A f \in files : disk[f.name] \in {g \in files : g.name = f.name}
     /\ phase \notin {"write", "stopped", "written"} => disk = OldDisk
     /\ \A n \in DOMAIN disk : disk[n].pass # "old" => n \in names
     /\ OldFiles \subseteq DOMAIN disk
=============================================================================
