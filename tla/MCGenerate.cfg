CONSTANTS
  Piece <- MCPiece
  Hissing <- MCHissing
  SS = {"s"}
  U = {}
  DefaultSchema <- Public
  Catalogs <- MCCatalogs
  DDL <- MCDDL
  Script <- MCScript
  Schemas <- MCSchemas
  Editions = {"plugin", "standalone"}
  OldFiles <- MCOldFiles
  Directives = {"skip", "no_filter", "no_patch", "type"}
  None = "none"
  MaxDDL = 4
SPECIFICATION StandaloneSpec
INVARIANTS NamesDistinct EarlierTablesFirst EnrichedAsDeclared DirectivesAreTheLatest SkippedEmitNothing
  EditionsAgree DiskHoldsTheRun
CHECK_DEADLOCK FALSE
