CONSTANTS
  Piece <- MCPiece
  Hissing <- MCHissing
  SS = {"s"}
  U = {}
  DefaultSchema <- Public
  Catalogs <- MCCatalogs
  DDL <- MCDDL
  Script <- TwoSchemas
  Schemas <- MCSchemas
  Editions = {"standalone"}
  OldFiles <- MCOldFiles
  Directives = {"skip", "no_filter", "no_patch", "type"}
  None = "none"
  MaxDDL = 3
SPECIFICATION StandaloneSpec
INVARIANTS EditionsAgree
CHECK_DEADLOCK FALSE
