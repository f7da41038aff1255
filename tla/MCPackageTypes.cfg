CONSTANTS
  Piece <- MCPiece
  Hissing = {"s"}
  SS = {"s"}
  U = {"statu"}
  DefaultSchema <- Public
  Catalogs <- RoleTables
  DDL <- MCDDL
  Directives = {"skip", "no_filter", "no_patch", "type"}
  None = "none"
  MaxDDL = 0
  ColumnOrder <- MCColumns
  Spelling <- MCSpelling
  Family <- MCFamily
  NotNull = {"id"}
  IncludeDefaults = FALSE
SPECIFICATION Spec
INVARIANTS DeclaredOnce
CHECK_DEADLOCK FALSE
