CONSTANTS
  Piece <- MCPiece
  Hissing = {"s"}
  SS = {"s"}
  U = {"statu"}
  DefaultSchema <- Public
  Catalogs <- MCCatalogs
  DDL <- MCDDL
  Directives = {"skip", "no_filter", "no_patch", "type"}
  None = "none"
  MaxDDL = 2
  ColumnOrder <- MCColumns
  Spelling <- MCSpelling
  Family <- MCFamily
  NotNull = {"id"}
  IncludeDefaults = FALSE
SPECIFICATION Spec
INVARIANTS FilesDistinct DeclaredOnce FieldsDistinct AccessorsDistinct SearchTypesDeclared
CHECK_DEADLOCK FALSE
