CONSTANTS
  Value <- MCValue
  Nil = "nil"
  NoValue = "none"
  Word <- MCWord
  Expr <- MCExpr
SPECIFICATION MCSpec
INVARIANTS TypeOK Numbering Binding ConnectivesApart MeaningPreserved
CHECK_DEADLOCK FALSE
