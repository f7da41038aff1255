CONSTANTS
  Value <- MCValue
  Nil = Nil
  NoValue = NoValue
  None = None
  Word <- MCWord
  Expr <- MCExpr
  Builder = {1}
  Table = "t"
  Column = {"a", "b", "c"}
  Predicates <- BlankPredicates
  ListExprs <- MCListExprs
  Limits <- MCLimits
  MaxCalls = 3
  Sessions = {"filter"}
SPECIFICATION StmtSpec
INVARIANT WhereIsNeverBlank
CHECK_DEADLOCK FALSE
