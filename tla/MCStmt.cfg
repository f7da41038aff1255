CONSTANTS
  Value <- MCValue
  Nil = Nil
  NoValue = NoValue
  None = None
  Word <- MCWord
  Expr <- MCExpr
  Builder = {1, 2}
  Table = "t"
  Column = {"a", "b", "c"}
  Predicates <- MCPredicates
  ListExprs <- MCListExprs
  Limits <- MCLimits
  MaxCalls = 5
  Sessions = {"filter", "compose"}
SPECIFICATION StmtSpec
INVARIANTS StmtTypeOK NoFullTableMutation WhereMeansConjunction LastPageWins WhereIsNeverBlank Numbering Binding ConnectivesApart
CHECK_DEADLOCK FALSE
