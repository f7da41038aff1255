CONSTANTS
  Client = {c1}
  Conn = {k1}
  Exits = {"ok", "err"}
  NestVia = {"tx"}
  CtxMayEnd = TRUE
  MaxDepth = 2
  MaxBlocks = 2
  MaxWrites = 1
  MaxFaults = 0
SPECIFICATION Spec
INVARIANTS ErrorMeansRolledBack
