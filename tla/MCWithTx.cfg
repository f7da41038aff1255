CONSTANTS
  Client = {c1, c2}
  Conn = {k1, k2}
  Exits = {"ok", "err", "panic", "goexit"}
  NestVia = {"tx", "pool"}
  CtxMayEnd = FALSE
  MaxDepth = 2
  MaxBlocks = 2
  MaxWrites = 2
  MaxFaults = 1
SPECIFICATION Spec
SYMMETRY Symmetry
INVARIANTS TypeOK ConnectionsAccounted FailedBlocksLeaveNothing NoPartialBlock
PROPERTIES SuccessIsDurable ImplementsContract
CHECK_DEADLOCK FALSE
