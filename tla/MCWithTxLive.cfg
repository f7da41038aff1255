CONSTANTS
  Client = {c1, c2}
  Conn = {k1, k2, k3}
  Exits = {"ok", "err", "panic"}
  NestVia = {"pool"}
  CtxMayEnd = TRUE
  MaxDepth = 2
  MaxBlocks = 2
  MaxWrites = 0
  MaxFaults = 0
SPECIFICATION FairSpec
PROPERTIES ConnectionsComeBack WaitersServed
