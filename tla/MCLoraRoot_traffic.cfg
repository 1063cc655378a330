SPECIFICATION FairSpec
CONSTANTS
  SeqMod = 4
  Prefixes <- MCPrefixes
  Hosts <- MCHosts
  Packets = {u1}
  Payloads = {d1}
  PrefixMod = 8
  MinPrefix = 2
  MaxPrefix = 2
  MaxRetransmit = 1
  TxBufSize = 2
  PhyBufSize = 1
  Modes = {"PINGPONG", "SENDER"}
  Replies = {d1}
  Uplink <- UpCarry
  u1 = u1
  d1 = d1
INVARIANTS NextKept
PROPERTIES NotAcceptedTwice ReturnsToGet
CHECK_DEADLOCK FALSE
