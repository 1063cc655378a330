SPECIFICATION Spec
CONSTANTS
  SeqMod = 3
  Prefixes <- MCPrefixes
  Hosts <- MCHosts
  Packets = {u1}
  Payloads = {d1}
  PrefixMod = 8
  MinPrefix = 2
  MaxPrefix = 3
  MaxRetransmit = 1
  TxBufSize = 2
  PhyBufSize = 2
  Modes = {"RECEIVER"}
  Replies = {d1}
  Uplink <- UpOdd
  u1 = u1
  d1 = d1
INVARIANTS TypeOK DictsAgree PrefixesGiven
CHECK_DEADLOCK FALSE
