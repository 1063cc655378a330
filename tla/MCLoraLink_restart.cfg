SPECIFICATION CalmSpec
CONSTANTS
  SeqMod = 6
  Prefixes <- MCPrefixes
  Hosts <- MCHosts
  Packets <- MCPackets
  Payloads <- MCPayloads
  PacketHost <- MCPacketHost
  MaxUp = 1
  MaxDown = 1
  MaxRetransmit = 1
  NumRadioParam = 1
  Confirmed = FALSE
  NodeId = 4
  MaxQueue = 1
  PrefixMod = 8
  MinPrefix = 2
  MaxPrefix = 3
  TxBufSize = 1
  PhyBufSize = 1
  RxBufSize = 1
  Modes = {"SENDER"}
  MaxRestarts = 1
  MaxFrames = 4
INVARIANTS TypeOK NodeNotAhead
CHECK_DEADLOCK FALSE
