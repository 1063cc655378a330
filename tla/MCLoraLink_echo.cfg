SPECIFICATION Spec
CONSTANTS
  SeqMod = 6
  Prefixes <- MCPrefixes
  Hosts <- MCHosts
  Packets <- MCPackets
  Payloads <- MCPayloads
  PacketHost <- MCPacketHost
  MaxUp = 1
  MaxDown = 0
  MaxRetransmit = 1
  NumRadioParam = 1
  Confirmed = TRUE
  NodeId = 4
  MaxQueue = 1
  PrefixMod = 8
  MinPrefix = 2
  MaxPrefix = 2
  TxBufSize = 2
  PhyBufSize = 1
  RxBufSize = 1
  Modes = {"SENDER"}
  MaxRestarts = 0
  MaxFrames = 3
INVARIANTS RootListens
CHECK_DEADLOCK FALSE
