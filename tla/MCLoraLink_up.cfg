SPECIFICATION CalmSpec
CONSTANTS
  SeqMod = 6
  Prefixes <- MCPrefixes
  Hosts <- MCHosts
  Packets <- MCPackets
  Payloads <- MCPayloads
  PacketHost <- MCPacketHost
  MaxUp = 2
  MaxDown = 1
  MaxRetransmit = 1
  NumRadioParam = 1
  Confirmed = TRUE
  NodeId = 4
  MaxQueue = 1
  PrefixMod = 8
  MinPrefix = 2
  MaxPrefix = 2
  TxBufSize = 1
  PhyBufSize = 1
  RxBufSize = 1
  Modes = {"SENDER"}
  MaxRestarts = 0
  MaxFrames = 4
PROPERTIES UpDelivery
CHECK_DEADLOCK FALSE
