SPECIFICATION FairSpec
CONSTANTS
  SeqMod = 2
  MaxRetransmit = 1
  NumRadioParam = 2
  Confirmed = TRUE
  NodeId = 3
  Prefixes <- MCPrefixes
  Hosts <- MCHosts
  Packets = {p1}
  PacketHost <- MCPacketHost
  Payloads = {d1}
  Downlink <- DownLast
  MaxQueue = 2
  p1 = p1
  d1 = d1
PROPERTIES ExchangeEnds KeepsJoining
CHECK_DEADLOCK FALSE
