SPECIFICATION Spec
CONSTANTS
  SeqMod = 3
  MaxRetransmit = 1
  NumRadioParam = 2
  Confirmed = TRUE
  NodeId = 3
  Prefixes <- MCPrefixes
  Hosts <- MCHosts
  Packets = {p1}
  PacketHost <- MCPacketHost
  Payloads = {d1}
  Downlink <- DownForeign
  MaxQueue = 2
  p1 = p1
  d1 = d1
INVARIANTS TypeOK FreeOnlyByOk FreeWakes NoDataBeforeJoin WaitingIsGuarded RetransmissionPending PendingSeen QueryTimerKept OnlyQueryFaults
CHECK_DEADLOCK FALSE
