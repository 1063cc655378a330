------------------------------ MODULE MCLoraLink ------------------------------
(* LoraLink with node 4, which the root may give the prefixes 2 and 3. *)
EXTENDS LoraLink

MCPrefixes == {1, 2, 3, 4}
MCHosts == {4}
MCPackets == 1..MaxUp
MCPayloads == 1..MaxDown
MCPacketHost == [p \in Packets |-> NodeId]

\* The behaviours in which the first join meets no trouble: the JOIN and its
\* JOIN_RESPONSE arrive, before the timer of the retransmission expires and
\* before a reset.  From then on everything may happen.
CalmJoin ==
  state = "ALONE" /\ restarts = 0 =>
    /\ cpu' = "free" /\ restarts' = 0
    /\ radio = "radio_tx" /\ radio' = "none" => phy_rx' # phy_rx
    /\ (radio = "radio_rx" /\ radio' = "none") \/ Len(phy_tx') < Len(phy_tx)
         => state' # "ALONE"
CalmSpec == Init /\ [][Next /\ CalmJoin]_vars
=============================================================================
