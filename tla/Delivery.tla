------------------------------- MODULE Delivery -------------------------------
(***************************************************************************)
(* What one direction of a LoRaMAC link promises for the packets handed    *)
(* over to it, numbered 1, 2, ...: each one is delivered at most once, in  *)
(* order, or lost.                                                         *)
(***************************************************************************)
EXTENDS Naturals

VARIABLES
  sent,     \* how many packets have been handed over
  got,      \* the last packet delivered, 0 before the first
  count     \* how many deliveries there were

Init == sent = 0 /\ got = 0 /\ count = 0

Send == sent' = sent + 1 /\ UNCHANGED <<got, count>>

Deliver ==
  /\ got' \in (got + 1)..sent
  /\ count' = count + 1
  /\ UNCHANGED sent

Spec == Init /\ [][Send \/ Deliver]_<<sent, got, count>>
=============================================================================
