-------------------------- MODULE MCBrokerNetwork --------------------------
(***************************************************************************)
(* BrokerNetwork for TLC: three-bit addresses and all four masks.          *)
(***************************************************************************)
EXTENDS BrokerNetwork

MCAddresses == 0..7
MCSizes == {1, 2, 4, 8}
=============================================================================
