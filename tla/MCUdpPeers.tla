------------------------------ MODULE MCUdpPeers ------------------------------
(* Instances of UdpPeers for TLC. *)
EXTENDS UdpPeers
=============================================================================
