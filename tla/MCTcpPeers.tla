------------------------------ MODULE MCTcpPeers ------------------------------
(* Instances of TcpPeers for TLC. *)
EXTENDS TcpPeers
=============================================================================
