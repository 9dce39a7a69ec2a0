----------------------------- MODULE MCSctpPeers -----------------------------
(* Instances of SctpPeers for TLC. *)
EXTENDS SctpPeers
=============================================================================
