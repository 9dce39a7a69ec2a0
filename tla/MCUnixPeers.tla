----------------------------- MODULE MCUnixPeers -----------------------------
(* Instances of UnixPeers for TLC. *)
EXTENDS UnixPeers
CONSTANTS a, b, c

\* A chain: a is told of b, and b of c; nobody is told of a.
Chain == [n \in Node |-> CASE n = a -> {b} [] n = b -> {c} \cap Node [] OTHER -> {}]
=============================================================================
