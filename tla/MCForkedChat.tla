---------------------------- MODULE MCForkedChat ----------------------------
(* Two starts of the program, two lines typed in each. *)
EXTENDS ForkedChat
=============================================================================
