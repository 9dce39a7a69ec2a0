------------------------------ MODULE MCUdpLive ------------------------------
(***************************************************************************)
(* UdpPeers with fairness, for TLC.  Each remote that comes back while a   *)
(* reestablishment is scheduled adds a pair of tasks for ever, so the      *)
(* liveness of the retries is checked for a bounded number of datagrams,   *)
(* with task identities enough for all of them.                            *)
(***************************************************************************)
EXTENDS UdpPeers

CONSTANT MaxHeard   \* bound: datagrams that arrive in a behaviour

VARIABLE heard

LoopStep == ConnectNext \/ LaunchStep \/ EndLaunch \/ Tick \/ Chat

Quietly == LoopStep /\ UNCHANGED heard

Arrival ==
  /\ heard < MaxHeard
  /\ ReceiveStep
  /\ heard' = heard + 1

\* The thread is scheduled and time passes; no remote need ever send.
FairSpec ==
  /\ Init /\ heard = 0
  /\ [][Quietly \/ Arrival]_<<vars, heard>>
  /\ WF_<<vars, heard>>(Quietly)
=============================================================================
