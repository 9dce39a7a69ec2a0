---------------------------- MODULE QuitBroadcast ----------------------------
(***************************************************************************)
(* What the chat program promises about its end, without the shared chat   *)
(* slot: once the user has asked to quit, every network task that its      *)
(* socket does not keep leaves its loop, and when all of them have, the    *)
(* process returns from main.  ChatTasks implements it.                    *)
(***************************************************************************)
CONSTANTS
  NetTask,   \* the network tasks that main starts
  Mortal     \* those with a Lifetime, which may end without being asked

VARIABLES
  asked,     \* the user has typed the quit message
  outcome,   \* outcome[t]: how task t stands
  joined     \* main has returned from join(tasks)

vars == <<asked, outcome, joined>>

Init ==
  /\ asked = FALSE
  /\ outcome = [t \in NetTask |-> "running"]
  /\ joined = FALSE

Ask ==
  /\ ~asked
  /\ asked' = TRUE
  /\ UNCHANGED <<outcome, joined>>

\* A task ends by itself only when it was asked to or when its lifetime is over.
End(t) ==
  /\ outcome[t] = "running"
  /\ asked \/ t \in Mortal
  /\ outcome' = [outcome EXCEPT ![t] = "ended"]
  /\ UNCHANGED <<asked, joined>>

\* An exception may end a task at any time.
Fail(t) ==
  /\ outcome[t] = "running"
  /\ outcome' = [outcome EXCEPT ![t] = "failed"]
  /\ UNCHANGED <<asked, joined>>

\* A call to its socket may keep a task at any time, for ever.
Hang(t) ==
  /\ outcome[t] = "running"
  /\ outcome' = [outcome EXCEPT ![t] = "hung"]
  /\ UNCHANGED <<asked, joined>>

Return ==
  /\ asked
  /\ \A t \in NetTask : outcome[t] \in {"ended", "failed"}
  /\ ~joined
  /\ joined' = TRUE
  /\ UNCHANGED <<asked, outcome>>

Next ==
  \/ Ask
  \/ \E t \in NetTask : End(t) \/ Fail(t) \/ Hang(t)
  \/ Return

Spec == Init /\ [][Next]_vars

\* A task that was asked to end does so, unless it fails or hangs; a task nobody
\* asked may run for ever.
FairSpec ==
  /\ Spec
  /\ \A t \in NetTask : WF_vars(asked /\ (End(t) \/ Fail(t) \/ Hang(t)))
  /\ WF_vars(Return)
=============================================================================
