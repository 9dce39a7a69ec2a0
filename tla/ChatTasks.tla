------------------------------ MODULE ChatTasks ------------------------------
(***************************************************************************)
(* The threads of the program and the one-message slot they share:         *)
(* main (main.cpp) starts the io task (IoTask.cpp) and the network tasks   *)
(* (NetworkTask.cpp) and joins them; chat() (Chat.cpp) exchanges the       *)
(* contents of the slot under a mutex, so one call is one atomic step.     *)
(*                                                                         *)
(* The sockets are abstracted: a call to one returns, throws or hangs      *)
(* (SctpPeers, UdpPeers and TcpPeers model them: Socket::receive hangs for *)
(* TCP and DCCP when a connection ends, Socket::send for SCTP when a peer  *)
(* does not read).                                                         *)
(***************************************************************************)
EXTENDS Naturals

CONSTANTS
  NetTask,    \* the network tasks: MME, eNB1 and eNB2, or the single one
  Mortal,     \* the network tasks that were given a Lifetime (eNB2)
  Text,       \* the lines a user may type, the two below apart
  Quit,       \* quit_msg
  Empty,      \* the empty string
  MaxLines    \* bound: lines read from stdin before its end

Message == Text \cup {Quit, Empty}

ASSUME MortalAssumption == Mortal \subseteq NetTask
ASSUME MessageAssumption == Quit # Empty /\ Quit \notin Text /\ Empty \notin Text
ASSUME MaxLinesAssumption == MaxLines \in Nat

VARIABLES
  slot,       \* the static ChatMessage msg of chat()
  io,         \* where the io task stands
  line,       \* the io task's msg
  eof,        \* stdin has reported its end: getline reads nothing more
  typed,      \* lines read so far
  pc,         \* pc[t]: where network task t stands
  got,        \* got[t]: its send_msg
  joined      \* main has returned from join(tasks)

vars == <<slot, io, line, eof, typed, pc, got, joined>>

Finished == {"ended", "failed"}
TaskPc == {"start", "check", "receive", "chat", "send", "requeue", "hung"} \cup Finished

Init ==
  /\ slot = Empty
  /\ io = "getline"
  /\ line = Empty
  /\ eof = FALSE
  /\ typed = 0
  /\ pc = [t \in NetTask |-> "start"]
  /\ got = [t \in NetTask |-> Empty]
  /\ joined = FALSE

-----------------------------------------------------------------------------
(* The io task. *)

\* The line is read with fgets, which leaves its newline in place.
ReadLine_KeepsNewline ==
  /\ io = "getline"
  /\ ~eof
  /\ typed < MaxLines
  /\ line' \in {<<m, "newline">> : m \in Message}
  /\ eof' \in BOOLEAN
  /\ typed' = typed + 1
  /\ io' = "chat"
  /\ UNCHANGED <<slot, pc, got, joined>>

\* getline(cin, msg) returns a line.  The last line may lack its newline, and
\* the read that finds nothing yields "": both leave stdin at its end.
ReadLine ==
  /\ io = "getline"
  /\ ~eof
  /\ typed < MaxLines
  /\ line' \in Message
  /\ eof' \in BOOLEAN
  /\ typed' = typed + 1
  /\ io' = "chat"
  /\ UNCHANGED <<slot, pc, got, joined>>

\* At the end of stdin getline fails before it touches msg, which keeps its
\* last value: the loop has no other exit and posts that value again.
ReadPastEnd ==
  /\ io = "getline"
  /\ eof
  /\ io' = "chat"
  /\ UNCHANGED <<slot, line, eof, typed, pc, got, joined>>

\* chat(msg) replaces whatever is in the slot; the loop ends after quit_msg.
PostLine ==
  /\ io = "chat"
  /\ slot' = line
  /\ io' = IF line = Quit THEN "done" ELSE "getline"
  /\ UNCHANGED <<line, eof, typed, pc, got, joined>>

-----------------------------------------------------------------------------
(* A network task. *)

Goto(t, label) == pc' = [pc EXCEPT ![t] = label]

\* startTask and establishSocket; an exception ends the task (LOG_EXCEPTIONS).
Start(t) ==
  /\ pc[t] = "start"
  /\ Goto(t, "check") \/ Goto(t, "failed")
  /\ UNCHANGED <<slot, io, line, eof, typed, got, joined>>

\* The loop forgets to look at the message it has just handled.
Check_LifetimeOnly(t) ==
  /\ pc[t] = "check"
  /\ Goto(t, "receive") \/ (t \in Mortal /\ Goto(t, "ended"))
  /\ UNCHANGED <<slot, io, line, eof, typed, got, joined>>

\* The loop drops its lifetime condition the wrong way round.
Check_AnyoneExpires(t) ==
  /\ pc[t] = "check"
  /\ \/ got[t] # Quit /\ Goto(t, "receive")
     \/ Goto(t, "ended")
  /\ UNCHANGED <<slot, io, line, eof, typed, got, joined>>

\* The condition of the while loop.  A lifetime may be over at any test.
Check(t) ==
  /\ pc[t] = "check"
  /\ \/ got[t] # Quit /\ Goto(t, "receive")
     \/ (got[t] = Quit \/ t \in Mortal) /\ Goto(t, "ended")
  /\ UNCHANGED <<slot, io, line, eof, typed, got, joined>>

\* ts.launch() and socket->receive(): both may throw, and either may be caught
\* in a lock that is never released or in a call that blocks.
LaunchAndReceive(t) ==
  /\ pc[t] = "receive"
  /\ Goto(t, "chat") \/ Goto(t, "failed") \/ Goto(t, "hung")
  /\ UNCHANGED <<slot, io, line, eof, typed, got, joined>>

\* chat(): take what is in the slot and leave it empty.
TakeMessage(t) ==
  /\ pc[t] = "chat"
  /\ got' = [got EXCEPT ![t] = slot]
  /\ slot' = Empty
  /\ Goto(t, IF slot = Empty THEN "check" ELSE IF slot = Quit THEN "requeue" ELSE "send")
  /\ UNCHANGED <<io, line, eof, typed, joined>>

\* socket.send(msg): may throw, and may block for good.
SendMessage(t) ==
  /\ pc[t] = "send"
  /\ Goto(t, "check") \/ Goto(t, "failed") \/ Goto(t, "hung")
  /\ UNCHANGED <<slot, io, line, eof, typed, got, joined>>

\* The quit message is consumed instead of being put back.
PutQuitBack_Dropped(t) ==
  /\ pc[t] = "requeue"
  /\ Goto(t, "check")
  /\ UNCHANGED <<slot, io, line, eof, typed, got, joined>>

\* chat(msg): the quit message goes back for the next task to take.
PutQuitBack(t) ==
  /\ pc[t] = "requeue"
  /\ slot' = got[t]
  /\ Goto(t, "check")
  /\ UNCHANGED <<io, line, eof, typed, got, joined>>

TaskStep(t) ==
  \/ Start(t) \/ Check(t) \/ LaunchAndReceive(t)
  \/ TakeMessage(t) \/ SendMessage(t) \/ PutQuitBack(t)

-----------------------------------------------------------------------------
(* main. *)

\* join(tasks) returns when the io task and every network task have ended.
Join ==
  /\ io = "done"
  /\ \A t \in NetTask : pc[t] \in Finished
  /\ ~joined
  /\ joined' = TRUE
  /\ UNCHANGED <<slot, io, line, eof, typed, pc, got>>

Next ==
  \/ ReadLine \/ ReadPastEnd \/ PostLine
  \/ \E t \in NetTask : TaskStep(t)
  \/ Join

Spec == Init /\ [][Next]_vars

\* Threads are scheduled.  The user need not type anything, a lifetime need not
\* be over, and a call to a socket need not return: a task that hangs does
\* nothing any more.
FairSpec ==
  /\ Spec
  /\ WF_vars(PostLine)
  /\ \A t \in NetTask : WF_vars(TaskStep(t))
  /\ WF_vars(Join)

-----------------------------------------------------------------------------
TypeOK ==
  /\ slot \in Message
  /\ io \in {"getline", "chat", "done"}
  /\ line \in Message
  /\ eof \in BOOLEAN
  /\ typed \in 0..MaxLines
  /\ pc \in [NetTask -> TaskPc]
  /\ got \in [NetTask -> Message]
  /\ joined \in BOOLEAN

\* Once the quit message has been posted it is either in the slot or in the
\* hands of a task that is about to put it back: neither another task's take,
\* nor a later line, nor a task that dies makes it disappear.
QuitNeverLost ==
  io = "done" => slot = Quit \/ \E t \in NetTask : pc[t] = "requeue"

\* Once quit has been typed every task whose socket does not hang leaves its
\* loop, whatever the others do with the message in between; and main returns
\* from join unless one of them hangs for good.
QuitEndsProcess ==
  io = "done" ~>
    /\ \A t \in NetTask : pc[t] \in Finished \cup {"hung"}
    /\ joined \/ \E t \in NetTask : pc[t] = "hung"

Outcome(p) == IF p \in Finished \cup {"hung"} THEN p ELSE "running"

Abstract == INSTANCE QuitBroadcast WITH
  asked <- io = "done",
  outcome <- [t \in NetTask |-> Outcome(pc[t])]

\* The slot implements the broadcast of the quit message: no task ends by
\* itself unless it was asked to or has outlived its lifetime, and every task
\* that was asked to ends, unless its socket fails or hangs.
ImplementsBroadcast == Abstract!FairSpec
=============================================================================
