------------------------------- MODULE TcpPeers -------------------------------
(***************************************************************************)
(* One network task with a TCP or a DCCP socket: SocketTcp (SocketTcp.cpp) *)
(* and SocketDccp (SocketDccp.cpp) on top of Socket (Socket.cpp) in the    *)
(* loop of networkTask (NetworkTask.cpp).                                  *)
(*                                                                         *)
(* The main socket listens; every connection, accepted or opened by us,    *)
(* has a descriptor and an entry of the peers table.  Each receive()       *)
(* starts one handler thread per readable descriptor and joins them.       *)
(*                                                                         *)
(* peers_mtx is a std::mutex.  Most of its critical sections call nothing  *)
(* that locks it and are one step here, enabled while nobody holds it; but *)
(* handleGracefulShutdown and handleCommLost hold it when they call        *)
(* remove, which locks it again: that thread waits for itself, for ever,   *)
(* and the network thread that joins it waits with it.  So no entry is     *)
(* ever erased, and no reestablishment, due in ts.launch() five seconds    *)
(* after a handler scheduled it, ever runs: neither has an action here.    *)
(***************************************************************************)
EXTENDS Naturals, FiniteSets, Functions

CONSTANTS
  Remote,      \* the remotes' addresses
  Configured,  \* config.remotes, connected to at the start
  Fd,          \* descriptors socket() and accept4() may return; bound
  MainFd,      \* Socket::fd
  Nobody,      \* no thread holds peers_mtx
  Kinds        \* the classes createSocket may have made: "tcp" and "dccp"

ASSUME ConfiguredAssumption == Configured \subseteq Remote
ASSUME DescriptorAssumption == MainFd \notin Fd /\ Nobody \notin Fd \cup {MainFd} /\ Fd \subseteq Nat
ASSUME KindsAssumption == Kinds \subseteq {"tcp", "dccp"}

VARIABLES
  kind,      \* the class of the socket
  protocolOk, \* whether the uninitialised member protocol is one socket() takes
  conn,      \* kernel: state of the connection of each descriptor
  inbox,     \* kernel: the message waiting on each descriptor
  pending,   \* kernel: remotes waiting to be accepted
  peers,     \* the peers table: remote and should_reestablish of each descriptor
  reest,     \* reest[r]: scheduled reestablishments to r
  lock,      \* the descriptor whose handler holds peers_mtx
  todo,      \* the remotes the first connect() has still to go through
  loop,      \* where the network task stands
  hand,      \* hand[s]: where the handler of descriptor s stands
  msg        \* msg[s]: what that handler received

kernelVars == <<conn, inbox, pending>>
tableVars == <<peers, reest>>
loopVars == <<loop, todo, kind, protocolOk>>
vars == <<kind, protocolOk, conn, inbox, pending, peers, reest, lock, todo, loop, hand, msg>>

Sock == Fd \cup {MainFd}
Stopped == {"ended", "threw"}
HandPc == {"idle", "start", "receive", "dispatch", "relock", "done", "threw"}
Text == {"text", "q"}
EmptyMap == [x \in {} |-> x]

Free == {f \in Fd : conn[f] = "closed"}

\* The kernel hands out the lowest descriptor that is free.
Lowest == {f \in Free : \A g \in Free : f <= g}

Dccp == kind = "dccp"

Init ==
  /\ kind \in Kinds
  /\ protocolOk \in BOOLEAN
  /\ conn = [f \in Fd |-> "closed"]
  /\ inbox = [f \in Fd |-> "nothing"]
  /\ pending = {}
  /\ peers = EmptyMap
  /\ reest = [r \in Remote |-> 0]
  /\ lock = Nobody
  /\ todo = Configured
  /\ loop = "connect"
  /\ hand = [s \in Sock |-> "idle"]
  /\ msg = [s \in Sock |-> "nothing"]

-----------------------------------------------------------------------------
(* The kernel and the remotes. *)

Becomes(f, from, to) ==
  /\ conn[f] \in from
  /\ conn' = [conn EXCEPT ![f] = to]
  /\ UNCHANGED <<inbox, pending>>

\* A connection is established, closed by the remote, or refused, reset or
\* timed out (keep-alive).
ConnectionChanges(f) ==
  \/ Becomes(f, {"connecting"}, "open")
  \/ Becomes(f, {"open"}, "eof")
  \/ Becomes(f, {"connecting", "open", "eof"}, "error")

RemoteSends(f) ==
  /\ conn[f] = "open"
  /\ inbox[f] = "nothing"
  /\ \E m \in Text : inbox' = [inbox EXCEPT ![f] = m]
  /\ UNCHANGED <<conn, pending>>

RemoteConnects(r) ==
  /\ r \notin pending
  /\ pending' = pending \cup {r}
  /\ UNCHANGED <<conn, inbox>>

KernelStep ==
  /\ loop \notin Stopped
  /\ \/ \E f \in Fd : ConnectionChanges(f) \/ RemoteSends(f)
     \/ \E r \in Remote : RemoteConnects(r)
  /\ UNCHANGED <<tableVars, lock, loopVars, hand, msg>>

-----------------------------------------------------------------------------
(* The network task's own thread. *)

\* An exception or the end of the loop destroys the socket and its peers.
Stop(label) ==
  /\ loop' = label
  /\ peers' = EmptyMap
  /\ conn' = [f \in Fd |-> "closed"]
  /\ inbox' = [f \in Fd |-> "nothing"]
  /\ pending' = {}

\* connect: a new socket of the given protocol, configured, bound, and told to
\* connect without blocking.
Connect(r) ==
  /\ lock = Nobody
  /\ \/ /\ protocolOk
        /\ \E f \in Lowest :
             /\ conn' = [conn EXCEPT ![f] = "connecting"]
             /\ peers' = [g \in DOMAIN peers \cup {f} |->
                            IF g = f THEN [remote |-> r, ours |-> TRUE] ELSE peers[g]]
        /\ UNCHANGED <<inbox, pending, loop>>
     \/ Stop("threw")

ConnectNext ==
  /\ loop = "connect"
  /\ \/ \E r \in todo : Connect(r) /\ todo' = todo \ {r}
     \/ todo = {} /\ loop' = "launch" /\ UNCHANGED <<kernelVars, peers, todo>>
  /\ UNCHANGED <<reest, lock, kind, protocolOk, hand, msg>>

EndLaunch ==
  /\ loop = "launch"
  /\ loop' = "select"
  /\ UNCHANGED <<kernelVars, tableVars, lock, todo, kind, protocolOk, hand, msg>>

Readable(s) ==
  IF s = MainFd THEN pending # {}
  ELSE s \in DOMAIN peers /\ (inbox[s] # "nothing" \/ conn[s] \in {"eof", "error"})

\* selectFds() and the start of the handlers.
Select ==
  /\ loop = "select"
  /\ lock = Nobody
  /\ loop' = "round"
  /\ hand' = [s \in Sock |-> IF Readable(s) THEN "start" ELSE "idle"]
  /\ UNCHANGED <<kernelVars, tableVars, lock, todo, kind, protocolOk, msg>>

\* receive() returns without joining its handlers.
JoinHandlers_NoWait ==
  /\ loop = "round"
  /\ IF \E s \in Sock : hand[s] = "threw"
     THEN Stop("threw")
     ELSE loop' = "chat" /\ UNCHANGED <<kernelVars, peers>>
  /\ UNCHANGED <<reest, lock, todo, kind, protocolOk, hand, msg>>

\* join(tasks): wait for every handler, then rethrow what one of them threw.
JoinHandlers ==
  /\ loop = "round"
  /\ \A s \in Sock : hand[s] \in {"idle", "done", "threw"}
  /\ IF \E s \in Sock : hand[s] = "threw"
     THEN Stop("threw")
     ELSE loop' = "chat" /\ UNCHANGED <<kernelVars, peers>>
  /\ hand' = [s \in Sock |-> "idle"]
  /\ msg' = [s \in Sock |-> "nothing"]
  /\ UNCHANGED <<reest, lock, todo, kind, protocolOk>>

\* chatOrQuit and the loop condition: no message, one that goes to every peer,
\* or the end.  A message for a connection that is not there yet or no longer
\* cannot be sent: SocketTcp lets the exception end the task, SocketDccp logs it.
Chat ==
  /\ loop = "chat"
  /\ \/ loop' = "launch" /\ UNCHANGED <<kernelVars, peers>>
     \/ ~Dccp /\ DOMAIN peers # {} /\ lock = Nobody /\ Stop("threw")
     \/ Stop("ended")
  /\ UNCHANGED <<reest, lock, todo, kind, protocolOk, hand, msg>>

LoopStep ==
  \/ ConnectNext \/ EndLaunch \/ Select \/ JoinHandlers \/ Chat

-----------------------------------------------------------------------------
(* The handler thread of descriptor s: handleMessage. *)

At(s, from, to) ==
  /\ hand[s] = from
  /\ hand' = [hand EXCEPT ![s] = to]

\* The new peer is entered under this->fd, which the local fd hides.
HandleCommUp_ListeningFd ==
  /\ lock = Nobody
  /\ At(MainFd, "start", "done")
  /\ \E r \in pending, f \in Lowest :
       /\ pending' = pending \ {r}
       /\ conn' = [conn EXCEPT ![f] = "open"]
       /\ peers' = [g \in DOMAIN peers \cup {MainFd} |->
                      IF g = MainFd THEN [remote |-> r, ours |-> FALSE] ELSE peers[g]]
  /\ UNCHANGED <<inbox, reest, lock, loopVars, msg>>

\* handleCommUp on the main socket.  accept4 reports an error that is pending
\* on the new connection, and the exception leaves the handler.
HandleCommUp ==
  /\ lock = Nobody
  /\ \/ /\ At(MainFd, "start", "done")
        /\ \E r \in pending, f \in Lowest :
             /\ pending' = pending \ {r}
             /\ conn' = [conn EXCEPT ![f] = "open"]
             /\ peers' = [g \in DOMAIN peers \cup {f} |->
                            IF g = f THEN [remote |-> r, ours |-> FALSE] ELSE peers[g]]
     \/ /\ At(MainFd, "start", "threw")
        /\ \E r \in pending : pending' = pending \ {r}
        /\ UNCHANGED <<conn, peers>>
  /\ UNCHANGED <<inbox, reest, lock, loopVars, msg>>

\* The lookup leaves without unlocking.
GetBuffer_KeepsLock(f) ==
  /\ lock = Nobody
  /\ At(f, "start", "receive")
  /\ f \in DOMAIN peers
  /\ lock' = f
  /\ UNCHANGED <<kernelVars, tableVars, loopVars, msg>>

\* receiveMessage looks its buffer up in the table ...
GetBuffer(f) ==
  /\ lock = Nobody
  /\ At(f, "start", "receive")
  /\ f \in DOMAIN peers
  /\ UNCHANGED <<kernelVars, tableVars, lock, loopVars, msg>>

\* ... and receives: the message, nothing at the end of the stream, or an error.
ReceiveMessage(f) ==
  /\ At(f, "receive", "dispatch")
  /\ msg' = [msg EXCEPT ![f] =
       IF inbox[f] # "nothing" THEN inbox[f] ELSE IF conn[f] = "eof" THEN "empty" ELSE "error"]
  /\ inbox' = [inbox EXCEPT ![f] = "nothing"]
  /\ UNCHANGED <<conn, pending, tableVars, lock, loopVars>>

\* What the handler does with it.
ReactionTo(m) ==
  CASE m = "error" -> IF Dccp THEN "throw" ELSE "lost"
    [] m = "empty" -> IF Dccp THEN "lost" ELSE "shut"
    [] m = "q"     -> IF Dccp THEN "shut" ELSE "log"
    [] m = "text"  -> "log"

Reacts(f, how) == hand[f] = "dispatch" /\ ReactionTo(msg[f]) = how

\* A received message is logged with getpeername, which fails when the
\* connection is gone by now; SocketDccp's receive error is not caught either.
HandleText(f) ==
  /\ lock = Nobody
  /\ \/ Reacts(f, "log") /\ At(f, "dispatch", IF conn[f] = "error" THEN "threw" ELSE "done")
     \/ Reacts(f, "throw") /\ At(f, "dispatch", "threw")
  /\ UNCHANGED <<kernelVars, tableVars, lock, loopVars, msg>>

\* The descriptor is closed before its entry is removed.
RemoveLocked_ClosesFirst(f) ==
  /\ At(f, "dispatch", "relock")
  /\ lock' = f
  /\ conn' = [conn EXCEPT ![f] = "closed"]
  /\ inbox' = [inbox EXCEPT ![f] = "nothing"]
  /\ UNCHANGED peers

\* remove, called by the thread that holds peers_mtx: it comes no further than
\* its LOCK_MTX.
RemoveLocked(f) ==
  /\ At(f, "dispatch", "relock")
  /\ lock' = f
  /\ UNCHANGED <<peers, conn, inbox>>

HandleGracefulShutdown(f) ==
  /\ lock = Nobody
  /\ Reacts(f, "shut")
  /\ RemoveLocked(f)
  /\ UNCHANGED <<pending, reest, loopVars, msg>>

\* Every lost connection is reestablished, accepted ones too.
HandleCommLost_Everyone(f) ==
  /\ lock = Nobody
  /\ Reacts(f, "lost")
  /\ reest' = [reest EXCEPT ![peers[f].remote] = @ + 1]
  /\ RemoveLocked(f)
  /\ UNCHANGED <<pending, loopVars, msg>>

\* The lost connection is logged, and stays in the table.
HandleCommLost_LogOnly(f) ==
  /\ lock = Nobody
  /\ Reacts(f, "lost")
  /\ At(f, "dispatch", "done")
  /\ UNCHANGED <<kernelVars, tableVars, lock, loopVars, msg>>

\* handleCommLost: only the connections that we opened are to be opened again.
HandleCommLost(f) ==
  /\ lock = Nobody
  /\ Reacts(f, "lost")
  /\ reest' = IF peers[f].ours THEN [reest EXCEPT ![peers[f].remote] = @ + 1] ELSE reest
  /\ RemoveLocked(f)
  /\ UNCHANGED <<pending, loopVars, msg>>

PeerHandlerStep(f) ==
  \/ GetBuffer(f) \/ ReceiveMessage(f)
  \/ HandleText(f) \/ HandleGracefulShutdown(f) \/ HandleCommLost(f)

HandlerStep(s) == IF s = MainFd THEN HandleCommUp ELSE PeerHandlerStep(s)

Next ==
  \/ KernelStep
  \/ LoopStep
  \/ \E s \in Sock : HandlerStep(s)

Spec == Init /\ [][Next]_vars

\* The threads of the program are scheduled; the remotes need not do anything.
FairSpec ==
  /\ Spec
  /\ WF_vars(LoopStep)
  /\ \A s \in Sock : WF_vars(HandlerStep(s))

-----------------------------------------------------------------------------
TypeOK ==
  /\ kind \in Kinds
  /\ protocolOk \in BOOLEAN
  /\ conn \in [Fd -> {"closed", "connecting", "open", "eof", "error"}]
  /\ inbox \in [Fd -> Text \cup {"nothing"}]
  /\ pending \subseteq Remote
  /\ DOMAIN peers \subseteq Fd
  /\ \A f \in DOMAIN peers : peers[f] \in [remote : Remote, ours : BOOLEAN]
  /\ reest \in [Remote -> Nat]
  /\ lock \in Sock \cup {Nobody}
  /\ todo \subseteq Configured
  /\ loop \in {"connect", "launch", "select", "round", "chat"} \cup Stopped
  /\ hand \in [Sock -> HandPc]
  /\ msg \in [Sock -> Text \cup {"nothing", "empty", "error"}]

\* peers.at(fd) finds the peer whenever a handler calls it: the table is not
\* destroyed between select() and the end of a handler that is still to look.
PeerFoundByHandler ==
  \A f \in Fd : hand[f] \in {"start", "receive", "dispatch", "relock"} => f \in DOMAIN peers

\* The open descriptors are those of the table: none leaks, none is closed
\* while its entry is still there.
TableOwnsDescriptors == Fd \ Free = DOMAIN peers

\* The handler of f has lost its connection, and scheduled what is due for it.
GivenUp(f) == hand[f] = "relock" /\ ReactionTo(msg[f]) = "lost"

\* For every remote we were told to connect to there is exactly one of: the
\* connection we opened, unless its handler has given it up, a scheduled
\* reestablishment, or a connect() still to come.  For the others there is none,
\* however often they connect to us and are lost.
OneConnectionOfOurs ==
  loop \notin Stopped =>
    \A r \in Remote :
      Cardinality({f \in DOMAIN peers : peers[f].remote = r /\ peers[f].ours /\ ~GivenUp(f)})
      + reest[r] + (IF r \in todo THEN 1 ELSE 0)
        = IF r \in Configured THEN 1 ELSE 0

\* Some handler is caught in remove.
Removing == \E f \in Fd : hand[f] = "relock"

\* Nothing but remove keeps a round from its end: no other handler holds
\* peers_mtx for ever, and none waits for a message that does not come.
OnlyRemoveHangs == loop = "round" ~> (loop # "round" \/ Removing)

\* A connection that has failed does not go unnoticed: its entry goes with the
\* socket, or a handler comes to remove one.
FailuresNoticed ==
  \A f \in Fd : (f \in DOMAIN peers /\ conn[f] = "error") ~> (f \notin DOMAIN peers \/ Removing)

\* "Removed fd" (SocketTcp.cpp:133): remove comes to its end, and with it the
\* round: no handler waits for ever for peers_mtx.
RoundsEnd == loop = "round" ~> loop # "round"
=============================================================================
