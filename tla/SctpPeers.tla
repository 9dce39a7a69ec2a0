------------------------------ MODULE SctpPeers ------------------------------
(***************************************************************************)
(* One network task with an SCTP socket: SocketSctp (SocketSctp.cpp) on    *)
(* top of Socket::receive and Socket::scheduleReestablishment (Socket.cpp) *)
(* in the loop of networkTask (NetworkTask.cpp).                           *)
(*                                                                         *)
(* The one-to-many main socket receives the notifications of associations  *)
(* that have not been peeled off; COMM_UP peels an association off to a    *)
(* descriptor of its own, which then receives everything about it.  Each   *)
(* receive() starts one handler thread per readable descriptor and joins   *)
(* them; the handlers interleave.  A critical section of peers_mtx is one  *)
(* step here, except that of peelOff: between the peel-off and the         *)
(* emplace the association may be lost, so these are two steps, and the    *)
(* handlers that need the lock wait in between.                            *)
(*                                                                         *)
(* The kernel and the task scheduler are outside the repository; they are  *)
(* modelled from how the code uses them.                                   *)
(***************************************************************************)
EXTENDS Naturals, Sequences, FiniteSets, Functions

CONSTANTS
  Remote,      \* the peers' addresses
  Configured,  \* config.remotes, connected to at the start
  Assoc,       \* association ids; bound: associations in a behaviour
  Fd,          \* descriptors sctp_peeloff may return
  Buf,         \* receive buffers of peer_msg_buffers
  MainFd,      \* Socket::fd
  MainBuf,     \* Socket::main_msg_buffer
  Closed,      \* the socket of an association whose descriptor was closed
  MaxQueue     \* bound: messages waiting on one socket before a peer sends more

ASSUME ConfiguredAssumption == Configured \subseteq Remote
ASSUME SocketAssumption == MainFd \notin Fd /\ Closed \notin Fd /\ Closed # MainFd
ASSUME BufferAssumption == MainBuf \notin Buf
ASSUME IdAssumption == Assoc \subseteq Nat /\ Fd \subseteq Nat /\ Buf \subseteq Nat
ASSUME MaxQueueAssumption == MaxQueue \in Nat

VARIABLES
  assoc,     \* kernel: remote, state and socket of each association so far
  queue,     \* kernel: messages and notifications waiting on each socket
  peers,     \* the peers table: descriptor and buffer of each association id
  todo,      \* the remotes the first connect() has still to go through
  reest,     \* reest[r]: scheduled reestablishments to r
  retried,   \* history: reestablishments to r that have run
  loop,      \* where the network task stands
  hand,      \* hand[s]: where the handler of socket s stands in this round
  hbuf,      \* hbuf[s]: the buffer that handler received into
  hev        \* hev[s]: the event it received

kernelVars == <<assoc, queue>>
tableVars == <<peers, reest>>
handlerVars == <<hand, hbuf, hev>>
loopVars == <<loop, todo, retried>>
vars == <<assoc, queue, peers, todo, reest, retried, loop, hand, hbuf, hev>>

Sock == Fd \cup {MainFd}
EndState == {"shut", "lost", "failed"}
EventType == {"up", "data"} \cup EndState
Event == [assoc : Assoc, type : EventType]
NoEvent == [type |-> "none"]
Stopped == {"ended", "threw"}
HandPc == {"idle", "getBuffer", "receive", "dispatch", "peeled", "schedule", "done", "threw"}
EmptyMap == [x \in {} |-> x]

\* emplace() of the standard maps: an existing key keeps its value.
Emplace(map, key, value) ==
  [k \in DOMAIN map \cup {key} |-> IF k \in DOMAIN map THEN map[k] ELSE value]

Erase(map, key) == Restrict(map, DOMAIN map \ {key})

Live(a) == assoc[a].st \in {"setup", "up"}
Associated(r) == \E a \in DOMAIN assoc : assoc[a].remote = r /\ Live(a)
OpenFds == {assoc[a].sock : a \in DOMAIN assoc} \ {MainFd, Closed}
LentBufs == {peers[a].buf : a \in DOMAIN peers}
Running == loop \notin Stopped

\* The elements of a sequence that are in keep, in their order.
Sift(s, keep) ==
  LET upTo[n \in 0 .. Len(s)] ==
        IF n = 0 THEN <<>> ELSE IF s[n] \in keep THEN Append(upTo[n - 1], s[n]) ELSE upTo[n - 1]
  IN upTo[Len(s)]

\* The kernel hands out the lowest descriptor that is free and counts its
\* association ids up; which free buffer the pool hands out makes no difference.
Least(S) == {x \in S : \A y \in S : x <= y}

Init ==
  /\ assoc = EmptyMap
  /\ queue = [s \in Sock |-> <<>>]
  /\ peers = EmptyMap
  /\ todo = Configured
  /\ reest = [r \in Remote |-> 0]
  /\ retried = [r \in Remote |-> 0]
  /\ loop = "connect"
  /\ hand = [s \in Sock |-> "idle"]
  /\ hbuf = [s \in Sock |-> MainBuf]
  /\ hev = [s \in Sock |-> NoEvent]

-----------------------------------------------------------------------------
(* The kernel. *)

Notify(a, type) ==
  queue' = [queue EXCEPT ![assoc[a].sock] = Append(@, [assoc |-> a, type |-> type])]

SetState(a, st) == assoc' = [assoc EXCEPT ![a].st = st]

NewAssoc(r, st) ==
  \E a \in Least(Assoc \ DOMAIN assoc) :
    /\ assoc' = Emplace(assoc, a, [remote |-> r, st |-> st, sock |-> MainFd])
    /\ queue' = IF st = "up"
                THEN [queue EXCEPT ![MainFd] = Append(@, [assoc |-> a, type |-> "up"])]
                ELSE queue

\* The remote answers our INIT, or its own INIT meets ours: COMM_UP.
Establish(a) ==
  /\ assoc[a].st = "setup"
  /\ SetState(a, "up")
  /\ Notify(a, "up")

\* The INIT attempts run out: CANT_STR_ASSOC.
EstablishFails(a) ==
  /\ assoc[a].st = "setup"
  /\ SetState(a, "failed")
  /\ Notify(a, "failed")

\* A remote connects to the listening main socket: COMM_UP.
RemoteConnects(r) ==
  /\ ~Associated(r)
  /\ NewAssoc(r, "up")

\* A message, or a notification that handle() only logs.
RemoteSends(a) ==
  /\ assoc[a].st = "up"
  /\ Len(queue[assoc[a].sock]) < MaxQueue
  /\ Notify(a, "data")
  /\ UNCHANGED assoc

\* SHUTDOWN_COMP.
RemoteShutsDown(a) ==
  /\ assoc[a].st = "up"
  /\ SetState(a, "shut")
  /\ Notify(a, "shut")

\* Retransmissions run out, or the remote aborts: COMM_LOST.
PathFails(a) ==
  /\ assoc[a].st = "up"
  /\ SetState(a, "lost")
  /\ Notify(a, "lost")

KernelStep ==
  /\ Running
  /\ \/ \E r \in Remote : RemoteConnects(r)
     \/ \E a \in DOMAIN assoc :
          \/ Establish(a) \/ EstablishFails(a)
          \/ RemoteSends(a) \/ RemoteShutsDown(a) \/ PathFails(a)
  /\ UNCHANGED <<tableVars, handlerVars, loopVars>>

-----------------------------------------------------------------------------
(* The network task's own thread. *)

\* An exception or the end of the loop destroys the socket: the table goes and
\* every descriptor is closed, which ends the associations still up.
Stop(label) ==
  /\ loop' = label
  /\ peers' = EmptyMap
  /\ queue' = [s \in Sock |-> <<>>]
  /\ assoc' = [a \in DOMAIN assoc |->
                 [assoc[a] EXCEPT !.sock = Closed, !.st = IF Live(a) THEN "shut" ELSE @]]

\* Socket::connect on the main socket: nonblocking, so EINPROGRESS is success,
\* but an association with r that already exists or is being set up makes
\* connect(2) fail, and checkConnect throws.
Connect(r, next) ==
  \/ /\ ~Associated(r)
     /\ NewAssoc(r, "setup")
     /\ loop' = next
     /\ UNCHANGED peers
  \/ /\ Associated(r)
     /\ Stop("threw")

\* socket->connect(config.remotes), one remote at a time.
ConnectNext ==
  /\ loop = "connect"
  /\ \/ \E r \in todo :
          /\ Connect(r, "connect")
          /\ todo' = todo \ {r}
     \/ /\ todo = {}
        /\ loop' = "launch"
        /\ UNCHANGED <<kernelVars, peers, todo>>
  /\ UNCHANGED <<reest, retried, handlerVars>>

\* A task that was never scheduled runs.
Reestablish_Unscheduled(r) ==
  /\ loop = "launch"
  /\ reest' = [reest EXCEPT ![r] = @ - 1]
  /\ retried' = [retried EXCEPT ![r] = @ + 1]
  /\ Connect(r, "launch")
  /\ UNCHANGED <<todo, handlerVars>>

\* ts.launch() runs a reestablishment whose five seconds are over.
Reestablish(r) ==
  /\ loop = "launch"
  /\ reest[r] > 0
  /\ reest' = [reest EXCEPT ![r] = @ - 1]
  /\ retried' = [retried EXCEPT ![r] = @ + 1]
  /\ Connect(r, "launch")
  /\ UNCHANGED <<todo, handlerVars>>

EndLaunch ==
  /\ loop = "launch"
  /\ loop' = "select"
  /\ UNCHANGED <<kernelVars, tableVars, handlerVars, todo, retried>>

Selectable == {MainFd} \cup {peers[a].fd : a \in DOMAIN peers}

\* A handler starts for every descriptor that was watched, readable or not.
Select_All ==
  /\ loop = "select"
  /\ loop' = "round"
  /\ hand' = [s \in Sock |-> IF s \in Selectable THEN "getBuffer" ELSE "idle"]
  /\ UNCHANGED <<kernelVars, tableVars, hbuf, hev, todo, retried>>

\* selectFds() and the start of one handler per readable descriptor; when
\* nothing is readable select times out and there is nothing to join.
Select ==
  LET readable == {s \in Selectable : queue[s] # <<>>} IN
  /\ loop = "select"
  /\ loop' = IF readable = {} THEN "chat" ELSE "round"
  /\ hand' = [s \in Sock |-> IF s \in readable THEN "getBuffer" ELSE "idle"]
  /\ UNCHANGED <<kernelVars, tableVars, hbuf, hev, todo, retried>>

\* receive() returns without joining its handlers.
JoinHandlers_NoWait ==
  /\ loop = "round"
  /\ IF \E s \in Sock : hand[s] = "threw"
     THEN Stop("threw")
     ELSE loop' = "chat" /\ UNCHANGED <<kernelVars, peers>>
  /\ UNCHANGED <<reest, handlerVars, todo, retried>>

\* join(tasks): wait for every handler, then rethrow what one of them threw.
JoinHandlers ==
  /\ loop = "round"
  /\ \A s \in Sock : hand[s] \in {"idle", "done", "threw"}
  /\ IF \E s \in Sock : hand[s] = "threw"
     THEN Stop("threw")
     ELSE loop' = "chat" /\ UNCHANGED <<kernelVars, peers>>
  /\ hand' = [s \in Sock |-> "idle"]
  /\ hbuf' = [s \in Sock |-> MainBuf]
  /\ hev' = [s \in Sock |-> NoEvent]
  /\ UNCHANGED <<reest, todo, retried>>

\* chatOrQuit and the loop condition: no message, one for every peer, or the end.
Chat ==
  /\ loop = "chat"
  /\ \/ /\ loop' \in {"launch"} \cup (IF DOMAIN peers = {} THEN {} ELSE {"send"})
        /\ UNCHANGED <<kernelVars, peers>>
     \/ Stop("ended")
  /\ UNCHANGED <<reest, handlerVars, todo, retried>>

\* ::send to one peer after the other: it fails for an association that is gone,
\* and a failure ends the task.  The peeled-off descriptors are never configured
\* to be nonblocking, so ::send to a peer that reads nothing need not return.
Send ==
  /\ loop = "send"
  /\ \/ /\ loop' = "launch"
        /\ UNCHANGED <<kernelVars, peers>>
     \/ Stop("threw")
  /\ UNCHANGED <<reest, handlerVars, todo, retried>>

\* The steps of the loop that end by themselves.
LoopStep ==
  \/ ConnectNext
  \/ \E r \in Remote : Reestablish(r)
  \/ EndLaunch \/ Select \/ JoinHandlers \/ Chat

-----------------------------------------------------------------------------
(* The handler thread of socket s: handleMessage. *)

At(s, from, to) ==
  /\ hand[s] = from
  /\ hand' = [hand EXCEPT ![s] = to]

\* peelOff keeps peers_mtx from the peel-off to the emplace.
LockFree == \A u \in Sock : hand[u] # "peeled"

\* Every handler receives into the socket's own buffer.
GetBuffer_Shared(s) ==
  /\ At(s, "getBuffer", "receive")
  /\ hbuf' = [hbuf EXCEPT ![s] = MainBuf]
  /\ UNCHANGED <<kernelVars, tableVars, loopVars, hev>>

\* getBuffer: the main buffer for the main socket, otherwise that of the peer
\* with this descriptor.
GetBuffer(s) ==
  /\ LockFree
  /\ At(s, "getBuffer", "receive")
  /\ \/ s = MainFd /\ hbuf' = [hbuf EXCEPT ![s] = MainBuf]
     \/ \E a \in DOMAIN peers : peers[a].fd = s /\ hbuf' = [hbuf EXCEPT ![s] = peers[a].buf]
  /\ UNCHANGED <<kernelVars, tableVars, loopVars, hev>>

\* sctp_recvmsg takes the next message or notification of this socket.
Receive(s) ==
  /\ At(s, "receive", "dispatch")
  /\ queue[s] # <<>>
  /\ hev' = [hev EXCEPT ![s] = Head(queue[s])]
  /\ queue' = [queue EXCEPT ![s] = Tail(@)]
  /\ UNCHANGED <<assoc, tableVars, loopVars, hbuf>>

Dispatch(s, type, to) == hev[s].type = type /\ At(s, "dispatch", to)

\* Every notification but COMM_UP ends the association in the table.
HandleData_Removes(s) ==
  /\ Dispatch(s, "data", "done")
  /\ peers' = Erase(peers, hev[s].assoc)
  /\ UNCHANGED <<kernelVars, reest, loopVars, hbuf, hev>>

\* A message is logged, and so is a notification that handle() does not act on.
HandleData(s) ==
  /\ Dispatch(s, "data", "done")
  /\ UNCHANGED <<kernelVars, tableVars, loopVars, hbuf, hev>>

\* handleCommUp, and peelOff up to the peel-off: the association moves to a
\* descriptor of its own, and the kernel moves what was waiting for it.
\* sctp_peeloff fails for an association that is gone, and checkedPeeloff throws.
PeelOff(s) ==
  LET a == hev[s].assoc
      about == {e \in Event : e.assoc = a}
  IN
  /\ LockFree
  /\ hev[s].type = "up"
  /\ IF assoc[a].st = "up"
     THEN \E f \in Least(Fd \ OpenFds) :
            /\ At(s, "dispatch", "peeled")
            /\ assoc' = [assoc EXCEPT ![a].sock = f]
            /\ queue' = [queue EXCEPT ![f] = Sift(queue[MainFd], about),
                                      ![MainFd] = Sift(queue[MainFd], Event \ about)]
     ELSE At(s, "dispatch", "threw") /\ UNCHANGED kernelVars
  /\ UNCHANGED <<tableVars, loopVars, hbuf, hev>>

\* The rest of peelOff: logPeerInfo asks for the association's status, and the
\* table takes the peer.  If the association has ended since, the query fails:
\* the exception closes peeled_fd together with what is queued on it.
EmplacePeer(s) ==
  LET a == hev[s].assoc IN
  /\ hand[s] = "peeled"
  /\ IF assoc[a].st = "up"
     THEN /\ At(s, "peeled", "done")
          /\ \E b \in Least(Buf \ LentBufs) :
               peers' = Emplace(peers, a, [fd |-> assoc[a].sock, buf |-> b])
          /\ UNCHANGED kernelVars
     ELSE /\ At(s, "peeled", "threw")
          /\ assoc' = [assoc EXCEPT ![a].sock = Closed]
          /\ queue' = [queue EXCEPT ![assoc[a].sock] = <<>>]
          /\ UNCHANGED peers
  /\ UNCHANGED <<reest, loopVars, hbuf, hev>>

Schedule(r) == reest' = [reest EXCEPT ![r] = @ + 1]

\* handleEstablishmentFailure.
HandleEstablishmentFailure(s) ==
  /\ Dispatch(s, "failed", "done")
  /\ Schedule(assoc[hev[s].assoc].remote)
  /\ UNCHANGED <<kernelVars, peers, loopVars, hbuf, hev>>

\* remove forgets the entry but the descriptor stays open.
Remove_Leaks(a) ==
  /\ peers' = Erase(peers, a)
  /\ UNCHANGED kernelVars

\* remove: erasing the entry closes its descriptor and returns its buffer.
Remove(a) ==
  /\ LockFree
  /\ peers' = Erase(peers, a)
  /\ IF a \in DOMAIN peers
     THEN /\ assoc' = [assoc EXCEPT ![a].sock = Closed]
          /\ queue' = [queue EXCEPT ![peers[a].fd] = <<>>]
     ELSE UNCHANGED kernelVars

\* The graceful shutdown is only logged.
HandleGracefulShutdown_LogOnly(s) ==
  /\ Dispatch(s, "shut", "done")
  /\ UNCHANGED <<kernelVars, peers, reest, loopVars, hbuf, hev>>

HandleGracefulShutdown(s) ==
  /\ Dispatch(s, "shut", "done")
  /\ Remove(hev[s].assoc)
  /\ UNCHANGED <<reest, loopVars, hbuf, hev>>

\* A lost association is treated like one that was shut down.
HandleCommLost_NoRetry(s) ==
  /\ Dispatch(s, "lost", "done")
  /\ Remove(hev[s].assoc)
  /\ UNCHANGED <<reest, loopVars, hbuf, hev>>

\* handleCommLost removes the peer first ...
HandleCommLost(s) ==
  /\ Dispatch(s, "lost", "schedule")
  /\ Remove(hev[s].assoc)
  /\ UNCHANGED <<reest, loopVars, hbuf, hev>>

\* ... and then, outside the lock, schedules the reestablishment.
ScheduleReestablishment(s) ==
  /\ At(s, "schedule", "done")
  /\ Schedule(assoc[hev[s].assoc].remote)
  /\ UNCHANGED <<kernelVars, peers, loopVars, hbuf, hev>>

HandlerStep(s) ==
  \/ GetBuffer(s) \/ Receive(s) \/ HandleData(s) \/ PeelOff(s) \/ EmplacePeer(s)
  \/ HandleEstablishmentFailure(s) \/ HandleGracefulShutdown(s)
  \/ HandleCommLost(s) \/ ScheduleReestablishment(s)

Next ==
  \/ KernelStep
  \/ LoopStep \/ Send
  \/ \E s \in Sock : HandlerStep(s)

Spec == Init /\ [][Next]_vars

\* The threads of the program are scheduled; the kernel's events need not come,
\* and ::send need not return.
FairSpec ==
  /\ Spec
  /\ WF_vars(LoopStep)
  /\ \A s \in Sock : WF_vars(HandlerStep(s))

-----------------------------------------------------------------------------
TypeOK ==
  /\ DOMAIN assoc \subseteq Assoc
  /\ \A a \in DOMAIN assoc :
       assoc[a] \in [remote : Remote, st : {"setup", "up"} \cup EndState, sock : Sock \cup {Closed}]
  /\ queue \in [Sock -> Seq(Event)]
  /\ DOMAIN peers \subseteq DOMAIN assoc
  /\ \A a \in DOMAIN peers : peers[a] \in [fd : Fd, buf : Buf]
  /\ todo \subseteq Configured
  /\ reest \in [Remote -> Nat] /\ retried \in [Remote -> Nat]
  /\ loop \in {"connect", "launch", "select", "round", "chat", "send"} \cup Stopped
  /\ hand \in [Sock -> HandPc]
  /\ hbuf \in [Sock -> Buf \cup {MainBuf}]
  /\ hev \in [Sock -> Event \cup {NoEvent}]

Receiving == {s \in Sock : hand[s] \in {"receive", "dispatch"}}

\* Handlers that run at the same time receive into different buffers, and the
\* buffer of a peer's handler has not gone back to the pool while it is used.
BuffersNotShared ==
  /\ \A s, u \in Receiving : s # u => hbuf[s] # hbuf[u]
  /\ \A s \in Receiving \ {MainFd} :
       \E a \in DOMAIN peers : peers[a].fd = s /\ peers[a].buf = hbuf[s]

\* getBuffer's find_if finds the peer: between select() and the handler's
\* lookup no other handler of the round removes the entry of this descriptor.
PeerFoundByHandler ==
  \A s \in Fd : hand[s] = "getBuffer" => \E a \in DOMAIN peers : peers[a].fd = s

\* The handler that holds the lock is peeling association a off.
PeelingOff(a) == \E s \in Sock : hand[s] = "peeled" /\ hev[s].assoc = a

\* The table and the descriptors agree: an association lives on a descriptor
\* of its own exactly while the table has it, or a handler is about to put it
\* there, and no two entries share one.
TableOwnsDescriptors ==
  /\ \A a \in DOMAIN assoc :
       IF a \in DOMAIN peers THEN assoc[a].sock = peers[a].fd
                             ELSE assoc[a].sock \in Fd => PeelingOff(a)
  /\ \A a, b \in DOMAIN peers : a # b => peers[a].fd # peers[b].fd

InFlight(Wanted(_)) ==
  Cardinality({p \in UNION {{s} \X DOMAIN queue[s] : s \in Sock} : Wanted(queue[p[1]][p[2]])})
  + Cardinality({s \in Sock : hand[s] \in {"dispatch", "schedule"} /\ Wanted(hev[s])})

\* Every association that failed or was lost leads to exactly one attempt to
\* reestablish it: reported and not yet handled, scheduled, or already made.
\* Only an exception breaks the count, and it ends the task with this round: an
\* association lost between its peel-off and the emplace leaves its report on
\* the descriptor that the exception closes.
ReestablishmentsConserved ==
  Running /\ (\A s \in Sock : hand[s] # "threw") =>
    \A r \in Remote :
      LET Owed(e) == assoc[e.assoc].remote = r /\ e.type \in {"failed", "lost"} IN
      Cardinality({a \in DOMAIN assoc : assoc[a].remote = r /\ assoc[a].st \in {"failed", "lost"}})
        = InFlight(Owed) + reest[r] + retried[r]

\* A peer leaves the table only when its association has ended (or with the
\* socket itself).
PeersLeaveWhenOver ==
  [][\A a \in DOMAIN peers : a \notin DOMAIN peers' /\ loop' \notin Stopped => ~Live(a)]_vars

\* A round of handlers always comes to its end: no handler waits for another.
RoundsEnd == loop = "round" ~> loop # "round"

\* An association that is over does not stay in the table, unless the task is
\* caught for ever in a send to a peer that does not read.
DeadPeersRemoved ==
  \/ \A a \in Assoc : (a \in DOMAIN peers /\ ~Live(a)) ~> (a \notin DOMAIN peers)
  \/ <>[](loop = "send")

\* "Scheduled delayed reestablishment to remote" (Socket.cpp:137): a scheduled
\* connect never ends the task and, with it, every other association.
ReestablishmentHarmless == [][loop = "launch" => loop' # "threw"]_vars
=============================================================================
