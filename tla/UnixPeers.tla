------------------------------ MODULE UnixPeers ------------------------------
(***************************************************************************)
(* Processes that chat over unix datagram sockets (SocketUnix.cpp): each   *)
(* runs a single network task (main.cpp, NetworkTask.cpp) and keeps the    *)
(* set of the paths it sends to.  The kernel delivers the datagrams in     *)
(* order and loses none, and it refuses a datagram for a socket that is    *)
(* closed or whose queue is full.                                          *)
(***************************************************************************)
EXTENDS Naturals, Sequences

CONSTANTS
  Node,      \* the processes; also the paths their sockets are bound to
  Knows,     \* Knows[n]: config.remotes of n
  MaxQueue   \* datagrams the kernel queues on a socket

ASSUME KnowsAssumption == Knows \in [Node -> SUBSET Node]
ASSUME MaxQueueAssumption == MaxQueue \in Nat

VARIABLES
  pc,        \* where the network task of each process stands
  peers,     \* SocketUnix::peers
  inbox,     \* kernel: the datagrams waiting on each socket
  rest,      \* the peers that the send under way has still to go through
  told       \* history: told[n]: the processes that got the goodbye of n

vars == <<pc, peers, inbox, rest, told>>

\* In "leave" and "fail" the destructor sends quit_msg, after the end of the
\* loop and after an exception.
Stopped == {"ended", "threw", "aborted"}
Pc == {"connect", "receive", "chat", "send", "leave", "fail"} \cup Stopped
Datagram == [from : Node, msg : {"text", "q"}]

Init ==
  /\ pc = [n \in Node |-> "connect"]
  /\ peers = [n \in Node |-> {}]
  /\ inbox = [n \in Node |-> <<>>]
  /\ rest = [n \in Node |-> {}]
  /\ told = [n \in Node |-> {}]

Goto(n, from, to) == pc[n] = from /\ pc' = [pc EXCEPT ![n] = to]

\* connect(config.remotes): nothing is sent.
Connect(n) ==
  /\ Goto(n, "connect", "receive")
  /\ peers' = [peers EXCEPT ![n] = Knows[n]]
  /\ UNCHANGED <<inbox, rest, told>>

\* A goodbye is handled and then taken for a sign of life.
Receive_QuitFallsThrough(n) ==
  /\ Goto(n, "receive", "chat")
  /\ inbox[n] # <<>>
  /\ inbox' = [inbox EXCEPT ![n] = Tail(@)]
  /\ peers' = [peers EXCEPT ![n] = @ \cup {Head(inbox[n]).from}]
  /\ UNCHANGED <<rest, told>>

\* handleMessage: a goodbye removes the sender, any other message adds it.
Receive(n) ==
  /\ Goto(n, "receive", "chat")
  /\ inbox[n] # <<>>
  /\ inbox' = [inbox EXCEPT ![n] = Tail(@)]
  /\ LET d == Head(inbox[n]) IN
     peers' = [peers EXCEPT ![n] = IF d.msg = "q" THEN @ \ {d.from} ELSE @ \cup {d.from}]
  /\ UNCHANGED <<rest, told>>

\* select() times out.
ReceiveNothing(n) ==
  /\ Goto(n, "receive", "chat")
  /\ inbox[n] = <<>>
  /\ UNCHANGED <<peers, inbox, rest, told>>

\* chatOrQuit: no message, a message to every peer, or the end of the loop.
Chat(n) ==
  /\ \/ Goto(n, "chat", "receive") /\ UNCHANGED rest
     \/ /\ Goto(n, "chat", "send") \/ Goto(n, "chat", "leave")
        /\ rest' = [rest EXCEPT ![n] = peers[n]]
  /\ UNCHANGED <<peers, inbox, told>>

Accepts(m) == pc[m] \notin Stopped /\ Len(inbox[m]) < MaxQueue

Deliver(n, m, msg) ==
  /\ Accepts(m)
  /\ inbox' = [inbox EXCEPT ![m] = Append(@, [from |-> n, msg |-> msg])]
  /\ rest' = [rest EXCEPT ![n] = @ \ {m}]

\* send(msg): one datagram after the other; the exception of a send that fails
\* leaves the loop, and the destructor starts to say goodbye.
Send(n) ==
  /\ \/ /\ rest[n] = {} /\ Goto(n, "send", "receive")
        /\ UNCHANGED <<inbox, rest>>
     \/ /\ pc[n] = "send" /\ UNCHANGED pc
        /\ \E m \in rest[n] : Deliver(n, m, "text")
     \/ /\ Goto(n, "send", "fail")
        /\ \E m \in rest[n] : ~Accepts(m)
        /\ rest' = [rest EXCEPT ![n] = peers[n]]
        /\ UNCHANGED inbox
  /\ UNCHANGED <<peers, told>>

Close(n, from, to) ==
  /\ Goto(n, from, to)
  /\ inbox' = [inbox EXCEPT ![n] = <<>>]
  /\ peers' = [peers EXCEPT ![n] = {}]
  /\ rest' = [rest EXCEPT ![n] = {}]

\* The destructor waits until every peer takes its goodbye.
SayGoodbye_Waits(n, from, to) ==
  \/ /\ rest[n] = {} /\ Close(n, from, to)
     /\ UNCHANGED told
  \/ /\ \E m \in rest[n] :
          /\ Deliver(n, m, "q")
          /\ told' = [told EXCEPT ![n] = @ \cup {m}]
     /\ pc[n] = from
     /\ UNCHANGED <<pc, peers>>

\* The goodbye is a word that no handler knows.
SayGoodbye_OtherWord(n, from, to) ==
  \/ /\ rest[n] = {} /\ Close(n, from, to)
     /\ UNCHANGED told
  \/ /\ \E m \in rest[n] :
          /\ Deliver(n, m, "quit")
          /\ told' = [told EXCEPT ![n] = @ \cup {m}]
     /\ pc[n] = from
     /\ UNCHANGED <<pc, peers>>
  \/ /\ \E m \in rest[n] : ~Accepts(m)
     /\ Close(n, from, "aborted")
     /\ UNCHANGED told

\* ~SocketUnix: the goodbye goes to every peer and then the socket is closed,
\* but a send that fails throws out of the destructor and the process is aborted.
SayGoodbye(n, from, to) ==
  \/ /\ rest[n] = {} /\ Close(n, from, to)
     /\ UNCHANGED told
  \/ /\ \E m \in rest[n] :
          /\ Deliver(n, m, "q")
          /\ told' = [told EXCEPT ![n] = @ \cup {m}]
     /\ pc[n] = from
     /\ UNCHANGED <<pc, peers>>
  \/ /\ \E m \in rest[n] : ~Accepts(m)
     /\ Close(n, from, "aborted")
     /\ UNCHANGED told

TaskStep(n) ==
  \/ Connect(n) \/ Receive(n) \/ ReceiveNothing(n) \/ Chat(n) \/ Send(n)
  \/ SayGoodbye(n, "leave", "ended") \/ SayGoodbye(n, "fail", "threw")

Next == \E n \in Node : TaskStep(n)

Spec == Init /\ [][Next]_vars

FairSpec == Spec /\ \A n \in Node : WF_vars(TaskStep(n))

-----------------------------------------------------------------------------
TypeOK ==
  /\ pc \in [Node -> Pc]
  /\ peers \in [Node -> SUBSET Node]
  /\ inbox \in [Node -> Seq(Datagram)]
  /\ rest \in [Node -> SUBSET Node]
  /\ told \in [Node -> SUBSET Node]

Waiting(n, m, msg) == \E i \in DOMAIN inbox[m] : inbox[m][i] = [from |-> n, msg |-> msg]

\* Whoever got a goodbye stops sending to the process that left, as soon as it
\* has read it: no older message of that process, read later, brings it back.
GoodbyeHeeded ==
  \A n \in Node : \A m \in told[n] :
    pc[m] \notin Stopped \cup {"connect"} => n \notin peers[m] \/ Waiting(n, m, "q")

\* A process that leaves its loop comes to an end, whatever the others do.
LeavingEnds == \A n \in Node : pc[n] \in {"leave", "fail"} ~> pc[n] \in Stopped

\* networkTask is a function try block that logs exceptions (NetworkTask.cpp:36,
\* NetworkTask.cpp:61): a message that cannot be sent never aborts the process.
NeverAborted == \A n \in Node : pc[n] # "aborted"
=============================================================================
