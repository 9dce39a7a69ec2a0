------------------------------ MODULE ForkedChat ------------------------------
(***************************************************************************)
(* The program with SocketUnixForked (SocketUnixForked.cpp): the network   *)
(* task makes the shared objects, forks, and parent and child go through   *)
(* the loop of networkTask (NetworkTask.cpp), each with its own copy of    *)
(* the chat slot.  The io task and main exist in the parent only.          *)
(*                                                                         *)
(* Both clean up when they end.  Each is meant to end when the other does: *)
(* the parent by SIGCHLD, the child by PR_SET_PDEATHSIG; both handlers     *)
(* throw.  Such an exception unwinds the thread that the signal hits, or   *)
(* ends the process (std::terminate): what it does is undefined.           *)
(*                                                                         *)
(* A process holds no message content here: a line is a text or "q".       *)
(***************************************************************************)
EXTENDS Naturals, Sequences

CONSTANTS
  Copies,      \* messages on the queue for each line
  QueueRoom,   \* messages that fit on a message queue
  Room,        \* messages that fit on the socket pair and on each pipe
  MaxLines,    \* bound: lines read from stdin in a run
  MaxRuns      \* bound: starts of the program

ASSUME RoomAssumption == Copies \in Nat /\ QueueRoom \in Nat /\ Room \in Nat
ASSUME BoundAssumption == MaxLines \in Nat /\ MaxRuns \in Nat \ {0}

VARIABLES
  names,      \* which of /shm and /sem exist
  cleaned,    \* history: the processes that have removed both in this run
  runs,       \* starts of the program so far
  alive,      \* the processes that exist
  pc,         \* where the network task of each process stands
  step,       \* the next channel of the send under way
  slot,       \* each process's copy of the static message of chat()
  waiting,    \* what waits for the child on each channel, and each semaphore
  answer,     \* what waits for the parent on the socket pair
  io,         \* where the io task stands
  line,       \* its msg
  typed,      \* lines read in this run
  bad,        \* stdin is bad or at its end: getline returns at once
  main,       \* main waits in join, or again while it unwinds
  stuck,      \* the child's copy of chat()'s mutex is locked
  garbage,    \* whether the parent's uninitialised member parent is not zero
  asked,      \* the processes that get a signal when the other one ends
  pending     \* the processes for which one is pending

channelVars == <<waiting, answer>>
ioVars == <<io, line, typed, bad>>
signalVars == <<asked, pending>>
onceVars == <<runs, stuck, garbage>>
vars == <<names, cleaned, alive, pc, step, slot, main, channelVars, ioVars, signalVars, onceVars>>

Process == {"parent", "child"}
Line == {"none", "text", "q"}
Creating == {"shm", "sem", "fork", "trap", "prctl", "check", "configure"}
Looping == {"receive", "chat", "send"}
Destroying == {"unlinkSem", "unlinkShm", "notify", "leave"}
Over == {"off", "ended"}

\* What send() does for a line, in this order.
Script == <<"pair", "pipe", "fifo">> \o [i \in 1..Copies |-> "queue"] \o <<"posix", "sysv">>
Channel == {"pair", "pipe", "fifo", "queue", "posix", "sysv"}
Semaphore == {"posix", "sysv"}

\* The state of the processes when the program is started.
Fresh ==
  [alive |-> {"parent"}, pc |-> [parent |-> "shm", child |-> "off"],
   step |-> [p \in Process |-> 1], slot |-> [p \in Process |-> "none"],
   waiting |-> [c \in Channel |-> 0]]

Init ==
  /\ names = {} /\ cleaned = {} /\ runs = 1
  /\ alive = Fresh.alive /\ pc = Fresh.pc /\ step = Fresh.step /\ slot = Fresh.slot
  /\ waiting = Fresh.waiting /\ answer = 0
  /\ io = "getline" /\ line = "none" /\ typed = 0 /\ bad = FALSE
  /\ main = "join"
  /\ stuck = FALSE /\ garbage \in BOOLEAN
  /\ asked = {} /\ pending = {}

Has(p, label) == p \in alive /\ pc[p] = label
Goto(p, label) == pc' = [pc EXCEPT ![p] = label]

-----------------------------------------------------------------------------
(* The ends of threads and processes. *)

\* The process of p is gone: the kernel tells the other one, if it has asked.
\* Of the signals that were pending, rest are left.
Exit(p, rest) ==
  /\ alive' = alive \ {p}
  /\ Goto(p, "ended")
  /\ pending' = (rest \cup (asked \ {p})) \cap alive'
  /\ UNCHANGED asked

\* The network task is over: in the parent its thread ends, for which
\* PR_SET_PDEATHSIG sends the signal too, in the child it is the last thread.
EndTask(p, rest) ==
  \/ p = "child" /\ Exit(p, rest)
  \/ /\ p = "parent"
     /\ Goto(p, "ended")
     /\ pending' = rest \cup (asked \cap alive \cap {"child"})
     /\ UNCHANGED <<alive, asked>>

\* An exception in the network task: without the destructor while the socket is
\* being made, through it in the loop, and never out of it.
Throw(p, rest) ==
  \/ pc[p] \in Creating /\ EndTask(p, rest)
  \/ pc[p] \in Looping /\ Goto(p, "unlinkSem") /\ pending' = rest /\ UNCHANGED <<alive, asked>>
  \/ pc[p] \in Destroying /\ Exit(p, rest)

\* main has joined the io task and the network task.
ParentExits ==
  /\ "parent" \in alive
  /\ pc["parent"] = "ended"
  /\ io \in {"done", "failed"}
  /\ Exit("parent", pending)
  /\ UNCHANGED <<names, cleaned, step, slot, main, channelVars, ioVars, onceVars>>

\* A process is killed or crashes.
Kill(p) ==
  /\ p \in alive
  /\ Exit(p, pending)
  /\ UNCHANGED <<names, cleaned, step, slot, main, channelVars, ioVars, onceVars>>

\* The user starts the program again when nothing is left of the last run.
Restart ==
  /\ alive = {}
  /\ runs < MaxRuns
  /\ runs' = runs + 1
  /\ alive' = Fresh.alive /\ pc' = Fresh.pc /\ step' = Fresh.step /\ slot' = Fresh.slot
  /\ waiting' = Fresh.waiting /\ answer' = 0
  /\ io' = "getline" /\ line' = "none" /\ typed' = 0 /\ bad' = FALSE
  /\ main' = "join"
  /\ stuck' = FALSE /\ garbage' \in BOOLEAN
  /\ asked' = {} /\ pending' = {}
  /\ cleaned' = {}
  /\ UNCHANGED names

-----------------------------------------------------------------------------
(* The io task.  It holds chat()'s mutex in "chat". *)

\* getline returns a line, or fails for ever at the end of stdin.
ReadLine ==
  /\ "parent" \in alive
  /\ io = "getline"
  /\ \/ /\ ~bad /\ typed < MaxLines
        /\ line' \in Line
        /\ typed' = typed + 1
        /\ bad' \in BOOLEAN
     \/ bad /\ UNCHANGED <<line, typed, bad>>
  /\ io' = "chat"
  /\ UNCHANGED <<names, cleaned, alive, pc, step, slot, main, channelVars, signalVars, onceVars>>

PostLine ==
  /\ "parent" \in alive
  /\ io = "chat"
  /\ slot' = [slot EXCEPT !["parent"] = line]
  /\ io' = IF line = "q" THEN "done" ELSE "getline"
  /\ UNCHANGED <<names, cleaned, alive, pc, step, main, channelVars, line, typed, bad, signalVars, onceVars>>

-----------------------------------------------------------------------------
(* The socket is made. *)

\* shm_open and sem_open with O_EXCL: a name that exists makes them fail.
\* The message queues and the named pipe are removed first and do not.
Create(name, next) ==
  /\ Has("parent", name)
  /\ IF name \in names THEN EndTask("parent", pending) /\ UNCHANGED names
     ELSE names' = names \cup {name} /\ Goto("parent", next) /\ UNCHANGED <<alive, signalVars>>
  /\ UNCHANGED <<cleaned, step, slot, main, channelVars, ioVars, onceVars>>

\* The child has one thread, the caller's, and copies of the slot and of its mutex.
Fork ==
  /\ Has("parent", "fork")
  /\ alive' = Process
  /\ pc' = [parent |-> "trap", child |-> "trap"]
  /\ slot' = [slot EXCEPT !["child"] = slot["parent"]]
  /\ stuck' = (io = "chat")
  /\ UNCHANGED <<names, cleaned, step, main, channelVars, ioVars, signalVars, runs, garbage>>

\* killParentOnChildDeath: a SIGCHLD that came before is lost.
TrapChildDeath ==
  /\ Has("parent", "trap")
  /\ asked' = asked \cup {"parent"}
  /\ Goto("parent", "configure")
  /\ UNCHANGED <<names, cleaned, alive, step, slot, main, channelVars, ioVars, pending, onceVars>>

\* The child asks whether its parent lives and then asks to be told.
Arm_ChecksFirst ==
  \/ /\ Has("child", "trap") /\ Goto("child", "check")
     /\ UNCHANGED <<names, cleaned, alive, step, slot, main, channelVars, ioVars, signalVars, onceVars>>
  \/ /\ Has("child", "check")
     /\ IF "parent" \in alive THEN Goto("child", "prctl") /\ UNCHANGED <<alive, signalVars>>
        ELSE EndTask("child", pending)
     /\ UNCHANGED <<names, cleaned, step, slot, main, channelVars, ioVars, onceVars>>
  \/ /\ Has("child", "prctl") /\ Goto("child", "configure")
     /\ asked' = asked \cup {"child"}
     /\ UNCHANGED <<names, cleaned, alive, step, slot, main, channelVars, ioVars, pending, onceVars>>

\* killChildOnParentDeath: sigaction, prctl, and then getppid, in case the
\* parent has died in between.
Arm ==
  \/ /\ Has("child", "trap") /\ Goto("child", "prctl")
     /\ UNCHANGED <<names, cleaned, alive, step, slot, main, channelVars, ioVars, signalVars, onceVars>>
  \/ /\ Has("child", "prctl") /\ Goto("child", "check")
     /\ asked' = asked \cup {"child"}
     /\ UNCHANGED <<names, cleaned, alive, step, slot, main, channelVars, ioVars, pending, onceVars>>
  \/ /\ Has("child", "check")
     /\ IF "parent" \in alive THEN Goto("child", "configure") /\ UNCHANGED <<alive, signalVars>>
        ELSE EndTask("child", pending)
     /\ UNCHANGED <<names, cleaned, step, slot, main, channelVars, ioVars, onceVars>>

\* The constructor ends and the loop begins.
Configure(p) ==
  /\ Has(p, "configure")
  /\ Goto(p, "receive")
  /\ UNCHANGED <<names, cleaned, alive, step, slot, main, channelVars, ioVars, signalVars, onceVars>>

-----------------------------------------------------------------------------
(* The loop. *)

\* What is left of n messages: the named pipe keeps no boundaries and gives all.
Less(c, n) == IF c = "fifo" \/ n = 0 THEN 0 ELSE n - 1

Take(read) == waiting' = [c \in Channel |-> IF c \in read THEN Less(c, waiting[c]) ELSE waiting[c]]

\* isChild is false in both processes.
Receive_NobodyIsChild(p) ==
  /\ Has(p, "receive")
  /\ Take(IF p = "child" THEN {"pair", "queue"} \cup Semaphore ELSE Semaphore)
  /\ answer' = IF p = "parent" /\ answer > 0 THEN answer - 1 ELSE answer
  /\ Goto(p, "chat")
  /\ UNCHANGED <<names, cleaned, alive, step, slot, main, ioVars, signalVars, onceVars>>

\* Only the child tries the semaphores.
Receive_ParentOnlyPosts(p) ==
  /\ Has(p, "receive")
  /\ Take(IF p = "child" THEN Channel ELSE {})
  /\ answer' = IF p = "parent" /\ answer > 0 THEN answer - 1 ELSE answer
  /\ IF p = "parent" /\ garbage THEN Throw(p, pending) ELSE Goto(p, "chat") /\ UNCHANGED <<alive, signalVars>>
  /\ UNCHANGED <<names, cleaned, step, slot, main, ioVars, onceVars>>

\* receive takes at most one message of each kind and tries both semaphores,
\* whoever posted them.  A parent that takes itself for the child reads from the
\* write end of its pipe, which fails.
Receive(p) ==
  /\ Has(p, "receive")
  /\ Take(IF p = "child" THEN Channel ELSE Semaphore)
  /\ answer' = IF p = "parent" /\ answer > 0 THEN answer - 1 ELSE answer
  /\ IF p = "parent" /\ garbage THEN Throw(p, pending) ELSE Goto(p, "chat") /\ UNCHANGED <<alive, signalVars>>
  /\ UNCHANGED <<names, cleaned, step, slot, main, ioVars, onceVars>>

\* The child does not look at the quit message it took.
Chat_ChildOnly(p) ==
  /\ Has(p, "chat")
  /\ IF p = "parent" THEN io # "chat" ELSE ~stuck
  /\ LET msg == slot[p] IN
     /\ slot' = [slot EXCEPT ![p] = IF msg = "q" THEN msg ELSE "none"]
     /\ Goto(p, IF msg = "text" THEN "send" ELSE IF msg = "q" /\ p = "child" THEN "unlinkSem" ELSE "receive")
  /\ step' = [step EXCEPT ![p] = 1]
  /\ UNCHANGED <<names, cleaned, alive, main, channelVars, ioVars, signalVars, onceVars>>

\* chatOrQuit and the loop condition.
Chat(p) ==
  /\ Has(p, "chat")
  /\ IF p = "parent" THEN io # "chat" ELSE ~stuck
  /\ LET msg == slot[p] IN
     /\ slot' = [slot EXCEPT ![p] = IF msg = "q" THEN msg ELSE "none"]
     /\ Goto(p, CASE msg = "text" -> "send" [] msg = "q" -> "unlinkSem" [] msg = "none" -> "receive")
  /\ step' = [step EXCEPT ![p] = 1]
  /\ UNCHANGED <<names, cleaned, alive, main, channelVars, ioVars, signalVars, onceVars>>

\* A semaphore has room for SEM_VALUE_MAX posts: one is as good as any number.
SizeOf(c) == IF c = "queue" THEN QueueRoom ELSE IF c \in Semaphore THEN 1 ELSE Room
Full(c) == c \notin Semaphore /\ waiting[c] >= SizeOf(c)

\* The next call of send succeeds ...
SendNext(p) ==
  LET c == Script[step[p]] IN
  /\ Has(p, "send")
  /\ IF p = "parent"
     THEN /\ c \in {"pair", "pipe", "fifo"} => "child" \in alive
          /\ ~Full(c)
          /\ waiting' = [waiting EXCEPT ![c] = @ + 1]
          /\ UNCHANGED answer
     ELSE /\ c = "pair" /\ "parent" \in alive /\ answer < Room
          /\ answer' = answer + 1
          /\ UNCHANGED waiting
  /\ IF step[p] = Len(Script)
     THEN Goto(p, "receive") /\ step' = [step EXCEPT ![p] = 1]
     ELSE step' = [step EXCEPT ![p] = @ + 1] /\ UNCHANGED pc
  /\ UNCHANGED <<names, cleaned, alive, slot, main, ioVars, signalVars, onceVars>>

\* ... or throws, when the channel is full, when the other end of the socket
\* pair is closed, and when the child writes to the read end of its pipe ...
SendFails(p) ==
  LET c == Script[step[p]] IN
  /\ Has(p, "send")
  /\ IF p = "parent"
     THEN Full(c) \/ (c = "pair" /\ "child" \notin alive)
     ELSE c # "pair" \/ "parent" \notin alive \/ answer >= Room
  /\ Throw(p, pending)
  /\ UNCHANGED <<names, cleaned, step, slot, main, channelVars, ioVars, onceVars>>

\* ... or is a write to a pipe that nobody reads: SIGPIPE ends the process.
SendKills ==
  /\ Has("parent", "send")
  /\ Script[step["parent"]] \in {"pipe", "fifo"}
  /\ "child" \notin alive
  /\ Exit("parent", pending)
  /\ UNCHANGED <<names, cleaned, step, slot, main, channelVars, ioVars, onceVars>>

-----------------------------------------------------------------------------
(* The destructor. *)

\* Only the parent removes the names.
Unlink_ParentOnly(p) ==
  \/ /\ Has(p, "unlinkSem") /\ Goto(p, "unlinkShm")
     /\ names' = IF p = "parent" THEN names \ {"sem"} ELSE names
     /\ UNCHANGED <<cleaned, alive, step, slot, main, channelVars, ioVars, signalVars, onceVars>>
  \/ /\ Has(p, "unlinkShm") /\ Goto(p, "notify")
     /\ names' = IF p = "parent" THEN names \ {"shm"} ELSE names
     /\ cleaned' = cleaned \cup {p}
     /\ UNCHANGED <<alive, step, slot, main, channelVars, ioVars, signalVars, onceVars>>

\* cleanUpSemaphores and cleanUpSharedMemory, in both processes.
Unlink(p) ==
  \/ /\ Has(p, "unlinkSem") /\ Goto(p, "unlinkShm")
     /\ names' = names \ {"sem"}
     /\ UNCHANGED <<cleaned, alive, step, slot, main, channelVars, ioVars, signalVars, onceVars>>
  \/ /\ Has(p, "unlinkShm") /\ Goto(p, "notify")
     /\ names' = names \ {"shm"}
     /\ cleaned' = cleaned \cup {p}
     /\ UNCHANGED <<alive, step, slot, main, channelVars, ioVars, signalVars, onceVars>>

\* The child sends SIGCHLD to its parent, and once more by ending.
Notify(p) ==
  \/ /\ Has(p, "notify") /\ Goto(p, "leave")
     /\ pending' = pending \cup (IF p = "child" THEN asked \cap alive \cap {"parent"} ELSE {})
     /\ UNCHANGED <<alive, asked, names, cleaned, step, slot, main, channelVars, ioVars, onceVars>>
  \/ /\ Has(p, "leave") /\ EndTask(p, pending)
     /\ UNCHANGED <<names, cleaned, step, slot, main, channelVars, ioVars, onceVars>>

-----------------------------------------------------------------------------
(* The signals. *)

\* childDied throws in one of the parent's threads: the network task; main,
\* which goes on waiting while it unwinds; the io task, in getline, which turns
\* the exception into a bad stream, or in chat().  Or it ends the process.
ChildDied ==
  LET rest == pending \ {"parent"} IN
  /\ "parent" \in pending
  /\ \/ /\ pc["parent"] \notin Over
        /\ Throw("parent", rest)
        /\ UNCHANGED <<main, ioVars>>
     \/ /\ main = "join" /\ main' = "unwind"
        /\ pending' = rest
        /\ UNCHANGED <<alive, pc, asked, ioVars>>
     \/ /\ \/ io = "getline" /\ io' = "chat" /\ bad' = TRUE /\ line' = "none"
           \/ io = "chat" /\ io' = "failed" /\ UNCHANGED <<bad, line>>
        /\ pending' = rest
        /\ UNCHANGED <<alive, pc, asked, main, typed>>
     \/ /\ Exit("parent", rest)
        /\ UNCHANGED <<main, ioVars>>
  /\ UNCHANGED <<names, cleaned, step, slot, channelVars, onceVars>>

\* parentDied throws in the child's thread, or ends the process.
ParentDied ==
  LET rest == pending \ {"child"} IN
  /\ "child" \in pending
  /\ Throw("child", rest) \/ Exit("child", rest)
  /\ UNCHANGED <<names, cleaned, step, slot, main, channelVars, ioVars, onceVars>>

-----------------------------------------------------------------------------
NetStep(p) ==
  \/ p = "parent" /\ (Create("shm", "sem") \/ Create("sem", "fork") \/ Fork \/ TrapChildDeath \/ SendKills)
  \/ p = "child" /\ Arm
  \/ Configure(p) \/ Receive(p) \/ Chat(p) \/ SendNext(p) \/ SendFails(p) \/ Unlink(p) \/ Notify(p)

Next ==
  \/ \E p \in Process : NetStep(p) \/ Kill(p)
  \/ ReadLine \/ PostLine \/ ParentExits \/ ChildDied \/ ParentDied \/ Restart

Spec == Init /\ [][Next]_vars

\* Threads are scheduled and signals delivered.  The user need not type, nothing
\* need be killed and nobody need start the program again.
FairSpec ==
  /\ Spec
  /\ \A p \in Process : WF_vars(NetStep(p))
  /\ WF_vars(PostLine)
  /\ WF_vars(ParentExits)
  /\ WF_vars(ChildDied)
  /\ WF_vars(ParentDied)

-----------------------------------------------------------------------------
\* A semaphore is never above 1: the parent tries it before it posts again.
TypeOK ==
  /\ names \subseteq {"shm", "sem"}
  /\ cleaned \subseteq Process
  /\ runs \in 1..MaxRuns
  /\ alive \subseteq Process
  /\ pc \in [Process -> Creating \cup Looping \cup Destroying \cup Over]
  /\ step \in [Process -> 1..Len(Script)]
  /\ slot \in [Process -> Line]
  /\ \A c \in Channel : waiting[c] \in 0..SizeOf(c)
  /\ answer \in 0..Room
  /\ io \in {"getline", "chat", "done", "failed"}
  /\ line \in Line
  /\ typed \in 0..MaxLines
  /\ main \in {"join", "unwind"}
  /\ {bad, stuck, garbage} \subseteq BOOLEAN
  /\ asked \subseteq Process
  /\ pending \subseteq asked \cap alive

\* /shm and /sem are made with O_EXCL, so that a name left behind makes every
\* later start fail.  The clean-up of one process is enough: a name outlives
\* both only when neither of them has come to the end of its destructor.
NamesOutliveOnlyACrash ==
  alive = {} /\ names # {} => cleaned = {}

\* killChildOnParentDeath: at whatever moment the parent dies, before, while or
\* after the child asks to be told of it, the child does not stay behind.
NoOrphan == "parent" \notin alive ~> "child" \notin alive

\* The quit message is posted in the parent alone; the child, which never gets
\* it, ends all the same.
QuitEndsBoth == io = "done" ~> alive = {}

\* receive polls every channel: unless the child is gone, or locked out by the
\* copy of a mutex, what was sent is taken, while stdin is not at its end (a
\* last line is sent again for ever).
ChannelsDrain ==
  \A c \in Channel : []<>(waiting[c] = 0 \/ "child" \notin alive \/ stuck \/ bad)
=============================================================================
