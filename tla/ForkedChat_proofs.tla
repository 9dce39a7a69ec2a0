-------------------------- MODULE ForkedChat_proofs --------------------------
(***************************************************************************)
(* Proofs about ForkedChat, for any number of copies, room on the channels *)
(* and number of lines and of starts.                                      *)
(***************************************************************************)
EXTENDS ForkedChat, SequenceTheorems, TLAPS

Label == Creating \cup Looping \cup Destroying \cup Over

(* The processes, their names and their signals. *)

ProcessTypes ==
  /\ names \subseteq {"shm", "sem"}
  /\ cleaned \subseteq Process
  /\ alive \subseteq Process
  /\ pc \in [Process -> Label]
  /\ asked \subseteq Process
  /\ pending \subseteq asked \cap alive

\* The names are made only before there is a child, and before any clean-up.
MadeBeforeFork ==
  pc["parent"] \in {"shm", "sem", "fork"} =>
    pc["child"] = "off" /\ "child" \notin alive /\ cleaned = {}

\* The destructor removes /sem first: after it nothing is made in this run.
UnlinkedInOrder ==
  /\ \A p \in Process : pc[p] = "unlinkShm" => "sem" \notin names
  /\ cleaned # {} => names = {}

\* A child that exists has its thread, and has asked for the signal or is yet to.
ChildAsks ==
  "child" \in alive =>
    /\ pc["child"] \notin Over
    /\ "child" \in asked \/ pc["child"] \in {"trap", "prctl"}

\* The safety half of NoOrphan: a child whose parent is gone has the signal
\* pending, has had it and cleans up, or has its check before it.
OrphanIsTold ==
  "child" \in alive /\ "parent" \notin alive =>
    "child" \in pending \/ pc["child"] \in {"trap", "prctl", "check"} \cup Destroying

ProcessInv == ProcessTypes /\ MadeBeforeFork /\ UnlinkedInOrder /\ ChildAsks /\ OrphanIsTold

(* What is sent. *)

FlowTypes ==
  /\ step \in [Process -> 1 .. Len(Script)]
  /\ slot \in [Process -> Line]
  /\ waiting \in [Channel -> Nat]
  /\ \A c \in Channel : waiting[c] \in 0 .. SizeOf(c)
  /\ answer \in 0 .. Room

\* The parent tries both semaphores before it sends: what it has not posted
\* again in this send is not posted.
TriedBeforePosted ==
  /\ pc["parent"] = "chat" => \A c \in Semaphore : waiting[c] = 0
  /\ pc["parent"] = "send" =>
       \A i \in step["parent"] .. Len(Script) : Script[i] \in Semaphore => waiting[Script[i]] = 0

FlowInv == FlowTypes /\ TriedBeforePosted

(* The io task and main. *)

IoTypes ==
  /\ runs \in 1 .. MaxRuns
  /\ io \in {"getline", "chat", "done", "failed"}
  /\ line \in Line
  /\ typed \in 0 .. MaxLines
  /\ main \in {"join", "unwind"}
  /\ bad \in BOOLEAN /\ stuck \in BOOLEAN /\ garbage \in BOOLEAN

IInv == ProcessInv /\ FlowInv /\ IoTypes

-----------------------------------------------------------------------------
\* TypeOK is the sum of the three parts.
LEMMA Types == IInv => TypeOK
  BY DEF IInv, ProcessInv, FlowInv, IoTypes, ProcessTypes, FlowTypes, TypeOK, Label

\* What send() does: the semaphores are posted last, each of them once.
LEMMA ScriptIs ==
  /\ Len(Script) \in Nat /\ Len(Script) = Copies + 5
  /\ \A i \in 1 .. Len(Script) : Script[i] \in Channel
  /\ \A i, j \in 1 .. Len(Script) : Script[i] \in Semaphore /\ Script[i] = Script[j] => i = j
<1> DEFINE first == <<"pair", "pipe", "fifo">>
           queue == [i \in 1 .. Copies |-> "queue"]
           last == <<"posix", "sysv">>
<1>1. /\ first \in Seq(Channel) /\ Len(first) = 3
      /\ first[1] = "pair" /\ first[2] = "pipe" /\ first[3] = "fifo"
  BY DEF Channel
<1>2. /\ queue \in Seq(Channel) /\ Len(queue) = Copies
      /\ \A i \in 1 .. Copies : queue[i] = "queue"
  BY RoomAssumption DEF Channel
<1>3. /\ last \in Seq(Channel) /\ Len(last) = 2 /\ last[1] = "posix" /\ last[2] = "sysv"
  BY DEF Channel
<1> DEFINE most == first \o queue
           all == most \o last
<1>4. Script = all
  BY DEF Script
<1> HIDE DEF first, queue, last
<1>most. /\ most \in Seq(Channel) /\ Len(most) = Len(first) + Len(queue)
      /\ \A i \in 1 .. Len(first) + Len(queue) :
           most[i] = IF i <= Len(first) THEN first[i] ELSE queue[i - Len(first)]
  BY <1>1, <1>2, ConcatProperties, Zenon
<1> HIDE DEF most
<1>5. /\ most \in Seq(Channel) /\ Len(most) = 3 + Copies
      /\ \A i \in 1 .. 3 + Copies : most[i] = IF i <= 3 THEN first[i] ELSE queue[i - 3]
  BY <1>1, <1>2, <1>most
<1>all. /\ all \in Seq(Channel) /\ Len(all) = Len(most) + Len(last)
      /\ \A i \in 1 .. Len(most) + Len(last) :
           all[i] = IF i <= Len(most) THEN most[i] ELSE last[i - Len(most)]
  BY <1>3, <1>5, ConcatProperties, Zenon
<1> HIDE DEF all
<1>6. /\ Len(all) = (3 + Copies) + 2
      /\ \A i \in 1 .. (3 + Copies) + 2 :
           all[i] = IF i <= 3 + Copies THEN most[i] ELSE last[i - (3 + Copies)]
  BY <1>3, <1>5, <1>all
<1>7. \A i \in 1 .. Copies + 3 : all[i] \notin Semaphore
  <2> SUFFICES ASSUME NEW i \in 1 .. Copies + 3 PROVE most[i] \notin Semaphore
    BY <1>6, RoomAssumption
  <2>1. CASE i <= 3
    <3>1. most[i] = first[i] /\ (i = 1 \/ i = 2 \/ i = 3)
      BY <1>5, <2>1, RoomAssumption
    <3> QED
      BY <1>1, <3>1 DEF Semaphore
  <2>2. CASE ~(i <= 3)
    <3>1. most[i] = queue[i - 3] /\ i - 3 \in 1 .. Copies
      BY <1>5, <2>2, RoomAssumption
    <3> QED
      BY <1>2, <3>1 DEF Semaphore
  <2> QED
    BY <2>1, <2>2
<1>8. all[Copies + 4] = "posix" /\ all[Copies + 5] = "sysv"
  <2>1. \A i \in {Copies + 4, Copies + 5} :
          i \in 1 .. (3 + Copies) + 2 /\ ~(i <= 3 + Copies) /\ i - (3 + Copies) = IF i = Copies + 4 THEN 1 ELSE 2
    BY RoomAssumption
  <2> QED
    BY <1>3, <1>6, <2>1, RoomAssumption
<1>9. \A i \in 1 .. Copies + 5 : i \in 1 .. Copies + 3 \/ i = Copies + 4 \/ i = Copies + 5
  BY RoomAssumption
<1>10. Len(all) \in Nat /\ Len(all) = Copies + 5
  BY <1>6, RoomAssumption
<1>11. ASSUME NEW i \in 1 .. Copies + 5 PROVE all[i] \in Channel
  BY <1>all, <1>10
<1>12. ASSUME NEW i \in 1 .. Copies + 5, NEW j \in 1 .. Copies + 5,
              all[i] \in Semaphore, all[i] = all[j]
       PROVE  i = j
  BY <1>7, <1>8, <1>9, <1>12
<1> QED
  BY <1>4, <1>10, <1>11, <1>12

\* A place on a channel is a number.
LEMMA SizeIs == \A c \in Channel : SizeOf(c) \in Nat /\ (c \in Semaphore => SizeOf(c) = 1)
  BY RoomAssumption DEF SizeOf, Channel, Semaphore

-----------------------------------------------------------------------------
(* The processes. *)

\* The end of a process, by whatever signal: only its own may be used up.
LEMMA ExitKeeps ==
  ASSUME ProcessInv, NEW p \in Process, NEW rest, pending \ {p} \subseteq rest, rest \subseteq pending,
         p \in alive, Exit(p, rest), names' = names, cleaned' = cleaned
  PROVE  ProcessInv'
<1> USE DEF ProcessInv, Exit, Goto
<1>1. /\ pc' \in [Process -> Label] /\ pc'[p] = "ended"
      /\ \A q \in Process : q # p => pc'[q] = pc[q]
  BY DEF ProcessTypes, Label, Over
<1>2. ProcessTypes'
  BY <1>1 DEF ProcessTypes
<1>3. MadeBeforeFork'
  BY <1>1 DEF MadeBeforeFork, Process, ProcessTypes
<1>4. UnlinkedInOrder'
  BY <1>1 DEF UnlinkedInOrder
<1>5. ChildAsks'
  BY <1>1 DEF ChildAsks, Process
<1>6. OrphanIsTold'
  BY <1>1 DEF OrphanIsTold, ChildAsks, Process, ProcessTypes
<1> QED
  BY <1>2, <1>3, <1>4, <1>5, <1>6

\* The end of the network task.
LEMMA EndTaskKeeps ==
  ASSUME ProcessInv, NEW p \in Process, NEW rest, pending \ {p} \subseteq rest, rest \subseteq pending,
         p \in alive, EndTask(p, rest), names' = names, cleaned' = cleaned
  PROVE  ProcessInv'
<1>1. CASE p = "child" /\ Exit(p, rest)
  BY <1>1, ExitKeeps
<1>2. CASE p = "parent" /\ ~Exit(p, rest)
  <2> USE DEF ProcessInv
  <2>1. /\ pc' \in [Process -> Label] /\ pc'["parent"] = "ended" /\ pc'["child"] = pc["child"]
    BY <1>2 DEF EndTask, Goto, ProcessTypes, Label, Over, Process
  <2>2. pending' = rest \cup (asked \cap alive \cap {"child"}) /\ alive' = alive /\ asked' = asked
    BY <1>2 DEF EndTask
  <2>3. ProcessTypes'
    BY <2>1, <2>2 DEF ProcessTypes
  <2>4. MadeBeforeFork' /\ UnlinkedInOrder' /\ ChildAsks'
    BY <2>1, <2>2 DEF MadeBeforeFork, UnlinkedInOrder, ChildAsks, Process
  <2>5. OrphanIsTold'
    BY <1>2, <2>2 DEF OrphanIsTold
  <2> QED
    BY <2>3, <2>4, <2>5
<1>3. CASE p = "parent" /\ Exit(p, rest)
  BY <1>3, ExitKeeps
<1> QED
  BY <1>1, <1>2, <1>3 DEF EndTask

\* An exception in the network task.
LEMMA ThrowKeeps ==
  ASSUME ProcessInv, NEW p \in Process, NEW rest, pending \ {p} \subseteq rest, rest \subseteq pending,
         p \in alive, Throw(p, rest), names' = names, cleaned' = cleaned
  PROVE  ProcessInv'
<1>1. CASE pc[p] \in Creating /\ EndTask(p, rest)
  BY <1>1, EndTaskKeeps
<1>2. CASE /\ pc[p] \in Looping /\ Goto(p, "unlinkSem") /\ pending' = rest
           /\ alive' = alive /\ asked' = asked
  <2> USE DEF ProcessInv
  <2>1. /\ pc' \in [Process -> Label] /\ pc'[p] = "unlinkSem"
        /\ \A q \in Process : q # p => pc'[q] = pc[q]
    BY <1>2 DEF Goto, ProcessTypes, Label, Destroying
  <2>2. ProcessTypes'
    BY <1>2, <2>1 DEF ProcessTypes
  <2>3. MadeBeforeFork'
    BY <1>2, <2>1 DEF MadeBeforeFork, Process
  <2>4. UnlinkedInOrder'
    BY <2>1 DEF UnlinkedInOrder
  <2>5. ChildAsks'
    BY <1>2, <2>1 DEF ChildAsks, Process, Looping, Over
  <2>6. OrphanIsTold'
    BY <1>2, <2>1 DEF OrphanIsTold, Process, Destroying
  <2> QED
    BY <2>2, <2>3, <2>4, <2>5, <2>6
<1>3. CASE pc[p] \in Destroying /\ Exit(p, rest)
  BY <1>3, ExitKeeps
<1> QED
  BY <1>1, <1>2, <1>3 DEF Throw

\* A step of the network task that makes no names, ends nothing and is not one
\* of those in which the child asks.
LEMMA MoveKeeps ==
  ASSUME ProcessInv, NEW p \in Process, NEW from \in Label, NEW to \in Label,
         Has(p, from), Goto(p, to),
         from \notin {"shm", "sem", "fork"}, to \notin {"shm", "sem", "fork", "unlinkShm"} \cup Over,
         from \in Destroying => to \in Destroying,
         from \in {"trap", "prctl", "check"} => p = "parent" \/ ("parent" \in alive /\ "child" \in asked),
         names' = names, cleaned' = cleaned, alive' = alive, asked' = asked, pending' = pending
  PROVE  ProcessInv'
<1> USE DEF ProcessInv
<1>1. /\ pc' \in [Process -> Label] /\ pc'[p] = to /\ pc[p] = from /\ p \in alive
      /\ \A q \in Process : q # p => pc'[q] = pc[q]
  BY DEF Has, Goto, ProcessTypes
<1>2. ProcessTypes'
  BY <1>1 DEF ProcessTypes
<1>3. MadeBeforeFork'
  BY <1>1 DEF MadeBeforeFork, Process
<1>4. UnlinkedInOrder'
  BY <1>1 DEF UnlinkedInOrder
<1>5. ChildAsks'
  BY <1>1 DEF ChildAsks, Process
<1>6. OrphanIsTold'
  BY <1>1 DEF OrphanIsTold, Process
<1> QED
  BY <1>2, <1>3, <1>4, <1>5, <1>6

\* A step of nobody's network task that leaves the processes alone.
LEMMA StayKeeps ==
  ASSUME ProcessInv, names' = names, cleaned' = cleaned, alive' = alive, pc' = pc, asked' = asked,
         pending' = pending \/ pending' = pending \ {"parent"}
  PROVE  ProcessInv'
  BY DEF ProcessInv, ProcessTypes, MadeBeforeFork, UnlinkedInOrder, ChildAsks, OrphanIsTold, Label, Process

\* The steps that make the names.
LEMMA CreateKeeps ==
  ASSUME ProcessInv, NEW name, NEW next, Create(name, next),
         <<name, next>> \in {<<"shm", "sem">>, <<"sem", "fork">>}
  PROVE  ProcessInv'
<1> USE DEF signalVars
<1>1. pc["parent"] = name /\ "parent" \in alive /\ name \in {"shm", "sem"} /\ next \in {"sem", "fork"}
  BY DEF Create, Has
<1>2. pc["child"] = "off" /\ "child" \notin alive /\ cleaned = {} /\ cleaned' = cleaned
  BY <1>1 DEF ProcessInv, MadeBeforeFork, Create
<1>3. CASE name \in names
  <2>1. EndTask("parent", pending) /\ names' = names
    BY <1>3 DEF Create
  <2> QED
    BY <1>1, <1>2, <2>1, EndTaskKeeps DEF Process
<1>4. CASE name \notin names
  <2>1. /\ names' = names \cup {name} /\ Goto("parent", next)
        /\ alive' = alive /\ asked' = asked /\ pending' = pending
    BY <1>4 DEF Create
  <2>2. /\ pc' \in [Process -> Label] /\ pc'["parent"] = next /\ pc'["child"] = "off"
    BY <1>1, <1>2, <2>1 DEF Goto, ProcessInv, ProcessTypes, Label, Creating, Process
  <2>3. ProcessTypes'
    BY <1>1, <1>2, <2>1, <2>2 DEF ProcessInv, ProcessTypes
  <2>4. MadeBeforeFork'
    BY <1>2, <2>1, <2>2 DEF MadeBeforeFork
  <2>5. UnlinkedInOrder'
    BY <1>1, <1>2, <2>2 DEF UnlinkedInOrder, Process
  <2>6. ChildAsks' /\ OrphanIsTold'
    BY <1>2, <2>1 DEF ChildAsks, OrphanIsTold
  <2> QED
    BY <2>3, <2>4, <2>5, <2>6 DEF ProcessInv
<1> QED
  BY <1>3, <1>4

\* The fork: nobody has asked for a signal yet.
LEMMA ForkKeeps == ProcessInv /\ Fork => ProcessInv'
<1> SUFFICES ASSUME ProcessInv, Fork PROVE ProcessInv'
  OBVIOUS
<1>1. /\ alive' = Process /\ pc' = [parent |-> "trap", child |-> "trap"]
      /\ names' = names /\ cleaned' = cleaned /\ asked' = asked /\ pending' = pending
  BY DEF Fork, signalVars
<1>2. pc' \in [Process -> Label] /\ pc'["parent"] = "trap" /\ pc'["child"] = "trap"
  BY <1>1 DEF Process, Label, Creating
<1>3. ProcessTypes'
  BY <1>1, <1>2 DEF ProcessInv, ProcessTypes
<1>4. MadeBeforeFork' /\ UnlinkedInOrder' /\ ChildAsks' /\ OrphanIsTold'
  BY <1>1, <1>2 DEF ProcessInv, MadeBeforeFork, UnlinkedInOrder, ChildAsks, OrphanIsTold, Process, Over
<1> QED
  BY <1>3, <1>4 DEF ProcessInv

\* The parent asks to be told.
LEMMA TrapKeeps == ProcessInv /\ TrapChildDeath => ProcessInv'
<1> SUFFICES ASSUME ProcessInv, TrapChildDeath PROVE ProcessInv'
  OBVIOUS
<1>1. /\ Has("parent", "trap") /\ Goto("parent", "configure") /\ asked' = asked \cup {"parent"}
      /\ names' = names /\ cleaned' = cleaned /\ alive' = alive /\ pending' = pending
  BY DEF TrapChildDeath
<1>2. /\ pc' \in [Process -> Label] /\ pc'["parent"] = "configure" /\ pc'["child"] = pc["child"]
  BY <1>1 DEF Goto, ProcessInv, ProcessTypes, Label, Creating, Process
<1>3. ProcessTypes'
  BY <1>1, <1>2 DEF ProcessInv, ProcessTypes, Process
<1>4. MadeBeforeFork' /\ UnlinkedInOrder' /\ ChildAsks' /\ OrphanIsTold'
  BY <1>1, <1>2 DEF ProcessInv, MadeBeforeFork, UnlinkedInOrder, ChildAsks, OrphanIsTold, Process
<1> QED
  BY <1>3, <1>4 DEF ProcessInv

\* The child asks to be told, and then whether it is too late for that.
LEMMA ArmKeeps == ProcessInv /\ Arm => ProcessInv'
<1> SUFFICES ASSUME ProcessInv, Arm PROVE ProcessInv'
  OBVIOUS
<1> USE DEF signalVars
<1>1. CASE Has("child", "trap") /\ Goto("child", "prctl") /\ UNCHANGED <<names, cleaned, alive, signalVars>>
  <2>1. /\ pc' \in [Process -> Label] /\ pc'["child"] = "prctl" /\ pc'["parent"] = pc["parent"]
        /\ "child" \in alive
    BY <1>1 DEF Has, Goto, ProcessInv, ProcessTypes, Label, Creating, Process
  <2>2. ProcessTypes'
    BY <1>1, <2>1 DEF ProcessInv, ProcessTypes
  <2>3. MadeBeforeFork' /\ UnlinkedInOrder' /\ ChildAsks' /\ OrphanIsTold'
    BY <1>1, <2>1 DEF ProcessInv, MadeBeforeFork, UnlinkedInOrder, ChildAsks, OrphanIsTold, Process, Over
  <2> QED
    BY <2>2, <2>3 DEF ProcessInv
<1>2. CASE /\ Has("child", "prctl") /\ Goto("child", "check") /\ asked' = asked \cup {"child"}
           /\ UNCHANGED <<names, cleaned, alive, pending>>
  <2>1. /\ pc' \in [Process -> Label] /\ pc'["child"] = "check" /\ pc'["parent"] = pc["parent"]
        /\ "child" \in alive
    BY <1>2 DEF Has, Goto, ProcessInv, ProcessTypes, Label, Creating, Process
  <2>2. ProcessTypes'
    BY <1>2, <2>1 DEF ProcessInv, ProcessTypes, Process
  <2>3. MadeBeforeFork' /\ UnlinkedInOrder' /\ ChildAsks' /\ OrphanIsTold'
    BY <1>2, <2>1 DEF ProcessInv, MadeBeforeFork, UnlinkedInOrder, ChildAsks, OrphanIsTold, Process, Over
  <2> QED
    BY <2>2, <2>3 DEF ProcessInv
<1>3. CASE /\ Has("child", "check") /\ "parent" \in alive /\ Goto("child", "configure")
           /\ UNCHANGED <<names, cleaned, alive, signalVars>>
  <2>1. "child" \in alive /\ pc["child"] = "check"
    BY <1>3 DEF Has
  <2>2. "child" \in asked
    BY <2>1 DEF ProcessInv, ChildAsks
  <2>3. "configure" \in Label /\ "check" \in Label /\ "child" \in Process
        /\ "configure" \notin {"shm", "sem", "fork", "unlinkShm"} \cup Over /\ "check" \notin Destroying
    BY DEF Label, Creating, Over, Destroying, Process
  <2> QED
    BY <1>3, <2>2, <2>3, MoveKeeps
<1>4. CASE Has("child", "check") /\ EndTask("child", pending) /\ UNCHANGED <<names, cleaned>>
  BY <1>4, EndTaskKeeps DEF Has, Process
<1> QED
  BY <1>1, <1>2, <1>3, <1>4 DEF Arm

\* The steps of the constructor's end and of the loop: they go from one place
\* to another of the loop, or throw.
LEMMA LoopKeeps ==
  ASSUME IInv, NEW p \in Process, Configure(p) \/ Receive(p) \/ Chat(p) \/ SendNext(p) \/ SendFails(p)
  PROVE  ProcessInv'
<1> USE DEF signalVars
<1>1. ProcessInv /\ names' = names /\ cleaned' = cleaned /\ p \in alive /\ pc[p] \in Label
  BY DEF IInv, ProcessInv, ProcessTypes, Configure, Receive, Chat, SendNext, SendFails, Has
<1>2. ASSUME NEW from \in Looping \cup {"configure"}, NEW to \in Looping \cup {"unlinkSem"},
             Has(p, from), Goto(p, to), alive' = alive, asked' = asked, pending' = pending
      PROVE  ProcessInv'
  <2>1. /\ from \in Label /\ to \in Label
        /\ from \notin {"shm", "sem", "fork", "trap", "prctl", "check"} \cup Destroying
        /\ to \notin {"shm", "sem", "fork", "unlinkShm"} \cup Over
    BY DEF Looping, Label, Creating, Destroying, Over
  <2> QED
    BY <1>1, <1>2, <2>1, MoveKeeps
<1>3. CASE Configure(p)
  BY <1>2, <1>3 DEF Configure, Looping
<1>4. CASE Receive(p)
  <2>1. CASE Throw(p, pending)
    BY <1>1, <2>1, ThrowKeeps
  <2>2. CASE Goto(p, "chat") /\ UNCHANGED <<alive, signalVars>>
    BY <1>2, <1>4, <2>2 DEF Receive, Looping
  <2> QED
    BY <1>4, <2>1, <2>2 DEF Receive
<1>5. CASE Chat(p)
  <2>1. slot[p] \in Line
    BY DEF IInv, FlowInv, FlowTypes
  <2>2. PICK to \in {"send", "unlinkSem", "receive"} : Goto(p, to)
    BY <1>5, <2>1 DEF Chat, Line
  <2> QED
    BY <1>2, <1>5, <2>2 DEF Chat, Looping
<1>6. CASE SendNext(p)
  <2>1. CASE Goto(p, "receive")
    BY <1>2, <1>6, <2>1 DEF SendNext, Looping
  <2>2. CASE pc' = pc
    <3>1. alive' = alive /\ asked' = asked /\ pending' = pending
      BY <1>6 DEF SendNext
    <3> QED
      BY <1>1, <2>2, <3>1, StayKeeps
  <2> QED
    BY <1>6, <2>1, <2>2 DEF SendNext
<1>7. CASE SendFails(p)
  BY <1>1, <1>7, ThrowKeeps DEF SendFails
<1> QED
  BY <1>3, <1>4, <1>5, <1>6, <1>7

\* The destructor.
LEMMA UnlinkKeeps ==
  ASSUME ProcessInv, NEW p \in Process, Unlink(p)
  PROVE  ProcessInv'
<1> USE DEF signalVars
<1>1. CASE Has(p, "unlinkSem") /\ Goto(p, "unlinkShm") /\ names' = names \ {"sem"}
           /\ UNCHANGED <<cleaned, alive, signalVars>>
  <2>1. /\ pc' \in [Process -> Label] /\ pc'[p] = "unlinkShm" /\ pc[p] = "unlinkSem" /\ p \in alive
        /\ \A q \in Process : q # p => pc'[q] = pc[q]
    BY <1>1 DEF Has, Goto, ProcessInv, ProcessTypes, Label, Destroying
  <2>2. ProcessTypes'
    BY <1>1, <2>1 DEF ProcessInv, ProcessTypes
  <2>3. MadeBeforeFork'
    BY <1>1, <2>1 DEF ProcessInv, MadeBeforeFork, Process
  <2>4. UnlinkedInOrder'
    BY <1>1, <2>1 DEF ProcessInv, UnlinkedInOrder
  <2>5. ChildAsks' /\ OrphanIsTold'
    BY <1>1, <2>1 DEF ProcessInv, ChildAsks, OrphanIsTold, Process, Over, Destroying
  <2> QED
    BY <2>2, <2>3, <2>4, <2>5 DEF ProcessInv
<1>2. CASE Has(p, "unlinkShm") /\ Goto(p, "notify") /\ names' = names \ {"shm"}
           /\ cleaned' = cleaned \cup {p} /\ UNCHANGED <<alive, signalVars>>
  <2>1. /\ pc' \in [Process -> Label] /\ pc'[p] = "notify" /\ pc[p] = "unlinkShm" /\ p \in alive
        /\ \A q \in Process : q # p => pc'[q] = pc[q]
    BY <1>2 DEF Has, Goto, ProcessInv, ProcessTypes, Label, Destroying
  <2>2. ProcessTypes'
    BY <1>2, <2>1 DEF ProcessInv, ProcessTypes
  <2>3. MadeBeforeFork'
    BY <1>2, <2>1 DEF ProcessInv, MadeBeforeFork, Process
  <2>4. "sem" \notin names /\ names' = {}
    BY <1>2, <2>1 DEF ProcessInv, UnlinkedInOrder, ProcessTypes
  <2>5. UnlinkedInOrder'
    BY <2>4 DEF UnlinkedInOrder
  <2>6. ChildAsks' /\ OrphanIsTold'
    BY <1>2, <2>1 DEF ProcessInv, ChildAsks, OrphanIsTold, Process, Over, Destroying
  <2> QED
    BY <2>2, <2>3, <2>5, <2>6 DEF ProcessInv
<1> QED
  BY <1>1, <1>2 DEF Unlink

\* Its end.
LEMMA NotifyKeeps ==
  ASSUME ProcessInv, NEW p \in Process, Notify(p)
  PROVE  ProcessInv'
<1>1. CASE /\ Has(p, "notify") /\ Goto(p, "leave")
           /\ pending' = pending \cup (IF p = "child" THEN asked \cap alive \cap {"parent"} ELSE {})
           /\ UNCHANGED <<alive, asked, names, cleaned>>
  <2>1. /\ pc' \in [Process -> Label] /\ pc'[p] = "leave" /\ pc[p] = "notify" /\ p \in alive
        /\ \A q \in Process : q # p => pc'[q] = pc[q]
    BY <1>1 DEF Has, Goto, ProcessInv, ProcessTypes, Label, Destroying
  <2>2. ProcessTypes'
    BY <1>1, <2>1 DEF ProcessInv, ProcessTypes
  <2>3. MadeBeforeFork' /\ UnlinkedInOrder'
    BY <1>1, <2>1 DEF ProcessInv, MadeBeforeFork, UnlinkedInOrder, Process
  <2>4. ChildAsks' /\ OrphanIsTold'
    BY <1>1, <2>1 DEF ProcessInv, ChildAsks, OrphanIsTold, Process, Over, Destroying
  <2> QED
    BY <2>2, <2>3, <2>4 DEF ProcessInv
<1>2. CASE Has(p, "leave") /\ EndTask(p, pending) /\ UNCHANGED <<names, cleaned>>
  BY <1>2, EndTaskKeeps DEF Has
<1> QED
  BY <1>1, <1>2 DEF Notify

\* The signals.
LEMMA SignalKeeps ==
  ASSUME ProcessInv, ChildDied \/ ParentDied
  PROVE  ProcessInv'
<1> USE DEF Process
<1>1. CASE ChildDied
  <2> DEFINE rest == pending \ {"parent"}
  <2>1. "parent" \in alive /\ names' = names /\ cleaned' = cleaned
    BY <1>1 DEF ChildDied, ProcessInv, ProcessTypes
  <2>2. CASE Throw("parent", rest)
    BY <2>1, <2>2, ThrowKeeps
  <2>3. CASE Exit("parent", rest)
    BY <2>1, <2>3, ExitKeeps
  <2>4. CASE pending' = rest /\ UNCHANGED <<alive, pc, asked>>
    BY <2>1, <2>4, StayKeeps
  <2> QED
    BY <1>1, <2>2, <2>3, <2>4 DEF ChildDied
<1>2. CASE ParentDied
  <2> DEFINE rest == pending \ {"child"}
  <2>1. "child" \in alive /\ names' = names /\ cleaned' = cleaned
    BY <1>2 DEF ParentDied, ProcessInv, ProcessTypes
  <2>2. CASE Throw("child", rest)
    BY <2>1, <2>2, ThrowKeeps
  <2>3. CASE Exit("child", rest)
    BY <2>1, <2>3, ExitKeeps
  <2> QED
    BY <1>2, <2>2, <2>3 DEF ParentDied
<1> QED
  BY <1>1, <1>2

\* The program is started, for the first time or again.
LEMMA RestartKeeps == ProcessInv /\ Restart => ProcessInv'
  BY DEF Restart, Fresh, ProcessInv, ProcessTypes, MadeBeforeFork, UnlinkedInOrder, ChildAsks, OrphanIsTold,
         Label, Creating, Over, Process

LEMMA ProcessNext == IInv /\ [Next]_vars => ProcessInv'
<1> SUFFICES ASSUME IInv, [Next]_vars PROVE ProcessInv'
  OBVIOUS
<1> USE DEF signalVars
<1>1. ProcessInv
  BY DEF IInv
<1>2. ASSUME NEW p \in Process, NetStep(p) PROVE ProcessInv'
  <2>1. CASE Create("shm", "sem") \/ Create("sem", "fork")
    BY <1>1, <2>1, CreateKeeps
  <2>2. CASE Fork \/ TrapChildDeath \/ Arm
    BY <1>1, <2>2, ForkKeeps, TrapKeeps, ArmKeeps
  <2>3. CASE SendKills
    BY <1>1, <2>3, ExitKeeps DEF SendKills, Has, Process
  <2>4. CASE Configure(p) \/ Receive(p) \/ Chat(p) \/ SendNext(p) \/ SendFails(p)
    BY <2>4, LoopKeeps
  <2>5. CASE Unlink(p) \/ Notify(p)
    BY <1>1, <2>5, UnlinkKeeps, NotifyKeeps
  <2> QED
    BY <1>2, <2>1, <2>2, <2>3, <2>4, <2>5 DEF NetStep
<1>3. ASSUME NEW p \in Process, Kill(p) PROVE ProcessInv'
  BY <1>1, <1>3, ExitKeeps DEF Kill
<1>4. CASE ReadLine \/ PostLine
  BY <1>1, <1>4, StayKeeps DEF ReadLine, PostLine
<1>5. CASE ParentExits
  BY <1>1, <1>5, ExitKeeps DEF ParentExits, Process
<1>6. CASE ChildDied \/ ParentDied
  BY <1>1, <1>6, SignalKeeps
<1>7. CASE Restart
  BY <1>1, <1>7, RestartKeeps
<1>8. CASE UNCHANGED vars
  BY <1>1, <1>8, StayKeeps DEF vars
<1> QED
  BY <1>2, <1>3, <1>4, <1>5, <1>6, <1>7, <1>8 DEF Next

-----------------------------------------------------------------------------
(* What is sent. *)

\* A step that sends nothing and takes nothing, and does not lead the parent to
\* where it sends.
LEMMA FlowStays ==
  ASSUME FlowInv, step' = step, slot' \in [Process -> Line], waiting' = waiting, answer' = answer,
         pc'["parent"] \in {"chat", "send"} => pc'["parent"] = pc["parent"]
  PROVE  FlowInv'
  BY DEF FlowInv, FlowTypes, TriedBeforePosted, Script, SizeOf, Semaphore, Channel

\* The end of a task or of a process is none.
LEMMA EndsLeaveFlow ==
  ASSUME ProcessInv, NEW p \in Process, NEW rest, Exit(p, rest) \/ EndTask(p, rest) \/ Throw(p, rest)
  PROVE  pc'["parent"] \in {"chat", "send"} => pc'["parent"] = pc["parent"]
  BY DEF Exit, EndTask, Throw, Goto, Process, ProcessInv, ProcessTypes

\* What is taken: never more is left, of a semaphore nothing.
LEMMA TakeKeeps ==
  ASSUME FlowTypes, NEW read, Take(read)
  PROVE  /\ waiting' \in [Channel -> Nat]
         /\ \A c \in Channel : waiting'[c] \in 0 .. SizeOf(c)
         /\ \A c \in Channel : waiting[c] = 0 => waiting'[c] = 0
         /\ \A c \in Semaphore \cap read : waiting'[c] = 0
<1>1. ASSUME NEW c \in Channel
      PROVE  /\ waiting'[c] = waiting[c] \/ waiting'[c] = Less(c, waiting[c])
             /\ c \in read => waiting'[c] = Less(c, waiting[c])
  BY DEF Take
<1>2. ASSUME NEW c \in Channel
      PROVE  /\ waiting[c] \in Nat /\ SizeOf(c) \in Nat /\ waiting[c] \in 0 .. SizeOf(c)
             /\ c \in Semaphore => waiting[c] = 0 \/ waiting[c] = 1
  BY SizeIs DEF FlowTypes
<1>3. ASSUME NEW c \in Channel
      PROVE  /\ Less(c, waiting[c]) \in Nat /\ Less(c, waiting[c]) \in 0 .. SizeOf(c)
             /\ waiting[c] = 0 => Less(c, waiting[c]) = 0
             /\ c \in Semaphore => Less(c, waiting[c]) = 0
  BY <1>2 DEF Less
<1>4. waiting' = [c \in Channel |-> waiting'[c]]
  BY DEF Take
<1>5. waiting' \in [Channel -> Nat]
  BY <1>1, <1>2, <1>3, <1>4
<1> QED
  BY <1>1, <1>2, <1>3, <1>5 DEF Semaphore, Channel

\* receive tries the semaphores.
LEMMA ReceiveFlow ==
  ASSUME IInv, NEW p \in Process, Receive(p)
  PROVE  FlowInv'
<1>1. PICK read : Take(read) /\ Semaphore \subseteq read
  BY DEF Receive, Semaphore, Channel
<1>2. FlowTypes /\ TriedBeforePosted /\ ProcessInv
  BY DEF IInv, FlowInv
<1>3. answer' \in 0 .. Room /\ step' = step /\ slot' = slot
  BY <1>2, RoomAssumption DEF Receive, FlowTypes
<1>4. FlowTypes'
  BY <1>1, <1>2, <1>3, TakeKeeps DEF FlowTypes, Script, SizeOf, Semaphore
<1>5. \A c \in Semaphore : waiting'[c] = 0
  BY <1>1, <1>2, TakeKeeps DEF FlowTypes
<1>6. \A i : Script[i] \in Semaphore => waiting'[Script[i]] = 0
  BY <1>5
<1>7. TriedBeforePosted'
  BY <1>5, <1>6 DEF TriedBeforePosted, Script, Semaphore
<1> QED
  BY <1>4, <1>7 DEF FlowInv

\* chatOrQuit starts a send where every semaphore has been tried.
LEMMA ChatFlow ==
  ASSUME IInv, NEW p \in Process, Chat(p)
  PROVE  FlowInv'
<1>1. FlowTypes /\ TriedBeforePosted /\ pc \in [Process -> Label]
  BY DEF IInv, FlowInv, ProcessInv, ProcessTypes
<1>2. /\ slot' \in [Process -> Line] /\ waiting' = waiting /\ answer' = answer
      /\ step' = [step EXCEPT ![p] = 1]
  BY <1>1 DEF Chat, channelVars, FlowTypes, Line
<1>3. 1 \in 1 .. Len(Script)
  BY ScriptIs, RoomAssumption
<1>4. FlowTypes'
  BY <1>1, <1>2, <1>3 DEF FlowTypes, Script, SizeOf, Semaphore
<1>5. CASE p = "child"
  <2>1. step'["parent"] = step["parent"]
    BY <1>1, <1>2, <1>5 DEF FlowTypes, Process
  <2>2. pc'["parent"] = pc["parent"]
    BY <1>1, <1>5 DEF Chat, Goto, Process
  <2>3. TriedBeforePosted'
    BY <1>1, <1>2, <2>1, <2>2 DEF TriedBeforePosted, Script, Semaphore
  <2> QED
    BY <1>4, <2>3 DEF FlowInv
<1>6. CASE p = "parent"
  <2>1. \A c \in Semaphore : waiting'[c] = 0
    BY <1>1, <1>2, <1>6 DEF Chat, Has, TriedBeforePosted
  <2>2. \A i : Script[i] \in Semaphore => waiting'[Script[i]] = 0
    BY <2>1
  <2>3. TriedBeforePosted'
    BY <2>1, <2>2 DEF TriedBeforePosted, Script, Semaphore
  <2> QED
    BY <1>4, <2>3 DEF FlowInv
<1> QED
  BY <1>5, <1>6 DEF Process

\* A call of send finds room, on a semaphore because it has been tried.
LEMMA SendFlow ==
  ASSUME IInv, NEW p \in Process, SendNext(p)
  PROVE  FlowInv'
<1> DEFINE c == Script[step[p]]
<1>1. FlowTypes /\ TriedBeforePosted /\ pc \in [Process -> Label]
  BY DEF IInv, FlowInv, ProcessInv, ProcessTypes
<1>2. step[p] \in 1 .. Len(Script) /\ Len(Script) \in Nat /\ c \in Channel /\ slot' = slot
  BY <1>1, ScriptIs DEF FlowTypes, SendNext
<1>3. step' \in [Process -> 1 .. Len(Script)]
  <2>1. CASE step[p] = Len(Script)
    <3>1. 1 \in 1 .. Len(Script)
      BY ScriptIs, RoomAssumption
    <3> QED
      BY <1>1, <2>1, <3>1 DEF SendNext, FlowTypes
  <2>2. CASE step[p] # Len(Script)
    <3>1. step[p] + 1 \in 1 .. Len(Script)
      BY <1>2, <2>2
    <3> QED
      BY <1>1, <2>2, <3>1 DEF SendNext, FlowTypes
  <2> QED
    BY <2>1, <2>2
<1>4. CASE p = "child"
  <2>1. answer' \in 0 .. Room /\ waiting' = waiting
    BY <1>1, <1>4, RoomAssumption DEF SendNext, FlowTypes
  <2>2. FlowTypes'
    BY <1>1, <1>2, <1>3, <2>1 DEF FlowTypes, Script, SizeOf, Semaphore
  <2>3. step'["parent"] = step["parent"] /\ pc'["parent"] = pc["parent"]
    BY <1>1, <1>4 DEF SendNext, Goto, FlowTypes, Process
  <2>4. TriedBeforePosted'
    BY <1>1, <2>1, <2>3 DEF TriedBeforePosted, Script, Semaphore
  <2> QED
    BY <2>2, <2>4 DEF FlowInv
<1>5. CASE p = "parent"
  <2>1. /\ waiting' = [waiting EXCEPT ![c] = @ + 1] /\ answer' = answer /\ ~Full(c)
        /\ pc["parent"] = "send"
    BY <1>5 DEF SendNext, Has
  <2>2. waiting[c] + 1 \in 0 .. SizeOf(c)
    <3>1. CASE c \in Semaphore
      <4>1. waiting[c] = 0
        BY <1>1, <1>2, <1>5, <2>1, <3>1 DEF TriedBeforePosted
      <4> QED
        BY <1>2, <3>1, <4>1, SizeIs
    <3>2. CASE c \notin Semaphore
      BY <1>1, <1>2, <2>1, <3>2, SizeIs DEF Full, FlowTypes
    <3> QED
      BY <3>1, <3>2
  <2> HIDE DEF c
  <2>3. /\ waiting' \in [Channel -> Nat] /\ waiting'[c] = waiting[c] + 1
        /\ \A d \in Channel : d # c => waiting'[d] = waiting[d]
    BY <1>1, <1>2, <2>1 DEF FlowTypes
  <2>4. \A d \in Channel : waiting'[d] \in 0 .. SizeOf(d)
    BY <1>1, <2>2, <2>3 DEF FlowTypes
  <2>5. FlowTypes'
    BY <1>1, <1>2, <1>3, <2>1, <2>3, <2>4 DEF FlowTypes, Script, SizeOf, Semaphore
  <2>6. CASE step[p] = Len(Script)
    <3>1. pc'["parent"] = "receive"
      BY <1>1, <1>5, <2>6 DEF SendNext, Goto, Process
    <3> QED
      BY <2>5, <3>1 DEF FlowInv, TriedBeforePosted
  <2>7. CASE step[p] # Len(Script)
    <3>1. step'["parent"] = step[p] + 1 /\ pc'["parent"] = "send"
      BY <1>1, <1>5, <2>1, <2>7 DEF SendNext, FlowTypes
    <3>2. ASSUME NEW i \in step[p] + 1 .. Len(Script), Script[i] \in Semaphore
          PROVE  waiting'[Script[i]] = 0
      <4>1. i \in step[p] .. Len(Script) /\ i \in 1 .. Len(Script) /\ i # step[p]
        BY <1>2
      <4>2. waiting[Script[i]] = 0 /\ Script[i] \in Channel
        BY <1>1, <1>5, <2>1, <3>2, <4>1, ScriptIs DEF TriedBeforePosted
      <4>3. Script[i] # c
        BY <1>2, <3>2, <4>1, ScriptIs DEF c
      <4> QED
        BY <2>3, <4>2, <4>3
    <3>3. TriedBeforePosted'
      BY <3>1, <3>2 DEF TriedBeforePosted, Script, Semaphore
    <3> QED
      BY <2>5, <3>3 DEF FlowInv
  <2> QED
    BY <2>6, <2>7
<1> QED
  BY <1>4, <1>5 DEF Process

LEMMA FlowNext == IInv /\ [Next]_vars => FlowInv'
<1> SUFFICES ASSUME IInv, [Next]_vars PROVE FlowInv'
  OBVIOUS
<1> USE DEF channelVars, signalVars
<1>1. FlowInv /\ ProcessInv /\ slot \in [Process -> Line] /\ line \in Line /\ pc \in [Process -> Label]
  BY DEF IInv, FlowInv, FlowTypes, ProcessInv, ProcessTypes, IoTypes
<1>2. ASSUME NEW p \in Process, NEW rest, Exit(p, rest) \/ EndTask(p, rest) \/ Throw(p, rest),
             step' = step, slot' = slot, UNCHANGED channelVars
      PROVE  FlowInv'
  BY <1>1, <1>2, EndsLeaveFlow, FlowStays
<1>3. ASSUME NEW p \in Process, NEW to, Goto(p, to), to \notin {"chat", "send"},
             step' = step, slot' = slot, UNCHANGED channelVars
      PROVE  FlowInv'
  <2>1. pc'["parent"] \in {"chat", "send"} => pc'["parent"] = pc["parent"]
    BY <1>1, <1>3 DEF Goto, Process
  <2> QED
    BY <1>1, <1>3, <2>1, FlowStays
<1>4. ASSUME NEW p \in Process, NetStep(p) PROVE FlowInv'
  <2>1. ASSUME NEW name, NEW next \in {"sem", "fork"}, Create(name, next) PROVE FlowInv'
    <3>1. EndTask("parent", pending) \/ Goto("parent", next)
      BY <2>1 DEF Create
    <3> QED
      BY <1>2, <1>3, <2>1, <3>1 DEF Create, Process
  <2>2. CASE Fork
    <3>1. slot' \in [Process -> Line] /\ pc'["parent"] = "trap" /\ step' = step /\ UNCHANGED channelVars
      BY <1>1, <2>2 DEF Fork, Process
    <3> QED
      BY <1>1, <3>1, FlowStays
  <2>3. CASE TrapChildDeath
    BY <1>3, <2>3 DEF TrapChildDeath, Process
  <2>4. CASE Arm
    <3>1. Goto("child", "prctl") \/ Goto("child", "check") \/ Goto("child", "configure") \/ EndTask("child", pending)
      BY <2>4 DEF Arm
    <3>2. step' = step /\ slot' = slot /\ UNCHANGED channelVars
      BY <2>4 DEF Arm
    <3> QED
      BY <1>2, <1>3, <3>1, <3>2 DEF Process
  <2>5. CASE SendKills
    BY <1>2, <2>5 DEF SendKills, Process
  <2>6. CASE Configure(p)
    BY <1>3, <2>6 DEF Configure
  <2>7. CASE Receive(p) \/ Chat(p) \/ SendNext(p)
    BY <2>7, ReceiveFlow, ChatFlow, SendFlow
  <2>8. CASE SendFails(p)
    BY <1>2, <2>8 DEF SendFails
  <2>9. CASE Unlink(p)
    BY <1>3, <2>9 DEF Unlink
  <2>10. CASE Notify(p)
    BY <1>2, <1>3, <2>10 DEF Notify
  <2> QED
    BY <1>4, <2>1, <2>2, <2>3, <2>4, <2>5, <2>6, <2>7, <2>8, <2>9, <2>10 DEF NetStep
<1>5. ASSUME NEW p \in Process, Kill(p) PROVE FlowInv'
  BY <1>2, <1>5 DEF Kill
<1>6. CASE ReadLine \/ PostLine
  <2>1. slot' \in [Process -> Line]
    BY <1>1, <1>6 DEF ReadLine, PostLine
  <2> QED
    BY <1>1, <1>6, <2>1, FlowStays DEF ReadLine, PostLine
<1>7. CASE ParentExits
  BY <1>2, <1>7 DEF ParentExits, Process
<1>8. CASE ChildDied
  <2>1. \/ \E rest : Throw("parent", rest) \/ Exit("parent", rest)
        \/ pc' = pc
    BY <1>8 DEF ChildDied
  <2>2. step' = step /\ slot' = slot /\ UNCHANGED channelVars
    BY <1>8 DEF ChildDied
  <2> QED
    BY <1>1, <1>2, <2>1, <2>2, FlowStays DEF Process
<1>9. CASE ParentDied
  BY <1>2, <1>9 DEF ParentDied, Process
<1>10. CASE Restart
  <2>1. 1 \in 1 .. Len(Script) /\ 0 \in 0 .. Room
    BY ScriptIs, RoomAssumption
  <2>2. /\ step' = [p \in Process |-> 1] /\ slot' = [p \in Process |-> "none"] /\ answer' = 0
        /\ waiting' = [c \in Channel |-> 0] /\ pc'["parent"] = "shm"
    BY <1>10 DEF Restart, Fresh
  <2>3. \A c \in Channel : 0 \in 0 .. SizeOf(c)
    BY SizeIs
  <2> QED
    BY <2>1, <2>2, <2>3 DEF FlowInv, FlowTypes, TriedBeforePosted, Line, Script, SizeOf, Semaphore
<1>11. CASE UNCHANGED vars
  BY <1>1, <1>11, FlowStays DEF vars
<1> QED
  BY <1>4, <1>5, <1>6, <1>7, <1>8, <1>9, <1>10, <1>11 DEF Next

-----------------------------------------------------------------------------
(* The io task and main. *)

LEMMA IoNext == IInv /\ [Next]_vars => IoTypes'
<1> SUFFICES ASSUME IoTypes, [Next]_vars PROVE IoTypes'
  BY DEF IInv
<1> USE DEF ioVars, onceVars
<1>1. ASSUME UNCHANGED <<main, ioVars, onceVars>> PROVE IoTypes'
  BY <1>1 DEF IoTypes
<1>2. ASSUME NEW p \in Process, NetStep(p) PROVE IoTypes'
  <2>1. CASE Fork
    <3>1. stuck' \in BOOLEAN
      BY <2>1 DEF Fork
    <3> QED
      BY <2>1, <3>1 DEF Fork, IoTypes
  <2>2. CASE ~Fork
    <3>1. UNCHANGED <<main, ioVars, onceVars>>
      BY <1>2, <2>2 DEF NetStep, Create, TrapChildDeath, SendKills, Arm, Configure, Receive, Chat, SendNext,
                        SendFails, Unlink, Notify
    <3> QED
      BY <1>1, <3>1
  <2> QED
    BY <2>1, <2>2
<1>3. ASSUME NEW p \in Process, Kill(p) PROVE IoTypes'
  BY <1>1, <1>3 DEF Kill
<1>4. CASE ReadLine
  <2>1. typed' \in 0 .. MaxLines
    BY <1>4, BoundAssumption DEF ReadLine, IoTypes
  <2>2. line' \in Line /\ bad' \in BOOLEAN
    BY <1>4 DEF ReadLine, IoTypes
  <2> QED
    BY <1>4, <2>1, <2>2 DEF ReadLine, IoTypes
<1>5. CASE PostLine
  BY <1>5 DEF PostLine, IoTypes
<1>6. CASE ParentExits \/ ParentDied
  BY <1>1, <1>6 DEF ParentExits, ParentDied
<1>7. CASE ChildDied
  <2>1. UNCHANGED <<typed, onceVars>>
    BY <1>7 DEF ChildDied
  <2>2. /\ io' \in {"getline", "chat", "done", "failed"} /\ line' \in Line
        /\ main' \in {"join", "unwind"} /\ bad' \in BOOLEAN
    BY <1>7 DEF ChildDied, IoTypes, Line
  <2> QED
    BY <2>1, <2>2 DEF IoTypes
<1>8. CASE Restart
  <2>1. runs' \in 1 .. MaxRuns /\ 0 \in 0 .. MaxLines
    BY <1>8, BoundAssumption DEF Restart, IoTypes
  <2> QED
    BY <1>8, <2>1 DEF Restart, IoTypes, Line
<1>9. CASE UNCHANGED vars
  BY <1>1, <1>9 DEF vars
<1> QED
  BY <1>2, <1>3, <1>4, <1>5, <1>6, <1>7, <1>8, <1>9 DEF Next

-----------------------------------------------------------------------------
LEMMA InitInv == Init => IInv
<1> SUFFICES ASSUME Init PROVE IInv
  OBVIOUS
<1>1. ProcessInv
  BY DEF Init, Fresh, ProcessInv, ProcessTypes, MadeBeforeFork, UnlinkedInOrder, ChildAsks, OrphanIsTold,
         Label, Creating, Over, Process
<1>2. 1 \in 1 .. Len(Script) /\ 0 \in 0 .. Room /\ 1 \in 1 .. MaxRuns /\ 0 \in 0 .. MaxLines
  BY ScriptIs, RoomAssumption, BoundAssumption
<1>3. FlowInv
  <2>1. \A c \in Channel : 0 \in 0 .. SizeOf(c)
    BY SizeIs
  <2> QED
    BY <1>2, <2>1 DEF Init, Fresh, FlowInv, FlowTypes, TriedBeforePosted, Line
<1>4. IoTypes
  BY <1>2 DEF Init, IoTypes, Line
<1> QED
  BY <1>1, <1>3, <1>4 DEF IInv

LEMMA NextInv == IInv /\ [Next]_vars => IInv'
  BY ProcessNext, FlowNext, IoNext DEF IInv

\* The types.  Of these the channels matter: a semaphore, which no call of send
\* checks, is never above 1, because the parent tries both in every turn of the
\* loop before it posts them (SocketUnixForked::receive and send).
THEOREM ForkedTypeCorrect == Spec => []TypeOK
<1>1. IInv => TypeOK
  BY Types
<1> QED
  BY <1>1, InitInv, NextInv, PTL DEF Spec

\* Once one of the two processes has come to the end of its clean-up, nothing
\* that it removed is there again, whatever the other one does and however they
\* end (~SocketUnixForked, and the O_EXCL of the constructor).
THEOREM NamesGoWithOneCleanUp == Spec => []NamesOutliveOnlyACrash
<1>1. IInv => NamesOutliveOnlyACrash
  BY DEF IInv, ProcessInv, UnlinkedInOrder, NamesOutliveOnlyACrash
<1> QED
  BY <1>1, InitInv, NextInv, PTL DEF Spec

\* A child that is left alone has been told, or will find out when it asks
\* (killChildOnParentDeath): prctl comes before the check, so that a parent
\* cannot die in between unnoticed.
THEOREM NoOrphanUntold == Spec => []OrphanIsTold
<1>1. IInv => OrphanIsTold
  BY DEF IInv, ProcessInv
<1> QED
  BY <1>1, InitInv, NextInv, PTL DEF Spec
==============================================================================
