---------------------------- MODULE Startup_proofs ----------------------------
(***************************************************************************)
(* Proofs about Startup, for any command lines, words and descriptors.     *)
(***************************************************************************)
EXTENDS Startup, FileDescriptors_proofs, SequenceTheorems, WellFoundedInduction

-----------------------------------------------------------------------------
(* Types of what is computed. *)

\* A word and a port make an address.
LEMMA IPSocketType == \A a \in Word, p \in Port : IPSocket(a, p) \in Address
  BY DEF IPSocket, Address, detectFamily, Families

\* A list that is not empty has a last address.
LEMMA BackExists ==
  ASSUME NEW ss \in Seq(Address), ss # <<>>
  PROVE  Len(ss) \in 1 .. Len(ss) /\ ss[Len(ss)] \in Address
<1>1. Len(ss) \in Nat /\ Len(ss) # 0
  OBVIOUS
<1> QED
  BY <1>1

\* The remainder of a division by a positive number.
LEMMA RemainderRange ==
  ASSUME NEW n \in Int, NEW m \in Int, m > 0
  PROVE  n % m \in 0 .. m - 1
  OBVIOUS

\* Whatever is reduced to sixteen bits is a port.
LEMMA PortRange == \A n \in Int : n % Ports \in Port
<1>1. Ports \in Int /\ Ports > 0
  BY DEF Ports
<1> QED
  BY <1>1, RemainderRange DEF Port

\* remotes.back().port += 17 leaves a list of addresses.
LEMMA ShiftedType ==
  ASSUME NEW ss \in Seq(Address), ss # <<>>
  PROVE  Shifted(ss) \in Seq(Address)
<1> DEFINE n == Len(ss)
           a == [ss[n] EXCEPT !.port = (ss[n].port + 17) % Ports]
<1>1. n \in 1 .. Len(ss) /\ ss[n] \in Address
  BY BackExists
<1>2. \A p \in Port : (p + 17) % Ports \in Port
  <2>1. \A p \in Port : p + 17 \in Int
    BY DEF Port
  <2> QED
    BY <2>1, PortRange
<1>3. a \in Address
  BY <1>1, <1>2 DEF Address
<1>4. Shifted(ss) = [ss EXCEPT ![n] = a]
  BY <1>1 DEF Shifted, Address
<1> HIDE DEF a, n
<1> QED
  BY <1>1, <1>3, <1>4

\* An appended list has a first element.
LEMMA AppendType ==
  ASSUME NEW ss \in Seq(Address), NEW a \in Address
  PROVE  /\ Append(ss, a) \in Seq(Address)
         /\ Append(ss, a) # <<>>
         /\ Head(Append(ss, a)) \in Address
<1>1. Append(ss, a) \in Seq(Address) /\ Len(Append(ss, a)) = Len(ss) + 1 /\ Len(ss) \in Nat
  OBVIOUS
<1>2. Append(ss, a) # <<>>
  BY <1>1
<1> QED
  BY <1>1, <1>2

\* Two lists, the first not empty.
LEMMA ConcatType ==
  ASSUME NEW ss \in Seq(Address), NEW us \in Seq(Address), ss # <<>>
  PROVE  ss \o us \in Seq(Address) /\ ss \o us # <<>>
<1>1. /\ ss \o us \in Seq(Address) /\ Len(ss \o us) = Len(ss) + Len(us)
      /\ Len(ss) \in Nat /\ Len(us) \in Nat /\ Len(ss) # 0
  OBVIOUS
<1> QED
  BY <1>1

\* Each predefined task has an address to bind.
LEMMA PredefinedType ==
  ASSUME NEW c \in Config
  PROVE  /\ Predefined(c) \in [Task -> Config]
         /\ \A t \in {"MME", "eNB1", "eNB2"} : Predefined(c)[t].locals # <<>>
<1> DEFINE m == IPSocket(Localhost, 36412)
           e1 == IPSocket(Localhost, 36422)
           e2 == IPSocket(Localhost, 36423)
           lm == Append(c.locals, m)
           l1 == Append(c.locals, e1)
           l2 == Append(c.locals, e2)
           r1 == Append(c.remotes, Head(lm))
           r2 == Shifted(r1 \o l1)
           mme == [c EXCEPT !.locals = lm]
           enb1 == [c EXCEPT !.locals = l1, !.remotes = r1]
           enb2 == [c EXCEPT !.locals = l2, !.remotes = r2]
<1>1. 36412 \in Port /\ 36422 \in Port /\ 36423 \in Port /\ Localhost \in Word
  BY LocalhostAssumption DEF Port, Ports
<1>2. m \in Address /\ e1 \in Address /\ e2 \in Address
  BY <1>1, IPSocketType
<1>3. c.locals \in Seq(Address) /\ c.remotes \in Seq(Address)
  BY DEF Config
<1>4. Predefined(c) =
        [t \in Task |-> CASE t = "MME" -> mme [] t = "eNB1" -> enb1 [] t = "eNB2" -> enb2 [] OTHER -> c]
  BY DEF Predefined, Config
<1> HIDE DEF m, e1, e2
<1>5. /\ lm \in Seq(Address) /\ lm # <<>> /\ Head(lm) \in Address
      /\ l1 \in Seq(Address) /\ l1 # <<>>
      /\ l2 \in Seq(Address) /\ l2 # <<>>
  BY <1>2, <1>3, AppendType
<1> HIDE DEF lm, l1, l2
<1>6. r1 \in Seq(Address) /\ r1 # <<>>
  BY <1>3, <1>5, AppendType
<1> HIDE DEF r1
<1>7. r1 \o l1 \in Seq(Address) /\ r1 \o l1 # <<>>
  BY <1>5, <1>6, ConcatType
<1>8. r2 \in Seq(Address)
  BY <1>7, ShiftedType
<1> HIDE DEF r2
<1>9. /\ mme \in Config /\ enb1 \in Config /\ enb2 \in Config
      /\ mme.locals # <<>> /\ enb1.locals # <<>> /\ enb2.locals # <<>>
  BY <1>5, <1>6, <1>8 DEF Config
<1> HIDE DEF mme, enb1, enb2
<1> QED
  BY <1>4, <1>9 DEF Task

-----------------------------------------------------------------------------
(* The inductive invariant. *)

\* Between the steps only the member and the table entries of a task that runs
\* are alive: no name is taken when an object is to be constructed.
Places ==
  \A x \in DOMAIN heap.obj :
    x[2] \in {"fd", "peer"} /\ pc[x[1]] \notin {"off", "create", "ended"}

\* No task runs before the arguments are read.
Idle == parser # "done" => \A t \in Task : pc[t] = "off"

\* A task that binds an address was given one.
HasLocals == \A t \in Task : pc[t] # "off" /\ ~IsUnix(conf[t]) => conf[t].locals # <<>>

HeapInv == IsHeap(heap, Name, Fd) /\ DescriptorsOwned /\ KeysNameDescriptors /\ Places

IInv == TypeOK /\ HeapInv /\ Idle /\ HasLocals

parserVars == <<args, i, filling, config, parser>>

\* The names of one task's objects differ from each other and from another's.
LEMMA Names ==
  ASSUME NEW t \in Task
  PROVE  /\ Member(t) \in Name /\ Local(t) \in Name /\ Moved(t) \in Name
         /\ Member(t)[1] = t /\ Member(t)[2] = "fd"
         /\ Local(t)[1] = t /\ Local(t)[2] = "local"
         /\ Moved(t)[1] = t /\ Moved(t)[2] = "moved"
         /\ \A k \in Fd : /\ Entry(t, k) \in Name
                          /\ Entry(t, k)[1] = t /\ Entry(t, k)[2] = "peer" /\ Entry(t, k)[3] = k
  BY DEF Name, Member, Local, Moved, Entry

\* A valid descriptor is not the invalid one.
LEMMA FdValid == \A f \in Fd : f # Invalid
  BY FdAssumption DEF Invalid

\* A task that leaves ends all its objects, those of its last call included.
LEMMA LeaveLemma ==
  ASSUME IInv, NEW t \in Task, pc[t] # "off", UNCHANGED parserVars,
         NEW h, IsHeap(h, Name, Fd), AllOwned(h),
         \A x \in DOMAIN h.obj : x[1] # t => x \in DOMAIN heap.obj /\ h.obj[x] = heap.obj[x],
         Leave(t, h)
  PROVE  IInv'
<1> DEFINE c == Destroy(h, Owned(h, t))
<1>1. /\ IsHeap(c, Name, Fd)
      /\ DOMAIN c.obj = DOMAIN h.obj \ Owned(h, t)
      /\ \A y \in DOMAIN h.obj \ Owned(h, t) : c.obj[y] = h.obj[y]
  BY DestroyShape
<1>2. AllOwned(c)
  BY DestroyOwned
<1> HIDE DEF c
<1>3. \A x \in DOMAIN c.obj : x[1] # t /\ x \in DOMAIN heap.obj /\ c.obj[x] = heap.obj[x]
  BY <1>1 DEF Owned
<1>4. /\ heap' = c
      /\ pc' = [pc EXCEPT ![t] = "ended"] /\ todo' = [todo EXCEPT ![t] = <<>>]
      /\ conf' = conf /\ bound' = bound
      /\ args' = args /\ i' = i /\ filling' = filling /\ config' = config /\ parser' = parser
  BY DEF Leave, parserVars, c
<1>5. pc \in [Task -> Pc] /\ todo \in [Task -> Seq(Address)] /\ parser = "done"
  BY DEF IInv, TypeOK, Idle
<1>6. pc' \in [Task -> Pc] /\ todo' \in [Task -> Seq(Address)]
  BY <1>4, <1>5 DEF Pc
<1>7. TypeOK'
  BY <1>1, <1>4, <1>6 DEF IInv, TypeOK
<1>8. KeysNameDescriptors'
  BY <1>3, <1>4 DEF IInv, HeapInv, KeysNameDescriptors
<1>9. Places'
  BY <1>3, <1>4, <1>5 DEF IInv, HeapInv, Places
<1>10. Idle' /\ HasLocals'
  BY <1>4, <1>5 DEF IInv, Idle, HasLocals
<1> QED
  BY <1>1, <1>2, <1>4, <1>7, <1>8, <1>9, <1>10 DEF IInv, HeapInv, DescriptorsOwned

\* A task that moves on and leaves the objects alone.
LEMMA MoveOnLemma ==
  ASSUME IInv, NEW t \in Task, pc[t] \notin {"off", "create", "ended"}, UNCHANGED parserVars,
         NEW to \in Pc \ {"off", "create", "ended"}, pc' = [pc EXCEPT ![t] = to],
         conf' = conf, heap' = heap, DOMAIN bound' = Task, todo' \in [Task -> Seq(Address)]
  PROVE  IInv'
<1>1. pc \in [Task -> Pc] /\ parser = "done"
  BY DEF IInv, TypeOK, Idle
<1>2. /\ args' = args /\ i' = i /\ filling' = filling /\ config' = config /\ parser' = parser
  BY DEF parserVars
<1>3. pc' \in [Task -> Pc]
  BY <1>1
<1>4. TypeOK'
  BY <1>2, <1>3 DEF IInv, TypeOK
<1>5. Places'
  BY <1>1 DEF IInv, HeapInv, Places
<1>6. Idle' /\ HasLocals'
  BY <1>1, <1>2 DEF IInv, Idle, HasLocals
<1> QED
  BY <1>4, <1>5, <1>6 DEF IInv, HeapInv, KeysNameDescriptors, DescriptorsOwned

\* A descriptor that a local object owns goes into a table, under its number.
LEMMA EmplaceLemma ==
  ASSUME NEW t \in Task, NEW f \in Fd, NEW h, IsHeap(h, Name, Fd), AllOwned(h),
         Moved(t) \notin DOMAIN h.obj, Local(t) \in DOMAIN h.obj,
         h.obj[Local(t)] = [fd |-> f, should_close |-> TRUE],
         Entry(t, f) \in DOMAIN h.obj => h.obj[Entry(t, f)] = [fd |-> f, should_close |-> TRUE]
  PROVE  LET e == Emplace(h, t) IN
         /\ IsHeap(e, Name, Fd) /\ AllOwned(e)
         /\ DOMAIN e.obj = (DOMAIN h.obj \cup {Entry(t, f)}) \ {Moved(t), Local(t)}
         /\ e.obj[Entry(t, f)] = [fd |-> f, should_close |-> TRUE]
         /\ \A x \in DOMAIN h.obj \ {Moved(t), Local(t), Entry(t, f)} : e.obj[x] = h.obj[x]
<1> DEFINE l == Local(t)
           m == Moved(t)
           n == Entry(t, f)
           peer == MoveConstruct(h, m, l)
           node == MoveConstruct(peer, n, m)
           e == Destroy(node, {m, l})
<1>1. f # Invalid
  BY FdValid
<1>2. l \in Name /\ m \in Name /\ n \in Name /\ l # m /\ l # n /\ m # n
  BY Names
<1>3. Owns(h, l)
  BY <1>1 DEF Owns, WillClose
<1>4. n \notin DOMAIN h.obj
  BY <1>1, <1>2, <1>3 DEF AllOwned, Owns, WillClose
<1>5. /\ IsHeap(peer, Name, Fd)
      /\ DOMAIN peer.obj = DOMAIN h.obj \cup {m}
      /\ peer.obj[m] = [fd |-> f, should_close |-> TRUE]
      /\ peer.obj[l] = [fd |-> f, should_close |-> FALSE]
      /\ \A z \in DOMAIN h.obj \ {m, l} : peer.obj[z] = h.obj[z]
  <2>1. h.obj[l].fd = f
    OBVIOUS
  <2> QED
    BY <1>2, <2>1, MoveConstructShape
<1>6. AllOwned(peer)
  BY <1>2, <1>3, MoveConstructOwned
<1>7. Emplace(h, t) = e
  <2>1. peer.obj[l].fd = f
    BY <1>5
  <2> HIDE DEF peer
  <2>2. Emplace(h, t) = Destroy(IF Entry(t, peer.obj[l].fd) \in DOMAIN h.obj
                                THEN peer ELSE MoveConstruct(peer, Entry(t, peer.obj[l].fd), m), {m, l})
    BY DEF Emplace, peer
  <2> QED
    BY <1>4, <2>1, <2>2
<1> HIDE DEF peer
<1>8. n \notin DOMAIN peer.obj /\ m \in DOMAIN peer.obj /\ Owns(peer, m)
  BY <1>1, <1>2, <1>4, <1>5 DEF Owns, WillClose
<1>9. /\ IsHeap(node, Name, Fd)
      /\ DOMAIN node.obj = DOMAIN peer.obj \cup {n}
      /\ node.obj[n] = [fd |-> f, should_close |-> TRUE]
      /\ \A z \in DOMAIN peer.obj \ {n, m} : node.obj[z] = peer.obj[z]
  <2>1. peer.obj[m].fd = f
    BY <1>5
  <2> QED
    BY <1>2, <1>5, <1>8, <2>1, MoveConstructShape
<1>10. AllOwned(node)
  BY <1>2, <1>5, <1>6, <1>8, MoveConstructOwned
<1> HIDE DEF node
<1>11. /\ IsHeap(e, Name, Fd)
       /\ DOMAIN e.obj = DOMAIN node.obj \ {m, l}
       /\ \A y \in DOMAIN node.obj \ {m, l} : e.obj[y] = node.obj[y]
  BY <1>9, DestroyShape
<1>12. AllOwned(e)
  BY <1>9, <1>10, DestroyOwned
<1> HIDE DEF e, l, m, n
<1>13. /\ DOMAIN e.obj = (DOMAIN h.obj \cup {n}) \ {m, l}
       /\ e.obj[n] = [fd |-> f, should_close |-> TRUE]
       /\ \A x \in DOMAIN h.obj \ {m, l, n} : e.obj[x] = h.obj[x]
  BY <1>2, <1>5, <1>9, <1>11
<1> QED
  BY <1>7, <1>11, <1>12, <1>13 DEF l, m, n

\* The heap of the task keeps its invariant when one object is added to, or
\* removed from, those of a task that runs.
LEMMA TableLemma ==
  ASSUME IInv, NEW t \in Task, pc[t] \notin {"off", "create", "ended"}, UNCHANGED parserVars,
         UNCHANGED <<pc, conf, bound>>, todo' \in [Task -> Seq(Address)],
         NEW e, heap' = e, IsHeap(e, Name, Fd), AllOwned(e),
         \A x \in DOMAIN e.obj :
           \/ x \in DOMAIN heap.obj /\ e.obj[x] = heap.obj[x]
           \/ \E f \in Fd : x = Entry(t, f) /\ e.obj[x] = [fd |-> f, should_close |-> TRUE]
  PROVE  IInv'
<1>1. /\ args' = args /\ i' = i /\ filling' = filling /\ config' = config /\ parser' = parser
      /\ pc' = pc /\ conf' = conf /\ bound' = bound
  BY DEF parserVars
<1>2. TypeOK'
  BY <1>1 DEF IInv, TypeOK
<1>3. \A f \in Fd : Entry(t, f)[1] = t /\ Entry(t, f)[2] = "peer" /\ Entry(t, f)[3] = f /\ f # Invalid
  BY Names, FdValid
<1>4. ASSUME NEW x \in DOMAIN e.obj
      PROVE  /\ x[2] = "peer" => e.obj[x] = [fd |-> x[3], should_close |-> TRUE] /\ x[3] # Invalid
             /\ x[2] \in {"fd", "peer"} /\ pc[x[1]] \notin {"off", "create", "ended"}
  <2>1. CASE x \in DOMAIN heap.obj /\ e.obj[x] = heap.obj[x]
    BY <2>1 DEF IInv, HeapInv, Places, KeysNameDescriptors
  <2>2. ASSUME NEW f \in Fd, x = Entry(t, f), e.obj[x] = [fd |-> f, should_close |-> TRUE]
        PROVE  /\ e.obj[x] = [fd |-> x[3], should_close |-> TRUE] /\ x[3] # Invalid
               /\ x[2] = "peer" /\ x[1] = t
    BY <1>3, <2>2
  <2> QED
    BY <1>4, <2>1, <2>2
<1>5. KeysNameDescriptors'
  BY <1>4 DEF KeysNameDescriptors
<1>6. Places'
  BY <1>1, <1>4 DEF Places
<1>7. Idle' /\ HasLocals'
  BY <1>1 DEF IInv, Idle, HasLocals
<1> QED
  BY <1>2, <1>5, <1>6, <1>7 DEF IInv, HeapInv, DescriptorsOwned

\* What a step relies on: names that are free, and a table whose keys are right.
LEMMA Free ==
  ASSUME IInv, NEW t \in Task
  PROVE  /\ IsHeap(heap, Name, Fd) /\ AllOwned(heap)
         /\ Local(t) \notin DOMAIN heap.obj /\ Moved(t) \notin DOMAIN heap.obj
         /\ pc[t] = "create" => Member(t) \notin DOMAIN heap.obj
         /\ \A f \in Fd : Entry(t, f) \in DOMAIN heap.obj =>
              heap.obj[Entry(t, f)] = [fd |-> f, should_close |-> TRUE]
<1>1. IsHeap(heap, Name, Fd) /\ AllOwned(heap) /\ Places /\ KeysNameDescriptors
  BY DEF IInv, HeapInv, DescriptorsOwned
<1> QED
  BY <1>1, Names DEF Places, KeysNameDescriptors

\* Leaving from where a step began: nothing but the objects of the task end.
LEMMA LeaveHeap ==
  ASSUME IInv, NEW t \in Task, pc[t] # "off", UNCHANGED parserVars, Leave(t, heap)
  PROVE  IInv'
  BY Free, LeaveLemma

\* Leaving when a call has just opened a descriptor.
LEMMA LeaveOpened ==
  ASSUME IInv, NEW t \in Task, pc[t] # "off", UNCHANGED parserVars,
         NEW x \in {Local(t), Moved(t)}, NEW f \in Fd \ heap.open, Leave(t, Open(heap, x, f))
  PROVE  IInv'
<1> DEFINE h == Open(heap, x, f)
<1>1. x \in Name /\ x[1] = t /\ x \notin DOMAIN heap.obj
  BY Names, Free
<1>2. IsHeap(heap, Name, Fd) /\ AllOwned(heap) /\ f \in Fd /\ f # Invalid
  BY Free, FdValid
<1>3. AllOwned(h)
  BY <1>1, <1>2, OpenOwned
<1>4. /\ IsHeap(h, Name, Fd) /\ h.open = heap.open \cup {f}
      /\ DOMAIN h.obj = DOMAIN heap.obj \cup {x}
      /\ h.obj[x] = [fd |-> f, should_close |-> TRUE]
      /\ \A y \in DOMAIN heap.obj \ {x} : h.obj[y] = heap.obj[y]
  BY <1>1, <1>2, OpenShape
<1> HIDE DEF h
<1>5. \A y \in DOMAIN h.obj : y[1] # t => y \in DOMAIN heap.obj /\ h.obj[y] = heap.obj[y]
  BY <1>1, <1>4
<1>6. Leave(t, h)
  BY DEF h
<1> QED
  BY <1>3, <1>4, <1>5, <1>6, LeaveLemma

-----------------------------------------------------------------------------
(* One lemma per kind of step. *)

\* The descriptor of a new socket moves into the member.
LEMMA CreateStep ==
  ASSUME IInv, NEW t \in Task, CreateSocket(t), UNCHANGED parserVars
  PROVE  IInv'
<1>1. CASE conf[t].protocol = "UnixForked" /\ Goto(t, "create", "chat")
           /\ UNCHANGED <<conf, bound, todo, heap>>
  <2>1. pc \in [Task -> Pc] /\ pc[t] = "create" /\ pc' = [pc EXCEPT ![t] = "chat"] /\ parser = "done"
    BY <1>1 DEF IInv, TypeOK, Goto, Idle
  <2>2. /\ args' = args /\ i' = i /\ filling' = filling /\ config' = config /\ parser' = parser
        /\ conf' = conf /\ bound' = bound /\ todo' = todo /\ heap' = heap
    BY <1>1 DEF parserVars
  <2>3. pc' \in [Task -> Pc]
    BY <2>1 DEF Pc
  <2>4. TypeOK'
    BY <2>2, <2>3 DEF IInv, TypeOK
  <2>5. Places'
    BY <2>1, <2>2 DEF IInv, HeapInv, Places
  <2>6. Idle' /\ HasLocals'
    BY <2>1, <2>2 DEF IInv, Idle, HasLocals
  <2> QED
    BY <2>2, <2>4, <2>5, <2>6 DEF IInv, HeapInv, KeysNameDescriptors, DescriptorsOwned
<1>2. CASE pc[t] = "create" /\ Leave(t, heap)
  BY <1>2, LeaveHeap
<1>3. ASSUME NEW f \in Fd, Lowest(f), pc[t] = "create", Goto(t, "create", "configure"),
             UNCHANGED <<conf, bound, todo>>,
             heap' = Destroy(MoveAssign(Open(Construct(heap, Member(t), Invalid), Moved(t), f),
                                        Member(t), Moved(t)), {Moved(t)})
      PROVE  IInv'
  <2> DEFINE m == Member(t)
             l == Moved(t)
             a == Construct(heap, m, Invalid)
             b == Open(a, l, f)
             c == MoveAssign(b, m, l)
             e == Destroy(c, {l})
  <2>1. /\ m \in Name /\ l \in Name /\ m # l /\ m[1] = t /\ m[2] = "fd"
        /\ m \notin DOMAIN heap.obj /\ l \notin DOMAIN heap.obj
    BY <1>3, Names, Free
  <2>2. f # Invalid /\ f \notin heap.open /\ IsHeap(heap, Name, Fd) /\ AllOwned(heap)
    BY <1>3, FdValid, Free DEF Lowest
  <2>3. /\ IsHeap(a, Name, Fd) /\ a.open = heap.open
        /\ DOMAIN a.obj = DOMAIN heap.obj \cup {m}
        /\ a.obj[m] = [fd |-> Invalid, should_close |-> TRUE]
        /\ \A y \in DOMAIN heap.obj \ {m} : a.obj[y] = heap.obj[y]
    BY <2>1, <2>2, ConstructShape
  <2>4. AllOwned(a)
    BY <2>1, <2>2, ConstructOwned
  <2> HIDE DEF a
  <2>5. f \in Fd \ a.open /\ l \notin DOMAIN a.obj
    BY <2>1, <2>2, <2>3
  <2>6. /\ IsHeap(b, Name, Fd)
        /\ DOMAIN b.obj = DOMAIN a.obj \cup {l}
        /\ b.obj[l] = [fd |-> f, should_close |-> TRUE]
        /\ \A y \in DOMAIN a.obj \ {l} : b.obj[y] = a.obj[y]
    BY <2>1, <2>3, OpenShape
  <2>7. AllOwned(b)
    BY <2>1, <2>2, <2>3, <2>4, <2>5, OpenOwned
  <2> HIDE DEF b
  <2>8. /\ m \in DOMAIN b.obj /\ l \in DOMAIN b.obj
        /\ b.obj[m].fd = Invalid /\ b.obj[m].should_close = TRUE
        /\ b.obj[l].fd = f /\ Owns(b, l)
    BY <2>1, <2>2, <2>3, <2>6 DEF Owns, WillClose
  <2>9. /\ IsHeap(c, Name, Fd) /\ c.open = b.open
        /\ DOMAIN c.obj = DOMAIN b.obj
        /\ c.obj[m] = [fd |-> b.obj[l].fd, should_close |-> b.obj[m].should_close]
        /\ c.obj[l] = [fd |-> b.obj[l].fd, should_close |-> FALSE]
        /\ \A z \in DOMAIN b.obj \ {m, l} : c.obj[z] = b.obj[z]
    BY <2>1, <2>6, <2>8, MoveAssignShape
  <2>10. AllOwned(c)
    BY <2>1, <2>6, <2>7, <2>8, MoveAssignOwned
  <2> HIDE DEF c
  <2>11. /\ IsHeap(e, Name, Fd)
         /\ DOMAIN e.obj = DOMAIN c.obj \ {l}
         /\ \A y \in DOMAIN c.obj \ {l} : e.obj[y] = c.obj[y]
    BY <2>9, DestroyShape
  <2>12. AllOwned(e)
    BY <2>9, <2>10, DestroyOwned
  <2>13. heap' = e
    BY <1>3 DEF a, b, c
  <2> HIDE DEF e, m, l
  <2>14. \A x \in DOMAIN e.obj : x # m => x \in DOMAIN heap.obj /\ e.obj[x] = heap.obj[x]
    BY <2>1, <2>3, <2>6, <2>9, <2>11
  <2>15. pc \in [Task -> Pc] /\ pc' = [pc EXCEPT ![t] = "configure"] /\ parser = "done"
    BY <1>3 DEF IInv, TypeOK, Goto, Idle
  <2>16. /\ args' = args /\ i' = i /\ filling' = filling /\ config' = config /\ parser' = parser
         /\ conf' = conf /\ bound' = bound /\ todo' = todo
    BY <1>3 DEF parserVars
  <2>17. pc' \in [Task -> Pc]
    BY <2>15 DEF Pc
  <2>18. TypeOK'
    BY <2>11, <2>13, <2>16, <2>17 DEF IInv, TypeOK
  <2>19. KeysNameDescriptors'
    BY <2>1, <2>13, <2>14 DEF IInv, HeapInv, KeysNameDescriptors
  <2>20. Places'
    BY <2>1, <2>13, <2>14, <2>15 DEF IInv, HeapInv, Places
  <2>21. Idle' /\ HasLocals'
    BY <1>3, <2>15, <2>16 DEF IInv, Idle, HasLocals
  <2> QED
    BY <2>11, <2>12, <2>13, <2>18, <2>19, <2>20, <2>21 DEF IInv, HeapInv, DescriptorsOwned
<1> QED
  BY <1>1, <1>2, <1>3 DEF CreateSocket

\* Every other step of a task whose objects stay as they are, or all end.
LEMMA CallStep ==
  ASSUME IInv, NEW t \in Task, UNCHANGED parserVars,
         Configure(t) \/ Bind(t) \/ Listen(t) \/ ConnectNext(t) \/ Connected(t) \/ Stop(t)
  PROVE  IInv'
<1>1. /\ pc \in [Task -> Pc] /\ conf \in [Task -> Config] /\ todo \in [Task -> Seq(Address)]
      /\ DOMAIN bound = Task
  BY DEF IInv, TypeOK
<1>2. CASE Configure(t)
  <2>1. pc[t] = "configure"
    BY <1>2 DEF Configure
  <2>2. CASE Leave(t, heap)
    BY <2>1, <2>2, LeaveHeap
  <2>3. CASE Goto(t, "configure", "bind") /\ UNCHANGED <<conf, bound, todo, heap>>
    BY <1>1, <2>1, <2>3, MoveOnLemma DEF Goto, Pc
  <2> QED
    BY <1>2, <2>2, <2>3 DEF Configure
<1>3. CASE Bind(t)
  <2>1. pc[t] = "bind"
    BY <1>3 DEF Bind
  <2>2. CASE Leave(t, heap)
    BY <2>1, <2>2, LeaveHeap
  <2>3. CASE /\ bound' = [bound EXCEPT ![t] = Asked(conf[t])]
             /\ Goto(t, "bind", "listen") /\ UNCHANGED <<conf, todo, heap>>
    <3>1. DOMAIN bound' = Task
      BY <1>1, <2>3
    <3> QED
      BY <1>1, <2>1, <2>3, <3>1, MoveOnLemma DEF Goto, Pc
  <2> QED
    BY <1>3, <2>2, <2>3 DEF Bind
<1>4. CASE Listen(t)
  <2>1. pc[t] = "listen"
    BY <1>4 DEF Listen
  <2>2. CASE Leave(t, heap)
    BY <2>1, <2>2, LeaveHeap
  <2>3. CASE /\ Goto(t, "listen", "connect") /\ todo' = [todo EXCEPT ![t] = conf[t].remotes]
             /\ UNCHANGED <<conf, bound, heap>>
    <3>1. conf[t].remotes \in Seq(Address)
      BY <1>1 DEF Config
    <3>2. todo' \in [Task -> Seq(Address)]
      BY <1>1, <2>3, <3>1
    <3> QED
      BY <1>1, <2>1, <2>3, <3>2, MoveOnLemma DEF Goto, Pc
  <2> QED
    BY <1>4, <2>2, <2>3 DEF Listen
<1>5. CASE ConnectNext(t)
  <2>1. pc[t] = "connect" /\ todo[t] # <<>>
    BY <1>5 DEF ConnectNext
  <2>2. CASE Leave(t, heap)
    BY <2>1, <2>2, LeaveHeap
  <2>3. CASE todo' = [todo EXCEPT ![t] = Tail(@)] /\ UNCHANGED <<pc, conf, bound, heap>>
    <3>1. todo[t] \in Seq(Address) /\ Tail(todo[t]) \in Seq(Address)
      BY <1>1, <2>1
    <3>2. todo' \in [Task -> Seq(Address)]
      BY <1>1, <2>3, <3>1
    <3>3. pc' = [pc EXCEPT ![t] = "connect"]
      BY <1>1, <2>1, <2>3
    <3> QED
      BY <1>1, <2>1, <2>3, <3>2, <3>3, MoveOnLemma DEF Pc
  <2> QED
    BY <1>5, <2>2, <2>3 DEF ConnectNext
<1>6. CASE Connected(t)
  <2>1. /\ pc[t] = "connect" /\ pc' = [pc EXCEPT ![t] = "chat"]
        /\ conf' = conf /\ bound' = bound /\ todo' = todo /\ heap' = heap
    BY <1>6 DEF Connected, Goto
  <2> QED
    BY <1>1, <2>1, MoveOnLemma DEF Pc
<1>7. CASE Stop(t)
  BY <1>7, LeaveHeap DEF Stop
<1> QED
  BY <1>2, <1>3, <1>4, <1>5, <1>6, <1>7

\* A connection of ours: the local object goes into the table.
LEMMA ConnectStreamStep ==
  ASSUME IInv, NEW t \in Task, ConnectStream(t), UNCHANGED parserVars
  PROVE  IInv'
<1>1. pc[t] = "connect" /\ todo[t] # <<>> /\ todo \in [Task -> Seq(Address)]
  BY DEF ConnectStream, IInv, TypeOK
<1>2. CASE Leave(t, heap)
  BY <1>1, <1>2, LeaveHeap
<1>3. ASSUME NEW f \in Fd, Lowest(f), Leave(t, Open(heap, Local(t), f))
      PROVE  IInv'
  BY <1>1, <1>3, LeaveOpened DEF Lowest
<1>4. ASSUME NEW f \in Fd, Lowest(f), heap' = Emplace(Open(heap, Local(t), f), t),
             todo' = [todo EXCEPT ![t] = Tail(@)], UNCHANGED <<pc, conf, bound>>
      PROVE  IInv'
  <2> DEFINE h == Open(heap, Local(t), f)
             e == Emplace(h, t)
  <2>1. /\ Local(t) \in Name /\ Local(t) # Moved(t) /\ Entry(t, f) # Local(t)
        /\ Local(t) \notin DOMAIN heap.obj /\ Moved(t) \notin DOMAIN heap.obj
        /\ f \in Fd \ heap.open /\ f # Invalid
    BY <1>4, Names, Free, FdValid DEF Lowest
  <2>2. /\ IsHeap(heap, Name, Fd) /\ AllOwned(heap)
        /\ Entry(t, f) \in DOMAIN heap.obj => heap.obj[Entry(t, f)] = [fd |-> f, should_close |-> TRUE]
    BY Free
  <2>3. AllOwned(h)
    BY <2>1, <2>2, OpenOwned
  <2>4. /\ IsHeap(h, Name, Fd)
        /\ DOMAIN h.obj = DOMAIN heap.obj \cup {Local(t)}
        /\ h.obj[Local(t)] = [fd |-> f, should_close |-> TRUE]
        /\ \A y \in DOMAIN heap.obj \ {Local(t)} : h.obj[y] = heap.obj[y]
    BY <2>1, <2>2, OpenShape
  <2> HIDE DEF h
  <2>5. /\ Moved(t) \notin DOMAIN h.obj /\ Local(t) \in DOMAIN h.obj
        /\ Entry(t, f) \in DOMAIN h.obj => h.obj[Entry(t, f)] = [fd |-> f, should_close |-> TRUE]
    BY <2>1, <2>2, <2>4
  <2>6. /\ IsHeap(e, Name, Fd) /\ AllOwned(e)
        /\ DOMAIN e.obj = (DOMAIN h.obj \cup {Entry(t, f)}) \ {Moved(t), Local(t)}
        /\ e.obj[Entry(t, f)] = [fd |-> f, should_close |-> TRUE]
        /\ \A x \in DOMAIN h.obj \ {Moved(t), Local(t), Entry(t, f)} : e.obj[x] = h.obj[x]
    BY <2>3, <2>4, <2>5, EmplaceLemma
  <2>7. heap' = e
    BY <1>4 DEF h
  <2> HIDE DEF e
  <2>8. \A x \in DOMAIN e.obj :
          \/ x \in DOMAIN heap.obj /\ e.obj[x] = heap.obj[x]
          \/ \E g \in Fd : x = Entry(t, g) /\ e.obj[x] = [fd |-> g, should_close |-> TRUE]
    BY <2>4, <2>6
  <2>9. todo[t] \in Seq(Address) /\ Tail(todo[t]) \in Seq(Address)
    BY <1>1
  <2>10. todo' \in [Task -> Seq(Address)]
    BY <1>1, <1>4, <2>9
  <2> QED
    BY <1>1, <1>4, <2>6, <2>7, <2>8, <2>10, TableLemma
<1> QED
  BY <1>2, <1>3, <1>4 DEF ConnectStream

\* A connection accepted: two moves on its way into the table.
LEMMA AcceptStep ==
  ASSUME IInv, NEW t \in Task, Accept(t), UNCHANGED parserVars
  PROVE  IInv'
<1>1. pc[t] = "chat"
  BY DEF Accept
<1>2. ASSUME NEW f \in Fd, Lowest(f), Leave(t, Open(heap, Moved(t), f))
      PROVE  IInv'
  BY <1>1, <1>2, LeaveOpened DEF Lowest
<1>3. ASSUME NEW f \in Fd, Lowest(f), UNCHANGED <<pc, conf, bound, todo>>,
             heap' = Emplace(Destroy(MoveConstruct(Open(heap, Moved(t), f), Local(t), Moved(t)), {Moved(t)}), t)
      PROVE  IInv'
  <2> DEFINE l == Local(t)
             m == Moved(t)
             a == Open(heap, m, f)
             b == MoveConstruct(a, l, m)
             h == Destroy(b, {m})
             e == Emplace(h, t)
  <2>1. /\ l \in Name /\ m \in Name /\ l # m /\ Entry(t, f) # l /\ Entry(t, f) # m
        /\ l \notin DOMAIN heap.obj /\ m \notin DOMAIN heap.obj
        /\ f \in Fd \ heap.open /\ f # Invalid
    BY <1>3, Names, Free, FdValid DEF Lowest
  <2>2. /\ IsHeap(heap, Name, Fd) /\ AllOwned(heap)
        /\ Entry(t, f) \in DOMAIN heap.obj => heap.obj[Entry(t, f)] = [fd |-> f, should_close |-> TRUE]
    BY Free
  <2>3. AllOwned(a)
    BY <2>1, <2>2, OpenOwned
  <2>4. /\ IsHeap(a, Name, Fd)
        /\ DOMAIN a.obj = DOMAIN heap.obj \cup {m}
        /\ a.obj[m] = [fd |-> f, should_close |-> TRUE]
        /\ \A y \in DOMAIN heap.obj \ {m} : a.obj[y] = heap.obj[y]
    BY <2>1, <2>2, OpenShape
  <2> HIDE DEF a
  <2>5. m \in DOMAIN a.obj /\ l \notin DOMAIN a.obj /\ Owns(a, m) /\ a.obj[m].fd = f
    BY <2>1, <2>4 DEF Owns, WillClose
  <2>6. /\ IsHeap(b, Name, Fd) /\ b.open = a.open
        /\ DOMAIN b.obj = DOMAIN a.obj \cup {l}
        /\ b.obj[l] = [fd |-> a.obj[m].fd, should_close |-> TRUE]
        /\ b.obj[m] = [fd |-> a.obj[m].fd, should_close |-> FALSE]
        /\ \A z \in DOMAIN a.obj \ {l, m} : b.obj[z] = a.obj[z]
    BY <2>1, <2>4, <2>5, MoveConstructShape
  <2>7. AllOwned(b)
    BY <2>1, <2>3, <2>4, <2>5, MoveConstructOwned
  <2> HIDE DEF b
  <2>8. /\ IsHeap(h, Name, Fd)
        /\ DOMAIN h.obj = DOMAIN b.obj \ {m}
        /\ \A y \in DOMAIN b.obj \ {m} : h.obj[y] = b.obj[y]
    BY <2>6, DestroyShape
  <2>9. AllOwned(h)
    BY <2>6, <2>7, DestroyOwned
  <2> HIDE DEF h
  <2>10. /\ m \notin DOMAIN h.obj /\ l \in DOMAIN h.obj /\ h.obj[l] = [fd |-> f, should_close |-> TRUE]
         /\ \A x \in DOMAIN h.obj \ {l} : x \in DOMAIN heap.obj /\ h.obj[x] = heap.obj[x]
    BY <2>1, <2>4, <2>5, <2>6, <2>8
  <2>11. Entry(t, f) \in DOMAIN h.obj => h.obj[Entry(t, f)] = [fd |-> f, should_close |-> TRUE]
    BY <2>1, <2>2, <2>10
  <2>12. /\ IsHeap(e, Name, Fd) /\ AllOwned(e)
         /\ DOMAIN e.obj = (DOMAIN h.obj \cup {Entry(t, f)}) \ {m, l}
         /\ e.obj[Entry(t, f)] = [fd |-> f, should_close |-> TRUE]
         /\ \A x \in DOMAIN h.obj \ {m, l, Entry(t, f)} : e.obj[x] = h.obj[x]
    BY <2>8, <2>9, <2>10, <2>11, EmplaceLemma
  <2>13. heap' = e
    BY <1>3 DEF a, b, h
  <2> HIDE DEF e, l, m
  <2>14. \A x \in DOMAIN e.obj :
           \/ x \in DOMAIN heap.obj /\ e.obj[x] = heap.obj[x]
           \/ \E g \in Fd : x = Entry(t, g) /\ e.obj[x] = [fd |-> g, should_close |-> TRUE]
    BY <2>10, <2>12
  <2>15. todo' \in [Task -> Seq(Address)]
    BY <1>3 DEF IInv, TypeOK
  <2> QED
    BY <1>1, <1>3, <2>12, <2>13, <2>14, <2>15, TableLemma
<1> QED
  BY <1>2, <1>3 DEF Accept

\* A peer is removed: its object ends.
LEMMA RemoveStep ==
  ASSUME IInv, NEW t \in Task, RemovePeer(t), UNCHANGED parserVars
  PROVE  IInv'
<1>1. PICK x \in Owned(heap, t) \ {Member(t)} : heap' = Destroy(heap, {x})
  BY DEF RemovePeer
<1>2. pc[t] = "chat" /\ UNCHANGED <<pc, conf, bound, todo>>
  BY DEF RemovePeer
<1> DEFINE e == Destroy(heap, {x})
<1>3. IsHeap(heap, Name, Fd) /\ AllOwned(heap)
  BY Free
<1>4. /\ IsHeap(e, Name, Fd)
      /\ DOMAIN e.obj = DOMAIN heap.obj \ {x}
      /\ \A y \in DOMAIN heap.obj \ {x} : e.obj[y] = heap.obj[y]
  BY <1>3, DestroyShape
<1>5. AllOwned(e)
  BY <1>3, DestroyOwned
<1>6. heap' = e
  BY <1>1
<1> HIDE DEF e
<1>7. todo' \in [Task -> Seq(Address)]
  BY <1>2 DEF IInv, TypeOK
<1>8. \A y \in DOMAIN e.obj : y \in DOMAIN heap.obj /\ e.obj[y] = heap.obj[y]
  BY <1>4
<1> QED
  BY <1>2, <1>4, <1>5, <1>6, <1>7, <1>8, TableLemma

-----------------------------------------------------------------------------
(* The command line, and the theorems. *)

\* What -p names is a protocol, a word of the map or not.
LEMMA ProtocolType == \A word : getProtocol(word) \in Protocol
  BY DEF getProtocol, Protocol, Named

\* An argument is read.
LEMMA ReadStep ==
  ASSUME IInv, ReadArgument, UNCHANGED taskVars
  PROVE  IInv'
<1>1. /\ args \in Seq(Word) /\ i \in 1 .. Len(args) + 1 /\ config \in Config
      /\ filling \in {"locals", "remotes"}
  BY DEF IInv, TypeOK
<1>2. parser = "reads" /\ i < Len(args) /\ args' = args
  BY DEF ReadArgument, ReadProtocol, ReadSize, ReadRemotes, SkipFlag, ReadAddress, ReadFails, More, Advance
<1>3. Len(args) \in Nat /\ args[i] \in Word /\ args[i + 1] \in Word
  BY <1>1, <1>2
<1>4. i' \in 1 .. Len(args') + 1 /\ parser' \in {"reads", "threw"}
  <2>1. i' \in {i, i + 1, i + 2} /\ parser' \in {"reads", "threw"}
    BY <1>2 DEF ReadArgument, ReadProtocol, ReadSize, ReadRemotes, SkipFlag, ReadAddress, ReadFails, Advance
  <2> QED
    BY <1>1, <1>2, <1>3, <2>1
<1>5. config' \in Config /\ filling' \in {"locals", "remotes"}
  <2>1. CASE ReadProtocol
    BY <1>1, <2>1, ProtocolType DEF ReadProtocol, Config
  <2>2. CASE ReadSize
    <3>1. Number[args[i + 1]] \in Int
      BY <2>2, WordAssumption DEF ReadSize
    <3>2. Stored(args[i], Number[args[i + 1]]) \in Int
      BY <3>1, WordAssumption DEF Stored
    <3> QED
      BY <1>1, <2>2, <3>2 DEF ReadSize, Config
  <2>3. CASE ReadRemotes \/ SkipFlag \/ ReadFails
    BY <1>1, <2>3 DEF ReadRemotes, SkipFlag, ReadFails
  <2>4. CASE ReadAddress
    <3> DEFINE a == IPSocket(args[i], portOf(args[i + 1]))
    <3>1. Number[args[i + 1]] \in Int
      BY <2>4, WordAssumption DEF ReadAddress
    <3>2. portOf(args[i + 1]) \in Port
      BY <3>1, PortRange DEF portOf
    <3>3. a \in Address
      BY <1>3, <3>2, IPSocketType
    <3>4. /\ filling' = filling
          /\ config' = IF filling = "locals" THEN [config EXCEPT !.locals = Append(@, a)]
                                             ELSE [config EXCEPT !.remotes = Append(@, a)]
      BY <2>4 DEF ReadAddress
    <3> HIDE DEF a
    <3>5. Append(config.locals, a) \in Seq(Address) /\ Append(config.remotes, a) \in Seq(Address)
      BY <1>1, <3>3, AppendType DEF Config
    <3> QED
      BY <1>1, <3>4, <3>5 DEF Config
  <2> QED
    BY <2>1, <2>2, <2>3, <2>4 DEF ReadArgument
<1>6. pc' = pc /\ conf' = conf /\ bound' = bound /\ todo' = todo /\ heap' = heap
  BY DEF taskVars
<1>7. TypeOK'
  BY <1>1, <1>2, <1>4, <1>5, <1>6 DEF IInv, TypeOK
<1>8. Places' /\ Idle' /\ HasLocals'
  BY <1>2, <1>6 DEF IInv, HeapInv, Places, Idle, HasLocals
<1> QED
  BY <1>6, <1>7, <1>8 DEF IInv, HeapInv, KeysNameDescriptors, DescriptorsOwned

\* The tasks are started: whoever binds an address has been given one.
LEMMA RunStep ==
  ASSUME IInv, RunNetwork
  PROVE  IInv'
<1>1. PICK p \in AnyProtocol :
        LET c == [config EXCEPT !.protocol = p] IN
        /\ config' = c
        /\ IF Single(c) THEN Start({"network"}, [t \in Task |-> c])
                        ELSE Start({"MME", "eNB1", "eNB2"}, Predefined(c))
  BY DEF RunNetwork
<1> DEFINE c == [config EXCEPT !.protocol = p]
<1>2. /\ parser = "reads" /\ parser' = "done" /\ args' = <<>> /\ i' = 1 /\ filling' = "locals"
      /\ bound' = bound /\ todo' = todo /\ heap' = heap
  BY DEF RunNetwork, ArgumentsRead
<1>3. c \in Config /\ c.protocol = p
  BY DEF IInv, TypeOK, Config, AnyProtocol
<1>4. /\ config' = c
      /\ IF Single(c) THEN Start({"network"}, [t \in Task |-> c])
                      ELSE Start({"MME", "eNB1", "eNB2"}, Predefined(c))
  BY <1>1
<1> HIDE DEF c
<1>5. pc' \in [Task -> Pc] /\ conf' \in [Task -> Config] /\ HasLocals'
  <2>1. CASE Single(c)
    <3>1. pc' = [t \in Task |-> IF t \in {"network"} THEN "create" ELSE "off"] /\ conf' = [t \in Task |-> c]
      BY <1>4, <2>1 DEF Start
    <3> QED
      BY <1>3, <2>1, <3>1 DEF Single, HasLocals, Pc
  <2>2. CASE ~Single(c)
    <3>1. /\ pc' = [t \in Task |-> IF t \in {"MME", "eNB1", "eNB2"} THEN "create" ELSE "off"]
          /\ conf' = Predefined(c)
      BY <1>4, <2>2 DEF Start
    <3>2. conf' \in [Task -> Config] /\ \A t \in {"MME", "eNB1", "eNB2"} : conf'[t].locals # <<>>
      BY <1>3, <3>1, PredefinedType
    <3> QED
      BY <3>1, <3>2 DEF HasLocals, Pc
  <2> QED
    BY <2>1, <2>2
<1>6. TypeOK'
  <2>1. args' \in Seq(Word) /\ i' \in 1 .. Len(args') + 1
    BY <1>2
  <2> QED
    BY <1>2, <1>3, <1>4, <1>5, <2>1 DEF IInv, TypeOK
<1>7. DOMAIN heap.obj = {}
  <2>1. \A t \in Task : pc[t] = "off"
    BY <1>2 DEF IInv, Idle
  <2>2. \A x \in Name : x[1] \in Task
    BY DEF Name
  <2> QED
    BY <2>1, <2>2 DEF IInv, HeapInv, IsHeap, Places
<1>8. Places' /\ Idle'
  BY <1>2, <1>7 DEF Places, Idle
<1> QED
  BY <1>2, <1>5, <1>6, <1>8 DEF IInv, HeapInv, KeysNameDescriptors, DescriptorsOwned

\* The invariant holds before an argument is read.
LEMMA InitIInv == Init => IInv
<1> SUFFICES ASSUME Init PROVE IInv
  OBVIOUS
<1>1. args \in Seq(Word) /\ i = 1 /\ filling = "locals" /\ parser = "reads"
  BY WordAssumption DEF Init, InitArguments
<1>2. i \in 1 .. Len(args) + 1
  BY <1>1
<1>3. config = [locals |-> <<>>, remotes |-> <<>>, protocol |-> "unset", sizes |-> [o \in SizeOption |-> 0]]
  BY DEF Init, InitArguments
<1>4. config \in Config
  BY <1>3 DEF Config
<1>5. heap = [obj |-> <<>>, open |-> {}] /\ DOMAIN heap.obj = {}
  BY DEF Init
<1>6. IsHeap(heap, Name, Fd)
  <2>1. heap.obj \in [DOMAIN heap.obj -> Object(Fd)]
    BY <1>5
  <2>2. heap \in [obj : {heap.obj}, open : SUBSET Fd]
    BY <1>5
  <2> QED
    BY <1>5, <2>1, <2>2 DEF IsHeap
<1>7. pc = [t \in Task |-> "off"] /\ conf = [t \in Task |-> config]
      /\ bound = [t \in Task |-> <<>>] /\ todo = [t \in Task |-> <<>>]
  BY DEF Init
<1>8. TypeOK
  BY <1>1, <1>2, <1>4, <1>6, <1>7 DEF TypeOK, Pc
<1>9. DescriptorsOwned /\ KeysNameDescriptors /\ Places
  BY <1>5 DEF DescriptorsOwned, AllOwned, KeysNameDescriptors, Places
<1>10. Idle /\ HasLocals
  BY <1>7 DEF Idle, HasLocals
<1> QED
  BY <1>6, <1>8, <1>9, <1>10 DEF IInv, HeapInv

\* Every step of the program, from its first argument to the end of its tasks,
\* keeps the types, the ownership of descriptors, the names of objects and the
\* addresses of the tasks that bind one.
THEOREM Invariant == Spec => []IInv
<1>1. IInv /\ [Next]_vars => IInv'
  <2> SUFFICES ASSUME IInv, [Next]_vars PROVE IInv'
    OBVIOUS
  <2>1. CASE ReadArgument /\ UNCHANGED taskVars
    BY <2>1, ReadStep
  <2>2. CASE RunNetwork
    BY <2>2, RunStep
  <2>3. ASSUME NEW t \in Task, TaskStep(t), UNCHANGED parserVars
        PROVE  IInv'
    BY <2>3, CreateStep, CallStep, ConnectStreamStep, AcceptStep, RemoveStep DEF TaskStep
  <2>4. CASE UNCHANGED vars
    <3>1. /\ args' = args /\ i' = i /\ filling' = filling /\ config' = config /\ parser' = parser
          /\ pc' = pc /\ conf' = conf /\ bound' = bound /\ todo' = todo /\ heap' = heap
      BY <2>4 DEF vars, taskVars
    <3> QED
      BY <3>1 DEF IInv, TypeOK, HeapInv, DescriptorsOwned, KeysNameDescriptors, Places, Idle, HasLocals
  <2> QED
    BY <2>1, <2>2, <2>3, <2>4 DEF Next, parserVars
<1> QED
  BY <1>1, InitIInv, PTL DEF Spec

\* NetworkConfiguration.cpp and main.cpp: whatever the command line, what is
\* parsed from it and handed to the tasks is well formed; a port stays in 16 bits.
THEOREM TypeCorrect == Spec => []TypeOK
<1>1. IInv => TypeOK
  BY DEF IInv
<1> QED
  BY <1>1, Invariant, PTL

\* FileDescriptor.cpp as the sockets use it: for any number of descriptors and
\* tasks that fail anywhere, nothing leaks and nothing is closed twice.
THEOREM AlwaysOwned == Spec => []DescriptorsOwned
<1>1. IInv => DescriptorsOwned
  BY DEF IInv, HeapInv
<1> QED
  BY <1>1, Invariant, PTL

\* SocketTcp.cpp:23, SocketTcp.cpp:53: reading the key from an object after the
\* move always gives the number of the descriptor that was moved.
THEOREM KeysRight == Spec => []KeysNameDescriptors
<1>1. IInv => KeysNameDescriptors
  BY DEF IInv, HeapInv
<1> QED
  BY <1>1, Invariant, PTL

\* main.cpp:43: no protocol, not even one that was never set, lets a task reach
\* locals.front() of an empty list.
THEOREM AlwaysLocals == Spec => []LocalsToBind
<1>1. IInv => LocalsToBind
  BY DEF IInv, HasLocals, LocalsToBind
<1> QED
  BY <1>1, Invariant, PTL
-----------------------------------------------------------------------------
(* Induction and recursion, stated on sets and functions. *)

\* A set that holds zero and with each number the next one holds them all.
LEMMA Induction ==
  ASSUME NEW A \in SUBSET Nat, 0 \in A, \A n \in A : n + 1 \in A
  PROVE  A = Nat
<1> DEFINE B == Nat \ A
           Less == OpToRel(<, Nat)
<1> SUFFICES ASSUME B # {} PROVE FALSE
  OBVIOUS
<1>1. IsWellFoundedOn(Less, Nat)
  BY NatLessThanWellFounded
<1>2. Less = {p \in Nat \X Nat : p[1] < p[2]}
  BY DEF OpToRel
<1> HIDE DEF Less
<1>3. PICK n \in B : \A m \in B : <<m, n>> \notin Less
  BY <1>1, WFMin
<1>4. n \in Nat /\ n # 0
  BY <1>3
<1>5. n - 1 \in Nat /\ n - 1 < n
  BY <1>4
<1>6. <<n - 1, n>> \in Less
  BY <1>2, <1>4, <1>5
<1>7. n - 1 \in A
  BY <1>3, <1>5, <1>6
<1> QED
  BY <1>3, <1>4, <1>5, <1>7

\* Values that are computed one from the other: next[n] makes the n-th of the
\* one before.
Computed(f, V, first, next, m) ==
  f \in [0 .. m -> V] /\ f[0] = first /\ \A n \in 1 .. m : f[n] = next[n][f[n - 1]]

LEMMA Recursion ==
  ASSUME NEW V, NEW m \in Nat, NEW first \in V, NEW next \in [1 .. m -> [V -> V]]
  PROVE  \E f : Computed(f, V, first, next, m)
<1> DEFINE Solves(f, k) == f[0] = first /\ \A n \in 1 .. k : f[n] = next[n][f[n - 1]]
           A == {k \in Nat : k <= m => \E f \in [0 .. k -> V] : Solves(f, k)}
<1>1. 0 \in A
  <2> DEFINE only == [n \in 0 .. 0 |-> first]
  <2>1. only \in [0 .. 0 -> V] /\ Solves(only, 0)
    OBVIOUS
  <2> HIDE DEF only, Solves
  <2>2. 0 <= m => \E f \in [0 .. 0 -> V] : Solves(f, 0)
    BY <2>1
  <2> QED
    BY <2>2
<1>2. ASSUME NEW k \in A
      PROVE  k + 1 \in A
  <2>0. k \in Nat /\ k + 1 \in Nat
    OBVIOUS
  <2> HIDE DEF Solves
  <2>1. SUFFICES ASSUME k + 1 <= m PROVE \E g \in [0 .. k + 1 -> V] : Solves(g, k + 1)
    BY <2>0
  <2> USE DEF Solves
  <2>2. k \in Nat /\ k <= m /\ k + 1 \in 1 .. m /\ k \in 0 .. k
    BY <2>1
  <2>3. PICK f \in [0 .. k -> V] : Solves(f, k)
    BY <2>2
  <2> DEFINE last == next[k + 1][f[k]]
             g == [n \in 0 .. k + 1 |-> IF n = k + 1 THEN last ELSE f[n]]
  <2>4. last \in V
    BY <2>2
  <2>5. \A n \in 0 .. k + 1 : n = k + 1 \/ n \in 0 .. k
    BY <2>2
  <2>6. g \in [0 .. k + 1 -> V]
    BY <2>4, <2>5
  <2>7. g[k + 1] = last /\ \A n \in 0 .. k : g[n] = f[n]
    BY <2>2
  <2> HIDE DEF g
  <2>8. g[0] = first
    BY <2>2, <2>3, <2>7
  <2>9. ASSUME NEW n \in 1 .. k + 1 PROVE g[n] = next[n][g[n - 1]]
    <3>1. CASE n = k + 1
      <4>1. n - 1 = k
        BY <2>2, <3>1
      <4> QED
        BY <2>2, <2>7, <3>1, <4>1
    <3>2. CASE n # k + 1
      <4>1. n \in 1 .. k /\ n \in 0 .. k /\ n - 1 \in 0 .. k
        BY <2>2, <3>2
      <4> QED
        BY <2>3, <2>7, <4>1
    <3> QED
      BY <3>1, <3>2
  <2> QED
    BY <2>6, <2>8, <2>9
<1> HIDE DEF Solves
<1>3. m \in A
  BY <1>1, <1>2, Induction
<1>4. \E f \in [0 .. m -> V] : Solves(f, m)
  BY <1>3
<1> QED
  BY <1>4 DEF Solves, Computed

-----------------------------------------------------------------------------
(* Packed addresses. *)

\* What memory holds, when the sockaddrs of a set S are packed into it.
Cell(S) == S \cup {Zeros}

\* The memory of one address.
LEMMA SockaddrIs ==
  ASSUME NEW S, NEW s \in S
  PROVE  /\ sizeofSockaddr(s) \in Nat /\ sizeofSockaddr(s) >= 1
         /\ Sockaddr(s) \in Seq(Cell(S)) /\ Len(Sockaddr(s)) = sizeofSockaddr(s)
         /\ Sockaddr(s)[1] = s
<1> DEFINE k == sizeofSockaddr(s)
<1>1. k \in Nat /\ k >= 1
  BY DEF sizeofSockaddr
<1>2. Sockaddr(s) = [n \in 1 .. k |-> IF n = 1 THEN s ELSE Zeros]
  BY DEF Sockaddr
<1> HIDE DEF k
<1>3. s \in Cell(S) /\ Zeros \in Cell(S)
  BY DEF Cell
<1>4. Sockaddr(s) \in Seq(Cell(S)) /\ Len(Sockaddr(s)) = k
  BY <1>1, <1>2, <1>3
<1>5. Sockaddr(s)[1] = s
  BY <1>1, <1>2
<1> QED
  BY <1>1, <1>4, <1>5 DEF k

\* The recursion of Packed, and that it has a solution.
PacksUpTo(f, ss) ==
  f = [n \in 0 .. Len(ss) |-> IF n = 0 THEN <<>> ELSE f[n - 1] \o Sockaddr(ss[n])]

LEMMA PackedExists ==
  ASSUME NEW S, NEW ss \in Seq(S)
  PROVE  \E f : PacksUpTo(f, ss)
<1> DEFINE L == Len(ss)
           next == [n \in 1 .. L |-> [v \in Seq(Cell(S)) |-> v \o Sockaddr(ss[n])]]
           none == <<>>
           V == Seq(Cell(S))
<1>1. L \in Nat /\ none \in Seq(Cell(S)) /\ \A n \in 1 .. L : ss[n] \in S
  OBVIOUS
<1>2. next \in [1 .. L -> [Seq(Cell(S)) -> Seq(Cell(S))]]
  <2>1. ASSUME NEW n \in 1 .. L, NEW v \in Seq(Cell(S)) PROVE v \o Sockaddr(ss[n]) \in Seq(Cell(S))
    BY <1>1, SockaddrIs, ConcatProperties
  <2> QED
    BY <2>1
<1>3. \A n \in 1 .. L : \A v \in Seq(Cell(S)) : next[n][v] = v \o Sockaddr(ss[n])
  OBVIOUS
<1> HIDE DEF next, none, L, V
<1>4. PICK f \in [0 .. L -> V] : f[0] = none /\ \A n \in 1 .. L : f[n] = next[n][f[n - 1]]
  <2>1. L \in Nat /\ none \in V /\ next \in [1 .. L -> [V -> V]]
    BY <1>1, <1>2 DEF V
  <2>2. PICK f : Computed(f, V, none, next, L)
    BY <2>1, Recursion
  <2> QED
    BY <2>2 DEF Computed
<1>5. ASSUME NEW n \in 0 .. L PROVE f[n] = IF n = 0 THEN none ELSE f[n - 1] \o Sockaddr(ss[n])
  <2>1. CASE n # 0
    <3>1. n \in 1 .. L /\ n - 1 \in 0 .. L
      BY <1>1, <2>1
    <3> QED
      BY <1>3, <1>4, <2>1, <3>1 DEF V
  <2> QED
    BY <1>4, <2>1
<1> DEFINE g == [n \in 0 .. L |-> IF n = 0 THEN none ELSE f[n - 1] \o Sockaddr(ss[n])]
<1>6. f = g
  <2>1. f = [n \in 0 .. L |-> f[n]] /\ \A n \in 0 .. L : f[n] = g[n]
    BY <1>5
  <2> HIDE DEF g
  <2>2. g = [n \in 0 .. L |-> g[n]]
    BY DEF g
  <2> QED
    BY <2>1, <2>2
<1> QED
  BY <1>6 DEF L, none, PacksUpTo

\* The memory grows by one address after the other, and each is where the ones
\* before it end.
Grows(f, ss) ==
  /\ \A n \in 0 .. Len(ss) : Len(f[n]) \in Nat
  /\ f[0] = <<>>
  /\ \A n \in 1 .. Len(ss) : Len(f[n]) = Len(f[n - 1]) + sizeofSockaddr(ss[n])
  /\ \A m \in 1 .. Len(ss) :
       Len(f[m - 1]) + 1 \in DOMAIN Packed(ss) /\ Packed(ss)[Len(f[m - 1]) + 1] = ss[m]

LEMMA PackedIs ==
  ASSUME NEW S, NEW ss \in Seq(S)
  PROVE  \E f : Grows(f, ss)
<1> DEFINE L == Len(ss)
           f == CHOOSE f : PacksUpTo(f, ss)
<1>1. Packed(ss) = f[L]
  BY DEF Packed, PacksUpTo
<1>0. PacksUpTo(f, ss)
  BY PackedExists
<1> HIDE DEF f
<1>2. f = [n \in 0 .. L |-> IF n = 0 THEN <<>> ELSE f[n - 1] \o Sockaddr(ss[n])]
  BY <1>0 DEF PacksUpTo
<1>3. f[0] = <<>> /\ L \in Nat /\ \A n \in 1 .. L : ss[n] \in S
  BY <1>2
<1>4. ASSUME NEW n \in 1 .. L PROVE f[n] = f[n - 1] \o Sockaddr(ss[n])
  <2>1. n \in 0 .. L /\ n # 0
    BY <1>3
  <2> HIDE DEF L
  <2> QED
    BY <1>2, <2>1
<1> DEFINE Begin(n) == Len(f[n - 1]) + 1
           Good(m) == /\ f[m] \in Seq(Cell(S))
                      /\ \A n \in 1 .. m : Begin(n) \in 1 .. Len(f[m]) /\ f[m][Begin(n)] = ss[n]
           A == {m \in Nat : m <= L => Good(m)}
<1>5. ASSUME NEW n \in 1 .. L, f[n - 1] \in Seq(Cell(S))
      PROVE  /\ f[n] \in Seq(Cell(S)) /\ Len(f[n - 1]) \in Nat /\ Len(f[n]) \in Nat
             /\ Len(f[n]) = Len(f[n - 1]) + sizeofSockaddr(ss[n])
             /\ Len(f[n - 1]) < Len(f[n])
             /\ \A j \in 1 .. Len(f[n - 1]) : f[n][j] = f[n - 1][j]
             /\ f[n][Begin(n)] = ss[n]
  <2> DEFINE u == f[n - 1]
             v == Sockaddr(ss[n])
             w == u \o v
             k == sizeofSockaddr(ss[n])
  <2>1. /\ v \in Seq(Cell(S)) /\ Len(v) = k /\ k \in Nat /\ k >= 1 /\ v[1] = ss[n]
        /\ u \in Seq(Cell(S)) /\ f[n] = w
    BY <1>3, <1>4, <1>5, SockaddrIs
  <2> HIDE DEF v, k
  <2>2. /\ w \in Seq(Cell(S)) /\ Len(w) = Len(u) + Len(v)
        /\ \A j \in 1 .. Len(u) + Len(v) : w[j] = IF j <= Len(u) THEN u[j] ELSE v[j - Len(u)]
    BY <2>1, ConcatProperties, Zenon
  <2>3. Len(u) \in Nat
    BY <2>1
  <2> HIDE DEF u, w
  <2>4. /\ Len(w) = Len(u) + k /\ Len(w) \in Nat /\ Len(u) < Len(w)
        /\ \A j \in 1 .. Len(u) : w[j] = u[j]
    BY <2>1, <2>2, <2>3
  <2>5. w[Len(u) + 1] = ss[n]
    <3>1. Len(u) + 1 \in 1 .. Len(u) + Len(v) /\ ~(Len(u) + 1 <= Len(u)) /\ Len(u) + 1 - Len(u) = 1
      BY <2>1, <2>3
    <3> QED
      BY <2>1, <2>2, <3>1
  <2> QED
    BY <2>1, <2>2, <2>3, <2>4, <2>5 DEF u, k
<1>6. 0 \in A
  <2> DEFINE none == <<>>
  <2>1. none \in Seq(Cell(S))
    OBVIOUS
  <2> HIDE DEF none, Begin
  <2>2. Good(0)
    BY <1>3, <2>1 DEF none
  <2> HIDE DEF Good
  <2> QED
    BY <2>2
<1>7. ASSUME NEW m \in A
      PROVE  m + 1 \in A
  <2>1. m \in Nat /\ m + 1 \in Nat /\ m + 1 - 1 = m
    OBVIOUS
  <2> HIDE DEF Good
  <2>2. SUFFICES ASSUME m + 1 <= L PROVE Good(m + 1)
    BY <2>1
  <2>3. Good(m) /\ m + 1 \in 1 .. L
    BY <1>3, <2>1, <2>2
  <2> USE DEF Good
  <2>4. /\ f[m + 1] \in Seq(Cell(S)) /\ Len(f[m]) \in Nat /\ Len(f[m + 1]) \in Nat
        /\ Len(f[m]) < Len(f[m + 1])
        /\ \A j \in 1 .. Len(f[m]) : f[m + 1][j] = f[m][j]
        /\ f[m + 1][Len(f[m]) + 1] = ss[m + 1]
    BY <1>5, <2>1, <2>3
  <2>5. ASSUME NEW n \in 1 .. m + 1
        PROVE  Begin(n) \in 1 .. Len(f[m + 1]) /\ f[m + 1][Begin(n)] = ss[n]
    <3>1. CASE n = m + 1
      BY <2>1, <2>4, <3>1
    <3>2. CASE n # m + 1
      <4>1. n \in 1 .. m
        BY <2>1, <3>2
      <4>2. Begin(n) \in 1 .. Len(f[m]) /\ f[m][Begin(n)] = ss[n]
        BY <2>3, <4>1
      <4> HIDE DEF Begin
      <4> QED
        BY <2>4, <4>2
    <3> QED
      BY <3>1, <3>2
  <2> QED
    BY <2>4, <2>5
<1> HIDE DEF Good
<1>8. A = Nat
  BY <1>6, <1>7, Induction
<1>9. \A m \in 0 .. L : Good(m)
  BY <1>3, <1>8
<1> USE DEF Good
<1>10. \A n \in 0 .. L : f[n] \in Seq(Cell(S)) /\ Len(f[n]) \in Nat
  BY <1>9
<1>11. ASSUME NEW n \in 1 .. L PROVE Len(f[n]) = Len(f[n - 1]) + sizeofSockaddr(ss[n])
  <2>1. n - 1 \in 0 .. L
    BY <1>3
  <2> QED
    BY <1>5, <1>10, <2>1
<1>12. \A m \in 1 .. L : Begin(m) \in DOMAIN f[L] /\ f[L][Begin(m)] = ss[m]
  <2>1. L \in 0 .. L
    BY <1>3
  <2>2. Good(L) /\ f[L] \in Seq(Cell(S))
    BY <1>9, <1>10, <2>1
  <2>3. DOMAIN f[L] = 1 .. Len(f[L])
    BY <2>2
  <2> QED
    BY <2>2, <2>3
<1> QED
  BY <1>1, <1>3, <1>10, <1>11, <1>12 DEF Grows

\* What is packed is read back as it was.
LEMMA WalkPacked ==
  ASSUME NEW S, NEW ss \in Seq(S)
  PROVE  Walk(Packed(ss), Len(ss)) = ss
<1> DEFINE L == Len(ss)
           memory == Packed(ss)
<1>1. PICK f : /\ \A n \in 0 .. L : Len(f[n]) \in Nat
               /\ f[0] = <<>>
               /\ \A n \in 1 .. L : Len(f[n]) = Len(f[n - 1]) + sizeofSockaddr(ss[n])
               /\ \A n \in 1 .. L : Len(f[n - 1]) + 1 \in DOMAIN memory /\ memory[Len(f[n - 1]) + 1] = ss[n]
  <2>1. PICK f : Grows(f, ss)
    BY PackedIs
  <2> QED
    BY <2>1 DEF Grows
<1>2. L \in Nat /\ ss = [n \in 1 .. L |-> ss[n]]
  OBVIOUS
<1> HIDE DEF memory, L
<1> DEFINE begin == [n \in 1 .. L |-> Len(f[n - 1]) + 1]
<1>3. \A n \in 1 .. L : begin[n] \in Nat /\ At(memory, begin[n]) = ss[n]
  <2> SUFFICES ASSUME NEW n \in 1 .. L PROVE begin[n] \in Nat /\ At(memory, begin[n]) = ss[n]
    OBVIOUS
  <2>1. n - 1 \in 0 .. L /\ begin[n] = Len(f[n - 1]) + 1
    BY <1>2
  <2>2. Len(f[n - 1]) \in Nat /\ begin[n] \in DOMAIN memory /\ memory[begin[n]] = ss[n]
    BY <1>1, <2>1
  <2> QED
    BY <2>1, <2>2 DEF At
<1>4. 1 \in 1 .. L => begin[1] = 1
  BY <1>1
<1>5. ASSUME NEW n \in 1 .. L, n # 1
      PROVE  n - 1 \in 1 .. L /\ begin[n] = begin[n - 1] + sizeofSockaddr(ss[n - 1])
  <2>1. n - 1 \in 1 .. L /\ n - 1 \in 0 .. L /\ n - 1 - 1 \in 0 .. L
    BY <1>2, <1>5
  <2>2. begin[n] = Len(f[n - 1]) + 1 /\ begin[n - 1] = Len(f[n - 1 - 1]) + 1
    BY <2>1
  <2>3. Len(f[n - 1]) = Len(f[n - 1 - 1]) + sizeofSockaddr(ss[n - 1])
    BY <1>1, <2>1
  <2>4. Len(f[n - 1 - 1]) \in Nat /\ sizeofSockaddr(ss[n - 1]) \in Nat
    BY <1>1, <2>1 DEF sizeofSockaddr
  <2> QED
    BY <2>1, <2>2, <2>3, <2>4
<1> HIDE DEF begin
<1> DEFINE at == CHOOSE at : at = [n \in 1 .. L |->
                   IF n = 1 THEN 1 ELSE at[n - 1] + sizeofSockaddr(At(memory, at[n - 1]))]
<1>6. Walk(memory, L) = [n \in 1 .. L |-> At(memory, at[n])]
  BY DEF Walk
<1>7. at = [n \in 1 .. L |-> IF n = 1 THEN 1 ELSE at[n - 1] + sizeofSockaddr(At(memory, at[n - 1]))]
  <2> DEFINE g == [n \in 1 .. L |->
                     IF n = 1 THEN 1 ELSE begin[n - 1] + sizeofSockaddr(At(memory, begin[n - 1]))]
  <2>1. \A n \in 1 .. L : begin[n] = g[n]
    BY <1>3, <1>4, <1>5
  <2>2. begin = [n \in 1 .. L |-> begin[n]]
    BY DEF begin
  <2> HIDE DEF g
  <2>3. g = [n \in 1 .. L |-> g[n]]
    BY DEF g
  <2>4. begin = g
    BY <2>1, <2>2, <2>3
  <2> QED
    BY <2>4 DEF g
<1> HIDE DEF at
<1> DEFINE A == {m \in Nat : m + 1 <= L => at[m + 1] = begin[m + 1]}
<1>8. 0 \in A
  BY <1>2, <1>4, <1>7
<1>9. ASSUME NEW m \in A
      PROVE  m + 1 \in A
  <2>1. SUFFICES ASSUME m + 1 + 1 <= L PROVE at[m + 1 + 1] = begin[m + 1 + 1]
    OBVIOUS
  <2> DEFINE n == m + 1 + 1
  <2>2. m \in Nat /\ n \in 1 .. L /\ n # 1 /\ n - 1 = m + 1 /\ m + 1 <= L /\ m + 1 \in 1 .. L
    BY <1>2, <2>1
  <2>3. at[m + 1] = begin[m + 1]
    BY <2>2
  <2> HIDE DEF n
  <2>4. at[n] = at[n - 1] + sizeofSockaddr(At(memory, at[n - 1]))
    BY <1>7, <2>2
  <2>5. begin[n] = begin[n - 1] + sizeofSockaddr(ss[n - 1])
    BY <1>5, <2>2
  <2> QED
    BY <1>3, <2>2, <2>3, <2>4, <2>5 DEF n
<1>10. A = Nat
  BY <1>8, <1>9, Induction
<1>11. ASSUME NEW n \in 1 .. L PROVE at[n] = begin[n]
  <2>1. n - 1 \in A /\ n - 1 + 1 = n /\ n <= L
    BY <1>2, <1>10
  <2> QED
    BY <2>1
<1>12. Walk(memory, L) = [n \in 1 .. L |-> ss[n]]
  BY <1>3, <1>6, <1>11
<1> QED
  BY <1>2, <1>12 DEF memory, L

-----------------------------------------------------------------------------
(* What the tasks bind. *)

\* A bound task has what it asked for, and has come past its constructor.
Bindings ==
  \A t \in Task :
    \/ bound[t] = <<>>
    \/ pc[t] \notin {"off", "create", "configure", "bind"} /\ bound[t] = Asked(conf[t])

\* Either the one task of a full command line, or the three of one without locals.
OneOrThree ==
  \/ \A t \in Task : t # "network" => pc[t] = "off"
  \/ pc["network"] = "off" /\ \E c \in Config : ~Single(c) /\ conf = Predefined(c)

MeetInv == Bindings /\ OneOrThree

\* The steps of a task change what it was given never, and what it has bound once.
LEMMA TaskMoves ==
  ASSUME IInv, NEW t \in Task, TaskStep(t)
  PROVE  /\ conf' = conf
         /\ \E to \in Pc \ {"off"} :
              /\ pc' = [pc EXCEPT ![t] = to] /\ pc[t] # "off"
              /\ pc[t] \notin {"off", "create", "configure", "bind"} =>
                   to \notin {"create", "configure", "bind"}
              /\ \/ bound' = bound
                 \/ to = "listen" /\ bound' = [bound EXCEPT ![t] = Asked(conf[t])]
<1> DEFINE Goal == /\ conf' = conf
         /\ \E to \in Pc \ {"off"} :
              /\ pc' = [pc EXCEPT ![t] = to] /\ pc[t] # "off"
              /\ pc[t] \notin {"off", "create", "configure", "bind"} =>
                   to \notin {"create", "configure", "bind"}
              /\ \/ bound' = bound
                 \/ to = "listen" /\ bound' = [bound EXCEPT ![t] = Asked(conf[t])]
<1>1. pc \in [Task -> Pc]
  BY DEF IInv, TypeOK
<1>2. ASSUME NEW h, Leave(t, h), pc[t] # "off" PROVE Goal
  BY <1>1, <1>2 DEF Leave, Pc
<1>3. ASSUME NEW from, NEW to \in Pc \ {"off"}, Goto(t, from, to), from # "off", conf' = conf, bound' = bound,
             from \in {"create", "configure"} \/ to \notin {"create", "configure", "bind"}
      PROVE  Goal
  BY <1>1, <1>3 DEF Goto
<1>4. ASSUME pc[t] \notin {"off", "create", "configure", "bind"}, pc' = pc, conf' = conf, bound' = bound PROVE Goal
  <2>1. pc' = [pc EXCEPT ![t] = pc[t]] /\ pc[t] \in Pc \ {"off"}
    BY <1>1, <1>4
  <2> QED
    BY <1>4, <2>1
<1>5. CASE CreateSocket(t)
  BY <1>2, <1>3, <1>5 DEF CreateSocket, Goto, Pc
<1>6. CASE Configure(t)
  BY <1>2, <1>3, <1>6 DEF Configure, Pc
<1>7. CASE Bind(t)
  <2>1. CASE Leave(t, heap)
    BY <1>2, <1>7, <2>1 DEF Bind
  <2>2. CASE /\ bound' = [bound EXCEPT ![t] = Asked(conf[t])]
             /\ Goto(t, "bind", "listen") /\ conf' = conf
    BY <1>1, <2>2 DEF Goto, Pc
  <2> QED
    BY <1>7, <2>1, <2>2 DEF Bind
<1>8. CASE Listen(t)
  BY <1>2, <1>3, <1>8 DEF Listen, Pc
<1>9. CASE ConnectNext(t) \/ ConnectStream(t) \/ Accept(t) \/ RemovePeer(t) \/ Stop(t)
  <2>1. pc[t] \in {"connect", "chat"}
    BY <1>9 DEF ConnectNext, ConnectStream, Accept, RemovePeer, Stop
  <2>2. (\E h : Leave(t, h)) \/ UNCHANGED <<pc, conf, bound>>
    BY <1>9 DEF ConnectNext, ConnectStream, Accept, RemovePeer, Stop
  <2> QED
    BY <1>2, <1>4, <2>1, <2>2
<1>10. CASE Connected(t)
  BY <1>3, <1>10 DEF Connected, Pc
<1> QED
  BY <1>5, <1>6, <1>7, <1>8, <1>9, <1>10 DEF TaskStep

LEMMA MeetNext == IInv /\ MeetInv /\ [Next]_vars => MeetInv'
<1> SUFFICES ASSUME IInv, MeetInv, [Next]_vars PROVE MeetInv'
  OBVIOUS
<1> USE DEF MeetInv
<1>1. ASSUME conf' = conf, bound' = bound, pc' = pc PROVE MeetInv'
  BY <1>1 DEF Bindings, OneOrThree
<1>2. CASE RunNetwork
  <2>1. \A t \in Task : pc[t] = "off" /\ bound[t] = <<>>
    BY <1>2 DEF RunNetwork, ArgumentsRead, IInv, Idle, Bindings
  <2>2. bound' = bound
    BY <1>2 DEF RunNetwork
  <2>3. PICK p \in AnyProtocol :
          LET c == [config EXCEPT !.protocol = p] IN
          IF Single(c) THEN Start({"network"}, [t \in Task |-> c])
                       ELSE Start({"MME", "eNB1", "eNB2"}, Predefined(c))
    BY <1>2 DEF RunNetwork
  <2> DEFINE c == [config EXCEPT !.protocol = p]
  <2>4. c \in Config
    BY DEF IInv, TypeOK, Config, AnyProtocol
  <2>5. IF Single(c) THEN Start({"network"}, [t \in Task |-> c])
                     ELSE Start({"MME", "eNB1", "eNB2"}, Predefined(c))
    BY <2>3
  <2> HIDE DEF c
  <2>6. OneOrThree'
    BY <2>4, <2>5 DEF Start, OneOrThree, Task
  <2>7. Bindings'
    BY <2>1, <2>2 DEF Bindings
  <2> QED
    BY <2>6, <2>7
<1>3. ASSUME NEW t \in Task, TaskStep(t) PROVE MeetInv'
  <2>1. conf' = conf /\ pc \in [Task -> Pc] /\ DOMAIN bound = Task
    BY <1>3, TaskMoves DEF IInv, TypeOK
  <2>2. PICK to \in Pc \ {"off"} :
          /\ pc' = [pc EXCEPT ![t] = to] /\ pc[t] # "off"
          /\ pc[t] \notin {"off", "create", "configure", "bind"} => to \notin {"create", "configure", "bind"}
          /\ \/ bound' = bound
             \/ to = "listen" /\ bound' = [bound EXCEPT ![t] = Asked(conf[t])]
    BY <1>3, TaskMoves
  <2>3. pc'[t] = to /\ \A u \in Task : u # t => pc'[u] = pc[u]
    BY <2>1, <2>2
  <2>4. OneOrThree'
    BY <2>1, <2>2, <2>3 DEF OneOrThree, Task
  <2>5. Bindings'
    <3> SUFFICES ASSUME NEW u \in Task
                 PROVE  \/ bound'[u] = <<>>
                        \/ /\ pc'[u] \notin {"off", "create", "configure", "bind"}
                           /\ bound'[u] = Asked(conf[u])
      BY <2>1 DEF Bindings, Asked, IsUnix, Sctp, BindsFront, Stream
    <3>1. \/ bound[u] = <<>>
          \/ pc[u] \notin {"off", "create", "configure", "bind"} /\ bound[u] = Asked(conf[u])
      BY DEF Bindings
    <3>2. CASE u # t
      BY <2>1, <2>2, <2>3, <3>1, <3>2
    <3>3. CASE u = t
      BY <2>1, <2>2, <2>3, <3>1, <3>3
    <3> QED
      BY <3>2, <3>3
  <2> QED
    BY <2>4, <2>5
<1>4. CASE ReadArgument /\ UNCHANGED taskVars
  BY <1>1, <1>4 DEF taskVars
<1>5. CASE UNCHANGED vars
  BY <1>1, <1>5 DEF vars, taskVars
<1> QED
  BY <1>2, <1>3, <1>4, <1>5 DEF Next

LEMMA MeetInit == Init => MeetInv
<1> SUFFICES ASSUME Init PROVE MeetInv
  OBVIOUS
<1>1. pc = [t \in Task |-> "off"] /\ bound = [t \in Task |-> <<>>]
  BY DEF Init
<1> QED
  BY <1>1 DEF MeetInv, Bindings, OneOrThree

THEOREM MeetInvariant == Spec => []MeetInv
  BY Invariant, MeetInit, MeetNext, PTL DEF Spec

\* The addresses that a configuration lists, as the kernel takes them.
Given(c) == [n \in DOMAIN c.locals |-> toSockaddr(c.locals[n])]

\* What is bound is what the configuration lists.
LEMMA AskedIs ==
  ASSUME NEW c \in Config
  PROVE  Asked(c) = IF IsUnix(c) THEN <<>> ELSE IF Sctp(c) THEN Given(c) ELSE <<toSockaddr(Head(c.locals))>>
<1>1. c.locals \in Seq(Address) /\ Len(c.locals) \in Nat
  BY DEF Config
<1> DEFINE S == {toSockaddr(a) : a \in Address}
<1>2. Given(c) \in Seq(S) /\ Len(Given(c)) = Len(c.locals)
  BY <1>1 DEF Given
<1>3. Walk(Packed(Given(c)), Len(Given(c))) = Given(c)
  BY <1>2, WalkPacked
<1> QED
  BY <1>2, <1>3 DEF Asked, toSockaddrs, Given

\* What sctp_getladdrs reports is read back whole.
LEMMA ReadBack ==
  ASSUME NEW t \in Task, NEW S, bound[t] \in Seq(S), NEW n \in DOMAIN bound[t]
  PROVE  getBoundAddresses(t)[n] = FromSockaddr(Reported(t)[n])
<1> DEFINE b == bound[t]
           rs == Reported(t)
           R == {rs[m] : m \in DOMAIN rs}
<1>1. b \in Seq(S) /\ DOMAIN b = 1 .. Len(b) /\ Len(b) \in Nat /\ n \in 1 .. Len(b)
  OBVIOUS
<1>2. rs = [m \in DOMAIN b |-> rs[m]]
  BY DEF Reported
<1>3. getBoundAddresses(t) = getAddrs(Packed(rs), Len(b))
  BY DEF getBoundAddresses
<1> HIDE DEF rs, b
<1>4. rs \in Seq(R) /\ Len(rs) = Len(b)
  BY <1>1, <1>2
<1>5. Walk(Packed(rs), Len(b)) = rs
  BY <1>4, WalkPacked
<1>6. getAddrs(Packed(rs), Len(b)) = [m \in 1 .. Len(b) |-> FromSockaddr(rs[m])]
  BY <1>5 DEF getAddrs
<1> QED
  BY <1>1, <1>3, <1>6 DEF rs

\* IPSocket.cpp, toSockaddrs, and SctpGetAddrs.cpp, getAddrs: for lists of any
\* length and any mixture of families the kernel gets the addresses that were
\* given, in their order, and what it reports for a bound socket is read back as
\* text that spells the same addresses, mapped or not, with the same ports.
THEOREM PackingLosesNothing == Spec => []AddressesSurvivePacking
<1>1. IInv /\ MeetInv => AddressesSurvivePacking
  <2> SUFFICES ASSUME IInv, MeetInv, NEW t \in Task, bound[t] # <<>>, Sctp(conf[t])
               PROVE  /\ bound[t] = Given(conf[t])
                      /\ \A n \in DOMAIN bound[t] :
                           /\ getBoundAddresses(t)[n].addr.spells \in {bound[t][n].ip, Mapped(bound[t][n]).ip}
                           /\ getBoundAddresses(t)[n].port = bound[t][n].port
    BY DEF AddressesSurvivePacking, Given
  <2>1. conf[t] \in Config /\ bound[t] = Asked(conf[t]) /\ ~IsUnix(conf[t])
    BY DEF IInv, TypeOK, MeetInv, Bindings, Sctp
  <2>2. bound[t] = Given(conf[t])
    BY <2>1, AskedIs
  <2> DEFINE S == {toSockaddr(a) : a \in Address}
  <2>3. bound[t] \in Seq(S)
    BY <2>1, <2>2 DEF Config, Given
  <2>4. ASSUME NEW n \in DOMAIN bound[t]
        PROVE  /\ getBoundAddresses(t)[n].addr.spells \in {bound[t][n].ip, Mapped(bound[t][n]).ip}
               /\ getBoundAddresses(t)[n].port = bound[t][n].port
    <3>1. PICK sa : sa = bound[t][n]
      OBVIOUS
    <3>2. getBoundAddresses(t)[n] = FromSockaddr(Reported(t)[n])
      BY <2>3, <2>4, ReadBack
    <3>3. Reported(t)[n] \in {sa, Mapped(sa)}
      BY <2>4, <3>1 DEF Reported
    <3>4. sa \in S
      BY <2>3, <2>4, <3>1
    <3>5. Mapped(sa).port = sa.port
      BY <3>4 DEF Mapped, toSockaddr
    <3>6. \A x : FromSockaddr(x).addr.spells = x.ip /\ FromSockaddr(x).port = x.port
      BY DEF FromSockaddr
    <3> QED
      BY <3>1, <3>2, <3>3, <3>5, <3>6
  <2> QED
    BY <2>2, <2>4
<1> QED
  BY <1>1, Invariant, MeetInvariant, PTL

\* A list of one.
LEMMA AppendToNone ==
  ASSUME NEW ss \in Seq(Address), ss = <<>>, NEW a \in Address
  PROVE  /\ Append(ss, a) = <<a>> /\ <<a>> \in Seq(Address) /\ Head(<<a>>) = a
         /\ DOMAIN <<a>> = {1} /\ <<a>>[1] = a
  OBVIOUS

\* remotes.back().port += 17 changes an address behind the one of the MME.
LEMMA ShiftedKeeps ==
  ASSUME NEW ss \in Seq(Address), NEW a \in Address, NEW b \in Address
  PROVE  \E n \in DOMAIN Shifted(Append(ss, a) \o <<b>>) : Shifted(Append(ss, a) \o <<b>>)[n] = a
<1> DEFINE us == Append(ss, a) \o <<b>>
           L == Len(ss)
<1>1. L \in Nat /\ Append(ss, a) \in Seq(Address) /\ Len(Append(ss, a)) = L + 1 /\ Append(ss, a)[L + 1] = a
  OBVIOUS
<1>2. <<b>> \in Seq(Address) /\ Len(<<b>>) = 1
  OBVIOUS
<1>3. /\ us \in Seq(Address) /\ Len(us) = (L + 1) + 1
      /\ \A n \in 1 .. (L + 1) + 1 : us[n] = IF n <= L + 1 THEN Append(ss, a)[n] ELSE <<b>>[n - (L + 1)]
  BY <1>1, <1>2, ConcatProperties
<1> HIDE DEF us, L
<1>4. L + 1 \in 1 .. (L + 1) + 1 /\ L + 1 <= L + 1 /\ L + 1 # (L + 1) + 1
  BY <1>1
<1>5. us[L + 1] = a /\ L + 1 \in DOMAIN us
  BY <1>1, <1>3, <1>4
<1>6. L + 1 \in DOMAIN Shifted(us) /\ Shifted(us)[L + 1] = a
  BY <1>3, <1>4, <1>5 DEF Shifted
<1> QED
  BY <1>6 DEF us

\* What the predefined tasks bind and whom they know, whoever else they know.
LEMMA PredefinedIs ==
  ASSUME NEW c \in Config, ~Single(c)
  PROVE  /\ \A t, u \in {"MME", "eNB1", "eNB2"} :
              \A n \in DOMAIN Asked(Predefined(c)[t]), m \in DOMAIN Asked(Predefined(c)[u]) :
                t # u => Asked(Predefined(c)[t])[n] # Asked(Predefined(c)[u])[m]
         /\ \A t \in {"eNB1", "eNB2"} : \A n \in DOMAIN Asked(Predefined(c)["MME"]) :
              \E m \in DOMAIN Predefined(c)[t].remotes :
                /\ Convertible(Predefined(c)[t].remotes[m])
                /\ toSockaddr(Predefined(c)[t].remotes[m]) = Asked(Predefined(c)["MME"])[n]
<1> DEFINE m == IPSocket(Localhost, 36412)
           e1 == IPSocket(Localhost, 36422)
           e2 == IPSocket(Localhost, 36423)
           r1 == Append(c.remotes, m)
           r2 == Shifted(r1 \o <<e1>>)
<1>1. 36412 \in Port /\ 36422 \in Port /\ 36423 \in Port /\ Localhost \in Word
  BY LocalhostAssumption DEF Port, Ports
<1>2. m \in Address /\ e1 \in Address /\ e2 \in Address
  BY <1>1, IPSocketType
<1>3. /\ toSockaddr(m) # toSockaddr(e1) /\ toSockaddr(m) # toSockaddr(e2)
      /\ toSockaddr(e1) # toSockaddr(e2) /\ Convertible(m)
  <2>1. \A a : toSockaddr(a).port = a.port
    BY DEF toSockaddr
  <2>2. m.port = 36412 /\ e1.port = 36422 /\ e2.port = 36423 /\ m.family = "v4"
    BY LocalhostAssumption DEF IPSocket, detectFamily
  <2> HIDE DEF m, e1, e2
  <2> QED
    BY <2>1, <2>2 DEF Convertible
<1>4. c.locals \in Seq(Address) /\ c.remotes \in Seq(Address) /\ c.locals = <<>> /\ ~IsUnix(c)
  BY DEF Config, Single
<1> HIDE DEF m, e1, e2
<1>5. /\ Append(c.locals, m) = <<m>> /\ Append(c.locals, e1) = <<e1>> /\ Append(c.locals, e2) = <<e2>>
      /\ Head(<<m>>) = m
  BY <1>2, <1>4, AppendToNone
<1>6. /\ Predefined(c)["MME"] = [c EXCEPT !.locals = <<m>>]
      /\ Predefined(c)["eNB1"] = [c EXCEPT !.locals = <<e1>>, !.remotes = r1]
      /\ Predefined(c)["eNB2"] = [c EXCEPT !.locals = <<e2>>, !.remotes = r2]
  <2>1. /\ Predefined(c)["MME"] = [c EXCEPT !.locals = Append(c.locals, m)]
        /\ Predefined(c)["eNB1"] =
             [c EXCEPT !.locals = Append(c.locals, e1), !.remotes = Append(c.remotes, Head(Append(c.locals, m)))]
        /\ Predefined(c)["eNB2"] =
             [c EXCEPT !.locals = Append(c.locals, e2),
                       !.remotes = Shifted(Append(c.remotes, Head(Append(c.locals, m))) \o Append(c.locals, e1))]
    <3> DEFINE l0 == Append(c.locals, m)
               l1 == Append(c.locals, e1)
               r == Append(c.remotes, Head(l0))
               mme == [c EXCEPT !.locals = l0]
               enb1 == [c EXCEPT !.locals = l1, !.remotes = r]
               enb2 == [c EXCEPT !.locals = Append(c.locals, e2), !.remotes = Shifted(r \o l1)]
    <3>1. Predefined(c) =
            [t \in Task |-> CASE t = "MME" -> mme [] t = "eNB1" -> enb1 [] t = "eNB2" -> enb2 [] OTHER -> c]
      BY DEF Predefined, Config, m, e1, e2
    <3> HIDE DEF mme, enb1, enb2
    <3>2. Predefined(c)["MME"] = mme /\ Predefined(c)["eNB1"] = enb1 /\ Predefined(c)["eNB2"] = enb2
      BY <3>1 DEF Task
    <3> QED
      BY <3>2 DEF mme, enb1, enb2
  <2> QED
    BY <1>5, <2>1 DEF r1, r2
<1> HIDE DEF r1, r2
<1>7. /\ Predefined(c)["MME"].locals = <<m>> /\ Predefined(c)["eNB1"].locals = <<e1>>
      /\ Predefined(c)["eNB2"].locals = <<e2>>
      /\ Predefined(c)["eNB1"].remotes = r1 /\ Predefined(c)["eNB2"].remotes = r2
      /\ \A t \in {"MME", "eNB1", "eNB2"} : Predefined(c)[t].protocol = c.protocol
  BY <1>6 DEF Config
<1>8. \A t \in {"MME", "eNB1", "eNB2"} : Predefined(c)[t] \in Config /\ ~IsUnix(Predefined(c)[t])
  BY <1>4, <1>7, PredefinedType DEF IsUnix, Task
<1>9. ASSUME NEW t \in {"MME", "eNB1", "eNB2"}, NEW a \in Address, Predefined(c)[t].locals = <<a>>
      PROVE  Asked(Predefined(c)[t]) = <<toSockaddr(a)>>
  <2>1. Head(<<a>>) = a
    OBVIOUS
  <2> DEFINE d == Predefined(c)[t]
  <2>2. d \in Config /\ ~IsUnix(d) /\ d.locals = <<a>>
    BY <1>8, <1>9
  <2> HIDE DEF d
  <2>3. Given(d) = <<toSockaddr(a)>>
    <3>1. DOMAIN <<a>> = {1} /\ <<a>>[1] = a
      OBVIOUS
    <3>2. Given(d) = [n \in {1} |-> toSockaddr(a)]
      BY <2>2, <3>1 DEF Given
    <3>3. \A x : [n \in {1} |-> x] = <<x>>
      OBVIOUS
    <3> QED
      BY <3>2, <3>3
  <2>4. Asked(d) = <<toSockaddr(a)>>
    BY <2>1, <2>2, <2>3, AskedIs
  <2> QED
    BY <2>4 DEF d
<1>10. /\ Asked(Predefined(c)["MME"]) = <<toSockaddr(m)>>
       /\ Asked(Predefined(c)["eNB1"]) = <<toSockaddr(e1)>>
       /\ Asked(Predefined(c)["eNB2"]) = <<toSockaddr(e2)>>
  BY <1>2, <1>7, <1>9
<1>11. \A x : DOMAIN <<x>> = {1} /\ <<x>>[1] = x
  OBVIOUS
<1>12. \E n \in DOMAIN r1 : r1[n] = m
  <2>1. Len(c.remotes) + 1 \in DOMAIN Append(c.remotes, m) /\ Append(c.remotes, m)[Len(c.remotes) + 1] = m
    BY <1>2, <1>4
  <2> QED
    BY <2>1 DEF r1
<1>13. \E n \in DOMAIN r2 : r2[n] = m
  BY <1>2, <1>4, ShiftedKeeps DEF r1, r2
<1>14. ASSUME NEW t \in {"MME", "eNB1", "eNB2"}, NEW u \in {"MME", "eNB1", "eNB2"}, t # u,
              NEW n \in DOMAIN Asked(Predefined(c)[t]), NEW k \in DOMAIN Asked(Predefined(c)[u])
       PROVE  Asked(Predefined(c)[t])[n] # Asked(Predefined(c)[u])[k]
  BY <1>3, <1>10, <1>11, <1>14
<1>15. ASSUME NEW t \in {"eNB1", "eNB2"}, NEW n \in DOMAIN Asked(Predefined(c)["MME"])
       PROVE  \E k \in DOMAIN Predefined(c)[t].remotes :
                /\ Convertible(Predefined(c)[t].remotes[k])
                /\ toSockaddr(Predefined(c)[t].remotes[k]) = Asked(Predefined(c)["MME"])[n]
  BY <1>3, <1>7, <1>10, <1>11, <1>12, <1>13
<1> QED
  BY <1>14, <1>15

\* main.cpp, runPredefinedConfig: whatever remotes the user adds, MME and base
\* stations bind different addresses, and the one whose port is changed is never
\* the MME's.
THEOREM PredefinedAlwaysMeet == Spec => []PredefinedTasksMeet
<1>1. IInv /\ MeetInv => PredefinedTasksMeet
  <2> SUFFICES ASSUME IInv, MeetInv PROVE PredefinedTasksMeet
    OBVIOUS
  <2>1. \A t \in Task : bound[t] = <<>> \/ (pc[t] # "off" /\ bound[t] = Asked(conf[t]))
    BY DEF MeetInv, Bindings
  <2>2. DOMAIN << >> = {}
    OBVIOUS
  <2>3. CASE \A t \in Task : t # "network" => pc[t] = "off"
    <3>1. \A t \in Task : t # "network" => bound[t] = <<>>
      BY <2>1, <2>3
    <3> QED
      BY <2>2, <2>3, <3>1 DEF PredefinedTasksMeet, Task
  <2>4. CASE pc["network"] = "off" /\ \E c \in Config : ~Single(c) /\ conf = Predefined(c)
    <3>1. PICK c \in Config : ~Single(c) /\ conf = Predefined(c)
      BY <2>4
    <3>2. bound["network"] = <<>>
      BY <2>1, <2>4 DEF Task
    <3>3. ASSUME NEW t \in Task, NEW u \in Task, t # u, NEW n \in DOMAIN bound[t], NEW m \in DOMAIN bound[u]
          PROVE  bound[t][n] # bound[u][m]
      <4>1. bound[t] # <<>> /\ bound[u] # <<>>
        BY <2>2, <3>3
      <4>2. t \in {"MME", "eNB1", "eNB2"} /\ u \in {"MME", "eNB1", "eNB2"}
        BY <3>2, <4>1 DEF Task
      <4>3. bound[t] = Asked(Predefined(c)[t]) /\ bound[u] = Asked(Predefined(c)[u])
        BY <2>1, <3>1, <4>1
      <4> QED
        BY <3>1, <3>3, <4>2, <4>3, PredefinedIs
    <3>4. ASSUME NEW t \in {"eNB1", "eNB2"}, NEW n \in DOMAIN bound["MME"]
          PROVE  \E m \in DOMAIN conf[t].remotes :
                   Convertible(conf[t].remotes[m]) /\ toSockaddr(conf[t].remotes[m]) = bound["MME"][n]
      <4>1. bound["MME"] # <<>>
        BY <2>2, <3>4
      <4>2. bound["MME"] = Asked(Predefined(c)["MME"])
        BY <2>1, <3>1, <4>1 DEF Task
      <4> QED
        BY <3>1, <3>4, <4>2, PredefinedIs
    <3> QED
      BY <3>3, <3>4 DEF PredefinedTasksMeet
  <2> QED
    BY <2>3, <2>4 DEF MeetInv, OneOrThree
<1> QED
  BY <1>1, Invariant, MeetInvariant, PTL

-----------------------------------------------------------------------------
(* What the parser makes of a line. *)

\* A set of values of the arguments up to the one that is read next, which is
\* none: what was read so far means what those arguments say.
Parsed ==
  parser = "reads" =>
    \E V \in SUBSET (1 .. Len(args)) :
      /\ AreValues(args, V, i) /\ i \notin V
      /\ Means(args, config, V, i)
      /\ filling = IF Says(args, V, i, {"-r"}) = {} THEN "locals" ELSE "remotes"
      /\ i <= Len(args) \/ i = 1 \/ i - 1 \in V

\* U and n are the values and the next argument once argument j is read, alone
\* or with its value.
Reads(V, j, U, n) == \/ U = V /\ n = j + 1
                     \/ U = V \cup {j + 1} /\ n = j + 2

\* One more argument says one thing more.
LEMMA SaysGrows ==
  ASSUME NEW line, NEW j \in Nat, j > 0, NEW V, j \notin V, NEW U, NEW n, Reads(V, j, U, n), NEW W
  PROVE  Says(line, U, n, W) = Says(line, V, j, W) \cup {k \in {j} : line[k] \in W}
<1>1. ASSUME NEW k \in 1 .. j - 1 PROVE k \in U <=> k \in V
  BY <1>1 DEF Reads
<1>2. ASSUME NEW k \in Says(line, U, n, W) PROVE k \in Says(line, V, j, W) \cup {m \in {j} : line[m] \in W}
  <2>1. k \in 1 .. n - 1 /\ k \notin U /\ line[k] \in W
    BY DEF Says
  <2>2. k = j \/ k \in 1 .. j - 1
    BY <2>1 DEF Reads
  <2> QED
    BY <1>1, <2>1, <2>2 DEF Says
<1>3. ASSUME NEW k \in Says(line, V, j, W) PROVE k \in Says(line, U, n, W)
  <2>1. k \in 1 .. j - 1 /\ k \notin V /\ line[k] \in W
    BY DEF Says
  <2>2. k \in 1 .. n - 1
    BY <2>1 DEF Reads
  <2> QED
    BY <1>1, <2>1, <2>2 DEF Says
<1>4. ASSUME line[j] \in W PROVE j \in Says(line, U, n, W)
  <2>1. j \in 1 .. n - 1 /\ j \notin U
    BY DEF Reads
  <2> QED
    BY <1>4, <2>1 DEF Says
<1>5. ASSUME NEW k \in {m \in {j} : line[m] \in W} PROVE k \in Says(line, U, n, W)
  BY <1>4
<1> HIDE DEF Reads
<1> QED
  BY <1>2, <1>3, <1>5

\* The argument behind one that takes a value is a value, and the next is not.
LEMMA ValuesGrow ==
  ASSUME NEW line, NEW j \in Nat, j > 0, NEW V, AreValues(line, V, j), j \notin V, NEW U, NEW n,
         IF line[j] \in {"-r"} \cup OtherFlag THEN U = V /\ n = j + 1
                                              ELSE U = V \cup {j + 1} /\ n = j + 2
  PROVE  AreValues(line, U, n) /\ n \notin U
<1>1. V \subseteq 1 .. j - 1
  BY DEF AreValues
<1>2. n \in {j + 1, j + 2} /\ U \subseteq 1 .. n - 1
  <2>1. \A k \in V : k \in 1 .. j /\ k \in 1 .. j + 1
    BY <1>1
  <2>2. j + 1 \in 1 .. j + 1 /\ (j + 1) - 1 = j /\ (j + 2) - 1 = j + 1
    OBVIOUS
  <2>3. n - 1 \in {j, j + 1}
    BY <2>2
  <2>4. U \subseteq 1 .. n - 1
    BY <2>1, <2>2
  <2> QED
    BY <2>4
<1>3. ASSUME NEW k \in 1 .. n
      PROVE  k \in U <=> k > 1 /\ k - 1 \notin U /\ line[k - 1] \notin {"-r"} \cup OtherFlag
  <2>1. CASE k <= j
    <3>1. k \in 1 .. j /\ (k \in U <=> k \in V) /\ (k - 1 \in U <=> k - 1 \in V)
      BY <1>1, <2>1
    <3> QED
      BY <3>1 DEF AreValues
  <2>2. CASE k = j + 1
    <3>1. k - 1 = j /\ k > 1 /\ j \notin U
      BY <2>2
    <3>2. k \in U <=> line[j] \notin {"-r"} \cup OtherFlag
      BY <1>1, <2>2
    <3> QED
      BY <3>1, <3>2
  <2>3. CASE k = j + 2
    <3>1. n = j + 2 /\ U = V \cup {j + 1} /\ k - 1 = j + 1
      BY <2>3
    <3> QED
      BY <1>1, <2>3, <3>1
  <2> QED
    BY <1>2, <2>1, <2>2, <2>3
<1> QED
  BY <1>2, <1>3 DEF AreValues

\* The places S in ascending order.
Ascends(at, l, S) ==
  /\ at \in [1 .. l -> S]
  /\ \A k \in S : \E m \in 1 .. l : at[m] = k
  /\ \A m, n \in 1 .. l : m < n => at[m] < at[n]

Prolongs(to, at, l, j) == to[l] = j /\ \A m \in 1 .. l - 1 : to[m] = at[m]

\* Places in ascending order, and one behind them all.
LEMMA PlacesGrow ==
  ASSUME NEW l \in Nat, NEW j \in Nat, NEW S \in SUBSET (1 .. j - 1), l > 0,
         NEW at, Ascends(at, l - 1, S)
  PROVE  \E to : Ascends(to, l, S \cup {j}) /\ Prolongs(to, at, l, j)
<1>0. /\ at \in [1 .. l - 1 -> S]
      /\ \A k \in S : \E m \in 1 .. l - 1 : at[m] = k
      /\ \A m, n \in 1 .. l - 1 : m < n => at[m] < at[n]
  BY DEF Ascends
<1> DEFINE to == [m \in 1 .. l |-> IF m = l THEN j ELSE at[m]]
<1>1. \A m \in 1 .. l - 1 : m \in 1 .. l /\ m # l /\ at[m] \in S
  BY <1>0
<1>2. l \in 1 .. l /\ \A m \in 1 .. l : m = l \/ m \in 1 .. l - 1
  OBVIOUS
<1>3. to \in [1 .. l -> S \cup {j}]
  BY <1>1, <1>2
<1>4. to[l] = j /\ \A m \in 1 .. l - 1 : to[m] = at[m]
  BY <1>1, <1>2
<1> HIDE DEF to
<1>5. \A k \in S \cup {j} : \E m \in 1 .. l : to[m] = k
  BY <1>0, <1>1, <1>2, <1>4
<1>6. ASSUME NEW m \in 1 .. l, NEW n \in 1 .. l, m < n PROVE to[m] < to[n]
  <2>1. m \in 1 .. l - 1
    BY <1>6
  <2>2. to[m] = at[m] /\ at[m] \in 1 .. j - 1
    BY <1>1, <1>4, <2>1
  <2>3. CASE n = l
    BY <1>4, <2>2, <2>3
  <2>4. CASE n \in 1 .. l - 1
    BY <1>0, <1>4, <1>6, <2>1, <2>4
  <2> QED
    BY <1>2, <2>3, <2>4
<1> QED
  BY <1>3, <1>4, <1>5, <1>6 DEF Ascends, Prolongs

\* A list takes the address that is read at its end.
LEMMA ListsGrow ==
  ASSUME NEW line, NEW ss \in Seq(Address), NEW j \in Nat, NEW S \in SUBSET (1 .. j - 1), NEW a
  PROVE  Lists(line, ss, S) /\ a = IPSocket(line[j], Number[line[j + 1]] % Ports)
           => Lists(line, Append(ss, a), S \cup {j})
<1>1. SUFFICES ASSUME Lists(line, ss, S), a = IPSocket(line[j], Number[line[j + 1]] % Ports)
               PROVE  Lists(line, Append(ss, a), S \cup {j})
  OBVIOUS
<1>2. PICK at \in [DOMAIN ss -> S] :
        /\ \A k \in S : \E m \in DOMAIN ss : at[m] = k
        /\ \A m, n \in DOMAIN ss : m < n => at[m] < at[n]
        /\ \A m \in DOMAIN ss : ss[m] = IPSocket(line[at[m]], Number[line[at[m] + 1]] % Ports)
  BY <1>1 DEF Lists
<1> DEFINE us == Append(ss, a)
<1>3. PICK l \in Nat : l = Len(ss) + 1
  OBVIOUS
<1>4. /\ l > 0 /\ DOMAIN ss = 1 .. l - 1 /\ DOMAIN us = 1 .. l
      /\ us[l] = a /\ \A m \in 1 .. l - 1 : us[m] = ss[m]
      /\ \A m \in 1 .. l : m = l \/ m \in 1 .. l - 1
  BY <1>3
<1> HIDE DEF us
<1>5. at \in [1 .. l - 1 -> S]
  BY <1>4
<1>10. Ascends(at, l - 1, S)
  BY <1>2, <1>4, <1>5 DEF Ascends
<1>11. PICK to : Ascends(to, l, S \cup {j}) /\ Prolongs(to, at, l, j)
  BY <1>4, <1>10, PlacesGrow
<1>6. /\ \A m \in 1 .. l - 1 : to[m] = at[m]
      /\ to[l] = j
      /\ to \in [1 .. l -> S \cup {j}]
      /\ \A k \in S \cup {j} : \E m \in 1 .. l : to[m] = k
      /\ \A m, n \in 1 .. l : m < n => to[m] < to[n]
  BY <1>11 DEF Ascends, Prolongs
<1>7. \A m \in DOMAIN us : us[m] = IPSocket(line[to[m]], Number[line[to[m] + 1]] % Ports)
  <2>1. us[l] = IPSocket(line[to[l]], Number[line[to[l] + 1]] % Ports)
    BY <1>1, <1>4, <1>6, Zenon
  <2>2. ASSUME NEW m \in 1 .. l - 1
        PROVE  us[m] = IPSocket(line[to[m]], Number[line[to[m] + 1]] % Ports)
    BY <1>2, <1>4, <1>6, Zenon
  <2> QED
    BY <1>4, <2>1, <2>2, Zenon
<1>8. to \in [DOMAIN us -> S \cup {j}]
  BY <1>4, <1>6, Zenon
<1>9. Lists(line, us, S \cup {j})
  <2>1. DOMAIN us = 1 .. l
    BY <1>4
  <2>2. /\ \A k \in S \cup {j} : \E m \in DOMAIN us : to[m] = k
        /\ \A m, n \in DOMAIN us : m < n => to[m] < to[n]
    BY <1>6, <2>1, Zenon
  <2> QED
    BY <1>7, <1>8, <2>2, Zenon DEF Lists
<1> QED
  BY <1>9 DEF us
\* An option says nothing about addresses.
LEMMA FlagsAddNone ==
  ASSUME NEW line, NEW j \in Nat, j > 0, NEW V, j \notin V, NEW U, NEW n, Reads(V, j, U, n), line[j] \in Flag
  PROVE  /\ AddressesIn(line, U, n) = AddressesIn(line, V, j)
         /\ RemotesIn(line, U, n) = RemotesIn(line, V, j)
<1>1. AddressesIn(line, U, n) = AddressesIn(line, V, j)
  <2>1. {k \in {j} : line[k] \in Word \ Flag} = {}
    OBVIOUS
  <2>2. Says(line, U, n, Word \ Flag)
          = Says(line, V, j, Word \ Flag) \cup {k \in {j} : line[k] \in Word \ Flag}
    BY SaysGrows
  <2> QED
    BY <2>1, <2>2 DEF AddressesIn
<1>2. Says(line, U, n, {"-r"}) = Says(line, V, j, {"-r"}) \cup {k \in {j} : line[k] \in {"-r"}}
  BY SaysGrows
<1>3. \A k \in AddressesIn(line, V, j) : k < j
  BY DEF AddressesIn, Says
<1>4. ASSUME NEW k \in AddressesIn(line, V, j)
      PROVE  (\E r \in Says(line, U, n, {"-r"}) : r < k) <=> (\E r \in Says(line, V, j, {"-r"}) : r < k)
  <2>1. k \in Nat /\ k < j /\ ~(j < k)
    BY <1>3 DEF AddressesIn, Says
  <2> QED
    BY <1>2, <2>1
<1> QED
  BY <1>1, <1>4 DEF RemotesIn

\* An address is a local, or a remote when there was a -r.
LEMMA AddressesGrow ==
  ASSUME NEW line, NEW j \in Nat, j > 0, NEW V, j \notin V, NEW U, NEW n, Reads(V, j, U, n),
         line[j] \in Word \ Flag
  PROVE  /\ AddressesIn(line, U, n) = AddressesIn(line, V, j) \cup {j}
         /\ RemotesIn(line, U, n) = IF Says(line, V, j, {"-r"}) = {} THEN RemotesIn(line, V, j)
                                    ELSE RemotesIn(line, V, j) \cup {j}
<1>1. AddressesIn(line, U, n) = AddressesIn(line, V, j) \cup {j}
  <2>1. {k \in {j} : line[k] \in Word \ Flag} = {j}
    OBVIOUS
  <2>2. Says(line, U, n, Word \ Flag)
          = Says(line, V, j, Word \ Flag) \cup {k \in {j} : line[k] \in Word \ Flag}
    BY SaysGrows
  <2> QED
    BY <2>1, <2>2 DEF AddressesIn
<1>2. Says(line, U, n, {"-r"}) = Says(line, V, j, {"-r"})
  <2>1. {k \in {j} : line[k] \in {"-r"}} = {}
    BY DEF Flag
  <2>2. Says(line, U, n, {"-r"}) = Says(line, V, j, {"-r"}) \cup {k \in {j} : line[k] \in {"-r"}}
    BY SaysGrows
  <2> QED
    BY <2>1, <2>2
<1>3. \A r \in Says(line, V, j, {"-r"}) : r < j
  BY DEF Says
<1>4. j \in RemotesIn(line, U, n) <=> Says(line, V, j, {"-r"}) # {}
  <2>1. j \in AddressesIn(line, U, n)
    BY <1>1
  <2> QED
    BY <1>2, <1>3, <2>1 DEF RemotesIn
<1>5. \A k \in AddressesIn(line, V, j) : k # j /\ (k \in RemotesIn(line, U, n) <=> k \in RemotesIn(line, V, j))
  <2>1. j \notin AddressesIn(line, V, j)
    BY DEF AddressesIn, Says
  <2> QED
    BY <1>1, <1>2, <2>1 DEF RemotesIn
<1>6. RemotesIn(line, U, n) \subseteq AddressesIn(line, V, j) \cup {j} /\ RemotesIn(line, V, j) \subseteq AddressesIn(line, V, j)
  BY <1>1 DEF RemotesIn
<1>7. RemotesIn(line, U, n) \ {j} = RemotesIn(line, V, j)
  BY <1>5, <1>6
<1>8. RemotesIn(line, U, n) = IF j \in RemotesIn(line, U, n) THEN RemotesIn(line, V, j) \cup {j}
                                                          ELSE RemotesIn(line, V, j)
  BY <1>7
<1> QED
  BY <1>1, <1>4, <1>8

\* What an option says last, when one more argument is read.
LEMMA LastGrows ==
  ASSUME NEW line, NEW j \in Nat, j > 0, NEW V, j \notin V, NEW U, NEW n, Reads(V, j, U, n), NEW w
  PROVE  /\ line[j] = w => /\ Says(line, U, n, {w}) # {}
                           /\ \A k : Last(Says(line, U, n, {w}), k) => k = j
         /\ line[j] # w => Says(line, U, n, {w}) = Says(line, V, j, {w})
         /\ \A k : Last(Says(line, V, j, {w}), k) => k \in 1 .. j
<1>1. Says(line, U, n, {w}) = Says(line, V, j, {w}) \cup {k \in {j} : line[k] \in {w}}
  BY SaysGrows
<1>2. \A k \in Says(line, V, j, {w}) : k \in 1 .. j - 1
  BY DEF Says
<1>3. ASSUME line[j] = w
      PROVE  Says(line, U, n, {w}) # {} /\ \A k : Last(Says(line, U, n, {w}), k) => k = j
  <2>1. j \in Says(line, U, n, {w})
    BY <1>1, <1>3
  <2>2. ASSUME NEW k, Last(Says(line, U, n, {w}), k) PROVE k = j
    <3>1. j <= k /\ (k = j \/ k \in 1 .. j - 1)
      BY <1>1, <1>2, <2>1, <2>2 DEF Last
    <3> QED
      BY <3>1
  <2> QED
    BY <2>1, <2>2
<1>4. line[j] # w => Says(line, U, n, {w}) = Says(line, V, j, {w})
  BY <1>1
<1>5. ASSUME NEW k, Last(Says(line, V, j, {w}), k) PROVE k \in 1 .. j
  BY <1>2, <1>5 DEF Last
<1> QED
  BY <1>3, <1>4, <1>5

\* What an argument does, by what it says; the next one is n.
LEMMA ReadsOne ==
  ASSUME IInv, ReadArgument, ~ReadFails
  PROVE  /\ i \in Nat /\ i > 0 /\ i < Len(args) /\ Len(args) \in Nat /\ args[i] \in Word
         /\ args' = args /\ parser = "reads" /\ parser' = "reads"
         /\ i' = IF args[i] \in {"-r"} \cup OtherFlag THEN i + 1 ELSE i + 2
         /\ filling' = IF args[i] = "-r" THEN "remotes" ELSE filling
         /\ \/ /\ args[i] = "-p"
               /\ config' = [config EXCEPT !.protocol = getProtocol(args[i + 1])]
            \/ /\ args[i] \in SizeOption
               /\ config' = [config EXCEPT !.sizes[args[i]] = Stored(args[i], Number[args[i + 1]])]
            \/ args[i] \in {"-r"} \cup OtherFlag /\ config' = config
            \/ /\ args[i] \notin Flag
               /\ \E a \in Address :
                    /\ a = IPSocket(args[i], Number[args[i + 1]] % Ports)
                    /\ config' = IF filling = "locals" THEN [config EXCEPT !.locals = Append(@, a)]
                                                       ELSE [config EXCEPT !.remotes = Append(@, a)]
<1>1. args \in Seq(Word) /\ i \in 1 .. Len(args) + 1
  BY DEF IInv, TypeOK
<1>2. parser = "reads" /\ i < Len(args) /\ args' = args /\ parser' = parser
  BY DEF ReadArgument, ReadProtocol, ReadSize, ReadRemotes, SkipFlag, ReadAddress, More, Advance
<1>3. i \in Nat /\ i > 0 /\ Len(args) \in Nat /\ args[i] \in Word
  BY <1>1, <1>2
<1>4. CASE ReadProtocol
  <2>1. args[i] \notin {"-r"} \cup OtherFlag
    BY <1>4, WordAssumption DEF ReadProtocol
  <2> QED
    BY <1>2, <1>3, <1>4, <2>1 DEF ReadProtocol, Advance
<1>5. CASE ReadSize
  <2>1. args[i] \notin {"-r"} \cup OtherFlag
    BY <1>5, WordAssumption DEF ReadSize, SizeOption
  <2> QED
    BY <1>2, <1>3, <1>5, <2>1 DEF ReadSize, Advance
<1>6. CASE ReadRemotes
  BY <1>2, <1>3, <1>6 DEF ReadRemotes, Advance
<1>7. CASE SkipFlag
  <2>1. args[i] # "-r"
    BY <1>7, WordAssumption DEF SkipFlag
  <2> QED
    BY <1>2, <1>3, <1>7, <2>1 DEF SkipFlag, Advance
<1>8. CASE ReadAddress
  <2>1. args[i] \notin Flag /\ args[i] \notin {"-r"} \cup OtherFlag
    BY <1>8 DEF ReadAddress, Flag
  <2>2. Number[args[i + 1]] \in Int
    BY <1>8, WordAssumption DEF ReadAddress
  <2>3. PICK a \in Address : a = IPSocket(args[i], Number[args[i + 1]] % Ports)
    BY <1>3, <2>2, PortRange, IPSocketType
  <2>4. /\ i' = i + 2 /\ filling' = filling
        /\ config' = IF filling = "locals" THEN [config EXCEPT !.locals = Append(@, a)]
                                           ELSE [config EXCEPT !.remotes = Append(@, a)]
    BY <1>8, <2>3 DEF ReadAddress, Advance, portOf
  <2> QED
    BY <1>2, <1>3, <2>1, <2>3, <2>4
<1> QED
  BY <1>4, <1>5, <1>6, <1>7, <1>8 DEF ReadArgument

\* The configuration follows what one more argument says.
LEMMA MeansMore ==
  ASSUME IInv, ReadArgument, ~ReadFails, NEW V, i \notin V, NEW U, NEW n, Reads(V, i, U, n),
         Means(args, config, V, i),
         filling = IF Says(args, V, i, {"-r"}) = {} THEN "locals" ELSE "remotes"
  PROVE  Means(args, config', U, n)
<1>1. i \in Nat /\ i > 0 /\ args[i] \in Word /\ config \in Config
  BY ReadsOne DEF IInv, TypeOK
<1>2. /\ config.locals \in Seq(Address) /\ config.remotes \in Seq(Address)
      /\ config = [locals |-> config.locals, remotes |-> config.remotes,
                   protocol |-> config.protocol, sizes |-> config.sizes]
      /\ config.sizes \in [SizeOption -> Int]
  BY <1>1 DEF Config
<1>3. PICK c : c = config'
  OBVIOUS
<1> DEFINE w == args[i]
<1>4. n \in {i + 1, i + 2}
  BY DEF Reads
<1>5. \A v : /\ w = v => /\ Says(args, U, n, {v}) # {}
                         /\ \A k : Last(Says(args, U, n, {v}), k) => k = i
             /\ w # v => Says(args, U, n, {v}) = Says(args, V, i, {v})
             /\ \A k : Last(Says(args, V, i, {v}), k) => k \in 1 .. i
  BY <1>1, LastGrows, Zenon
<1>6. w \in Flag => /\ AddressesIn(args, U, n) = AddressesIn(args, V, i)
                    /\ RemotesIn(args, U, n) = RemotesIn(args, V, i)
  BY <1>1, FlagsAddNone
<1>7. /\ Lists(args, config.locals, AddressesIn(args, V, i) \ RemotesIn(args, V, i))
      /\ Lists(args, config.remotes, RemotesIn(args, V, i))
      /\ Says(args, V, i, {"-p"}) = {} => config.protocol = "unset"
      /\ \A k \in 1 .. i : Last(Says(args, V, i, {"-p"}), k) => config.protocol = getProtocol(args[k + 1])
      /\ \A o \in SizeOption : Says(args, V, i, {o}) = {} => config.sizes[o] = 0
      /\ \A k \in 1 .. i, o \in SizeOption :
           Last(Says(args, V, i, {o}), k) => config.sizes[o] = Stored(o, Number[args[k + 1]])
  BY DEF Means
<1>8. \/ w # "-p" /\ c.protocol = config.protocol
      \/ w = "-p" /\ c.protocol = getProtocol(args[i + 1])
  <2>1. CASE w = "-p"
    <3>1. w \notin SizeOption /\ w \notin {"-r"} \cup OtherFlag /\ w \in Flag
      BY <2>1, WordAssumption DEF SizeOption, Flag
    <3>2. config' = [config EXCEPT !.protocol = getProtocol(args[i + 1])]
      BY <3>1, ReadsOne
    <3> QED
      BY <1>2, <1>3, <2>1, <3>2
  <2>2. CASE w # "-p"
    <3>1. CASE w \in Flag
      <4>1. \/ config' = [config EXCEPT !.sizes[args[i]] = Stored(args[i], Number[args[i + 1]])]
            \/ config' = config
        BY <2>2, <3>1, ReadsOne
      <4> QED
        BY <1>2, <1>3, <2>2, <4>1
    <3>2. CASE w \notin Flag
      <4>1. PICK a \in Address :
              config' = IF filling = "locals" THEN [config EXCEPT !.locals = Append(@, a)]
                                              ELSE [config EXCEPT !.remotes = Append(@, a)]
        BY <3>2, ReadsOne DEF Flag
      <4> QED
        BY <1>2, <1>3, <2>2, <4>1
    <3> QED
      BY <3>1, <3>2
  <2> QED
    BY <2>1, <2>2
<1>9. \A o \in SizeOption : \/ w # o /\ c.sizes[o] = config.sizes[o]
                            \/ w = o /\ c.sizes[o] = Stored(o, Number[args[i + 1]])
  <2> SUFFICES ASSUME NEW o \in SizeOption
               PROVE  \/ w # o /\ c.sizes[o] = config.sizes[o]
                      \/ w = o /\ c.sizes[o] = Stored(o, Number[args[i + 1]])
    OBVIOUS
  <2>1. CASE w \in SizeOption
    <3>1. w # "-p" /\ w \notin {"-r"} \cup OtherFlag /\ w \in Flag
      BY <2>1, WordAssumption DEF SizeOption, Flag
    <3>2. config' = [config EXCEPT !.sizes[w] = Stored(w, Number[args[i + 1]])]
      BY <3>1, ReadsOne
    <3> QED
      BY <1>2, <1>3, <2>1, <3>2
  <2>2. CASE w \notin SizeOption
    <3>1. w # o /\ (w \in Flag \/ w \notin Flag)
      BY <2>2
    <3>2. CASE w \in Flag
      <4>1. config' = config \/ config' = [config EXCEPT !.protocol = getProtocol(args[i + 1])]
        BY <2>2, <3>2, ReadsOne
      <4> QED
        BY <1>2, <1>3, <3>1, <4>1
    <3>3. CASE w \notin Flag
      <4>1. PICK a \in Address :
              config' = IF filling = "locals" THEN [config EXCEPT !.locals = Append(@, a)]
                                              ELSE [config EXCEPT !.remotes = Append(@, a)]
        BY <3>3, ReadsOne DEF Flag
      <4> QED
        BY <1>2, <1>3, <3>1, <4>1
    <3> QED
      BY <3>1, <3>2, <3>3
  <2> QED
    BY <2>1, <2>2
<1>10. /\ Lists(args, c.locals, AddressesIn(args, U, n) \ RemotesIn(args, U, n))
       /\ Lists(args, c.remotes, RemotesIn(args, U, n))
  <2>1. CASE w \in Flag
    <3>1. c.locals = config.locals /\ c.remotes = config.remotes
      BY <1>2, <1>3, <2>1, ReadsOne DEF SizeOption, Flag
    <3> QED
      BY <1>6, <1>7, <2>1, <3>1
  <2>2. CASE w \notin Flag
    <3>1. PICK a \in Address :
            /\ a = IPSocket(args[i], Number[args[i + 1]] % Ports)
            /\ config' = IF filling = "locals" THEN [config EXCEPT !.locals = Append(@, a)]
                                               ELSE [config EXCEPT !.remotes = Append(@, a)]
      BY <2>2, ReadsOne DEF Flag
    <3>2. IF filling = "locals" THEN c.locals = Append(config.locals, a) /\ c.remotes = config.remotes
                                ELSE c.locals = config.locals /\ c.remotes = Append(config.remotes, a)
      BY <1>2, <1>3, <3>1
    <3>3. /\ AddressesIn(args, U, n) = AddressesIn(args, V, i) \cup {i}
          /\ RemotesIn(args, U, n) = IF Says(args, V, i, {"-r"}) = {} THEN RemotesIn(args, V, i)
                                     ELSE RemotesIn(args, V, i) \cup {i}
      BY <1>1, <2>2, AddressesGrow
    <3>4. /\ AddressesIn(args, V, i) \in SUBSET (1 .. i - 1)
          /\ RemotesIn(args, V, i) \in SUBSET (1 .. i - 1)
          /\ i \notin 1 .. i - 1
      BY <1>1 DEF AddressesIn, RemotesIn, Says
    <3> HIDE DEF w
    <3>5. CASE Says(args, V, i, {"-r"}) = {}
      <4>1. AddressesIn(args, U, n) \ RemotesIn(args, U, n) = (AddressesIn(args, V, i) \ RemotesIn(args, V, i)) \cup {i}
        BY <3>3, <3>4, <3>5
      <4>2. Lists(args, c.locals, (AddressesIn(args, V, i) \ RemotesIn(args, V, i)) \cup {i})
        <5>1. AddressesIn(args, V, i) \ RemotesIn(args, V, i) \in SUBSET (1 .. i - 1)
          BY <3>4
        <5>2. c.locals = Append(config.locals, a)
          BY <3>2, <3>5
        <5>3. \A S \in SUBSET (1 .. i - 1) :
                Lists(args, config.locals, S) => Lists(args, Append(config.locals, a), S \cup {i})
          BY <1>1, <1>2, <3>1, ListsGrow
        <5> QED
          BY <1>7, <5>1, <5>2, <5>3
      <4>3. Lists(args, c.remotes, RemotesIn(args, U, n))
        BY <1>7, <3>2, <3>3, <3>5
      <4> QED
        BY <4>1, <4>2, <4>3
    <3>6. CASE Says(args, V, i, {"-r"}) # {}
      <4>1. AddressesIn(args, U, n) \ RemotesIn(args, U, n) = AddressesIn(args, V, i) \ RemotesIn(args, V, i)
        BY <3>3, <3>4, <3>6
      <4>2. Lists(args, c.remotes, RemotesIn(args, V, i) \cup {i})
        <5>1. c.remotes = Append(config.remotes, a)
          BY <3>2, <3>6
        <5>2. \A S \in SUBSET (1 .. i - 1) :
                Lists(args, config.remotes, S) => Lists(args, Append(config.remotes, a), S \cup {i})
          BY <1>1, <1>2, <3>1, ListsGrow
        <5> QED
          BY <1>7, <3>4, <5>1, <5>2
      <4>3. Lists(args, c.locals, AddressesIn(args, V, i) \ RemotesIn(args, V, i))
        BY <1>7, <3>2, <3>6
      <4> QED
        BY <3>3, <3>6, <4>1, <4>2, <4>3
    <3> QED
      BY <3>5, <3>6
  <2> QED
    BY <2>1, <2>2
<1>11. /\ Says(args, U, n, {"-p"}) = {} => c.protocol = "unset"
       /\ \A k \in 1 .. n : Last(Says(args, U, n, {"-p"}), k) => c.protocol = getProtocol(args[k + 1])
  <2>1. CASE w = "-p"
    BY <1>5, <1>8, <2>1
  <2>2. CASE w # "-p"
    BY <1>5, <1>7, <1>8, <2>2
  <2> QED
    BY <2>1, <2>2
<1>12. ASSUME NEW o \in SizeOption
       PROVE  /\ Says(args, U, n, {o}) = {} => c.sizes[o] = 0
              /\ \A k \in 1 .. n : Last(Says(args, U, n, {o}), k) => c.sizes[o] = Stored(o, Number[args[k + 1]])
  <2>1. CASE w = o
    <3>1. c.sizes[o] = Stored(o, Number[args[i + 1]])
      BY <1>9, <2>1
    <3>2. Says(args, U, n, {o}) # {} /\ \A k : Last(Says(args, U, n, {o}), k) => k = i
      BY <1>5, <2>1, Zenon
    <3> QED
      BY <3>1, <3>2
  <2>2. CASE w # o
    <3>1. c.sizes[o] = config.sizes[o]
      BY <1>9, <2>2
    <3>2. /\ Says(args, U, n, {o}) = Says(args, V, i, {o})
          /\ \A k : Last(Says(args, V, i, {o}), k) => k \in 1 .. i
      BY <1>5, <2>2, Zenon
    <3>3. /\ Says(args, V, i, {o}) = {} => config.sizes[o] = 0
          /\ \A k \in 1 .. i : Last(Says(args, V, i, {o}), k) => config.sizes[o] = Stored(o, Number[args[k + 1]])
      BY <1>7, Zenon
    <3> QED
      BY <3>1, <3>2, <3>3, Zenon
  <2> QED
    BY <2>1, <2>2
<1>13. Means(args, c, U, n)
  BY <1>10, <1>11, <1>12 DEF Means
<1> QED
  BY <1>3, <1>13

\* What has been read goes on to mean what it says.
LEMMA ParsedStep ==
  ASSUME IInv, Parsed, ReadArgument
  PROVE  Parsed'
<1>1. CASE ReadFails
  BY <1>1 DEF ReadFails, Parsed
<1>2. CASE ~ReadFails
  <2> USE <1>2
  <2>1. /\ i \in Nat /\ i > 0 /\ i < Len(args) /\ Len(args) \in Nat /\ args[i] \in Word
        /\ args' = args /\ parser = "reads" /\ parser' = "reads"
        /\ i' = IF args[i] \in {"-r"} \cup OtherFlag THEN i + 1 ELSE i + 2
        /\ filling' = IF args[i] = "-r" THEN "remotes" ELSE filling
    BY ReadsOne
  <2>2. PICK V \in SUBSET (1 .. Len(args)) :
          /\ AreValues(args, V, i) /\ i \notin V
          /\ Means(args, config, V, i)
          /\ filling = IF Says(args, V, i, {"-r"}) = {} THEN "locals" ELSE "remotes"
    BY <2>1 DEF Parsed
  <2>3. PICK n : n = IF args[i] \in {"-r"} \cup OtherFlag THEN i + 1 ELSE i + 2
    OBVIOUS
  <2>4. PICK U : U = IF args[i] \in {"-r"} \cup OtherFlag THEN V ELSE V \cup {i + 1}
    OBVIOUS
  <2>5. Reads(V, i, U, n) /\ i' = n
    BY <2>1, <2>3, <2>4 DEF Reads
  <2>6. AreValues(args, U, n) /\ n \notin U
    BY <2>1, <2>2, <2>3, <2>4, ValuesGrow
  <2>7. U \in SUBSET (1 .. Len(args)) /\ (n <= Len(args) \/ n - 1 \in U)
    <3>1. i + 1 \in 1 .. Len(args) /\ (i + 2) - 1 = i + 1
      BY <2>1
    <3> QED
      BY <2>1, <2>2, <2>3, <2>4, <3>1
  <2>8. filling' = IF Says(args, U, n, {"-r"}) = {} THEN "locals" ELSE "remotes"
    <3>1. Says(args, U, n, {"-r"}) = Says(args, V, i, {"-r"}) \cup {k \in {i} : args[k] \in {"-r"}}
      BY <2>1, <2>2, <2>5, SaysGrows
    <3>2. {k \in {i} : args[k] \in {"-r"}} = IF args[i] = "-r" THEN {i} ELSE {}
      OBVIOUS
    <3> QED
      BY <2>1, <2>2, <3>1, <3>2
  <2>9. Means(args, config', U, n)
    BY <2>1, <2>2, <2>5, MeansMore
  <2> QED
    BY <2>1, <2>5, <2>6, <2>7, <2>8, <2>9 DEF Parsed
<1> QED
  BY <1>1, <1>2

\* Nothing is read before the start, and nothing said.
LEMMA ParsedInit == Init => Parsed
<1> SUFFICES ASSUME Init PROVE Parsed
  OBVIOUS
<1>1. /\ i = 1 /\ filling = "locals" /\ parser = "reads"
      /\ config = [locals |-> <<>>, remotes |-> <<>>, protocol |-> "unset",
                   sizes |-> [o \in SizeOption |-> 0]]
  BY DEF Init, InitArguments
<1>2. AreValues(args, {}, 1)
  BY DEF AreValues
<1>3. \A W : Says(args, {}, 1, W) = {}
  BY DEF Says
<1>4. AddressesIn(args, {}, 1) = {} /\ RemotesIn(args, {}, 1) = {}
  BY <1>3 DEF AddressesIn, RemotesIn
<1>5. Lists(args, <<>>, {})
  <2> DEFINE at == [m \in {} |-> 0]
  <2>1. at \in [{} -> {}] /\ DOMAIN <<>> = {}
    OBVIOUS
  <2> HIDE DEF at
  <2> QED
    BY <2>1 DEF Lists
<1>6. \A v, k : ~Last(Says(args, {}, 1, {v}), k)
  BY <1>3 DEF Last
<1>7. Means(args, config, {}, 1)
  <2>1. Lists(args, config.locals, AddressesIn(args, {}, 1) \ RemotesIn(args, {}, 1))
    <3>1. AddressesIn(args, {}, 1) \ RemotesIn(args, {}, 1) = {} /\ config.locals = <<>>
      BY <1>1, <1>4
    <3> QED
      BY <1>5, <3>1
  <2>2. Lists(args, config.remotes, RemotesIn(args, {}, 1))
    BY <1>1, <1>4, <1>5
  <2>3. config.protocol = "unset" /\ \A o \in SizeOption : config.sizes[o] = 0
    BY <1>1
  <2> QED
    BY <1>6, <2>1, <2>2, <2>3 DEF Means
<1>8. {} \in SUBSET (1 .. Len(args)) /\ i \notin {}
  OBVIOUS
<1> QED
  BY <1>1, <1>2, <1>3, <1>7, <1>8 DEF Parsed

LEMMA ParsedNext == IInv /\ Parsed /\ [Next]_vars => Parsed'
<1> SUFFICES ASSUME IInv, Parsed, [Next]_vars PROVE Parsed'
  OBVIOUS
<1>1. CASE ReadArgument
  BY <1>1, ParsedStep
<1>2. CASE RunNetwork
  BY <1>2 DEF RunNetwork, Parsed
<1>3. CASE UNCHANGED <<args, i, filling, config, parser>>
  BY <1>3 DEF Parsed
<1> QED
  BY <1>1, <1>2, <1>3 DEF Next, vars

\* NetworkConfiguration.cpp:21: at the end of the loop the whole line has been
\* read, but for a last argument that nothing follows and that says nothing.
THEOREM LinesMeanWhatTheySay == Spec => []ArgumentsMeanWhatTheySay
<1>1. IInv /\ Parsed => ArgumentsMeanWhatTheySay
  <2> SUFFICES ASSUME IInv, Parsed, ArgumentsRead
               PROVE  \E V \in SUBSET DOMAIN args :
                        AreValues(args, V, Len(args)) /\ Means(args, config, V, Len(args))
    BY DEF ArgumentsMeanWhatTheySay
  <2>1. /\ Len(args) \in Nat /\ DOMAIN args = 1 .. Len(args) /\ i \in 1 .. Len(args) + 1
        /\ parser = "reads" /\ i >= Len(args)
    BY DEF IInv, TypeOK, ArgumentsRead
  <2>2. PICK V \in SUBSET (1 .. Len(args)) :
          /\ AreValues(args, V, i) /\ i \notin V
          /\ Means(args, config, V, i)
          /\ i <= Len(args) \/ i = 1 \/ i - 1 \in V
    BY <2>1 DEF Parsed
  <2>3. CASE i = Len(args)
    BY <2>1, <2>2, <2>3
  <2>4. CASE i = Len(args) + 1
    <3>1. PICK l \in Nat : l = Len(args)
      BY <2>1
    <3>2. AreValues(args, V, l)
      BY <2>2, <2>4, <3>1 DEF AreValues
    <3>3. l = 0 \/ l \in V
      BY <2>1, <2>2, <2>4, <3>1
    <3>4. \A W : Says(args, V, i, W) = Says(args, V, l, W)
      <4> SUFFICES ASSUME NEW W PROVE Says(args, V, i, W) = Says(args, V, l, W)
        OBVIOUS
      <4>1. \A k \in 1 .. i - 1 : k = l \/ k \in 1 .. l - 1
        BY <2>4, <3>1
      <4>2. \A k \in 1 .. l - 1 : k \in 1 .. i - 1
        BY <2>4, <3>1
      <4>3. \A k \in 1 .. i - 1 : k \notin V => k \in 1 .. l - 1
        BY <2>4, <3>1, <3>3, <4>1
      <4> QED
        BY <4>2, <4>3 DEF Says
    <3>5. AddressesIn(args, V, i) = AddressesIn(args, V, l)
      BY <3>4 DEF AddressesIn
    <3>6. RemotesIn(args, V, i) = RemotesIn(args, V, l)
      BY <3>4, <3>5 DEF RemotesIn
    <3>7. 1 .. l \subseteq 1 .. i
      BY <2>4, <3>1
    <3>8. Means(args, config, V, l)
      BY <2>2, <3>4, <3>5, <3>6, <3>7 DEF Means
    <3> QED
      BY <2>1, <3>1, <3>2, <3>8
  <2>5. i = Len(args) \/ i = Len(args) + 1
    <3>1. Len(args) \in Nat /\ i \in 1 .. Len(args) + 1 /\ i >= Len(args)
      BY <2>1
    <3>2. PICK l \in Nat : l = Len(args)
      BY <3>1
    <3>3. i \in 1 .. l + 1 /\ i >= l
      BY <3>1, <3>2
    <3>4. i = l \/ i = l + 1
      BY <3>3
    <3> QED
      BY <3>2, <3>4
  <2> QED
    BY <2>3, <2>4, <2>5
<1>2. Spec => []Parsed
  BY Invariant, ParsedInit, ParsedNext, PTL DEF Spec
<1> QED
  BY <1>1, <1>2, Invariant, PTL
==============================================================================
