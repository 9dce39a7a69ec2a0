------------------------------- MODULE Startup -------------------------------
(***************************************************************************)
(* From the command line to sockets that chat: main.cpp decides which      *)
(* network tasks there are, each makes its socket (SocketFactory.cpp, the  *)
(* constructors), listens and connects (NetworkTask.cpp, Socket.cpp).  The *)
(* tasks are threads of one process and share its descriptors.  What the   *)
(* sockets do afterwards is in the module of each; here stream sockets     *)
(* only accept and remove, the operations that move descriptors.           *)
(***************************************************************************)
EXTENDS Arguments, FileDescriptors

CONSTANTS
  Fd,            \* the descriptors the process may have, besides stdin and its like
  Localhost      \* 127.0.0.1

ASSUME FdAssumption == Fd \subseteq Nat
ASSUME LocalhostAssumption == Localhost \in IPv4 \cap Word

Task == {"network", "MME", "eNB1", "eNB2"}

VARIABLES
  pc,        \* pc[t]: where a network task stands
  conf,      \* conf[t]: the NetworkConfiguration it was given
  bound,     \* bound[t]: the addresses the kernel bound its socket to
  todo,      \* todo[t]: the remotes it has still to connect to
  heap       \* the FileDescriptor objects of all tasks

taskVars == <<pc, conf, bound, todo, heap>>
vars == <<args, i, filling, config, parser, taskVars>>

Pc == {"off", "create", "configure", "bind", "listen", "connect", "chat", "ended"}

\* Names of objects: Socket::fd, a local or temporary one, and one in the table of peers.
Member(t) == <<t, "fd", Invalid>>
Local(t) == <<t, "local", Invalid>>
Moved(t) == <<t, "moved", Invalid>>
Entry(t, key) == <<t, "peer", key>>
Name == Task \X {"fd", "local", "moved", "peer"} \X (Fd \cup {Invalid})

Init ==
  /\ InitArguments
  /\ pc = [t \in Task |-> "off"]
  /\ conf = [t \in Task |-> config]
  /\ bound = [t \in Task |-> <<>>]
  /\ todo = [t \in Task |-> <<>>]
  /\ heap = [obj |-> <<>>, open |-> {}]

-----------------------------------------------------------------------------
(* main *)

AnyProtocol == Protocol \cup {"other"}

IsUnix(c) == c.protocol \in {"Unix", "UnixForked"}

\* The port of the first remote changes.
Shifted_Front(ss) == [ss EXCEPT ![1].port = (@ + 17) % Ports]

\* remotes.back().port += 17
Shifted(ss) == [ss EXCEPT ![Len(ss)].port = (@ + 17) % Ports]

\* runPredefinedConfig: eNB2 also tries a port where nobody listens.
Predefined(c) ==
  LET mme == [c EXCEPT !.locals = Append(@, IPSocket(Localhost, 36412))]
      enb1 == [c EXCEPT !.locals = Append(@, IPSocket(Localhost, 36422)),
                        !.remotes = Append(@, Head(mme.locals))]
      enb2 == [c EXCEPT !.locals = Append(@, IPSocket(Localhost, 36423)),
                        !.remotes = Shifted(Append(@, Head(mme.locals)) \o enb1.locals)]
  IN [t \in Task |-> CASE t = "MME" -> mme [] t = "eNB1" -> enb1 [] t = "eNB2" -> enb2 [] OTHER -> c]

Start(tasks, cs) ==
  /\ conf' = cs
  /\ pc' = [t \in Task |-> IF t \in tasks THEN "create" ELSE "off"]

\* Remotes are enough for a single task.
Single_AnyAddress(c) == c.locals # <<>> \/ c.remotes # <<>> \/ IsUnix(c)

Single(c) == c.locals # <<>> \/ IsUnix(c)

\* A protocol that no argument named is whatever the memory held.
RunNetwork ==
  /\ ArgumentsRead
  /\ parser' = "done"
  /\ \E p \in AnyProtocol :
       /\ config.protocol \in {"unset", p}
       /\ LET c == [config EXCEPT !.protocol = p] IN
          /\ config' = c
          /\ IF Single(c) THEN Start({"network"}, [t \in Task |-> c])
                          ELSE Start({"MME", "eNB1", "eNB2"}, Predefined(c))
  /\ args' = <<>> /\ i' = 1 /\ filling' = "locals"
  /\ UNCHANGED <<bound, todo, heap>>

-----------------------------------------------------------------------------
(* The tasks. *)

Stream(c) == c.protocol \in {"TCP", "DCCP"}
BindsFront(c) == Stream(c) \/ c.protocol \in {"UDP", "UDP_Lite"}
Sctp(c) == ~BindsFront(c) /\ ~IsUnix(c)

\* chooseSocketFamily, and the family of the unix sockets
Family(c) ==
  IF IsUnix(c) THEN "unix"
  ELSE IF \E n \in DOMAIN c.locals : c.locals[n].family = "v6" THEN "v6" ELSE "v4"

\* The kernel gives the lowest descriptor that is free.
Lowest(f) == /\ f \in Fd \ heap.open
             /\ \A g \in Fd \ heap.open : f <= g

Goto(t, from, to) == pc[t] = from /\ pc' = [pc EXCEPT ![t] = to]

Owned(h, t) == {x \in DOMAIN h.obj : x[1] = t}

\* An exception, or the end of the loop: all objects of the task end.
Leave(t, h) ==
  /\ pc' = [pc EXCEPT ![t] = "ended"]
  /\ heap' = Destroy(h, Owned(h, t))
  /\ UNCHANGED <<conf, bound>>
  /\ todo' = [todo EXCEPT ![t] = <<>>]

\* Socket::Socket.  The forked socket puts its creation off.
CreateSocket(t) ==
  \/ /\ conf[t].protocol = "UnixForked" /\ Goto(t, "create", "chat")
     /\ UNCHANGED <<conf, bound, todo, heap>>
  \/ /\ conf[t].protocol # "UnixForked" /\ pc[t] = "create"
     /\ \/ Leave(t, heap)
        \/ /\ \E f \in Fd :
                /\ Lowest(f)
                /\ LET made == Open(Construct(heap, Member(t), Invalid), Moved(t), f)
                   IN heap' = Destroy(MoveAssign(made, Member(t), Moved(t)), {Moved(t)})
           /\ Goto(t, "create", "configure")
           /\ UNCHANGED <<conf, bound, todo>>

\* Every option of the socket's class is set, or the first that the kernel refuses
\* throws: those of SCTP depend on the sizes of the command line.
Configure(t) ==
  /\ pc[t] = "configure"
  /\ \/ Leave(t, heap)
     \/ Goto(t, "configure", "bind") /\ UNCHANGED <<conf, bound, todo, heap>>

\* checkPorts, and the conversions to sockaddrs
SctpCanBind(c) ==
  /\ \A n, m \in DOMAIN c.locals : c.locals[n].port = c.locals[m].port
  /\ \A n \in DOMAIN c.locals : Convertible(c.locals[n])

\* What the kernel is asked to bind.
Asked(c) ==
  IF IsUnix(c) THEN <<>>
  ELSE IF Sctp(c) THEN Walk(toSockaddrs(c.locals), Len(c.locals))
  ELSE <<toSockaddr(Head(c.locals))>>

\* bind of the socket's class: Socket, SocketSctp or SocketUnix
CanBind(c) ==
  \/ IsUnix(c)
  \/ Sctp(c) /\ SctpCanBind(c)
  \/ BindsFront(c) /\ Head(c.locals).family = Family(c)

\* What sctp_getladdrs returns for a bound socket: on one of IPv6 every address is
\* mapped.
Reported(t) ==
  [n \in DOMAIN bound[t] |->
     IF bound[t][n].family = "v4" /\ Family(conf[t]) = "v6" THEN Mapped(bound[t][n]) ELSE bound[t][n]]
getBoundAddresses(t) == getAddrs(Packed(Reported(t)), Len(bound[t]))

Bind(t) ==
  /\ pc[t] = "bind"
  /\ \/ Leave(t, heap)
     \/ /\ CanBind(conf[t])
        /\ bound' = [bound EXCEPT ![t] = Asked(conf[t])]
        /\ Goto(t, "bind", "listen")
        /\ UNCHANGED <<conf, todo, heap>>

Listen(t) ==
  /\ pc[t] = "listen"
  /\ \/ /\ Goto(t, "listen", "connect")
        /\ todo' = [todo EXCEPT ![t] = conf[t].remotes]
        /\ UNCHANGED <<conf, bound, heap>>
     \/ /\ Stream(conf[t]) \/ Sctp(conf[t])
        /\ Leave(t, heap)

\* Only an SCTP socket takes addresses of both families.
CanReach(c, remote) ==
  /\ Convertible(remote)
  /\ remote.family = Family(c) \/ (Sctp(c) /\ Family(c) = "v6")

\* Peers of datagram sockets are only entered into a table.
ConnectNext(t) ==
  /\ pc[t] = "connect" /\ todo[t] # <<>> /\ ~Stream(conf[t])
  /\ \/ /\ Sctp(conf[t]) => CanReach(conf[t], Head(todo[t]))
        /\ todo' = [todo EXCEPT ![t] = Tail(@)]
        /\ UNCHANGED <<pc, conf, bound, heap>>
     \/ Sctp(conf[t]) /\ Leave(t, heap)

\* peers.emplace(fd, Peer{move(fd), ...}): the key is read after the move.
Emplace(h, t) ==
  LET peer == MoveConstruct(h, Moved(t), Local(t))
      key == peer.obj[Local(t)].fd
      node == MoveConstruct(peer, Entry(t, key), Moved(t))
  IN Destroy(IF Entry(t, key) \in DOMAIN h.obj THEN peer ELSE node, {Moved(t), Local(t)})

\* createConnectSocket and connect.  What throws on the way ends the local object.
ConnectStream(t) ==
  /\ pc[t] = "connect" /\ todo[t] # <<>> /\ Stream(conf[t])
  /\ \/ Leave(t, heap)
     \/ \E f \in Fd :
          /\ Lowest(f)
          /\ LET made == Open(heap, Local(t), f) IN
             \/ Leave(t, made)
             \/ /\ CanReach(conf[t], Head(todo[t]))
                /\ heap' = Emplace(made, t)
                /\ todo' = [todo EXCEPT ![t] = Tail(@)]
                /\ UNCHANGED <<pc, conf, bound>>

Connected(t) ==
  /\ todo[t] = <<>> /\ Goto(t, "connect", "chat")
  /\ UNCHANGED <<conf, bound, todo, heap>>

\* handleCommUp: what accept returns goes through a pair into the table.
Accept(t) ==
  /\ pc[t] = "chat" /\ Stream(conf[t])
  /\ \E f \in Fd :
       /\ Lowest(f)
       /\ LET accepted == Open(heap, Moved(t), f)
              pair == Destroy(MoveConstruct(accepted, Local(t), Moved(t)), {Moved(t)})
          IN Leave(t, accepted) \/ (heap' = Emplace(pair, t) /\ UNCHANGED <<pc, conf, bound, todo>>)

\* peers.erase(fd)
RemovePeer(t) ==
  /\ pc[t] = "chat"
  /\ \E x \in Owned(heap, t) \ {Member(t)} : heap' = Destroy(heap, {x})
  /\ UNCHANGED <<pc, conf, bound, todo>>

Stop(t) == pc[t] = "chat" /\ Leave(t, heap)

TaskStep(t) ==
  \/ CreateSocket(t) \/ Configure(t) \/ Bind(t) \/ Listen(t) \/ ConnectNext(t)
  \/ ConnectStream(t) \/ Connected(t) \/ Accept(t) \/ RemovePeer(t) \/ Stop(t)

Next ==
  \/ ReadArgument /\ UNCHANGED taskVars
  \/ RunNetwork
  \/ \E t \in Task : TaskStep(t) /\ UNCHANGED <<args, i, filling, config, parser>>

Spec == Init /\ [][Next]_vars

-----------------------------------------------------------------------------
TypeOK ==
  /\ args \in Seq(Word)
  /\ i \in 1 .. Len(args) + 1
  /\ filling \in {"locals", "remotes"}
  /\ config \in Config
  /\ parser \in {"reads", "done", "threw"}
  /\ pc \in [Task -> Pc]
  /\ conf \in [Task -> Config]
  /\ DOMAIN bound = Task
  /\ todo \in [Task -> Seq(Address)]
  /\ IsHeap(heap, Name, Fd)

\* Whatever protocol an argument names, or memory holds when none does, a
\* socket that binds an address has one: the constructors take locals.front()
\* unseen, and only runNetwork, by the same protocol, decides who gets addresses.
LocalsToBind ==
  \A t \in Task : pc[t] \in {"create", "configure", "bind"} /\ ~IsUnix(conf[t]) => conf[t].locals # <<>>

\* Addresses of both families, packed for the kernel, arrive there as they were
\* given, in their order; those of a bound socket are read back as text that spells
\* the same endpoints, however long it is and mapped or not.
AddressesSurvivePacking ==
  \A t \in Task : bound[t] # <<>> /\ Sctp(conf[t]) =>
    /\ bound[t] = [n \in DOMAIN conf[t].locals |-> toSockaddr(conf[t].locals[n])]
    /\ \A n \in DOMAIN bound[t] : LET read == getBoundAddresses(t)[n] IN
         /\ read.addr.spells \in {bound[t][n].ip, Mapped(bound[t][n]).ip}
         /\ read.port = bound[t][n].port

\* The predefined tasks do not compete for an address, and both base stations
\* know the address of the MME, among whatever remotes the user has added.
PredefinedTasksMeet ==
  /\ \A t, u \in Task : \A n \in DOMAIN bound[t], m \in DOMAIN bound[u] :
       t # u => bound[t][n] # bound[u][m]
  /\ \A t \in {"eNB1", "eNB2"} : pc[t] # "off" =>
       \A n \in DOMAIN bound["MME"] :
         \E m \in DOMAIN conf[t].remotes :
           Convertible(conf[t].remotes[m]) /\ toSockaddr(conf[t].remotes[m]) = bound["MME"][n]

\* The threads share one table of descriptors: whatever fails, and wherever
\* objects were moved, every open descriptor has one object that will close it,
\* and no object will close one that another thread may have been given since.
DescriptorsOwned == AllOwned(heap)

\* A table entry is found by the number of the descriptor it owns, although the
\* number is read from an object after its contents were moved away.
KeysNameDescriptors ==
  \A x \in DOMAIN heap.obj :
    x[2] = "peer" => heap.obj[x] = [fd |-> x[3], should_close |-> TRUE] /\ x[3] # Invalid
=============================================================================
