---------------------------- MODULE TcpPeers_proofs ----------------------------
(***************************************************************************)
(* Proofs about TcpPeers, for any remotes and descriptors, and either      *)
(* class of socket.                                                        *)
(***************************************************************************)
EXTENDS TcpPeers, FiniteSetTheorems, TLAPS

Busy == {"start", "receive", "dispatch", "relock"}

\* Handlers run within a round only: receive() joins them.
HandlersWithinRound == loop # "round" => \A s \in Sock : hand[s] = "idle"

\* The connections to r that connect() opened and no handler has given up.
Ours(r) == {f \in DOMAIN peers : peers[f].remote = r /\ peers[f].ours /\ ~GivenUp(f)}

\* What r was promised: its connections, its reestablishments and the connect()
\* that is still to come.
Account(r) == Cardinality(Ours(r)) + reest[r] + (IF r \in todo THEN 1 ELSE 0)

\* OneConnectionOfOurs; the connections are finitely many, so that one more or
\* one less counts.
Accounts ==
  loop \notin Stopped =>
    \A r \in Remote :
      IsFiniteSet(Ours(r)) /\ Account(r) = IF r \in Configured THEN 1 ELSE 0

SafeInv == TypeOK /\ PeerFoundByHandler /\ TableOwnsDescriptors /\ HandlersWithinRound

IInv == SafeInv /\ Accounts

-----------------------------------------------------------------------------
(* What the steps do to the table and to the handlers. *)

\* A descriptor is entered into the table.
Enters(f, r, mine) ==
  /\ f \in Lowest
  /\ conn' = [conn EXCEPT ![f] = IF mine THEN "connecting" ELSE "open"]
  /\ peers' = [g \in DOMAIN peers \cup {f} |->
                 IF g = f THEN [remote |-> r, ours |-> mine] ELSE peers[g]]

\* It is one that the kernel has free, and the table is as it was for the others.
LEMMA EnterEntry ==
  ASSUME SafeInv, NEW r, NEW mine, NEW f, Enters(f, r, mine)
  PROVE  /\ f \in Fd /\ f \notin DOMAIN peers
         /\ DOMAIN peers' = DOMAIN peers \cup {f}
         /\ peers'[f] = [remote |-> r, ours |-> mine]
         /\ \A g \in DOMAIN peers : peers'[g] = peers[g]
<1>1. f \in Fd /\ conn[f] = "closed" /\ f \notin DOMAIN peers
  BY DEF Enters, Lowest, Free, SafeInv, TableOwnsDescriptors
<1> QED
  BY <1>1 DEF Enters

\* The table with the new entry is well formed, and its entries own what is open.
LEMMA EnterTable ==
  ASSUME SafeInv, NEW r \in Remote, NEW mine \in BOOLEAN, NEW f, Enters(f, r, mine)
  PROVE  /\ f \in Fd /\ f \notin DOMAIN peers
         /\ DOMAIN peers' = DOMAIN peers \cup {f}
         /\ peers'[f] = [remote |-> r, ours |-> mine]
         /\ \A g \in DOMAIN peers : peers'[g] = peers[g]
         /\ DOMAIN peers' \subseteq Fd
         /\ \A g \in DOMAIN peers' : peers'[g] \in [remote : Remote, ours : BOOLEAN]
         /\ conn' \in [Fd -> {"closed", "connecting", "open", "eof", "error"}]
         /\ TableOwnsDescriptors'
<1>1. f \in Fd /\ f \notin DOMAIN peers
  BY EnterEntry
<1>2. /\ DOMAIN peers' = DOMAIN peers \cup {f}
      /\ peers'[f] = [remote |-> r, ours |-> mine]
      /\ \A g \in DOMAIN peers : peers'[g] = peers[g]
  BY EnterEntry
<1>3. /\ DOMAIN peers' \subseteq Fd
      /\ \A g \in DOMAIN peers' : peers'[g] \in [remote : Remote, ours : BOOLEAN]
  BY <1>1, <1>2 DEF SafeInv, TypeOK
<1>4. /\ conn' \in [Fd -> {"closed", "connecting", "open", "eof", "error"}]
      /\ conn'[f] # "closed"
      /\ \A g \in Fd \ {f} : conn'[g] = conn[g]
  BY <1>1 DEF Enters, SafeInv, TypeOK
<1>5. TableOwnsDescriptors'
  BY <1>1, <1>2, <1>4 DEF SafeInv, TableOwnsDescriptors, Free
<1> QED
  BY <1>1, <1>2, <1>3, <1>4, <1>5

\* The destroyed socket has no peers and no open descriptors.
LEMMA StopTable ==
  ASSUME NEW label \in Stopped, Stop(label)
  PROVE  /\ DOMAIN peers' = {} /\ pending' = {} /\ loop' \in Stopped
         /\ conn' \in [Fd -> {"closed", "connecting", "open", "eof", "error"}]
         /\ inbox' \in [Fd -> Text \cup {"nothing"}]
         /\ TableOwnsDescriptors'
  BY DEF Stop, EmptyMap, TableOwnsDescriptors, Free

-----------------------------------------------------------------------------
(* Types, handlers and descriptors. *)

LEMMA InitSafe == Init => SafeInv
<1> SUFFICES ASSUME Init PROVE SafeInv
  OBVIOUS
<1>1. DOMAIN peers = {}
  BY DEF Init, EmptyMap
<1>2. lock \in Sock \cup {Nobody} /\ todo \subseteq Configured /\ kind \in Kinds
  BY DEF Init
<1>3. /\ conn \in [Fd -> {"closed", "connecting", "open", "eof", "error"}]
      /\ inbox \in [Fd -> Text \cup {"nothing"}]
      /\ reest \in [Remote -> Nat]
      /\ hand \in [Sock -> HandPc] /\ msg \in [Sock -> Text \cup {"nothing", "empty", "error"}]
  BY DEF Init, HandPc
<1>4. TypeOK
  BY <1>1, <1>2, <1>3 DEF Init, TypeOK
<1>5. PeerFoundByHandler /\ TableOwnsDescriptors /\ HandlersWithinRound
  BY <1>1 DEF Init, PeerFoundByHandler, TableOwnsDescriptors, HandlersWithinRound, Free, Sock
<1> QED
  BY <1>4, <1>5 DEF SafeInv

\* The kernel never closes a descriptor and never opens one.
LEMMA KernelSafe ==
  ASSUME SafeInv, KernelStep
  PROVE  SafeInv'
<1>1. /\ peers' = peers /\ reest' = reest /\ lock' = lock /\ loop' = loop
      /\ todo' = todo /\ kind' = kind /\ protocolOk' = protocolOk /\ hand' = hand /\ msg' = msg
  BY DEF KernelStep, tableVars, loopVars
<1>2. /\ conn' \in [Fd -> {"closed", "connecting", "open", "eof", "error"}]
      /\ \A f \in Fd : conn'[f] = "closed" <=> conn[f] = "closed"
      /\ inbox' \in [Fd -> Text \cup {"nothing"}]
      /\ pending' \subseteq Remote
  <2>1. CASE \E r \in Remote : RemoteConnects(r)
    BY <2>1 DEF RemoteConnects, SafeInv, TypeOK
  <2>2. CASE \E f \in Fd : RemoteSends(f)
    BY <2>2 DEF RemoteSends, SafeInv, TypeOK
  <2>3. ASSUME NEW f \in Fd, ConnectionChanges(f)
        PROVE  /\ conn' \in [Fd -> {"closed", "connecting", "open", "eof", "error"}]
               /\ \A g \in Fd : conn'[g] = "closed" <=> conn[g] = "closed"
               /\ inbox' = inbox /\ pending' = pending
    BY <2>3 DEF ConnectionChanges, Becomes, SafeInv, TypeOK
  <2> QED
    BY <2>1, <2>2, <2>3 DEF KernelStep, SafeInv, TypeOK
<1>3. TypeOK'
  BY <1>1, <1>2 DEF SafeInv, TypeOK
<1>4. TableOwnsDescriptors'
  BY <1>1, <1>2 DEF SafeInv, TableOwnsDescriptors, Free
<1>5. PeerFoundByHandler' /\ HandlersWithinRound'
  BY <1>1 DEF SafeInv, PeerFoundByHandler, HandlersWithinRound
<1> QED
  BY <1>3, <1>4, <1>5 DEF SafeInv

\* A connection is opened, or the attempt ends the task, between rounds.
LEMMA ConnectSafe ==
  ASSUME SafeInv, NEW r \in Remote, Connect(r),
         loop = "connect",
         todo' \subseteq Configured, reest' \in [Remote -> Nat],
         lock' = lock, kind' = kind, protocolOk' = protocolOk,
         hand' = hand, msg' = msg
  PROVE  SafeInv'
<1>1. \A s \in Sock : hand[s] = "idle"
  BY DEF SafeInv, HandlersWithinRound
<1>2. PeerFoundByHandler' /\ HandlersWithinRound'
  BY <1>1 DEF PeerFoundByHandler, HandlersWithinRound, Sock
<1>3. CASE Stop("threw")
  <2>1. "threw" \in Stopped
    BY DEF Stopped
  <2>2. TypeOK'
    BY <1>3, <2>1, StopTable DEF SafeInv, TypeOK
  <2> QED
    BY <1>2, <1>3, <2>1, <2>2, StopTable DEF SafeInv
<1>4. CASE ~Stop("threw")
  <2>1. PICK f \in Lowest : Enters(f, r, TRUE)
    BY <1>4 DEF Connect, Enters
  <2>2. loop' = loop /\ inbox' = inbox /\ pending' = pending
    BY <1>4 DEF Connect
  <2>3. TypeOK'
    BY <2>1, <2>2, EnterTable DEF SafeInv, TypeOK
  <2> QED
    BY <1>2, <2>1, <2>3, EnterTable DEF SafeInv
<1> QED
  BY <1>3, <1>4

\* The network task's own thread starts no handler while one runs, and none
\* runs when it opens connections or destroys the socket.
LEMMA LoopSafe ==
  ASSUME SafeInv, LoopStep
  PROVE  SafeInv'
<1>1. CASE ConnectNext
  <2>1. CASE \E r \in todo : Connect(r) /\ todo' = todo \ {r}
    <3>1. PICK r \in Remote : Connect(r) /\ todo' = todo \ {r}
      BY <2>1, ConfiguredAssumption DEF SafeInv, TypeOK
    <3>2. /\ todo' \subseteq Configured /\ reest' \in [Remote -> Nat] 
          /\ lock' = lock /\ kind' = kind /\ protocolOk' = protocolOk /\ hand' = hand
          /\ msg' = msg /\ loop = "connect"
      BY <1>1, <3>1 DEF ConnectNext, SafeInv, TypeOK
    <3> QED
      BY <3>1, <3>2, ConnectSafe
  <2>2. CASE ~\E r \in todo : Connect(r) /\ todo' = todo \ {r}
    <3>1. /\ peers' = peers /\ reest' = reest /\ lock' = lock
          /\ todo' = todo /\ kind' = kind /\ protocolOk' = protocolOk /\ hand' = hand
          /\ msg' = msg /\ conn' = conn /\ inbox' = inbox /\ pending' = pending
          /\ loop = "connect" /\ loop' = "launch"
      BY <1>1, <2>2 DEF ConnectNext, kernelVars
    <3> QED
      BY <3>1 DEF SafeInv, TypeOK, PeerFoundByHandler, TableOwnsDescriptors, Free, HandlersWithinRound
  <2> QED
    BY <2>1, <2>2
<1>3. CASE EndLaunch
  <2>1. /\ peers' = peers /\ reest' = reest /\ lock' = lock
        /\ todo' = todo /\ kind' = kind /\ protocolOk' = protocolOk /\ hand' = hand
        /\ msg' = msg /\ conn' = conn /\ inbox' = inbox /\ pending' = pending
        /\ loop = "launch" /\ loop' = "select"
    BY <1>3 DEF EndLaunch, kernelVars, tableVars
  <2> QED
    BY <2>1 DEF SafeInv, TypeOK, PeerFoundByHandler, TableOwnsDescriptors, Free, HandlersWithinRound
<1>4. CASE Select
  <2>1. /\ peers' = peers /\ reest' = reest /\ lock' = lock
        /\ todo' = todo /\ kind' = kind /\ protocolOk' = protocolOk
        /\ msg' = msg /\ conn' = conn /\ inbox' = inbox /\ pending' = pending
        /\ loop = "select" /\ loop' = "round"
        /\ hand' = [s \in Sock |-> IF Readable(s) THEN "start" ELSE "idle"]
    BY <1>4 DEF Select, kernelVars, tableVars
  <2>2. hand' \in [Sock -> HandPc]
    BY <2>1 DEF HandPc
  <2>3. TypeOK' /\ TableOwnsDescriptors' /\ HandlersWithinRound'
    BY <2>1, <2>2 DEF SafeInv, TypeOK, TableOwnsDescriptors, Free, HandlersWithinRound
  <2>4. \A f \in Fd : f # MainFd /\ f \in Sock
    BY DescriptorAssumption DEF Sock
  <2>5. PeerFoundByHandler'
    BY <2>1, <2>4 DEF PeerFoundByHandler, Readable
  <2> QED
    BY <2>3, <2>5 DEF SafeInv
<1>5. CASE JoinHandlers
  <2>1. /\ reest' = reest /\ lock' = lock
        /\ todo' = todo /\ kind' = kind /\ protocolOk' = protocolOk
        /\ hand' = [s \in Sock |-> "idle"] /\ msg' = [s \in Sock |-> "nothing"]
    BY <1>5 DEF JoinHandlers
  <2>2. hand' \in [Sock -> HandPc] /\ msg' \in [Sock -> Text \cup {"nothing", "empty", "error"}]
    BY <2>1 DEF HandPc
  <2>3. PeerFoundByHandler' /\ HandlersWithinRound'
    BY <2>1 DEF PeerFoundByHandler, HandlersWithinRound, Sock
  <2>4. CASE Stop("threw")
    <3>1. "threw" \in Stopped
      BY DEF Stopped
    <3>2. TypeOK'
      BY <2>1, <2>2, <2>4, <3>1, StopTable DEF SafeInv, TypeOK
    <3> QED
      BY <2>3, <2>4, <3>1, <3>2, StopTable DEF SafeInv
  <2>5. CASE ~Stop("threw")
    <3>1. loop' = "chat" /\ peers' = peers /\ conn' = conn /\ inbox' = inbox /\ pending' = pending
      BY <1>5, <2>5 DEF JoinHandlers, kernelVars
    <3>2. TypeOK'
      BY <2>1, <2>2, <3>1 DEF SafeInv, TypeOK
    <3> QED
      BY <2>3, <3>1, <3>2 DEF SafeInv, TableOwnsDescriptors, Free
  <2> QED
    BY <2>4, <2>5
<1>6. CASE Chat
  <2>1. /\ reest' = reest /\ lock' = lock
        /\ todo' = todo /\ kind' = kind /\ protocolOk' = protocolOk
        /\ hand' = hand /\ msg' = msg /\ loop = "chat"
    BY <1>6 DEF Chat
  <2>2. PeerFoundByHandler' /\ HandlersWithinRound'
    BY <2>1 DEF SafeInv, PeerFoundByHandler, HandlersWithinRound, Sock
  <2>3. ASSUME NEW label \in Stopped, Stop(label)
        PROVE  SafeInv'
    <3>1. TypeOK'
      BY <2>1, <2>3, StopTable DEF SafeInv, TypeOK
    <3> QED
      BY <2>2, <2>3, <3>1, StopTable DEF SafeInv
  <2>4. CASE loop' = "launch" /\ peers' = peers /\ UNCHANGED kernelVars
    BY <2>1, <2>2, <2>4 DEF SafeInv, TypeOK, TableOwnsDescriptors, Free, kernelVars
  <2> QED
    BY <1>6, <2>3, <2>4 DEF Chat, Stopped
<1> QED
  BY <1>1, <1>3, <1>4, <1>5, <1>6 DEF LoopStep

\* The thread of handleCommUp enters what it accepted.
LEMMA CommUpSafe ==
  ASSUME SafeInv, HandleCommUp
  PROVE  SafeInv'
<1>1. /\ inbox' = inbox /\ reest' = reest /\ lock' = lock /\ loop' = loop
      /\ todo' = todo /\ kind' = kind /\ protocolOk' = protocolOk /\ msg' = msg
      /\ pending' \subseteq Remote /\ hand[MainFd] = "start"
  BY DEF HandleCommUp, loopVars, At, SafeInv, TypeOK
<1>2. /\ hand' \in [Sock -> HandPc]
      /\ \A s \in Sock \ {MainFd} : hand'[s] = hand[s]
  BY DEF HandleCommUp, At, SafeInv, TypeOK, HandPc
<1>3. loop = "round"
  BY <1>1 DEF SafeInv, HandlersWithinRound, Sock
<1>4. HandlersWithinRound'
  BY <1>1, <1>3 DEF HandlersWithinRound
<1>5. \A f \in Fd : f \in Sock \ {MainFd}
  BY DescriptorAssumption DEF Sock
<1>6. CASE peers' = peers /\ conn' = conn
  <2>1. TypeOK' /\ TableOwnsDescriptors' /\ PeerFoundByHandler'
    BY <1>1, <1>2, <1>5, <1>6 DEF SafeInv, TypeOK, TableOwnsDescriptors, Free, PeerFoundByHandler
  <2> QED
    BY <1>4, <2>1 DEF SafeInv
<1>7. CASE ~(peers' = peers /\ conn' = conn)
  <2>1. PICK r \in Remote, f \in Lowest : Enters(f, r, FALSE)
    <3>1. PICK r \in pending, f \in Lowest :
            /\ conn' = [conn EXCEPT ![f] = "open"]
            /\ peers' = [g \in DOMAIN peers \cup {f} |->
                           IF g = f THEN [remote |-> r, ours |-> FALSE] ELSE peers[g]]
      BY <1>7 DEF HandleCommUp
    <3>2. r \in Remote /\ Enters(f, r, FALSE)
      BY <3>1 DEF Enters, SafeInv, TypeOK
    <3> QED
      BY <3>2
  <2>2. TypeOK'
    BY <1>1, <1>2, <2>1, EnterTable DEF SafeInv, TypeOK
  <2>3. PeerFoundByHandler'
    BY <1>2, <1>5, <2>1, EnterTable DEF SafeInv, PeerFoundByHandler
  <2> QED
    BY <1>4, <2>1, <2>2, <2>3, EnterTable DEF SafeInv
<1> QED
  BY <1>6, <1>7

\* handleGracefulShutdown and handleCommLost stop where they lock peers_mtx again.
LEMMA RemoveSafe ==
  ASSUME SafeInv, NEW f \in Fd, hand[f] = "dispatch", RemoveLocked(f),
         reest' \in [Remote -> Nat],
         pending' = pending, loop' = loop, todo' = todo, kind' = kind,
         protocolOk' = protocolOk, msg' = msg
  PROVE  SafeInv'
<1>1. \A g \in Fd : g \in Sock
  BY DEF Sock
<1>2. loop = "round"
  BY <1>1 DEF SafeInv, HandlersWithinRound
<1>3. HandlersWithinRound'
  BY <1>2 DEF HandlersWithinRound
<1>4. /\ hand' \in [Sock -> HandPc]
      /\ \A s \in Sock \ {f} : hand'[s] = hand[s]
  BY <1>1 DEF RemoveLocked, At, SafeInv, TypeOK, HandPc
<1>5. lock' = f /\ peers' = peers /\ conn' = conn /\ inbox' = inbox
  BY DEF RemoveLocked
<1>6. TypeOK' /\ TableOwnsDescriptors'
  BY <1>1, <1>4, <1>5 DEF SafeInv, TypeOK, TableOwnsDescriptors, Free
<1>7. PeerFoundByHandler'
  BY <1>1, <1>4, <1>5 DEF SafeInv, PeerFoundByHandler
<1> QED
  BY <1>3, <1>6, <1>7 DEF SafeInv

\* The handler thread of a peer's descriptor.
LEMMA PeerSafe ==
  ASSUME SafeInv, NEW f \in Fd, PeerHandlerStep(f)
  PROVE  SafeInv'
<1>1. \A g \in Fd : g \in Sock
  BY DEF Sock
<1>2. ASSUME hand[f] \in Busy, hand' \in [Sock -> HandPc], \A s \in Sock \ {f} : hand'[s] = hand[s],
             msg' \in [Sock -> Text \cup {"nothing", "empty", "error"}],
             inbox' \in [Fd -> Text \cup {"nothing"}],
             conn' = conn, pending' = pending, UNCHANGED tableVars, lock' = lock, UNCHANGED loopVars
      PROVE  SafeInv'
  <2>1. /\ peers' = peers /\ reest' = reest /\ loop' = loop /\ todo' = todo
        /\ kind' = kind /\ protocolOk' = protocolOk
    BY <1>2 DEF tableVars, loopVars
  <2>2. loop = "round"
    BY <1>1, <1>2 DEF SafeInv, HandlersWithinRound, Busy
  <2>3. TypeOK' /\ TableOwnsDescriptors' /\ HandlersWithinRound'
    BY <1>2, <2>1, <2>2 DEF SafeInv, TypeOK, TableOwnsDescriptors, Free, HandlersWithinRound
  <2>4. PeerFoundByHandler'
    BY <1>1, <1>2, <2>1 DEF SafeInv, PeerFoundByHandler, Busy
  <2> QED
    BY <2>3, <2>4 DEF SafeInv
<1>3. ASSUME NEW from \in Busy, NEW to \in HandPc, At(f, from, to)
      PROVE  hand[f] \in Busy /\ hand' \in [Sock -> HandPc] /\ \A s \in Sock \ {f} : hand'[s] = hand[s]
  BY <1>1, <1>3 DEF At, SafeInv, TypeOK
<1>4. {"start", "receive", "dispatch"} \subseteq Busy /\ {"receive", "dispatch", "done", "threw"} \subseteq HandPc
  BY DEF Busy, HandPc
<1>5. CASE GetBuffer(f)
  BY <1>2, <1>3, <1>4, <1>5 DEF GetBuffer, kernelVars, SafeInv, TypeOK
<1>6. CASE ReceiveMessage(f)
  <2>1. /\ msg' \in [Sock -> Text \cup {"nothing", "empty", "error"}]
        /\ inbox' \in [Fd -> Text \cup {"nothing"}]
    BY <1>1, <1>6 DEF ReceiveMessage, SafeInv, TypeOK
  <2> QED
    BY <1>2, <1>3, <1>4, <1>6, <2>1 DEF ReceiveMessage
<1>7. CASE HandleText(f)
  BY <1>2, <1>3, <1>4, <1>7 DEF HandleText, kernelVars, SafeInv, TypeOK
<1>8. CASE HandleGracefulShutdown(f)
  <2>1. reest' \in [Remote -> Nat]
    BY <1>8 DEF HandleGracefulShutdown, SafeInv, TypeOK
  <2> QED
    BY <1>8, <2>1, RemoveSafe DEF HandleGracefulShutdown, Reacts, loopVars
<1>9. CASE HandleCommLost(f)
  <2>1. f \in DOMAIN peers
    BY <1>9 DEF HandleCommLost, Reacts, SafeInv, PeerFoundByHandler
  <2>2. PICK r \in Remote : r = peers[f].remote
    BY <2>1 DEF SafeInv, TypeOK
  <2>3. reest' = IF peers[f].ours THEN [reest EXCEPT ![r] = reest[r] + 1] ELSE reest
    BY <1>9, <2>2 DEF HandleCommLost
  <2>4. reest[r] + 1 \in Nat
    BY DEF SafeInv, TypeOK
  <2>5. reest' \in [Remote -> Nat]
    BY <1>9, <2>3, <2>4 DEF HandleCommLost, SafeInv, TypeOK
  <2> QED
    BY <1>9, <2>5, RemoveSafe DEF HandleCommLost, Reacts, loopVars
<1> QED
  BY <1>5, <1>6, <1>7, <1>8, <1>9 DEF PeerHandlerStep

LEMMA SafeInductive == SafeInv /\ [Next]_vars => SafeInv'
<1> SUFFICES ASSUME SafeInv, [Next]_vars PROVE SafeInv'
  OBVIOUS
<1>1. CASE UNCHANGED vars
  BY <1>1 DEF vars, SafeInv, TypeOK, PeerFoundByHandler, TableOwnsDescriptors, Free, HandlersWithinRound
<1>2. ASSUME NEW s \in Sock, HandlerStep(s)
      PROVE  SafeInv'
  BY <1>2, CommUpSafe, PeerSafe DEF HandlerStep, Sock
<1> QED
  BY <1>1, <1>2, KernelSafe, LoopSafe DEF Next

-----------------------------------------------------------------------------
(* One connection of ours for every configured remote. *)

\* What a handler has given up depends on nothing but where that handler stands.
LEMMA SameGivenUp ==
  ASSUME NEW f, kind' = kind,
         \/ hand'[f] = hand[f] /\ (hand[f] = "relock" => msg'[f] = msg[f])
         \/ hand[f] # "relock" /\ hand'[f] # "relock"
  PROVE  GivenUp(f)' <=> GivenUp(f)
BY DEF GivenUp, ReactionTo, Dccp

\* The entry of a descriptor is one of ours or not.
LEMMA EnterOurs ==
  ASSUME SafeInv, NEW r \in Remote, NEW mine \in BOOLEAN, NEW f, Enters(f, r, mine),
         NEW q \in Remote, kind' = kind, \A g \in Fd : hand'[g] = hand[g] /\ msg'[g] = msg[g]
  PROVE  /\ f \notin Ours(q)
         /\ Ours(q)' = IF mine /\ q = r THEN Ours(q) \cup {f} ELSE Ours(q)
<1>1. /\ f \in Fd /\ f \notin DOMAIN peers /\ DOMAIN peers' = DOMAIN peers \cup {f}
      /\ peers'[f] = [remote |-> r, ours |-> mine]
      /\ \A g \in DOMAIN peers : peers'[g] = peers[g]
  BY EnterEntry
<1>2. peers'[f].remote = r /\ peers'[f].ours = mine
  BY <1>1
<1>3. \A g \in Fd : GivenUp(g)' <=> GivenUp(g)
  BY SameGivenUp
<1>4. ~GivenUp(f)
  BY <1>1 DEF GivenUp, SafeInv, PeerFoundByHandler
<1>5. DOMAIN peers \subseteq Fd
  BY DEF SafeInv, TypeOK
<1>6. \A g : g \in Ours(q)' <=> g \in Ours(q) \/ (g = f /\ mine /\ q = r)
  BY <1>1, <1>2, <1>3, <1>4, <1>5 DEF Ours
<1>7. f \notin Ours(q)
  BY <1>1 DEF Ours
<1>8. CASE mine /\ q = r
  <2>1. Ours(q)' \subseteq Ours(q) \cup {f} /\ Ours(q) \cup {f} \subseteq Ours(q)'
    BY <1>6, <1>8
  <2> QED
    BY <1>7, <1>8, <2>1
<1>9. CASE ~(mine /\ q = r)
  <2>1. Ours(q)' \subseteq Ours(q) /\ Ours(q) \subseteq Ours(q)'
    BY <1>6, <1>9
  <2> QED
    BY <1>7, <1>9, <2>1
<1> QED
  BY <1>8, <1>9

\* The connection that its handler gives up goes; a graceful shutdown gives none
\* up.
LEMMA EndedOurs ==
  ASSUME SafeInv, NEW f \in Fd, NEW how \in {"shut", "lost"}, Reacts(f, how), RemoveLocked(f),
         msg' = msg, kind' = kind, NEW q \in Remote
  PROVE  Ours(q)' = IF how = "lost" THEN Ours(q) \ {f} ELSE Ours(q)
<1>1. /\ peers' = peers /\ hand'[f] = "relock" /\ \A g \in Fd : g # f => hand'[g] = hand[g]
      /\ DOMAIN peers \subseteq Fd
  BY DEF RemoveLocked, At, SafeInv, TypeOK, Sock
<1>2. \A g \in Fd : g # f => (GivenUp(g)' <=> GivenUp(g))
  BY <1>1, SameGivenUp
<1>3. ~GivenUp(f) /\ (GivenUp(f)' <=> how = "lost")
  BY <1>1 DEF GivenUp, Reacts, ReactionTo, Dccp
<1>4. \A g : g \in Ours(q)' <=> g \in Ours(q) /\ (g = f => how # "lost")
  BY <1>1, <1>2, <1>3 DEF Ours
<1>5. CASE how = "lost"
  <2>1. Ours(q)' \subseteq Ours(q) \ {f} /\ Ours(q) \ {f} \subseteq Ours(q)'
    BY <1>4, <1>5
  <2> QED
    BY <1>5, <2>1
<1>6. CASE how # "lost"
  <2>1. Ours(q)' \subseteq Ours(q) /\ Ours(q) \subseteq Ours(q)'
    BY <1>4, <1>6
  <2> QED
    BY <1>6, <2>1
<1> QED
  BY <1>5, <1>6

\* One connection more or less in a finite set of them.
LEMMA CountConnections ==
  ASSUME NEW S, IsFiniteSet(S), NEW f
  PROVE  /\ Cardinality(S) \in Nat
         /\ IsFiniteSet(S \cup {f}) /\ IsFiniteSet(S \ {f})
         /\ f \notin S => Cardinality(S \cup {f}) = Cardinality(S) + 1
         /\ f \in S => Cardinality(S \ {f}) = Cardinality(S) - 1
         /\ f \notin S => S \ {f} = S
  BY FS_CardinalityType, FS_AddElement, FS_RemoveElement

LEMMA InitAccounts == Init => Accounts
<1> SUFFICES ASSUME Init, NEW r \in Remote
             PROVE  IsFiniteSet(Ours(r)) /\ Account(r) = IF r \in Configured THEN 1 ELSE 0
  BY DEF Accounts
<1>1. Ours(r) = {}
  BY DEF Init, EmptyMap, Ours
<1>2. IsFiniteSet(Ours(r)) /\ Cardinality(Ours(r)) = 0
  BY <1>1, FS_EmptySet
<1> QED
  BY <1>2 DEF Init, Account

\* A step that leaves the connections and what is promised alone.
LEMMA SameAccounts ==
  ASSUME Accounts, \A r \in Remote : Ours(r)' = Ours(r), reest' = reest, todo' = todo,
         loop' \notin Stopped => loop \notin Stopped
  PROVE  Accounts'
  BY DEF Accounts, Account

\* Such a step is one that gives nothing up.
LEMMA SameOurs ==
  ASSUME SafeInv, peers' = peers, kind' = kind, NEW r \in Remote,
         \A f \in Fd : \/ hand'[f] = hand[f] /\ (hand[f] = "relock" => msg'[f] = msg[f])
                       \/ hand[f] # "relock" /\ hand'[f] # "relock"
  PROVE  Ours(r)' = Ours(r)
<1>1. \A f \in Fd : GivenUp(f)' <=> GivenUp(f)
  BY SameGivenUp
<1>2. DOMAIN peers \subseteq Fd
  BY DEF SafeInv, TypeOK
<1>3. Ours(r)' \subseteq Ours(r) /\ Ours(r) \subseteq Ours(r)'
  BY <1>1, <1>2 DEF Ours
<1> QED
  BY <1>3

\* connect() for a remote whose turn has come.
LEMMA ConnectAccounts ==
  ASSUME IInv, NEW r \in todo, Connect(r), todo' = todo \ {r}, reest' = reest,
         kind' = kind, hand' = hand, msg' = msg, loop \notin Stopped
  PROVE  Accounts'
<1>1. CASE Stop("threw")
  BY <1>1 DEF Stop, Accounts, Stopped
<1>2. CASE ~Stop("threw")
  <2> SUFFICES ASSUME NEW q \in Remote
               PROVE  (IsFiniteSet(Ours(q)) /\ Account(q) = IF q \in Configured THEN 1 ELSE 0)'
    BY DEF Accounts
  <2>0. r \in Remote
    BY ConfiguredAssumption DEF IInv, SafeInv, TypeOK
  <2>1. PICK f \in Lowest : Enters(f, r, TRUE)
    BY <1>2 DEF Connect, Enters
  <2>2. f \notin Ours(q) /\ Ours(q)' = IF q = r THEN Ours(q) \cup {f} ELSE Ours(q)
    BY <2>0, <2>1, EnterOurs DEF IInv
  <2>3. IsFiniteSet(Ours(q)) /\ Account(q) = IF q \in Configured THEN 1 ELSE 0
    BY DEF IInv, Accounts
  <2>4. reest \in [Remote -> Nat]
    BY DEF IInv, SafeInv, TypeOK
  <2>5. IsFiniteSet(Ours(q)') /\ Cardinality(Ours(q)) \in Nat
        /\ Cardinality(Ours(q)') = Cardinality(Ours(q)) + IF q = r THEN 1 ELSE 0
    <3>1. PICK S : S = Ours(q)
      OBVIOUS
    <3>2. IsFiniteSet(S) /\ f \notin S /\ Ours(q)' = IF q = r THEN S \cup {f} ELSE S
      BY <2>2, <2>3, <3>1
    <3>3. /\ Cardinality(S) \in Nat /\ IsFiniteSet(S \cup {f})
          /\ Cardinality(S \cup {f}) = Cardinality(S) + 1
      BY <3>2, CountConnections
    <3> QED
      BY <3>1, <3>2, <3>3
  <2>6. reest'[q] = reest[q] /\ (q \in todo' <=> q \in todo /\ q # r) /\ r \in todo
    OBVIOUS
  <2>7. Account(q)' = Account(q)
    BY <2>4, <2>5, <2>6 DEF Account
  <2> QED
    BY <2>3, <2>5, <2>7
<1> QED
  BY <1>1, <1>2

\* A connection of ours that is lost is written off to its reestablishment.
LEMMA LostAccounts ==
  ASSUME IInv, NEW f \in Fd, HandleCommLost(f)
  PROVE  Accounts'
<1> SUFFICES ASSUME loop \notin Stopped, NEW q \in Remote
             PROVE  (IsFiniteSet(Ours(q)) /\ Account(q) = IF q \in Configured THEN 1 ELSE 0)'
  BY DEF Accounts, HandleCommLost, loopVars
<1>1. /\ Reacts(f, "lost") /\ RemoveLocked(f) /\ msg' = msg /\ kind' = kind /\ todo' = todo
      /\ reest' = IF peers[f].ours THEN [reest EXCEPT ![peers[f].remote] = @ + 1] ELSE reest
  BY DEF HandleCommLost, loopVars
<1>2. f \in DOMAIN peers /\ hand[f] = "dispatch"
  BY <1>1 DEF Reacts, IInv, SafeInv, PeerFoundByHandler
<1>3. Ours(q)' = Ours(q) \ {f}
  BY <1>1, EndedOurs DEF IInv
<1>4. IsFiniteSet(Ours(q)) /\ Account(q) = IF q \in Configured THEN 1 ELSE 0
  BY DEF IInv, Accounts
<1>5. peers[f].remote \in Remote /\ peers[f].ours \in BOOLEAN /\ reest \in [Remote -> Nat]
  BY <1>2 DEF IInv, SafeInv, TypeOK
<1>6. f \in Ours(q) <=> peers[f].ours /\ q = peers[f].remote
  BY <1>2 DEF Ours, GivenUp
<1>7. /\ IsFiniteSet(Ours(q)') /\ Cardinality(Ours(q)) \in Nat
      /\ f \in Ours(q) => Cardinality(Ours(q)') = Cardinality(Ours(q)) - 1
      /\ f \notin Ours(q) => Cardinality(Ours(q)') = Cardinality(Ours(q))
  <2>1. PICK S : S = Ours(q)
    OBVIOUS
  <2>2. IsFiniteSet(S) /\ Ours(q)' = S \ {f}
    BY <1>3, <1>4, <2>1
  <2>3. /\ Cardinality(S) \in Nat /\ IsFiniteSet(S \ {f})
        /\ f \in S => Cardinality(S \ {f}) = Cardinality(S) - 1
        /\ f \notin S => S \ {f} = S
    BY <2>2, CountConnections
  <2> QED
    BY <2>1, <2>2, <2>3
<1>8. CASE f \notin Ours(q)
  <2>1. reest'[q] = reest[q]
    BY <1>1, <1>5, <1>6, <1>8
  <2> QED
    BY <1>1, <1>4, <1>7, <1>8, <2>1 DEF Account
<1>9. CASE f \in Ours(q)
  <2>1. reest'[q] = reest[q] + 1 /\ reest[q] \in Nat
    BY <1>1, <1>5, <1>6, <1>9
  <2> QED
    BY <1>1, <1>4, <1>7, <1>9, <2>1 DEF Account
<1> QED
  BY <1>8, <1>9

LEMMA AccountsInductive ==
  ASSUME IInv, [Next]_vars
  PROVE  Accounts'
<1>0. SafeInv /\ Accounts
  BY DEF IInv
<1>1. CASE UNCHANGED vars
  <2>1. \A r \in Remote : Ours(r)' = Ours(r)
    BY <1>0, <1>1, SameOurs DEF vars
  <2> QED
    BY <1>0, <1>1, <2>1, SameAccounts DEF vars
<1>2. CASE KernelStep
  <2>1. /\ peers' = peers /\ kind' = kind /\ hand' = hand /\ msg' = msg
        /\ reest' = reest /\ todo' = todo /\ loop' = loop
    BY <1>2 DEF KernelStep, tableVars, loopVars
  <2>2. \A r \in Remote : Ours(r)' = Ours(r)
    BY <1>0, <2>1, SameOurs
  <2> QED
    BY <1>0, <2>1, <2>2, SameAccounts
<1>3. CASE LoopStep
  <2>1. ASSUME NEW label \in Stopped, Stop(label)
        PROVE  Accounts'
    BY <2>1 DEF Stop, Accounts
  <2>2. ASSUME peers' = peers, kind' = kind, reest' = reest, todo' = todo, loop \notin Stopped,
               \A f \in Fd : \/ hand'[f] = hand[f] /\ msg'[f] = msg[f]
                             \/ hand[f] # "relock" /\ hand'[f] # "relock"
        PROVE  Accounts'
    <3>1. \A r \in Remote : Ours(r)' = Ours(r)
      BY <1>0, <2>2, SameOurs
    <3> QED
      BY <1>0, <2>2, <3>1, SameAccounts
  <2>3. CASE ConnectNext
    <3>1. loop \notin Stopped /\ reest' = reest /\ kind' = kind /\ hand' = hand /\ msg' = msg
      BY <2>3 DEF ConnectNext, Stopped
    <3>2. CASE \E r \in todo : Connect(r) /\ todo' = todo \ {r}
      BY <3>1, <3>2, ConnectAccounts
    <3>3. CASE ~\E r \in todo : Connect(r) /\ todo' = todo \ {r}
      BY <2>2, <2>3, <3>1, <3>3 DEF ConnectNext
    <3> QED
      BY <3>2, <3>3
  <2>4. CASE EndLaunch
    BY <2>2, <2>4 DEF EndLaunch, tableVars, Stopped
  <2>5. CASE Select
    <3>1. /\ peers' = peers /\ kind' = kind /\ reest' = reest /\ todo' = todo /\ loop = "select"
          /\ hand' = [s \in Sock |-> IF Readable(s) THEN "start" ELSE "idle"]
      BY <2>5 DEF Select, tableVars
    <3>2. \A f \in Fd : f \in Sock /\ hand[f] # "relock" /\ hand'[f] # "relock"
      BY <1>0, <3>1 DEF SafeInv, HandlersWithinRound, Sock
    <3> QED
      BY <2>2, <3>1, <3>2 DEF Stopped
  <2>6. CASE JoinHandlers
    <3>1. CASE Stop("threw")
      BY <2>1, <3>1 DEF Stopped
    <3>2. CASE ~Stop("threw")
      <4>1. /\ peers' = peers /\ kind' = kind /\ reest' = reest /\ todo' = todo /\ loop = "round"
            /\ \A s \in Sock : hand[s] \in {"idle", "done", "threw"}
            /\ hand' = [s \in Sock |-> "idle"]
        BY <2>6, <3>2 DEF JoinHandlers
      <4>2. \A f \in Fd : hand[f] # "relock" /\ hand'[f] # "relock"
        BY <4>1 DEF Sock
      <4> QED
        BY <2>2, <4>1, <4>2 DEF Stopped
    <3> QED
      BY <3>1, <3>2
  <2>7. CASE Chat
    <3>1. CASE \E label \in Stopped : Stop(label)
      BY <2>1, <3>1
    <3>2. CASE ~\E label \in Stopped : Stop(label)
      <4>1. /\ peers' = peers /\ kind' = kind /\ reest' = reest /\ todo' = todo /\ loop = "chat"
            /\ hand' = hand /\ msg' = msg
        BY <2>7, <3>2 DEF Chat, Stopped
      <4> QED
        BY <2>2, <4>1 DEF Stopped
    <3> QED
      BY <3>1, <3>2
  <2> QED
    BY <1>3, <2>3, <2>4, <2>5, <2>6, <2>7 DEF LoopStep
<1>4. CASE HandleCommUp
  <2>1. /\ reest' = reest /\ todo' = todo /\ loop' = loop /\ kind' = kind /\ msg' = msg
        /\ \A g \in Fd : hand'[g] = hand[g]
    <3>1. \A g \in Fd : g # MainFd /\ g \in Sock
      BY DescriptorAssumption DEF Sock
    <3>2. \E to \in {"done", "threw"} : hand' = [hand EXCEPT ![MainFd] = to]
      BY <1>4 DEF HandleCommUp, At
    <3>3. hand \in [Sock -> HandPc]
      BY <1>0 DEF SafeInv, TypeOK
    <3>4. \A g \in Fd : hand'[g] = hand[g]
      BY <3>1, <3>2, <3>3
    <3> QED
      BY <1>4, <3>4 DEF HandleCommUp, loopVars
  <2>2. CASE peers' = peers
    <3>1. \A r \in Remote : Ours(r)' = Ours(r)
      BY <1>0, <2>1, <2>2, SameOurs
    <3> QED
      BY <1>0, <2>1, <3>1, SameAccounts
  <2>3. CASE peers' # peers
    <3>1. PICK r \in pending, f \in Lowest :
            /\ conn' = [conn EXCEPT ![f] = "open"]
            /\ peers' = [g \in DOMAIN peers \cup {f} |->
                           IF g = f THEN [remote |-> r, ours |-> FALSE] ELSE peers[g]]
      BY <1>4, <2>3 DEF HandleCommUp
    <3>2. r \in Remote /\ Enters(f, r, FALSE)
      BY <1>0, <3>1 DEF Enters, SafeInv, TypeOK
    <3>3. \A q \in Remote : Ours(q)' = Ours(q)
      BY <1>0, <2>1, <3>2, EnterOurs
    <3> QED
      BY <1>0, <2>1, <3>3, SameAccounts
  <2> QED
    BY <2>2, <2>3
<1>5. ASSUME NEW f \in Fd, PeerHandlerStep(f)
      PROVE  Accounts'
  <2>0. hand \in [Sock -> HandPc] /\ f \in Sock /\ msg \in [Sock -> Text \cup {"nothing", "empty", "error"}]
    BY <1>0 DEF SafeInv, TypeOK, Sock
  <2>1. CASE GetBuffer(f) \/ ReceiveMessage(f) \/ HandleText(f)
    <3>1. /\ peers' = peers /\ kind' = kind /\ reest' = reest /\ todo' = todo /\ loop' = loop
      BY <2>1 DEF GetBuffer, ReceiveMessage, HandleText, tableVars, loopVars
    <3>2. /\ hand[f] # "relock" /\ hand'[f] # "relock"
          /\ \A g \in Fd : g # f => hand'[g] = hand[g] /\ msg'[g] = msg[g]
      BY <2>0, <2>1 DEF GetBuffer, ReceiveMessage, HandleText, At, Sock
    <3>3. \A r \in Remote : Ours(r)' = Ours(r)
      BY <1>0, <3>1, <3>2, SameOurs
    <3> QED
      BY <1>0, <3>1, <3>3, SameAccounts
  <2>2. CASE HandleGracefulShutdown(f)
    <3>1. /\ Reacts(f, "shut") /\ RemoveLocked(f) /\ msg' = msg /\ kind' = kind
          /\ reest' = reest /\ todo' = todo /\ loop' = loop
      BY <2>2 DEF HandleGracefulShutdown, loopVars
    <3>2. \A q \in Remote : Ours(q)' = Ours(q)
      BY <1>0, <3>1, EndedOurs
    <3> QED
      BY <1>0, <3>1, <3>2, SameAccounts
  <2>3. CASE HandleCommLost(f)
    BY <2>3, LostAccounts
  <2> QED
    BY <1>5, <2>1, <2>2, <2>3 DEF PeerHandlerStep
<1> QED
  BY <1>1, <1>2, <1>3, <1>4, <1>5 DEF Next, HandlerStep, Sock

LEMMA Inductive == IInv /\ [Next]_vars => IInv'
  BY SafeInductive, AccountsInductive DEF IInv

-----------------------------------------------------------------------------
\* The types of the table, of the threads and of the kernel's connections.
THEOREM TcpTypeCorrect == Spec => []TypeOK
<1>1. SafeInv => TypeOK
  BY DEF SafeInv
<1> QED
  BY <1>1, InitSafe, SafeInductive, PTL DEF Spec

\* peers.at() in a handler finds the entry of its descriptor: the handlers of a
\* round remove no entry but their own.
THEOREM PeerIsFound == Spec => []PeerFoundByHandler
<1>1. SafeInv => PeerFoundByHandler
  BY DEF SafeInv
<1> QED
  BY <1>1, InitSafe, SafeInductive, PTL DEF Spec

\* Neither connect(), accept nor remove leaks a descriptor or closes one whose
\* entry stays.
THEOREM TcpTableOwns == Spec => []TableOwnsDescriptors
<1>1. SafeInv => TableOwnsDescriptors
  BY DEF SafeInv
<1> QED
  BY <1>1, InitSafe, SafeInductive, PTL DEF Spec

\* However often the remotes connect to us, fail and are lost, every configured
\* remote has one connection of ours, or a reestablishment that its handler
\* scheduled, or is about to be connected to: handleCommLost schedules one for
\* our own connections only, and once.
THEOREM OneConnectionEach == Spec => []OneConnectionOfOurs
<1>1. IInv => OneConnectionOfOurs
  BY DEF IInv, Accounts, Account, Ours, OneConnectionOfOurs
<1>2. Init => IInv
  BY InitSafe, InitAccounts DEF IInv
<1> QED
  BY <1>1, <1>2, Inductive, PTL DEF Spec
=============================================================================
