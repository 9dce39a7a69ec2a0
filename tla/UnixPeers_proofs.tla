--------------------------- MODULE UnixPeers_proofs ---------------------------
(***************************************************************************)
(* Proofs about UnixPeers, for any processes, whoever knows whom and       *)
(* whatever the kernel queues.                                             *)
(***************************************************************************)
EXTENDS UnixPeers, TLAPS

Dg(n, w) == [from |-> n, msg |-> w]

\* A queue holds the datagram.
Has(s, n, w) == \E i \in DOMAIN s : s[i] = Dg(n, w)

\* Behind a goodbye no text of the same process waits.
QuitIsLast(s) ==
  \A i, j \in DOMAIN s : i < j /\ s[i].msg = "q" /\ s[j].from = s[i].from => s[j].msg = "q"

\* A process says goodbye only when it has left the loop that sends texts.
ToldAfterLoop == \A n \in Node : told[n] # {} => pc[n] \notin {"connect", "receive", "chat", "send"}

\* Every goodbye that waits has been recorded.
QuitsAreTold == \A n, m \in Node : Has(inbox[m], n, "q") => m \in told[n]

QueuesOrderly == \A m \in Node : QuitIsLast(inbox[m])

\* GoodbyeHeeded, and what keeps it true: once the goodbye is read no text of
\* the sender waits, and one told before it has connected has not read it yet.
Heeded ==
  \A n \in Node : \A m \in told[n] :
    pc[m] \notin Stopped =>
      \/ Has(inbox[m], n, "q")
      \/ pc[m] # "connect" /\ n \notin peers[m] /\ ~Has(inbox[m], n, "text")

IInv == TypeOK /\ ToldAfterLoop /\ QuitsAreTold /\ QueuesOrderly /\ Heeded

-----------------------------------------------------------------------------
(* Queues. *)

\* The first of a queue and the others.
LEMMA TailQueue ==
  ASSUME NEW s \in Seq(Datagram), s # <<>>
  PROVE  /\ Tail(s) \in Seq(Datagram) /\ Len(s) \in Nat /\ Len(s) > 0
         /\ Len(Tail(s)) = Len(s) - 1
         /\ \A i \in 1 .. Len(s) - 1 : Tail(s)[i] = s[i + 1]
         /\ Head(s) = s[1] /\ Head(s) \in Datagram
  OBVIOUS

\* What waits in a queue is its first datagram or waits behind it.
LEMMA TailHas ==
  ASSUME NEW s \in Seq(Datagram), s # <<>>, NEW n \in Node, NEW w \in {"text", "q"}
  PROVE  Has(s, n, w) <=> Head(s) = Dg(n, w) \/ Has(Tail(s), n, w)
<1> DEFINE d == Dg(n, w)
<1> HIDE DEF d
<1>1. DOMAIN s = 1 .. Len(s) /\ DOMAIN Tail(s) = 1 .. Len(s) - 1
  BY TailQueue
<1>2. ASSUME NEW i \in DOMAIN s, s[i] = d
      PROVE  Head(s) = d \/ \E j \in DOMAIN Tail(s) : Tail(s)[j] = d
  <2>1. CASE i = 1
    BY <1>2, <2>1, TailQueue
  <2>2. CASE i # 1
    <3>1. i - 1 \in 1 .. Len(s) - 1 /\ i - 1 + 1 = i
      BY <1>1, <2>2, TailQueue
    <3> QED
      BY <1>1, <1>2, <3>1, TailQueue
  <2> QED
    BY <2>1, <2>2
<1>3. ASSUME NEW j \in DOMAIN Tail(s), Tail(s)[j] = d
      PROVE  \E i \in DOMAIN s : s[i] = d
  BY <1>1, <1>3, TailQueue
<1>4. 1 \in DOMAIN s /\ Head(s) = s[1]
  BY <1>1, TailQueue
<1> QED
  BY <1>2, <1>3, <1>4 DEF Has, d

\* A queue takes a datagram at its end.
LEMMA AppendQueue ==
  ASSUME NEW s \in Seq(Datagram), NEW d \in Datagram
  PROVE  /\ Append(s, d) \in Seq(Datagram) /\ Len(s) \in Nat
         /\ DOMAIN s = 1 .. Len(s) /\ DOMAIN Append(s, d) = 1 .. Len(s) + 1
         /\ \A i \in 1 .. Len(s) : Append(s, d)[i] = s[i]
         /\ Append(s, d)[Len(s) + 1] = d
  OBVIOUS

\* What waits in it then waited before or is the new one.
LEMMA AppendHas ==
  ASSUME NEW s \in Seq(Datagram), NEW d \in Datagram, NEW n \in Node, NEW w \in {"text", "q"}
  PROVE  Has(Append(s, d), n, w) <=> d = Dg(n, w) \/ Has(s, n, w)
<1> DEFINE e == Dg(n, w)
<1> HIDE DEF e
<1>1. ASSUME NEW i \in DOMAIN Append(s, d), Append(s, d)[i] = e
      PROVE  d = e \/ \E j \in DOMAIN s : s[j] = e
  BY <1>1, AppendQueue
<1>2. ASSUME NEW j \in DOMAIN s, s[j] = e
      PROVE  \E i \in DOMAIN Append(s, d) : Append(s, d)[i] = e
  BY <1>2, AppendQueue
<1>3. Len(s) + 1 \in DOMAIN Append(s, d) /\ Append(s, d)[Len(s) + 1] = d
  BY AppendQueue
<1> QED
  BY <1>1, <1>2, <1>3 DEF Has, e

\* A queue stays orderly when its first datagram is taken, and behind a
\* goodbye that was taken no text of its sender waits.
LEMMA TailOrderly ==
  ASSUME NEW s \in Seq(Datagram), s # <<>>, QuitIsLast(s)
  PROVE  /\ QuitIsLast(Tail(s))
         /\ \A n \in Node : Head(s) = Dg(n, "q") => ~Has(Tail(s), n, "text")
<1>1. DOMAIN s = 1 .. Len(s) /\ DOMAIN Tail(s) = 1 .. Len(s) - 1
  BY TailQueue
<1>2. \A i \in DOMAIN Tail(s) : i + 1 \in DOMAIN s /\ Tail(s)[i] = s[i + 1] /\ 1 < i + 1
  BY <1>1, TailQueue
<1>3. QuitIsLast(Tail(s))
  <2>1. SUFFICES ASSUME NEW i \in DOMAIN Tail(s), NEW j \in DOMAIN Tail(s), i < j,
                        Tail(s)[i].msg = "q", Tail(s)[j].from = Tail(s)[i].from
                 PROVE  Tail(s)[j].msg = "q"
    BY DEF QuitIsLast
  <2>2. i + 1 < j + 1
    BY <1>1, <2>1, TailQueue
  <2> QED
    BY <1>2, <2>1, <2>2 DEF QuitIsLast
<1>4. ASSUME NEW n \in Node, Head(s) = Dg(n, "q"), NEW i \in DOMAIN Tail(s)
      PROVE  Tail(s)[i] # Dg(n, "text")
  <2>1. 1 \in DOMAIN s /\ s[1].msg = "q" /\ s[1].from = n
    BY <1>1, <1>4, TailQueue DEF Dg
  <2>2. s[i + 1].from = n => s[i + 1].msg = "q"
    BY <1>2, <2>1 DEF QuitIsLast
  <2> QED
    BY <1>2, <2>2 DEF Dg
<1> QED
  BY <1>3, <1>4 DEF Has

\* It stays orderly when a goodbye comes, or a text whose sender's goodbye
\* does not wait.
LEMMA AppendOrderly ==
  ASSUME NEW s \in Seq(Datagram), QuitIsLast(s), NEW n \in Node, NEW w \in {"text", "q"},
         w = "text" => ~Has(s, n, "q")
  PROVE  QuitIsLast(Append(s, Dg(n, w)))
<1> DEFINE d == Dg(n, w)
           t == Append(s, d)
<1>1. d \in Datagram /\ d.from = n /\ d.msg = w
  BY DEF Dg, Datagram
<1> HIDE DEF d
<1>2. /\ DOMAIN s = 1 .. Len(s) /\ DOMAIN t = 1 .. Len(s) + 1 /\ Len(s) \in Nat
      /\ \A i \in 1 .. Len(s) : t[i] = s[i]
      /\ t[Len(s) + 1] = d
  BY <1>1, AppendQueue
<1> HIDE DEF t
<1> SUFFICES ASSUME NEW i \in DOMAIN t, NEW j \in DOMAIN t, i < j,
                    t[i].msg = "q", t[j].from = t[i].from
             PROVE  t[j].msg = "q"
  BY DEF QuitIsLast, t, d
<1>3. i \in DOMAIN s /\ t[i] = s[i]
  BY <1>2
<1>4. CASE j \in DOMAIN s
  BY <1>2, <1>3, <1>4 DEF QuitIsLast
<1>5. CASE j = Len(s) + 1 /\ w = "text"
  <2>1. s[i].msg = "q" /\ s[i].from = n /\ s[i] \in Datagram
    BY <1>1, <1>2, <1>3, <1>5
  <2>2. s[i] = Dg(n, "q")
    BY <2>1 DEF Datagram, Dg
  <2> QED
    BY <1>3, <1>5, <2>2 DEF Has
<1>6. CASE j = Len(s) + 1 /\ w = "q"
  BY <1>1, <1>2, <1>6
<1> QED
  BY <1>2, <1>4, <1>5, <1>6
-----------------------------------------------------------------------------
(* The invariant. *)

LEMMA InitIInv == Init => IInv
<1> SUFFICES ASSUME Init PROVE IInv
  OBVIOUS
<1>1. \A m \in Node : inbox[m] = <<>> /\ told[m] = {}
  BY DEF Init
<1>2. TypeOK
  BY DEF Init, TypeOK, Pc
<1> QED
  BY <1>1, <1>2 DEF IInv, ToldAfterLoop, QuitsAreTold, QueuesOrderly, Heeded, Has, QuitIsLast

\* Every step keeps the types.
LEMMA TypeInductive == TypeOK /\ [Next]_vars => TypeOK'
<1> SUFFICES ASSUME TypeOK, [Next]_vars PROVE TypeOK'
  OBVIOUS
<1> USE KnowsAssumption DEF TypeOK, Pc, Stopped, Goto
<1>1. CASE UNCHANGED vars
  BY <1>1 DEF vars
<1>2. ASSUME NEW n \in Node, TaskStep(n)
      PROVE  TypeOK'
  <2>1. CASE Connect(n)
    BY <2>1 DEF Connect
  <2>2. CASE Receive(n)
    <3>1. Head(inbox[n]) \in Datagram /\ Tail(inbox[n]) \in Seq(Datagram)
      BY <2>2, TailQueue DEF Receive
    <3>2. Head(inbox[n]).from \in Node
      BY <3>1 DEF Datagram
    <3> QED
      BY <2>2, <3>1, <3>2 DEF Receive
  <2>3. CASE ReceiveNothing(n)
    BY <2>3 DEF ReceiveNothing
  <2>4. CASE Chat(n)
    <3>1. peers[n] \in SUBSET Node
      OBVIOUS
    <3>2. rest' \in [Node -> SUBSET Node]
      BY <2>4, <3>1 DEF Chat
    <3>3. pc' \in [Node -> Pc]
      BY <2>4 DEF Chat
    <3> QED
      BY <2>4, <3>2, <3>3 DEF Chat
  <2>5. ASSUME NEW m \in Node, NEW w \in {"text", "q"}, Deliver(n, m, w)
        PROVE  inbox' \in [Node -> Seq(Datagram)] /\ rest' \in [Node -> SUBSET Node]
    <3>1. [from |-> n, msg |-> w] \in Datagram
      BY DEF Datagram
    <3>2. Append(inbox[m], [from |-> n, msg |-> w]) \in Seq(Datagram)
      BY <3>1, AppendQueue
    <3> QED
      BY <2>5, <3>2 DEF Deliver
  <2>6. CASE Send(n)
    BY <2>5, <2>6 DEF Send
  <2>7. ASSUME NEW from \in {"leave", "fail"}, NEW to \in {"ended", "threw"},
               SayGoodbye(n, from, to)
        PROVE  TypeOK'
    <3>1. CASE Close(n, from, to) /\ told' = told
      BY <3>1 DEF Close
    <3>2. CASE Close(n, from, "aborted") /\ told' = told
      BY <3>2 DEF Close
    <3>3. ASSUME NEW m \in rest[n], Deliver(n, m, "q"), told' = [told EXCEPT ![n] = @ \cup {m}],
                 pc' = pc, peers' = peers
          PROVE  TypeOK'
      BY <2>5, <3>3
    <3> QED
      BY <2>7, <3>1, <3>2, <3>3 DEF SayGoodbye
  <2> QED
    BY <1>2, <2>1, <2>2, <2>3, <2>4, <2>6, <2>7 DEF TaskStep
<1> QED
  BY <1>1, <1>2 DEF Next

\* A step that delivers nothing, takes nothing out of a queue and adds nobody to
\* the peers of a process that stays connected keeps the invariant.
LEMMA QuietStep ==
  ASSUME IInv, TypeOK', NEW n \in Node,
         inbox' = inbox, told' = told, peers' = peers,
         \A m \in Node \ {n} : pc'[m] = pc[m],
         pc[n] \notin {"connect"} \cup Stopped,
         pc'[n] # "connect",
         pc[n] \in {"leave", "fail"} => pc'[n] \notin {"connect", "receive", "chat", "send"}
  PROVE  IInv'
<1>1. ToldAfterLoop'
  BY DEF IInv, ToldAfterLoop, Stopped, TypeOK, Pc
<1>2. QuitsAreTold' /\ QueuesOrderly'
  BY DEF IInv, QuitsAreTold, QueuesOrderly
<1>3. Heeded'
  <2> SUFFICES ASSUME NEW m \in Node, NEW k \in told'[m], pc'[k] \notin Stopped
               PROVE  \/ Has(inbox'[k], m, "q")
                      \/ pc'[k] # "connect" /\ m \notin peers'[k] /\ ~Has(inbox'[k], m, "text")
    BY DEF Heeded
  <2>1. k \in told[m] /\ k \in Node
    BY DEF IInv, TypeOK
  <2>2. pc[k] \notin Stopped
    BY <2>1
  <2> QED
    BY <2>1, <2>2 DEF IInv, Heeded
<1> QED
  BY <1>1, <1>2, <1>3 DEF IInv

\* A process connects: a goodbye it was told of waits still.
LEMMA ConnectStep ==
  ASSUME IInv, TypeOK', NEW n \in Node, Connect(n)
  PROVE  IInv'
<1>1. /\ inbox' = inbox /\ told' = told /\ pc[n] = "connect" /\ pc'[n] = "receive"
      /\ \A m \in Node \ {n} : pc'[m] = pc[m] /\ peers'[m] = peers[m]
  BY DEF Connect, Goto, IInv, TypeOK
<1>2. ToldAfterLoop'
  BY <1>1 DEF IInv, ToldAfterLoop
<1>3. QuitsAreTold' /\ QueuesOrderly'
  BY <1>1 DEF IInv, QuitsAreTold, QueuesOrderly
<1>4. Heeded'
  <2> SUFFICES ASSUME NEW m \in Node, NEW k \in told'[m], pc'[k] \notin Stopped
               PROVE  \/ Has(inbox'[k], m, "q")
                      \/ pc'[k] # "connect" /\ m \notin peers'[k] /\ ~Has(inbox'[k], m, "text")
    BY DEF Heeded
  <2>1. k \in told[m] /\ k \in Node
    BY <1>1 DEF IInv, TypeOK
  <2>2. CASE k = n
    <3>1. pc[k] \notin Stopped
      BY <1>1, <2>2 DEF Stopped
    <3>2. Has(inbox[k], m, "q")
      BY <1>1, <2>1, <2>2, <3>1 DEF IInv, Heeded
    <3> QED
      BY <1>1, <3>2
  <2>3. CASE k # n
    BY <1>1, <2>1, <2>3 DEF IInv, Heeded
  <2> QED
    BY <2>2, <2>3
<1> QED
  BY <1>2, <1>3, <1>4 DEF IInv

\* A datagram is handled: a goodbye is the last word of its sender, and no text
\* of a process that said goodbye comes behind it.
LEMMA ReceiveStep ==
  ASSUME IInv, TypeOK', NEW n \in Node, Receive(n)
  PROVE  IInv'
<1> DEFINE s == inbox[n]
<1>1. /\ told' = told /\ pc[n] = "receive" /\ pc'[n] = "chat" /\ s # <<>> /\ inbox'[n] = Tail(s)
      /\ \A m \in Node \ {n} : pc'[m] = pc[m] /\ peers'[m] = peers[m] /\ inbox'[m] = inbox[m]
  BY DEF Receive, Goto, IInv, TypeOK
<1>2. s \in Seq(Datagram) /\ QuitIsLast(s)
  BY DEF IInv, TypeOK, QueuesOrderly
<1>3. Head(s) \in Datagram
  BY <1>1, <1>2, TailQueue
<1>4. peers'[n] = IF Head(s).msg = "q" THEN peers[n] \ {Head(s).from}
                                       ELSE peers[n] \cup {Head(s).from}
  BY DEF Receive, IInv, TypeOK
<1> HIDE DEF s
<1>5. ToldAfterLoop'
  BY <1>1 DEF IInv, ToldAfterLoop
<1>6. QueuesOrderly'
  BY <1>1, <1>2, TailOrderly DEF IInv, QueuesOrderly
<1>7. QuitsAreTold'
  <2>1. \A m \in Node : Has(Tail(s), m, "q") => Has(s, m, "q")
    BY <1>1, <1>2, TailHas
  <2> QED
    BY <1>1, <2>1 DEF IInv, QuitsAreTold, s
<1>8. Heeded'
  <2> SUFFICES ASSUME NEW m \in Node, NEW k \in told'[m], pc'[k] \notin Stopped
               PROVE  \/ Has(inbox'[k], m, "q")
                      \/ pc'[k] # "connect" /\ m \notin peers'[k] /\ ~Has(inbox'[k], m, "text")
    BY DEF Heeded
  <2>1. k \in told[m] /\ k \in Node
    BY <1>1 DEF IInv, TypeOK
  <2>2. CASE k # n
    BY <1>1, <2>1, <2>2 DEF IInv, Heeded
  <2>3. CASE k = n
    <3>1. Has(s, m, "q") \/ (m \notin peers[n] /\ ~Has(s, m, "text"))
      BY <1>1, <2>1, <2>3 DEF IInv, Heeded, s, Stopped
    <3>2. CASE Head(s) = Dg(m, "q")
      <4>1. ~Has(Tail(s), m, "text") /\ Head(s).msg = "q" /\ Head(s).from = m
        BY <1>1, <1>2, <3>2, TailOrderly DEF Dg
      <4> QED
        BY <1>1, <1>4, <2>3, <4>1
    <3>3. CASE Head(s) # Dg(m, "q") /\ Has(s, m, "q")
      <4>1. Has(Tail(s), m, "q")
        BY <1>1, <1>2, <3>3, TailHas
      <4> QED
        BY <1>1, <2>3, <4>1
    <3>4. CASE m \notin peers[n] /\ ~Has(s, m, "text") /\ ~Has(s, m, "q")
      <4>1. Head(s) # Dg(m, "text") /\ ~Has(Tail(s), m, "text") /\ Head(s) # Dg(m, "q")
        BY <1>1, <1>2, <3>4, TailHas
      <4>2. Head(s).from # m
        BY <1>3, <4>1 DEF Datagram, Dg
      <4> QED
        BY <1>1, <1>4, <2>3, <3>4, <4>1, <4>2
    <3> QED
      BY <3>1, <3>2, <3>3, <3>4
  <2> QED
    BY <2>2, <2>3
<1> QED
  BY <1>5, <1>6, <1>7, <1>8 DEF IInv

\* A text is delivered: its sender has told nobody, so no goodbye of it waits.
LEMMA TextStep ==
  ASSUME IInv, TypeOK', NEW n \in Node, NEW k \in Node, pc[n] = "send", Deliver(n, k, "text"),
         pc' = pc, peers' = peers, told' = told
  PROVE  IInv'
<1> DEFINE d == Dg(n, "text")
<1>1. /\ inbox'[k] = Append(inbox[k], d) /\ d \in Datagram
      /\ \A m \in Node \ {k} : inbox'[m] = inbox[m]
  BY DEF Deliver, IInv, TypeOK, Dg, Datagram
<1>2. told[n] = {} /\ inbox[k] \in Seq(Datagram)
  BY DEF IInv, ToldAfterLoop, TypeOK
<1>3. ~Has(inbox[k], n, "q")
  BY <1>2 DEF IInv, QuitsAreTold
<1>4. \A m \in Node : Has(inbox'[k], m, "q") <=> Has(inbox[k], m, "q")
  BY <1>1, <1>2, AppendHas DEF Dg
<1>5. \A m \in Node \ {n} : Has(inbox'[k], m, "text") <=> Has(inbox[k], m, "text")
  BY <1>1, <1>2, AppendHas DEF Dg
<1> HIDE DEF d
<1>6. ToldAfterLoop'
  BY DEF IInv, ToldAfterLoop
<1>7. QuitsAreTold'
  BY <1>1, <1>4 DEF IInv, QuitsAreTold
<1>8. QueuesOrderly'
  <2>1. QuitIsLast(inbox'[k])
    BY <1>1, <1>2, <1>3, AppendOrderly DEF IInv, QueuesOrderly, d
  <2> QED
    BY <1>1, <2>1 DEF IInv, QueuesOrderly
<1>9. Heeded'
  <2> SUFFICES ASSUME NEW m \in Node, NEW j \in told'[m], pc'[j] \notin Stopped
               PROVE  \/ Has(inbox'[j], m, "q")
                      \/ pc'[j] # "connect" /\ m \notin peers'[j] /\ ~Has(inbox'[j], m, "text")
    BY DEF Heeded
  <2>1. j \in told[m] /\ j \in Node /\ m # n
    BY <1>2 DEF IInv, TypeOK
  <2>2. \/ Has(inbox[j], m, "q")
        \/ pc[j] # "connect" /\ m \notin peers[j] /\ ~Has(inbox[j], m, "text")
    BY <2>1 DEF IInv, Heeded
  <2> QED
    BY <1>1, <1>4, <1>5, <2>1, <2>2
<1> QED
  BY <1>6, <1>7, <1>8, <1>9 DEF IInv

\* A goodbye is delivered and recorded.
LEMMA QuitStep ==
  ASSUME IInv, TypeOK', NEW n \in Node, NEW k \in Node, pc[n] \in {"leave", "fail"},
         Deliver(n, k, "q"), told' = [told EXCEPT ![n] = @ \cup {k}],
         pc' = pc, peers' = peers
  PROVE  IInv'
<1> DEFINE d == Dg(n, "q")
<1>1. /\ inbox'[k] = Append(inbox[k], d) /\ d \in Datagram
      /\ \A m \in Node \ {k} : inbox'[m] = inbox[m]
  BY DEF Deliver, IInv, TypeOK, Dg, Datagram
<1>2. inbox[k] \in Seq(Datagram)
  BY DEF IInv, TypeOK
<1>3. /\ told'[n] = told[n] \cup {k}
      /\ \A m \in Node \ {n} : told'[m] = told[m]
  BY DEF IInv, TypeOK
<1>4. \A m \in Node : Has(inbox'[k], m, "q") <=> Has(inbox[k], m, "q") \/ m = n
  BY <1>1, <1>2, AppendHas DEF Dg
<1>5. \A m \in Node : Has(inbox'[k], m, "text") <=> Has(inbox[k], m, "text")
  BY <1>1, <1>2, AppendHas DEF Dg
<1> HIDE DEF d
<1>6. ToldAfterLoop'
  BY <1>3 DEF IInv, ToldAfterLoop
<1>7. QuitsAreTold'
  BY <1>1, <1>3, <1>4 DEF IInv, QuitsAreTold
<1>8. QueuesOrderly'
  <2>1. QuitIsLast(inbox'[k])
    BY <1>1, <1>2, AppendOrderly DEF IInv, QueuesOrderly, d
  <2> QED
    BY <1>1, <2>1 DEF IInv, QueuesOrderly
<1>9. Heeded'
  <2> SUFFICES ASSUME NEW m \in Node, NEW j \in told'[m], pc'[j] \notin Stopped
               PROVE  \/ Has(inbox'[j], m, "q")
                      \/ pc'[j] # "connect" /\ m \notin peers'[j] /\ ~Has(inbox'[j], m, "text")
    BY DEF Heeded
  <2>1. CASE m = n /\ j = k
    BY <1>4, <2>1
  <2>2. CASE ~(m = n /\ j = k)
    <3>1. j \in told[m] /\ j \in Node
      BY <1>3, <2>2 DEF IInv, TypeOK
    <3>2. \/ Has(inbox[j], m, "q")
          \/ pc[j] # "connect" /\ m \notin peers[j] /\ ~Has(inbox[j], m, "text")
      BY <3>1 DEF IInv, Heeded
    <3> QED
      BY <1>1, <1>4, <1>5, <3>1, <3>2
  <2> QED
    BY <2>1, <2>2
<1> QED
  BY <1>6, <1>7, <1>8, <1>9 DEF IInv

\* A socket is closed: nothing is asked of a process that has stopped.
LEMMA CloseStep ==
  ASSUME IInv, TypeOK', NEW n \in Node, NEW from \in {"leave", "fail"}, NEW to \in Stopped,
         Close(n, from, to), told' = told
  PROVE  IInv'
<1>1. /\ inbox'[n] = <<>> /\ pc'[n] = to /\ pc[n] = from
      /\ \A m \in Node \ {n} : inbox'[m] = inbox[m] /\ pc'[m] = pc[m] /\ peers'[m] = peers[m]
  BY DEF Close, Goto, IInv, TypeOK
<1>2. ToldAfterLoop'
  BY <1>1 DEF IInv, ToldAfterLoop, Stopped
<1>3. QuitsAreTold'
  BY <1>1 DEF IInv, QuitsAreTold, Has
<1>4. QueuesOrderly'
  BY <1>1 DEF IInv, QueuesOrderly, QuitIsLast
<1>5. Heeded'
  <2> SUFFICES ASSUME NEW m \in Node, NEW k \in told'[m], pc'[k] \notin Stopped
               PROVE  \/ Has(inbox'[k], m, "q")
                      \/ pc'[k] # "connect" /\ m \notin peers'[k] /\ ~Has(inbox'[k], m, "text")
    BY DEF Heeded
  <2>1. k \in told[m] /\ k \in Node /\ k # n
    BY <1>1 DEF IInv, TypeOK
  <2> QED
    BY <1>1, <2>1 DEF IInv, Heeded
<1> QED
  BY <1>2, <1>3, <1>4, <1>5 DEF IInv

LEMMA Inductive == IInv /\ [Next]_vars => IInv'
<1> SUFFICES ASSUME IInv, [Next]_vars PROVE IInv'
  OBVIOUS
<1>1. TypeOK'
  BY TypeInductive DEF IInv
<1>2. CASE UNCHANGED vars
  BY <1>2 DEF vars, IInv, TypeOK, ToldAfterLoop, QuitsAreTold, QueuesOrderly, Heeded
<1>3. ASSUME NEW n \in Node, TaskStep(n)
      PROVE  IInv'
  <2>1. CASE Connect(n)
    BY <1>1, <2>1, ConnectStep
  <2>2. CASE Receive(n)
    BY <1>1, <2>2, ReceiveStep
  <2>3. ASSUME NEW from \in {"receive", "chat", "send"},
               NEW to \in {"receive", "chat", "send", "leave", "fail"},
               Goto(n, from, to), inbox' = inbox, told' = told, peers' = peers
        PROVE  IInv'
    <3>1. pc[n] = from /\ pc'[n] = to /\ \A m \in Node \ {n} : pc'[m] = pc[m]
      BY <2>3 DEF Goto, IInv, TypeOK
    <3>2. /\ pc[n] \notin {"connect"} \cup Stopped
          /\ pc'[n] # "connect"
          /\ pc[n] \in {"leave", "fail"} => pc'[n] \notin {"connect", "receive", "chat", "send"}
      BY <3>1 DEF Stopped
    <3> QED
      BY <1>1, <2>3, <3>1, <3>2, QuietStep
  <2>4. CASE ReceiveNothing(n)
    BY <2>3, <2>4 DEF ReceiveNothing
  <2>5. CASE Chat(n)
    BY <2>3, <2>5 DEF Chat
  <2>6. CASE Send(n)
    <3>1. peers' = peers /\ told' = told
      BY <2>6 DEF Send
    <3>2. CASE pc[n] = "send" /\ pc' = pc /\ \E m \in rest[n] : Deliver(n, m, "text")
      <4>1. PICK m \in Node : Deliver(n, m, "text")
        BY <3>2 DEF IInv, TypeOK
      <4> QED
        BY <1>1, <3>1, <3>2, <4>1, TextStep
    <3> QED
      BY <2>3, <2>6, <3>1, <3>2 DEF Send
  <2>7. ASSUME NEW from \in {"leave", "fail"}, NEW to \in {"ended", "threw"},
               SayGoodbye(n, from, to)
        PROVE  IInv'
    <3>1. CASE Close(n, from, to) /\ told' = told
      BY <1>1, <3>1, CloseStep DEF Stopped
    <3>2. CASE Close(n, from, "aborted") /\ told' = told
      BY <1>1, <3>2, CloseStep DEF Stopped
    <3>3. ASSUME NEW m \in rest[n], Deliver(n, m, "q"), told' = [told EXCEPT ![n] = @ \cup {m}],
                 pc[n] = from, pc' = pc, peers' = peers
          PROVE  IInv'
      <4>1. m \in Node
        BY DEF IInv, TypeOK
      <4> QED
        BY <1>1, <3>3, <4>1, QuitStep
    <3> QED
      BY <2>7, <3>1, <3>2, <3>3 DEF SayGoodbye
  <2> QED
    BY <1>3, <2>1, <2>2, <2>4, <2>5, <2>6, <2>7 DEF TaskStep
<1> QED
  BY <1>2, <1>3 DEF Next

-----------------------------------------------------------------------------
\* The types of the tasks, of their peers and of what the kernel queues.
THEOREM UnixTypeCorrect == Spec => []TypeOK
<1>1. Init => TypeOK
  BY InitIInv DEF IInv
<1> QED
  BY <1>1, TypeInductive, PTL DEF Spec

\* handleMessage heeds a goodbye for good: SocketUnix sends nothing more to the
\* process that left, whatever was queued around the goodbye.
THEOREM GoodbyeIsHeeded == Spec => []GoodbyeHeeded
<1>1. IInv => GoodbyeHeeded
  BY DEF IInv, Heeded, GoodbyeHeeded, Waiting, Has, Dg
<1> QED
  BY <1>1, InitIInv, Inductive, PTL DEF Spec
=============================================================================
