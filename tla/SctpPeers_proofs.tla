--------------------------- MODULE SctpPeers_proofs ---------------------------
(***************************************************************************)
(* Proofs about SctpPeers, for any remotes, associations, descriptors and  *)
(* buffers, and queues of any length.                                      *)
(***************************************************************************)
EXTENDS SctpPeers, FiniteSetTheorems, WellFoundedInduction, TLAPS

-----------------------------------------------------------------------------
(* The invariant. *)

\* An event is about an association that has been set up, and one that reports
\* an end says how the association ended.
Sound(e) ==
  /\ e \in Event /\ e.assoc \in DOMAIN assoc
  /\ assoc[e.assoc].st # "setup"
  /\ e.type \in EndState => assoc[e.assoc].st = e.type

\* What waits on a socket is about the associations that live there.
QueuesSound ==
  \A s \in Sock : \A i \in DOMAIN queue[s] :
    Sound(queue[s][i]) /\ assoc[queue[s][i].assoc].sock = s

\* So is what a handler has received; no other handler can have moved it.
HandledSound ==
  \A s \in Sock :
    /\ hand[s] = "dispatch" => Sound(hev[s]) /\ assoc[hev[s].assoc].sock = s
    /\ hand[s] = "schedule" => hev[s] \in Event /\ hev[s].assoc \in DOMAIN assoc

\* COMM_UP comes once for each association, to the main socket.
UpsOnce ==
  /\ \A s \in Sock : \A i \in DOMAIN queue[s] : queue[s][i].type = "up" => s = MainFd
  /\ \A i, j \in DOMAIN queue[MainFd] :
       i < j /\ queue[MainFd][i].type = "up" /\ queue[MainFd][j].type = "up"
         => queue[MainFd][i].assoc # queue[MainFd][j].assoc
  /\ \A s \in Sock : hand[s] = "dispatch" /\ hev[s].type = "up" =>
       /\ s = MainFd
       /\ \A i \in DOMAIN queue[MainFd] :
            queue[MainFd][i].type = "up" => queue[MainFd][i].assoc # hev[s].assoc

\* A peer's descriptor is its association's socket, and no other association's.
SocketsApart ==
  /\ \A a \in DOMAIN peers : assoc[a].sock = peers[a].fd
  /\ \A a, b \in DOMAIN assoc : a # b /\ assoc[a].sock \in Fd => assoc[a].sock # assoc[b].sock

\* Only the handler of the main socket peels off, and while it does there is one
\* association with a descriptor of its own that is not in the table.
Peeled(e) ==
  /\ e \in Event /\ e.type = "up" /\ e.assoc \in DOMAIN assoc
  /\ assoc[e.assoc].sock \in Fd /\ assoc[e.assoc].st # "setup"
  /\ e.assoc \notin DOMAIN peers

PeelInv ==
  /\ \A f \in Fd : hand[f] # "peeled"
  /\ hand[MainFd] = "peeled" => Peeled(hev[MainFd])
  /\ \A a \in DOMAIN assoc : assoc[a].sock \in Fd =>
       a \in DOMAIN peers \/ (hand[MainFd] = "peeled" /\ hev[MainFd].assoc = a)

\* No two peers share a buffer, only the main socket sets up associations, and
\* one that is not over has a socket.
TableInv ==
  /\ SocketsApart
  /\ \A a, b \in DOMAIN peers : a # b => peers[a].buf # peers[b].buf
  /\ \A a \in DOMAIN assoc : assoc[a].st = "setup" => assoc[a].sock = MainFd
  /\ \A a \in DOMAIN assoc : Live(a) => assoc[a].sock # Closed

\* A handler works for a peer of the table, and in its buffer.
HandlersServePeers ==
  /\ \A f \in Fd : hand[f] \in {"getBuffer", "receive", "dispatch"} =>
       \E a \in DOMAIN peers :
         peers[a].fd = f /\ (hand[f] # "getBuffer" => peers[a].buf = hbuf[f])
  /\ hand[MainFd] \in {"receive", "dispatch"} => hbuf[MainFd] = MainBuf

\* The two halves of TypeOK: what kernel and handlers share, and the loop's own.
Association == [remote : Remote, st : {"setup", "up"} \cup EndState, sock : Sock \cup {Closed}]

DataTypes ==
  /\ DOMAIN assoc \subseteq Assoc
  /\ \A a \in DOMAIN assoc : assoc[a] \in Association
  /\ queue \in [Sock -> Seq(Event)]
  /\ DOMAIN peers \subseteq DOMAIN assoc
  /\ \A a \in DOMAIN peers : peers[a] \in [fd : Fd, buf : Buf]
  /\ hand \in [Sock -> HandPc]
  /\ hbuf \in [Sock -> Buf \cup {MainBuf}]
  /\ hev \in [Sock -> Event \cup {NoEvent}]

LoopTypes ==
  /\ todo \subseteq Configured
  /\ reest \in [Remote -> Nat] /\ retried \in [Remote -> Nat]
  /\ loop \in {"connect", "launch", "select", "round", "chat", "send"} \cup Stopped

\* What holds of associations, queues, table and handlers wherever the loop is.
DataInv ==
  /\ DataTypes /\ TableInv /\ PeelInv /\ QueuesSound /\ HandledSound /\ UpsOnce
  /\ HandlersServePeers

\* Handlers run within a round only.
HandlersWithinRound == loop # "round" => \A s \in Sock : hand[s] = "idle"

IInv == LoopTypes /\ DataInv /\ HandlersWithinRound

-----------------------------------------------------------------------------
(* What sctp_peeloff makes of a queue. *)

\* Induction, stated of sets: with a set in the place of a predicate its
\* hypothesis is a formula of first order.
LEMMA Induction ==
  ASSUME NEW A \in SUBSET Nat, 0 \in A, \A n \in A : n + 1 \in A
  PROVE  A = Nat
<1> DEFINE B == Nat \ A
           Less == OpToRel(<, Nat)
<1> SUFFICES ASSUME B # {} PROVE FALSE
  OBVIOUS
<1>1. IsWellFoundedOn(Less, Nat)
  BY NatLessThanWellFounded
<1>2. Less = {p \in Nat \X Nat : p[1] < p[2]}
  BY DEF OpToRel
<1> HIDE DEF Less
<1>3. PICK n \in B : \A m \in B : <<m, n>> \notin Less
  BY <1>1, WFMin
<1>4. n \in Nat /\ n # 0
  BY <1>3
<1>5. n - 1 \in Nat /\ n - 1 < n
  BY <1>4
<1>6. <<n - 1, n>> \in Less
  BY <1>2, <1>4, <1>5
<1>7. n - 1 \in A
  BY <1>3, <1>5, <1>6
<1> QED
  BY <1>3, <1>4, <1>5, <1>7

\* The recursion of Sift, and that it has a solution.
SiftsUpTo(f, s, keep) ==
  f = [n \in 0 .. Len(s) |->
         IF n = 0 THEN <<>>
         ELSE IF s[n] \in keep THEN Append(f[n - 1], s[n]) ELSE f[n - 1]]

LEMMA SiftExists ==
  ASSUME NEW s \in Seq(Event), NEW keep
  PROVE  \E f : SiftsUpTo(f, s, keep)
<1> DEFINE Solves(f, m) ==
      f = [n \in 0 .. m |->
             IF n = 0 THEN <<>>
             ELSE IF s[n] \in keep THEN Append(f[n - 1], s[n]) ELSE f[n - 1]]
           A == {m \in Nat : \E f : Solves(f, m)}
<1>1. 0 \in A
  <2> DEFINE f == [n \in 0 .. 0 |-> <<>>]
  <2>1. Solves(f, 0)
    OBVIOUS
  <2> QED
    BY <2>1
<1>2. ASSUME NEW m \in A
      PROVE  m + 1 \in A
  <2>1. PICK f : Solves(f, m)
    OBVIOUS
  <2>2. m \in Nat /\ m \in 0 .. m
    OBVIOUS
  <2> DEFINE last == IF s[m + 1] \in keep THEN Append(f[m], s[m + 1]) ELSE f[m]
             g == [n \in 0 .. m + 1 |-> IF n = m + 1 THEN last ELSE f[n]]
  <2>3. \A n \in 0 .. m : g[n] = f[n]
    BY <2>2
  <2>4. \A n \in 0 .. m :
          g[n] = IF n = 0 THEN <<>>
                 ELSE IF s[n] \in keep THEN Append(g[n - 1], s[n]) ELSE g[n - 1]
    <3> TAKE n \in 0 .. m
    <3>1. n # 0 => n - 1 \in 0 .. m
      BY <2>2
    <3>2. f[n] = IF n = 0 THEN <<>>
                 ELSE IF s[n] \in keep THEN Append(f[n - 1], s[n]) ELSE f[n - 1]
      BY <2>1
    <3> QED
      BY <2>3, <3>1, <3>2
  <2>5. g[m + 1] = last /\ m + 1 # 0 /\ m + 1 - 1 = m /\ g[m] = f[m]
    BY <2>2, <2>3
  <2>6. Solves(g, m + 1)
    <3> DEFINE h == [n \in 0 .. m + 1 |->
                       IF n = 0 THEN <<>>
                       ELSE IF s[n] \in keep THEN Append(g[n - 1], s[n]) ELSE g[n - 1]]
    <3>1. \A n \in 0 .. m + 1 : g[n] = h[n]
      <4> TAKE n \in 0 .. m + 1
      <4>1. CASE n = m + 1
        BY <2>5, <4>1
      <4>2. CASE n # m + 1
        <5>1. n \in 0 .. m
          BY <2>2, <4>2
        <5> HIDE DEF g
        <5> QED
          BY <2>4, <5>1
      <4> QED
        BY <4>1, <4>2
    <3>2. g = [n \in 0 .. m + 1 |-> g[n]] /\ h = [n \in 0 .. m + 1 |-> h[n]]
      OBVIOUS
    <3> HIDE DEF g, h
    <3>3. g = h
      BY <3>1, <3>2
    <3> QED
      BY <3>3 DEF h
  <2> HIDE DEF g, Solves
  <2> QED
    BY <2>2, <2>6
<1> HIDE DEF Solves
<1>3. A = Nat
  BY <1>1, <1>2, Induction
<1>4. Len(s) \in Nat
  OBVIOUS
<1>5. PICK f : Solves(f, Len(s))
  BY <1>3, <1>4
<1> QED
  BY <1>5 DEF Solves, SiftsUpTo

\* What Sift keeps is in the queue, is to be kept, and stays in its order.
LEMMA SiftKeeps ==
  ASSUME NEW s \in Seq(Event), NEW keep, NEW t, t = Sift(s, keep)
  PROVE  /\ t \in Seq(Event)
         /\ \A i \in DOMAIN t : t[i] \in keep /\ \E k \in DOMAIN s : s[k] = t[i]
         /\ \A i, j \in DOMAIN t : i < j =>
              \E k, l \in DOMAIN s : k < l /\ s[k] = t[i] /\ s[l] = t[j]
<1> DEFINE L == Len(s)
           f == CHOOSE f : SiftsUpTo(f, s, keep)
<1>1. Sift(s, keep) = f[L]
  BY DEF Sift, SiftsUpTo
<1>0. SiftsUpTo(f, s, keep)
  BY SiftExists
<1> HIDE DEF f
<1>2. f = [n \in 0 .. L |->
             IF n = 0 THEN <<>>
             ELSE IF s[n] \in keep THEN Append(f[n - 1], s[n]) ELSE f[n - 1]]
  BY <1>0 DEF SiftsUpTo
<1>3. f[0] = <<>> /\ L \in Nat /\ DOMAIN s = 1 .. L
  BY <1>2
<1>4. \A n \in 0 .. L : n # 0 =>
        f[n] = IF s[n] \in keep THEN Append(f[n - 1], s[n]) ELSE f[n - 1]
  BY <1>2
<1> DEFINE Good(q, m) ==
      /\ q \in Seq(Event)
      /\ \A i \in DOMAIN q : q[i] \in keep /\ \E k \in 1 .. m : s[k] = q[i]
      /\ \A i, j \in DOMAIN q : i < j =>
           \E k, l \in 1 .. m : k < l /\ s[k] = q[i] /\ s[l] = q[j]
           A == {m \in Nat : m <= L => Good(f[m], m)}
<1>5. 0 \in A
  <2>1. <<>> \in Seq(Event) /\ DOMAIN <<>> = {}
    OBVIOUS
  <2>2. Good(f[0], 0)
    BY <1>3, <2>1
  <2> QED
    BY <2>2
<1>6. ASSUME NEW m \in A
      PROVE  m + 1 \in A
  <2> SUFFICES ASSUME m + 1 <= L PROVE Good(f[m + 1], m + 1)
    OBVIOUS
  <2>1. m \in Nat /\ m + 1 \in 0 .. L /\ m + 1 # 0 /\ m + 1 - 1 = m /\ m + 1 \in 1 .. L /\ m <= L
    BY <1>3
  <2>2. Good(f[m], m)
    BY <2>1
  <2>3. f[m + 1] = IF s[m + 1] \in keep THEN Append(f[m], s[m + 1]) ELSE f[m]
    BY <1>4, <2>1
  <2>4. \A k \in 1 .. m : k \in 1 .. m + 1 /\ k < m + 1
    BY <2>1
  <2>5. CASE s[m + 1] \notin keep
    <3>1. f[m + 1] = f[m]
      BY <2>3, <2>5
    <3> QED
      BY <2>2, <2>4, <3>1
  <2>6. CASE s[m + 1] \in keep
    <3> DEFINE u == f[m]
               e == s[m + 1]
               v == Append(u, e)
    <3>1. f[m + 1] = v /\ u \in Seq(Event) /\ e \in Event /\ e \in keep
      BY <1>3, <2>1, <2>2, <2>3, <2>6
    <3>2. /\ v \in Seq(Event) /\ Len(u) \in Nat
          /\ DOMAIN u = 1 .. Len(u) /\ DOMAIN v = 1 .. Len(u) + 1
          /\ \A i \in 1 .. Len(u) : v[i] = u[i]
          /\ v[Len(u) + 1] = e
      BY <3>1
    <3>3. \A i \in DOMAIN u : u[i] \in keep /\ \E k \in 1 .. m : s[k] = u[i]
      BY <2>2
    <3>4. \A i, j \in DOMAIN u : i < j =>
            \E k, l \in 1 .. m : k < l /\ s[k] = u[i] /\ s[l] = u[j]
      BY <2>2
    <3>5. m + 1 \in 1 .. m + 1 /\ s[m + 1] = e
      BY <2>1
    <3> HIDE DEF u, e, v
    <3>6. ASSUME NEW i \in DOMAIN v
          PROVE  v[i] \in keep /\ \E k \in 1 .. m + 1 : s[k] = v[i]
      BY <2>4, <3>1, <3>2, <3>3, <3>5
    <3>7. ASSUME NEW i \in DOMAIN v, NEW j \in DOMAIN v, i < j
          PROVE  \E k, l \in 1 .. m + 1 : k < l /\ s[k] = v[i] /\ s[l] = v[j]
      <4>1. i \in DOMAIN u /\ v[i] = u[i]
        BY <3>2, <3>7
      <4>2. CASE j \in DOMAIN u
        BY <2>4, <3>2, <3>4, <3>7, <4>1, <4>2
      <4>3. CASE j = Len(u) + 1
        BY <2>4, <3>2, <3>3, <3>5, <4>1, <4>3
      <4> QED
        BY <3>2, <4>2, <4>3
    <3> QED
      BY <3>1, <3>2, <3>6, <3>7
  <2> QED
    BY <2>5, <2>6
<1> HIDE DEF Good
<1>7. A = Nat
  BY <1>5, <1>6, Induction
<1>8. Good(f[L], L)
  BY <1>3, <1>7
<1>9. t = f[L]
  BY <1>1
<1>10. Good(t, L)
  BY <1>8, <1>9
<1>11. /\ t \in Seq(Event)
       /\ \A i \in DOMAIN t : t[i] \in keep /\ \E k \in 1 .. L : s[k] = t[i]
       /\ \A i, j \in DOMAIN t : i < j =>
            \E k, l \in 1 .. L : k < l /\ s[k] = t[i] /\ s[l] = t[j]
  BY <1>10 DEF Good
<1>12. \A k \in 1 .. L : k \in DOMAIN s
  BY <1>3
<1>13. ASSUME NEW i \in DOMAIN t
       PROVE  t[i] \in keep /\ \E k \in DOMAIN s : s[k] = t[i]
  BY <1>11, <1>12
<1>14. ASSUME NEW i \in DOMAIN t, NEW j \in DOMAIN t, i < j
       PROVE  \E k, l \in DOMAIN s : k < l /\ s[k] = t[i] /\ s[l] = t[j]
  <2>1. PICK k \in 1 .. L, l \in 1 .. L : k < l /\ s[k] = t[i] /\ s[l] = t[j]
    BY <1>11, <1>14
  <2> QED
    BY <1>12, <2>1
<1> QED
  BY <1>11, <1>13, <1>14

\* What sctp_peeloff is to take it takes.
LEMMA SiftLosesNone ==
  ASSUME NEW s \in Seq(Event), NEW keep, NEW t, t = Sift(s, keep)
  PROVE  \A k \in DOMAIN s : s[k] \in keep => \E i \in DOMAIN t : t[i] = s[k]
<1> DEFINE L == Len(s)
           f == CHOOSE f : SiftsUpTo(f, s, keep)
<1>1. Sift(s, keep) = f[L]
  BY DEF Sift, SiftsUpTo
<1>0. SiftsUpTo(f, s, keep)
  BY SiftExists
<1> HIDE DEF f
<1>2. f = [n \in 0 .. L |->
             IF n = 0 THEN <<>>
             ELSE IF s[n] \in keep THEN Append(f[n - 1], s[n]) ELSE f[n - 1]]
  BY <1>0 DEF SiftsUpTo
<1>3. f[0] = <<>> /\ L \in Nat /\ DOMAIN s = 1 .. L
  BY <1>2
<1>4. \A n \in 0 .. L : n # 0 =>
        f[n] = IF s[n] \in keep THEN Append(f[n - 1], s[n]) ELSE f[n - 1]
  BY <1>2
<1> DEFINE Whole(q, m) ==
      q \in Seq(Event) /\ \A k \in 1 .. m : s[k] \in keep => \E i \in DOMAIN q : q[i] = s[k]
           A == {m \in Nat : m <= L => Whole(f[m], m)}
<1>5. 0 \in A
  <2>1. <<>> \in Seq(Event) /\ 1 .. 0 = {}
    OBVIOUS
  <2>2. Whole(f[0], 0)
    BY <1>3, <2>1
  <2> QED
    BY <2>2
<1>6. ASSUME NEW m \in A
      PROVE  m + 1 \in A
  <2> SUFFICES ASSUME m + 1 <= L PROVE Whole(f[m + 1], m + 1)
    OBVIOUS
  <2>1. m \in Nat /\ m + 1 \in 0 .. L /\ m + 1 # 0 /\ m + 1 - 1 = m /\ m + 1 \in 1 .. L /\ m <= L
    BY <1>3
  <2>2. Whole(f[m], m)
    BY <2>1
  <2>3. f[m + 1] = IF s[m + 1] \in keep THEN Append(f[m], s[m + 1]) ELSE f[m]
    BY <1>4, <2>1
  <2>4. \A k \in 1 .. m + 1 : k \in 1 .. m \/ k = m + 1
    BY <2>1
  <2>5. CASE s[m + 1] \notin keep
    <3>1. f[m + 1] = f[m]
      BY <2>3, <2>5
    <3> QED
      BY <2>2, <2>4, <2>5, <3>1
  <2>6. CASE s[m + 1] \in keep
    <3> DEFINE u == f[m]
               e == s[m + 1]
               v == Append(u, e)
    <3>1. f[m + 1] = v /\ u \in Seq(Event) /\ e \in Event /\ e = s[m + 1]
      BY <1>3, <2>1, <2>2, <2>3, <2>6
    <3>2. /\ v \in Seq(Event) /\ Len(u) + 1 \in DOMAIN v /\ v[Len(u) + 1] = e
          /\ \A i \in DOMAIN u : i \in DOMAIN v /\ v[i] = u[i]
      BY <3>1
    <3>3. \A k \in 1 .. m : s[k] \in keep => \E i \in DOMAIN u : u[i] = s[k]
      BY <2>2
    <3> HIDE DEF u, e, v
    <3>4. ASSUME NEW k \in 1 .. m + 1, s[k] \in keep
          PROVE  \E i \in DOMAIN v : v[i] = s[k]
      BY <2>4, <3>1, <3>2, <3>3, <3>4
    <3> QED
      BY <3>1, <3>2, <3>4
  <2> QED
    BY <2>5, <2>6
<1> HIDE DEF Whole
<1>7. A = Nat
  BY <1>5, <1>6, Induction
<1>8. Whole(f[L], L)
  BY <1>3, <1>7
<1> QED
  BY <1>1, <1>3, <1>8 DEF Whole

-----------------------------------------------------------------------------
(* The kernel's steps. *)

LEMMA TypesSplit == TypeOK <=> DataTypes /\ LoopTypes
BY DEF TypeOK, DataTypes, LoopTypes, Association

LEMMA QueueGrows ==
  ASSUME NEW Q \in [Sock -> Seq(Event)], NEW k \in Sock, NEW e \in Event,
         NEW R, R = [Q EXCEPT ![k] = Append(@, e)]
  PROVE  /\ R \in [Sock -> Seq(Event)]
         /\ \A s \in Sock : \A i \in DOMAIN R[s] :
              \/ i \in DOMAIN Q[s] /\ R[s][i] = Q[s][i]
              \/ s = k /\ i = Len(Q[k]) + 1 /\ R[s][i] = e
         /\ Len(Q[k]) \in Nat /\ DOMAIN Q[k] = 1 .. Len(Q[k])
<1>1. Q[k] \in Seq(Event) /\ Append(Q[k], e) \in Seq(Event)
  OBVIOUS
<1>2. /\ Len(Q[k]) \in Nat /\ DOMAIN Q[k] = 1 .. Len(Q[k])
      /\ DOMAIN Append(Q[k], e) = 1 .. Len(Q[k]) + 1
      /\ \A i \in 1 .. Len(Q[k]) : Append(Q[k], e)[i] = Q[k][i]
      /\ Append(Q[k], e)[Len(Q[k]) + 1] = e
  BY <1>1
<1>3. R \in [Sock -> Seq(Event)] /\ R[k] = Append(Q[k], e)
  BY <1>1
<1>4. \A s \in Sock : s # k => R[s] = Q[s]
  OBVIOUS
<1>5. ASSUME NEW i \in DOMAIN R[k]
      PROVE  \/ i \in DOMAIN Q[k] /\ R[k][i] = Q[k][i]
             \/ i = Len(Q[k]) + 1 /\ R[k][i] = e
  BY <1>2, <1>3
<1> QED
  BY <1>2, <1>3, <1>4, <1>5

\* A notification or a message arrives, of a new association or of a live one.
\* One association begins or changes its socket, and the table keeps up.
LEMMA StillApart ==
  ASSUME DataInv, NEW a, NEW k,
         DOMAIN assoc' = DOMAIN assoc \cup {a},
         \A b \in DOMAIN assoc : b # a => assoc'[b] = assoc[b],
         assoc'[a].sock = k,
         k \in Fd => \A b \in DOMAIN assoc : b # a => assoc[b].sock # k,
         DOMAIN peers' \subseteq DOMAIN peers,
         \A b \in DOMAIN peers' : peers'[b] = peers[b] /\ (b = a => k = assoc[a].sock)
  PROVE  SocketsApart'
<1>1. /\ DOMAIN peers \subseteq DOMAIN assoc
      /\ \A b \in DOMAIN peers : assoc[b].sock = peers[b].fd
      /\ \A b, c \in DOMAIN assoc : b # c /\ assoc[b].sock \in Fd => assoc[b].sock # assoc[c].sock
  BY DEF DataInv, DataTypes, TableInv, SocketsApart
<1>2. \A b \in DOMAIN peers' : assoc'[b].sock = peers'[b].fd
  BY <1>1
<1>3. ASSUME NEW b \in DOMAIN assoc', NEW c \in DOMAIN assoc', b # c, assoc'[b].sock \in Fd
      PROVE  assoc'[b].sock # assoc'[c].sock
  <2>1. CASE b = a
    BY <1>3, <2>1
  <2>2. CASE c = a
    BY <1>3, <2>2
  <2>3. CASE b # a /\ c # a
    BY <1>1, <1>3, <2>3
  <2> QED
    BY <2>1, <2>2, <2>3
<1> QED
  BY <1>2, <1>3 DEF SocketsApart

LEMMA EventArrives ==
  ASSUME DataInv, NEW a \in Assoc, NEW type \in EventType,
         DOMAIN assoc' = DOMAIN assoc \cup {a},
         \A b \in DOMAIN assoc : b # a => assoc'[b] = assoc[b],
         assoc'[a] \in Association,
         assoc'[a].st # "setup",
         Live(a)' => assoc'[a].sock # Closed,
         assoc'[a].sock \in Sock,
         type \in EndState => assoc'[a].st = type,
         a \in DOMAIN assoc => Live(a) /\ assoc'[a].sock = assoc[a].sock,
         a \notin DOMAIN assoc => assoc'[a].sock = MainFd,
         type = "up" => (a \in DOMAIN assoc => assoc[a].st = "setup") /\ assoc'[a].sock = MainFd,
         queue' = [queue EXCEPT ![assoc'[a].sock] = Append(@, [assoc |-> a, type |-> type])],
         peers' = peers, hand' = hand, hbuf' = hbuf, hev' = hev
  PROVE  DataInv'
<1> DEFINE k == assoc'[a].sock
           e == [assoc |-> a, type |-> type]
<1>1. e \in Event /\ e.assoc = a /\ e.type = type
  BY DEF Event
<1>2. queue \in [Sock -> Seq(Event)] /\ k \in Sock
  BY DEF DataInv, DataTypes
<1> HIDE DEF e
<1>3. queue' = [queue EXCEPT ![k] = Append(@, e)]
  BY DEF e
<1> HIDE DEF k
<1>4. /\ queue' \in [Sock -> Seq(Event)]
      /\ \A s \in Sock : \A i \in DOMAIN queue'[s] :
           \/ i \in DOMAIN queue[s] /\ queue'[s][i] = queue[s][i]
           \/ s = k /\ i = Len(queue[k]) + 1 /\ queue'[s][i] = e
      /\ Len(queue[k]) \in Nat /\ DOMAIN queue[k] = 1 .. Len(queue[k])
  BY <1>1, <1>2, <1>3, QueueGrows
<1>5. \A x : Sound(x) => Sound(x)' /\ assoc'[x.assoc].sock = assoc[x.assoc].sock
  <2> SUFFICES ASSUME NEW x, Sound(x)
               PROVE  Sound(x)' /\ assoc'[x.assoc].sock = assoc[x.assoc].sock
    OBVIOUS
  <2>1. CASE x.assoc = a
    BY <2>1 DEF Sound, Live, EndState
  <2>2. CASE x.assoc # a
    BY <2>2 DEF Sound
  <2> QED
    BY <2>1, <2>2
<1>6. Sound(e)' /\ assoc'[e.assoc].sock = k
  BY <1>1 DEF Sound, k
<1>7. DataTypes'
  BY <1>4 DEF DataInv, DataTypes
<1>8. TableInv'
  <2>1. SocketsApart'
    <3>1. a \notin DOMAIN assoc => a \notin DOMAIN peers
      BY DEF DataInv, DataTypes
    <3>2. assoc'[a].sock = k /\ (a \in DOMAIN assoc => k = assoc[a].sock)
      BY DEF k
    <3>3. k \in Fd => \A b \in DOMAIN assoc : b # a => assoc[b].sock # k
      <4>1. CASE a \in DOMAIN assoc
        BY <3>2, <4>1 DEF DataInv, TableInv, SocketsApart
      <4>2. CASE a \notin DOMAIN assoc
        BY <3>2, <4>2, SocketAssumption
      <4> QED
        BY <4>1, <4>2
    <3> QED
      BY <3>1, <3>2, <3>3, StillApart
  <2>2. \A b \in DOMAIN assoc' : assoc'[b].st = "setup" => assoc'[b].sock = MainFd
    BY DEF DataInv, TableInv
  <2>3. \A b \in DOMAIN assoc' : Live(b)' => assoc'[b].sock # Closed
    BY DEF DataInv, TableInv, Live
  <2> QED
    BY <2>1, <2>2, <2>3 DEF DataInv, TableInv
<1>9. QueuesSound'
  <2> SUFFICES ASSUME NEW s \in Sock, NEW i \in DOMAIN queue'[s]
               PROVE  Sound(queue[s][i])' /\ assoc'[queue'[s][i].assoc].sock = s
    BY DEF QueuesSound
  <2>1. CASE i \in DOMAIN queue[s] /\ queue'[s][i] = queue[s][i]
    BY <1>5, <2>1 DEF DataInv, QueuesSound, Sound
  <2>2. CASE s = k /\ queue'[s][i] = e
    BY <1>6, <2>2 DEF Sound
  <2> QED
    BY <1>4, <2>1, <2>2
<1>10. HandledSound'
  BY <1>5 DEF DataInv, HandledSound, Sound
<1>11. UpsOnce'
  <2>1. ASSUME type = "up", NEW x, Sound(x)
        PROVE  x.assoc # a
    BY <2>1 DEF Sound
  <2>2. type = "up" => k = MainFd
    BY DEF k
  <2>3. ASSUME NEW s \in Sock, NEW i \in DOMAIN queue'[s], queue'[s][i].type = "up"
        PROVE  s = MainFd
    BY <1>1, <1>4, <2>2, <2>3 DEF DataInv, UpsOnce
  <2> DEFINE q == queue[MainFd]
             r == queue'[MainFd]
  <2>4. \A i \in DOMAIN q : Sound(q[i])
    BY DEF DataInv, QueuesSound, Sock
  <2>5. ASSUME NEW i \in DOMAIN r, NEW j \in DOMAIN r,
               i < j, r[i].type = "up", r[j].type = "up"
        PROVE  r[i].assoc # r[j].assoc
    <3>1. MainFd \in Sock
      BY DEF Sock
    <3>2. CASE j \in DOMAIN q /\ r[j] = q[j]
      <4>1. i \in DOMAIN q /\ r[i] = q[i]
        BY <1>4, <2>5, <3>1, <3>2
      <4> QED
        BY <2>5, <3>2, <4>1 DEF DataInv, UpsOnce
    <3>3. CASE MainFd = k /\ j = Len(q) + 1 /\ r[j] = e
      <4>1. i \in DOMAIN q /\ r[i] = q[i]
        BY <1>4, <2>5, <3>1, <3>3
      <4>2. Sound(r[i]) /\ type = "up" /\ r[j].assoc = a
        BY <1>1, <2>4, <2>5, <3>3, <4>1
      <4> QED
        BY <2>1, <4>2
    <3> QED
      BY <1>4, <3>1, <3>2, <3>3
  <2>6. ASSUME NEW s \in Sock, hand'[s] = "dispatch", hev'[s].type = "up"
        PROVE  /\ s = MainFd
               /\ \A i \in DOMAIN r : r[i].type = "up" => r[i].assoc # hev'[s].assoc
    <3>1. s = MainFd /\ Sound(hev[s])
      BY <2>6 DEF DataInv, UpsOnce, HandledSound
    <3>2. ASSUME NEW i \in DOMAIN r, r[i].type = "up"
          PROVE  r[i].assoc # hev[s].assoc
      <4>1. CASE i \in DOMAIN q /\ r[i] = q[i]
        BY <2>6, <3>2, <4>1 DEF DataInv, UpsOnce
      <4>2. CASE r[i] = e
        BY <1>1, <2>1, <3>1, <3>2, <4>2
      <4> QED
        BY <1>4, <4>1, <4>2 DEF Sock
    <3> QED
      BY <3>1, <3>2
  <2> QED
    BY <2>3, <2>5, <2>6 DEF UpsOnce
<1>12. HandlersServePeers'
  BY DEF DataInv, HandlersServePeers
<1>13. PeelInv'
  BY SocketAssumption DEF DataInv, PeelInv, Peeled
<1> QED
  BY <1>7, <1>8, <1>9, <1>10, <1>11, <1>12, <1>13 DEF DataInv

\* An association that is new is in no table, no queue and no handler's hands.
LEMMA AssocBegins ==
  ASSUME DataInv, NEW a \in Assoc, a \notin DOMAIN assoc, NEW r \in Remote,
         assoc' = Emplace(assoc, a, [remote |-> r, st |-> "setup", sock |-> MainFd]),
         queue' = queue, peers' = peers, hand' = hand, hbuf' = hbuf, hev' = hev
  PROVE  DataInv'
<1>1. /\ DOMAIN assoc' = DOMAIN assoc \cup {a}
      /\ \A b \in DOMAIN assoc : assoc'[b] = assoc[b]
      /\ assoc'[a] = [remote |-> r, st |-> "setup", sock |-> MainFd]
  BY DEF Emplace
<1>2. MainFd \notin Fd /\ MainFd # Closed /\ MainFd \in Sock
  BY SocketAssumption DEF Sock
<1>3. assoc'[a] \in Association
  BY <1>1, <1>2 DEF Association
<1>4. \A x : Sound(x) => Sound(x)' /\ assoc'[x.assoc].sock = assoc[x.assoc].sock
  BY <1>1 DEF Sound
<1>5. DataTypes'
  BY <1>1, <1>3 DEF DataInv, DataTypes
<1>6. TableInv'
  <2>1. a \notin DOMAIN peers
    BY DEF DataInv, DataTypes
  <2>2. SocketsApart'
    BY <1>1, <1>2, <2>1, StillApart
  <2> QED
    BY <1>1, <1>2, <2>2 DEF DataInv, TableInv, Live
<1>7. QueuesSound'
  BY <1>4 DEF DataInv, QueuesSound, Sound
<1>8. HandledSound'
  BY <1>1, <1>4 DEF DataInv, HandledSound, Sound
<1>9. PeelInv'
  BY <1>1, <1>2 DEF DataInv, PeelInv, Peeled
<1> QED
  BY <1>5, <1>6, <1>7, <1>8, <1>9 DEF DataInv, UpsOnce, HandlersServePeers

LEMMA NewAssocKeeps ==
  ASSUME DataInv, NEW r \in Remote, NEW st \in {"setup", "up"}, NewAssoc(r, st),
         peers' = peers, hand' = hand, hbuf' = hbuf, hev' = hev
  PROVE  DataInv'
<1>1. PICK a \in Least(Assoc \ DOMAIN assoc) :
        /\ assoc' = Emplace(assoc, a, [remote |-> r, st |-> st, sock |-> MainFd])
        /\ queue' = IF st = "up"
                    THEN [queue EXCEPT ![MainFd] = Append(@, [assoc |-> a, type |-> "up"])]
                    ELSE queue
  BY DEF NewAssoc
<1>2. a \in Assoc /\ a \notin DOMAIN assoc
  BY DEF Least
<1>3. CASE st = "setup"
  BY <1>1, <1>2, <1>3, AssocBegins
<1>4. CASE st = "up"
  <2>1. /\ DOMAIN assoc' = DOMAIN assoc \cup {a}
        /\ \A b \in DOMAIN assoc : b # a => assoc'[b] = assoc[b]
        /\ assoc'[a] = [remote |-> r, st |-> "up", sock |-> MainFd]
    BY <1>1, <1>2, <1>4 DEF Emplace
  <2>2. MainFd # Closed /\ MainFd \in Sock
    BY SocketAssumption DEF Sock
  <2>3. /\ assoc'[a] \in Association
        /\ assoc'[a].st = "up" /\ assoc'[a].sock = MainFd
    BY <2>1, <2>2 DEF Association
  <2>4. queue' = [queue EXCEPT ![assoc'[a].sock] = Append(@, [assoc |-> a, type |-> "up"])]
    BY <1>1, <1>4, <2>3
  <2>5. "up" \in EventType /\ "up" \notin EndState
    BY DEF EventType, EndState
  <2> QED
    BY <1>2, <2>1, <2>2, <2>3, <2>4, <2>5, EventArrives
<1> QED
  BY <1>3, <1>4

\* The state of a live association changes, and its socket hears of it.
LEMMA ChangeArrives ==
  ASSUME DataInv, NEW a \in DOMAIN assoc, Live(a), NEW st \in {"up"} \cup EndState,
         NEW type \in EventType,
         type \in EndState => st = type,
         type = "up" => assoc[a].st = "setup",
         assoc' = [assoc EXCEPT ![a].st = st], Notify(a, type),
         peers' = peers, hand' = hand, hbuf' = hbuf, hev' = hev
  PROVE  DataInv'
<1>1. a \in Assoc /\ assoc[a] \in Association
  BY DEF DataInv, DataTypes
<1>2. /\ DOMAIN assoc' = DOMAIN assoc \cup {a}
      /\ \A b \in DOMAIN assoc : b # a => assoc'[b] = assoc[b]
      /\ assoc'[a] = [assoc[a] EXCEPT !.st = st]
  OBVIOUS
<1>3. /\ assoc'[a] \in Association
      /\ assoc'[a].sock = assoc[a].sock /\ assoc'[a].st = st /\ st # "setup"
  BY <1>1, <1>2 DEF Association, EndState
<1>4. assoc'[a].sock # Closed /\ (assoc[a].st = "setup" => assoc'[a].sock = MainFd)
  BY <1>3 DEF DataInv, TableInv
<1>5. assoc'[a].sock \in Sock
  BY <1>3, <1>4 DEF Association
<1>6. queue' = [queue EXCEPT ![assoc'[a].sock] = Append(@, [assoc |-> a, type |-> type])]
  BY <1>3 DEF Notify
<1> QED
  BY <1>1, <1>2, <1>3, <1>4, <1>5, <1>6, EventArrives

LEMMA KernelKeeps ==
  ASSUME IInv, KernelStep
  PROVE  IInv'
<1>1. /\ peers' = peers /\ reest' = reest /\ hand' = hand /\ hbuf' = hbuf /\ hev' = hev
      /\ loop' = loop /\ todo' = todo /\ retried' = retried
  BY DEF KernelStep, tableVars, handlerVars, loopVars
<1>2. LoopTypes' /\ HandlersWithinRound'
  BY <1>1 DEF IInv, LoopTypes, HandlersWithinRound
<1>3. DataInv
  BY DEF IInv
<1>4. ASSUME NEW r \in Remote, RemoteConnects(r)
      PROVE  DataInv'
  BY <1>1, <1>3, <1>4, NewAssocKeeps DEF RemoteConnects
<1>5. ASSUME NEW a \in DOMAIN assoc,
             \/ Establish(a) \/ EstablishFails(a)
             \/ RemoteSends(a) \/ RemoteShutsDown(a) \/ PathFails(a)
      PROVE  DataInv'
  <2>1. {"up", "data", "shut", "lost", "failed"} \subseteq EventType
        /\ EndState = {"shut", "lost", "failed"}
    BY DEF EventType, EndState
  <2>2. CASE Establish(a)
    BY <1>1, <1>3, <2>1, <2>2, ChangeArrives DEF Establish, SetState, Live
  <2>3. CASE EstablishFails(a)
    BY <1>1, <1>3, <2>1, <2>3, ChangeArrives DEF EstablishFails, SetState, Live
  <2>4. CASE RemoteSends(a)
    <3>1. assoc[a] \in Association /\ assoc[a].st = "up" /\ Live(a) /\ a \in Assoc
      BY <1>3, <2>4 DEF DataInv, DataTypes, RemoteSends, Live
    <3>2. assoc' = assoc /\ Notify(a, "data")
      BY <2>4 DEF RemoteSends
    <3>3. assoc[a].sock # Closed
      BY <1>3, <3>1 DEF DataInv, TableInv
    <3>4. assoc[a].sock \in Sock
      BY <3>1, <3>3 DEF Association
    <3>5. queue' = [queue EXCEPT ![assoc'[a].sock] = Append(@, [assoc |-> a, type |-> "data"])]
      BY <3>2 DEF Notify
    <3> QED
      BY <1>1, <1>3, <2>1, <3>1, <3>2, <3>3, <3>4, <3>5, EventArrives
  <2>5. CASE RemoteShutsDown(a)
    BY <1>1, <1>3, <2>1, <2>5, ChangeArrives DEF RemoteShutsDown, SetState, Live
  <2>6. CASE PathFails(a)
    BY <1>1, <1>3, <2>1, <2>6, ChangeArrives DEF PathFails, SetState, Live
  <2> QED
    BY <1>5, <2>2, <2>3, <2>4, <2>5, <2>6
<1> QED
  BY <1>2, <1>4, <1>5 DEF IInv, KernelStep

-----------------------------------------------------------------------------
(* The loop's steps. *)

\* The end of the socket leaves no peer, no event and no handler.
LEMMA StopKeeps ==
  ASSUME DataInv, NEW label, Stop(label),
         \A s \in Sock : hand'[s] = "idle",
         hand' \in [Sock -> HandPc],
         hbuf' \in [Sock -> Buf \cup {MainBuf}],
         hev' \in [Sock -> Event \cup {NoEvent}]
  PROVE  DataInv'
<1> DEFINE none == <<>>
<1>0. none \in Seq(Event) /\ DOMAIN none = {}
  OBVIOUS
<1> HIDE DEF none
<1>1. /\ queue' = [s \in Sock |-> none] /\ DOMAIN peers' = {}
      /\ DOMAIN assoc' = DOMAIN assoc
      /\ \A a \in DOMAIN assoc :
           assoc'[a] = [assoc[a] EXCEPT !.sock = Closed, !.st = IF Live(a) THEN "shut" ELSE @]
  BY DEF Stop, EmptyMap, none
<1>2. \A a \in DOMAIN assoc :
        /\ assoc'[a] \in Association /\ assoc'[a].sock = Closed
        /\ assoc'[a].st \notin {"setup", "up"}
  <2> SUFFICES ASSUME NEW a \in DOMAIN assoc
               PROVE  /\ assoc'[a] \in Association /\ assoc'[a].sock = Closed
                      /\ assoc'[a].st \notin {"setup", "up"}
    OBVIOUS
  <2>1. assoc[a] \in Association
    BY DEF DataInv, DataTypes
  <2> QED
    BY <1>1, <2>1 DEF Association, EndState, Live
<1>3. \A s \in Sock : DOMAIN queue'[s] = {}
  BY <1>0, <1>1
<1>4. queue' \in [Sock -> Seq(Event)]
  BY <1>0, <1>1
<1>5. DataTypes'
  BY <1>1, <1>2, <1>4 DEF DataInv, DataTypes
<1>6. TableInv'
  BY <1>1, <1>2, SocketAssumption DEF TableInv, SocketsApart, Live
<1>7. QueuesSound' /\ HandledSound' /\ UpsOnce' /\ HandlersServePeers'
  BY <1>3 DEF QueuesSound, HandledSound, UpsOnce, HandlersServePeers, Sock
<1>8. PeelInv'
  BY <1>1, <1>2, SocketAssumption DEF PeelInv, Sock
<1> QED
  BY <1>5, <1>6, <1>7, <1>8 DEF DataInv

\* When no handler is at work the end of the socket leaves none behind.
LEMMA StopsIdle ==
  ASSUME DataInv, NEW label, Stop(label), \A s \in Sock : hand[s] = "idle", UNCHANGED handlerVars
  PROVE  DataInv'
<1>1. hand' = hand /\ hbuf' = hbuf /\ hev' = hev
  BY DEF handlerVars
<1>2. /\ hand \in [Sock -> HandPc] /\ hbuf \in [Sock -> Buf \cup {MainBuf}]
      /\ hev \in [Sock -> Event \cup {NoEvent}]
  BY DEF DataInv, DataTypes
<1> QED
  BY <1>1, <1>2, StopKeeps

LEMMA ConnectKeeps ==
  ASSUME DataInv, \A s \in Sock : hand[s] = "idle",
         NEW r \in Remote, NEW next, Connect(r, next), UNCHANGED handlerVars
  PROVE  DataInv'
<1>1. hand' = hand /\ hbuf' = hbuf /\ hev' = hev
  BY DEF handlerVars
<1>2. CASE NewAssoc(r, "setup") /\ peers' = peers
  BY <1>1, <1>2, NewAssocKeeps
<1>3. CASE Stop("threw")
  BY <1>3, StopsIdle
<1> QED
  BY <1>2, <1>3 DEF Connect

\* The invariant of the data depends on nothing that the loop keeps for itself.
LEMMA DataUnchanged ==
  ASSUME DataInv, assoc' = assoc, queue' = queue, peers' = peers,
         hand' = hand, hbuf' = hbuf, hev' = hev
  PROVE  DataInv'
<1>1. DataTypes' /\ TableInv'
  BY DEF DataInv, DataTypes, TableInv, SocketsApart, Live
<1>2. QueuesSound' /\ HandledSound'
  BY DEF DataInv, QueuesSound, HandledSound, Sound
<1> QED
  BY <1>1, <1>2 DEF DataInv, PeelInv, Peeled, UpsOnce, HandlersServePeers

LEMMA ConnectNextKeeps ==
  ASSUME IInv, ConnectNext
  PROVE  IInv'
<1>1. /\ loop = "connect" /\ reest' = reest /\ retried' = retried /\ UNCHANGED handlerVars
      /\ hand' = hand /\ hbuf' = hbuf /\ hev' = hev
  BY DEF ConnectNext, handlerVars
<1>2. \A s \in Sock : hand[s] = "idle"
  BY <1>1 DEF IInv, HandlersWithinRound
<1>3. HandlersWithinRound'
  BY <1>1, <1>2 DEF HandlersWithinRound
<1>4. ASSUME NEW r \in todo, Connect(r, "connect"), todo' = todo \ {r}
      PROVE  LoopTypes' /\ DataInv'
  <2>1. r \in Remote
    BY ConfiguredAssumption DEF IInv, LoopTypes
  <2>2. loop' \in {"connect", "threw"}
    BY <1>4 DEF Connect, Stop
  <2>3. LoopTypes'
    BY <1>1, <1>4, <2>2 DEF IInv, LoopTypes, Stopped
  <2> QED
    BY <1>1, <1>2, <1>4, <2>1, <2>3, ConnectKeeps DEF IInv
<1>5. ASSUME loop' = "launch", UNCHANGED <<kernelVars, peers, todo>>
      PROVE  LoopTypes' /\ DataInv'
  <2>1. assoc' = assoc /\ queue' = queue /\ peers' = peers /\ todo' = todo
    BY <1>5 DEF kernelVars
  <2>2. LoopTypes'
    BY <1>1, <1>5, <2>1 DEF IInv, LoopTypes
  <2> QED
    BY <1>1, <2>1, <2>2, DataUnchanged DEF IInv
<1> QED
  BY <1>3, <1>4, <1>5 DEF ConnectNext, IInv

LEMMA ReestablishKeeps ==
  ASSUME IInv, NEW r \in Remote, Reestablish(r)
  PROVE  IInv'
<1>1. /\ loop = "launch" /\ todo' = todo /\ UNCHANGED handlerVars
      /\ hand' = hand /\ hbuf' = hbuf /\ hev' = hev
      /\ Connect(r, "launch")
  BY DEF Reestablish, handlerVars
<1>2. \A s \in Sock : hand[s] = "idle"
  BY <1>1 DEF IInv, HandlersWithinRound
<1>3. HandlersWithinRound'
  BY <1>1, <1>2 DEF HandlersWithinRound
<1>4. loop' \in {"launch", "threw"}
  BY <1>1 DEF Connect, Stop
<1>5. reest \in [Remote -> Nat] /\ retried \in [Remote -> Nat]
  BY DEF IInv, LoopTypes
<1>6. reest[r] - 1 \in Nat /\ retried[r] + 1 \in Nat
  BY <1>5 DEF Reestablish
<1>7. reest' \in [Remote -> Nat] /\ retried' \in [Remote -> Nat]
  BY <1>5, <1>6 DEF Reestablish
<1>8. LoopTypes'
  BY <1>1, <1>4, <1>7 DEF IInv, LoopTypes, Stopped
<1> QED
  BY <1>1, <1>2, <1>3, <1>8, ConnectKeeps DEF IInv

LEMMA SelectKeeps ==
  ASSUME IInv, Select
  PROVE  IInv'
<1> DEFINE readable == {s \in Selectable : queue[s] # <<>>}
<1>1. /\ assoc' = assoc /\ queue' = queue /\ peers' = peers /\ hbuf' = hbuf /\ hev' = hev
      /\ reest' = reest /\ todo' = todo /\ retried' = retried
      /\ loop' = IF readable = {} THEN "chat" ELSE "round"
      /\ hand' = [s \in Sock |-> IF s \in readable THEN "getBuffer" ELSE "idle"]
  BY DEF Select, kernelVars, tableVars
<1>2. readable \subseteq Selectable
  OBVIOUS
<1> HIDE DEF readable
<1>3. hand' \in [Sock -> HandPc] /\ \A s \in Sock : hand'[s] \in {"getBuffer", "idle"}
  BY <1>1 DEF HandPc
<1>4. MainFd \in Sock /\ Fd \subseteq Sock
  BY DEF Sock
<1>5. DataTypes' /\ TableInv' /\ QueuesSound'
  BY <1>1, <1>3 DEF IInv, DataInv, DataTypes, TableInv, SocketsApart, Live, QueuesSound, Sound
<1>6. HandledSound' /\ UpsOnce'
  BY <1>1, <1>3 DEF IInv, DataInv, HandledSound, UpsOnce
<1>7. ASSUME NEW f \in Fd, hand'[f] # "idle"
      PROVE  \E a \in DOMAIN peers : peers[a].fd = f
  <2>1. f \in Selectable
    BY <1>1, <1>2, <1>4, <1>7
  <2> QED
    BY <2>1, SocketAssumption DEF Selectable
<1>8. HandlersServePeers'
  BY <1>1, <1>3, <1>4, <1>7 DEF HandlersServePeers
<1>9. HandlersWithinRound'
  BY <1>1 DEF HandlersWithinRound
<1>10. LoopTypes'
  BY <1>1 DEF IInv, LoopTypes
<1>11. PeelInv'
  <2>1. hand[MainFd] = "idle"
    BY <1>4 DEF Select, IInv, HandlersWithinRound
  <2> QED
    BY <1>1, <1>3, <1>4, <2>1 DEF IInv, DataInv, PeelInv
<1> QED
  BY <1>5, <1>6, <1>8, <1>9, <1>10, <1>11 DEF IInv, DataInv

LEMMA JoinKeeps ==
  ASSUME IInv, JoinHandlers
  PROVE  IInv'
<1>1. /\ loop' \in {"threw", "chat"} /\ reest' = reest /\ todo' = todo /\ retried' = retried
      /\ hand' = [s \in Sock |-> "idle"]
      /\ hbuf' = [s \in Sock |-> MainBuf]
      /\ hev' = [s \in Sock |-> NoEvent]
  BY DEF JoinHandlers, Stop
<1>2. /\ hand' \in [Sock -> HandPc] /\ \A s \in Sock : hand'[s] = "idle"
      /\ hbuf' \in [Sock -> Buf \cup {MainBuf}] /\ hev' \in [Sock -> Event \cup {NoEvent}]
  BY <1>1 DEF HandPc
<1>3. LoopTypes' /\ HandlersWithinRound'
  BY <1>1, <1>2 DEF IInv, LoopTypes, HandlersWithinRound, Stopped
<1>4. CASE Stop("threw")
  BY <1>2, <1>3, <1>4, StopKeeps DEF IInv
<1>5. CASE UNCHANGED <<kernelVars, peers>>
  <2>1. assoc' = assoc /\ queue' = queue /\ peers' = peers
    BY <1>5 DEF kernelVars
  <2>2. DataTypes' /\ TableInv' /\ QueuesSound'
    BY <1>2, <2>1 DEF IInv, DataInv, DataTypes, TableInv, SocketsApart, Live, QueuesSound, Sound
  <2>3. HandledSound' /\ UpsOnce'
    BY <1>2, <2>1 DEF IInv, DataInv, HandledSound, UpsOnce
  <2>4. HandlersServePeers'
    BY <1>2 DEF HandlersServePeers, Sock
  <2>5. PeelInv'
    <3>1. hand[MainFd] # "peeled" /\ hand'[MainFd] # "peeled" /\ \A f \in Fd : hand'[f] # "peeled"
      BY <1>2 DEF JoinHandlers, Sock
    <3> QED
      BY <2>1, <3>1 DEF IInv, DataInv, PeelInv
  <2> QED
    BY <1>3, <2>2, <2>3, <2>4, <2>5 DEF IInv, DataInv
<1> QED
  BY <1>4, <1>5 DEF JoinHandlers

LEMMA SendKeeps ==
  ASSUME IInv, Send
  PROVE  IInv'
<1>1. /\ reest' = reest /\ todo' = todo /\ retried' = retried /\ loop = "send"
      /\ hand' = hand /\ hbuf' = hbuf /\ hev' = hev /\ UNCHANGED handlerVars
      /\ loop' \in {"launch", "threw"}
  BY DEF Send, Stop, handlerVars
<1>2. LoopTypes' /\ HandlersWithinRound' /\ \A s \in Sock : hand[s] = "idle"
  BY <1>1 DEF IInv, LoopTypes, HandlersWithinRound, Stopped
<1>3. CASE UNCHANGED <<kernelVars, peers>>
  <2>1. assoc' = assoc /\ queue' = queue /\ peers' = peers
    BY <1>3 DEF kernelVars
  <2> QED
    BY <1>1, <1>2, <2>1, DataUnchanged DEF IInv
<1>4. CASE Stop("threw")
  BY <1>1, <1>2, <1>4, StopsIdle DEF IInv
<1> QED
  BY <1>3, <1>4 DEF Send

LEMMA LoopKeeps ==
  ASSUME IInv, LoopStep
  PROVE  IInv'
<1>1. CASE EndLaunch
  <2>1. /\ assoc' = assoc /\ queue' = queue /\ peers' = peers /\ reest' = reest
        /\ hand' = hand /\ hbuf' = hbuf /\ hev' = hev /\ todo' = todo /\ retried' = retried
        /\ loop = "launch" /\ loop' = "select"
    BY <1>1 DEF EndLaunch, kernelVars, tableVars, handlerVars
  <2>2. LoopTypes' /\ HandlersWithinRound'
    BY <2>1 DEF IInv, LoopTypes, HandlersWithinRound
  <2> QED
    BY <2>1, <2>2, DataUnchanged DEF IInv
<1>2. CASE Chat
  <2>1. /\ reest' = reest /\ todo' = todo /\ retried' = retried /\ loop = "chat"
        /\ hand' = hand /\ hbuf' = hbuf /\ hev' = hev /\ UNCHANGED handlerVars
        /\ loop' \in {"launch", "send", "ended"}
    BY <1>2 DEF Chat, Stop, handlerVars
  <2>2. LoopTypes' /\ HandlersWithinRound' /\ \A s \in Sock : hand[s] = "idle"
    BY <2>1 DEF IInv, LoopTypes, HandlersWithinRound, Stopped
  <2>3. CASE UNCHANGED <<kernelVars, peers>>
    <3>1. assoc' = assoc /\ queue' = queue /\ peers' = peers
      BY <2>3 DEF kernelVars
    <3> QED
      BY <2>1, <2>2, <3>1, DataUnchanged DEF IInv
  <2>4. ASSUME NEW label, Stop(label)
        PROVE  IInv'
    BY <2>1, <2>2, <2>4, StopsIdle DEF IInv
  <2> QED
    BY <1>2, <2>3, <2>4 DEF Chat
<1> QED
  BY <1>1, <1>2, ConnectNextKeeps, ReestablishKeeps, SelectKeeps, JoinKeeps DEF LoopStep

-----------------------------------------------------------------------------
(* The handlers' steps. *)

\* A handler goes on without touching what the others see.
LEMMA HandlerMoves ==
  ASSUME DataInv, NEW s \in Sock, NEW to \in {"done", "threw"}, hand[s] # "peeled",
         hand' = [hand EXCEPT ![s] = to],
         assoc' = assoc, queue' = queue, peers' = peers, hbuf' = hbuf, hev' = hev
  PROVE  DataInv'
<1>1. hand \in [Sock -> HandPc] /\ to \in HandPc
  BY DEF DataInv, DataTypes, HandPc
<1>2. hand' \in [Sock -> HandPc] /\ hand'[s] \in {"done", "threw"}
      /\ \A u \in Sock : u # s => hand'[u] = hand[u]
  BY <1>1
<1>3. DataTypes' /\ TableInv' /\ QueuesSound'
  BY <1>2 DEF DataInv, DataTypes, TableInv, SocketsApart, Live, QueuesSound, Sound
<1>4. HandledSound' /\ UpsOnce'
  BY <1>2 DEF DataInv, HandledSound, Sound, UpsOnce
<1>5. MainFd \in Sock /\ Fd \subseteq Sock
  BY DEF Sock
<1>6. HandlersServePeers'
  BY <1>2, <1>5 DEF DataInv, HandlersServePeers
<1>7. PeelInv'
  BY <1>2, <1>5 DEF DataInv, PeelInv, Peeled
<1> QED
  BY <1>3, <1>4, <1>6, <1>7 DEF DataInv

LEMMA GetBufferKeeps ==
  ASSUME DataInv, NEW s \in Sock, GetBuffer(s)
  PROVE  DataInv'
<1>1. /\ assoc' = assoc /\ queue' = queue /\ peers' = peers /\ hev' = hev
      /\ hand[s] = "getBuffer" /\ hand' = [hand EXCEPT ![s] = "receive"]
  BY DEF GetBuffer, At, kernelVars, tableVars
<1>2. PICK b \in Buf \cup {MainBuf} :
        /\ hbuf' = [hbuf EXCEPT ![s] = b]
        /\ \/ s = MainFd /\ b = MainBuf
           \/ \E a \in DOMAIN peers : peers[a].fd = s /\ b = peers[a].buf
  BY DEF GetBuffer, DataInv, DataTypes
<1>3. /\ hand \in [Sock -> HandPc] /\ hbuf \in [Sock -> Buf \cup {MainBuf}]
      /\ MainFd \in Sock /\ Fd \subseteq Sock /\ MainFd \notin Fd
      /\ \A a \in DOMAIN peers : peers[a].fd \in Fd
  BY SocketAssumption DEF DataInv, DataTypes, Sock
<1>4. /\ hand' \in [Sock -> HandPc] /\ hbuf' \in [Sock -> Buf \cup {MainBuf}]
      /\ hand'[s] = "receive" /\ hbuf'[s] = b
      /\ \A u \in Sock : u # s => hand'[u] = hand[u] /\ hbuf'[u] = hbuf[u]
  BY <1>1, <1>2, <1>3 DEF HandPc
<1>5. DataTypes' /\ TableInv' /\ QueuesSound'
  BY <1>1, <1>4 DEF DataInv, DataTypes, TableInv, SocketsApart, Live, QueuesSound, Sound
<1>6. HandledSound' /\ UpsOnce'
  BY <1>1, <1>4 DEF DataInv, HandledSound, Sound, UpsOnce
<1>7. HandlersServePeers'
  <2>1. ASSUME NEW f \in Fd, hand'[f] \in {"getBuffer", "receive", "dispatch"}
        PROVE  \E a \in DOMAIN peers :
                 peers[a].fd = f /\ (hand'[f] # "getBuffer" => peers[a].buf = hbuf'[f])
    <3>1. CASE f = s
      BY <1>2, <1>3, <1>4, <3>1
    <3>2. CASE f # s
      BY <1>3, <1>4, <2>1, <3>2 DEF DataInv, HandlersServePeers
    <3> QED
      BY <3>1, <3>2
  <2>2. hand'[MainFd] \in {"receive", "dispatch"} => hbuf'[MainFd] = MainBuf
    BY <1>2, <1>3, <1>4 DEF DataInv, HandlersServePeers
  <2> QED
    BY <1>1, <2>1, <2>2 DEF HandlersServePeers
<1>8. PeelInv'
  BY <1>1, <1>3, <1>4 DEF DataInv, PeelInv, Peeled
<1> QED
  BY <1>5, <1>6, <1>7, <1>8 DEF DataInv

\* The first of a queue, and the others.
LEMMA TailFacts ==
  ASSUME NEW q \in Seq(Event), q # <<>>
  PROVE  /\ Head(q) \in Event /\ Head(q) = q[1] /\ 1 \in DOMAIN q
         /\ Tail(q) \in Seq(Event)
         /\ \A i \in DOMAIN Tail(q) :
              i \in Nat /\ i + 1 \in DOMAIN q /\ 1 < i + 1 /\ Tail(q)[i] = q[i + 1]
  OBVIOUS

LEMMA ReceiveKeeps ==
  ASSUME DataInv, NEW s \in Sock, Receive(s)
  PROVE  DataInv'
<1> DEFINE q == queue[s]
           e == Head(q)
           t == Tail(q)
<1>1. /\ assoc' = assoc /\ peers' = peers /\ hbuf' = hbuf /\ q # <<>>
      /\ hand[s] = "receive" /\ hand' = [hand EXCEPT ![s] = "dispatch"]
      /\ hev' = [hev EXCEPT ![s] = e] /\ queue' = [queue EXCEPT ![s] = t]
  BY DEF Receive, At, tableVars
<1>2. /\ hand \in [Sock -> HandPc] /\ hev \in [Sock -> Event \cup {NoEvent}]
      /\ queue \in [Sock -> Seq(Event)] /\ q \in Seq(Event)
  BY DEF DataInv, DataTypes
<1>3. /\ e \in Event /\ e = q[1] /\ 1 \in DOMAIN q /\ t \in Seq(Event)
      /\ \A i \in DOMAIN t :
           i \in Nat /\ i + 1 \in DOMAIN q /\ 1 < i + 1 /\ t[i] = q[i + 1]
  BY <1>1, <1>2, TailFacts
<1> HIDE DEF e, t
<1>4. /\ hand' \in [Sock -> HandPc] /\ hev' \in [Sock -> Event \cup {NoEvent}]
      /\ queue' \in [Sock -> Seq(Event)]
      /\ hand'[s] = "dispatch" /\ hev'[s] = e /\ queue'[s] = t
      /\ \A u \in Sock : u # s => hand'[u] = hand[u] /\ hev'[u] = hev[u] /\ queue'[u] = queue[u]
  BY <1>1, <1>2, <1>3 DEF HandPc
<1>5. \A i \in DOMAIN q : Sound(q[i]) /\ assoc[q[i].assoc].sock = s
  BY DEF DataInv, QueuesSound
<1>6. DataTypes' /\ TableInv'
  BY <1>1, <1>4 DEF DataInv, DataTypes, TableInv, SocketsApart, Live
<1>7. QueuesSound'
  <2> SUFFICES ASSUME NEW u \in Sock, NEW i \in DOMAIN queue'[u]
               PROVE  Sound(queue'[u][i]) /\ assoc[queue'[u][i].assoc].sock = u
    BY <1>1 DEF QueuesSound, Sound
  <2>1. CASE u = s
    BY <1>3, <1>4, <1>5, <2>1
  <2>2. CASE u # s
    BY <1>4, <2>2 DEF DataInv, QueuesSound
  <2> QED
    BY <2>1, <2>2
<1>8. HandledSound'
  <2>1. Sound(e) /\ assoc[e.assoc].sock = s
    BY <1>3, <1>5
  <2> QED
    BY <1>1, <1>4, <2>1 DEF DataInv, HandledSound, Sound
<1>9. UpsOnce'
  <2>1. ASSUME NEW u \in Sock, NEW i \in DOMAIN queue'[u], queue'[u][i].type = "up"
        PROVE  u = MainFd
    <3>1. \E j \in DOMAIN queue[u] : queue[u][j].type = "up"
      <4>1. CASE u = s
        <5>1. i \in DOMAIN t /\ t[i].type = "up"
          BY <1>4, <2>1, <4>1
        <5> QED
          BY <1>3, <4>1, <5>1
      <4>2. CASE u # s
        BY <1>4, <2>1, <4>2
      <4> QED
        BY <4>1, <4>2
    <3> QED
      BY <3>1 DEF DataInv, UpsOnce
  <2>2. MainFd \in Sock
    BY DEF Sock
  <2> DEFINE r == queue'[MainFd]
             m == queue[MainFd]
  <2>3. ASSUME NEW i \in DOMAIN r, NEW j \in DOMAIN r,
               i < j, r[i].type = "up", r[j].type = "up"
        PROVE  r[i].assoc # r[j].assoc
    <3>1. CASE s = MainFd
      <4>1. /\ i + 1 \in DOMAIN m /\ j + 1 \in DOMAIN m /\ i + 1 < j + 1
            /\ r[i] = m[i + 1] /\ r[j] = m[j + 1]
        BY <1>3, <1>4, <2>3, <3>1
      <4> QED
        BY <2>3, <4>1 DEF DataInv, UpsOnce
    <3>2. CASE s # MainFd
      <4>1. r = m
        BY <1>4, <2>2, <3>2
      <4> QED
        BY <2>3, <4>1 DEF DataInv, UpsOnce
    <3> QED
      BY <3>1, <3>2
  <2>4. ASSUME NEW u \in Sock, hand'[u] = "dispatch", hev'[u].type = "up"
        PROVE  /\ u = MainFd
               /\ \A i \in DOMAIN r : r[i].type = "up" => r[i].assoc # hev'[u].assoc
    <3>1. CASE u = s
      <4>1. u = MainFd
        BY <1>3, <1>4, <2>4, <3>1 DEF DataInv, UpsOnce
      <4>2. ASSUME NEW i \in DOMAIN r, r[i].type = "up"
            PROVE  r[i].assoc # e.assoc
        <5>1. i + 1 \in DOMAIN m /\ 1 \in DOMAIN m /\ 1 < i + 1 /\ r[i] = m[i + 1] /\ e = m[1]
          BY <1>3, <1>4, <3>1, <4>1
        <5>2. m[1].type = "up"
          BY <1>4, <2>4, <3>1, <5>1
        <5> QED
          BY <4>2, <5>1, <5>2 DEF DataInv, UpsOnce
      <4> QED
        BY <1>4, <3>1, <4>1, <4>2
    <3>2. CASE u # s
      BY <1>4, <2>2, <2>4, <3>2 DEF DataInv, UpsOnce
    <3> QED
      BY <3>1, <3>2
  <2> QED
    BY <2>1, <2>3, <2>4 DEF UpsOnce
<1>10. HandlersServePeers'
  BY <1>1, <1>4 DEF DataInv, HandlersServePeers, Sock
<1>11. PeelInv'
  BY <1>1, <1>4 DEF DataInv, PeelInv, Peeled, Sock
<1> QED
  BY <1>6, <1>7, <1>8, <1>9, <1>10, <1>11 DEF DataInv

\* The handler of an event that ended an association takes the peer away: the
\* entry, if there is one, is that of the handler's own descriptor.
LEMMA RemoveKeeps ==
  ASSUME DataInv, NEW s \in Sock, hand[s] = "dispatch", hev[s].type \in {"shut", "lost"},
         NEW to \in {"done", "schedule"}, hand' = [hand EXCEPT ![s] = to],
         Remove(hev[s].assoc), hbuf' = hbuf, hev' = hev
  PROVE  DataInv'
<1> DEFINE a == hev[s].assoc
<1>1. /\ hev[s] \in Event /\ a \in DOMAIN assoc /\ assoc[a].sock = s
      /\ assoc[a].st \in {"shut", "lost"} /\ ~Live(a)
  BY DEF DataInv, HandledSound, Sound, EndState, Live
<1> HIDE DEF a
<1>2. /\ hand \in [Sock -> HandPc] /\ queue \in [Sock -> Seq(Event)]
      /\ DOMAIN assoc \subseteq Assoc /\ DOMAIN peers \subseteq DOMAIN assoc
      /\ \A b \in DOMAIN assoc : assoc[b] \in Association
      /\ \A b \in DOMAIN peers : peers[b] \in [fd : Fd, buf : Buf] /\ assoc[b].sock = peers[b].fd
  BY DEF DataInv, DataTypes, TableInv, SocketsApart
<1>3. Fd \subseteq Sock /\ MainFd \in Sock /\ MainFd \notin Fd /\ Closed \notin Fd /\ MainFd # Closed
  BY SocketAssumption DEF Sock
<1>4. /\ hand' \in [Sock -> HandPc] /\ hand'[s] = to
      /\ \A u \in Sock : u # s => hand'[u] = hand[u]
  BY <1>2 DEF HandPc
<1>5. /\ DOMAIN peers' = DOMAIN peers \ {a}
      /\ \A b \in DOMAIN peers' : peers'[b] = peers[b]
  BY DEF Remove, Erase, Restrict, a
<1> DEFINE none == <<>>
<1>6. none \in Seq(Event) /\ DOMAIN none = {}
  OBVIOUS
<1> HIDE DEF none
<1>7. /\ DOMAIN assoc' = DOMAIN assoc
      /\ \A b \in DOMAIN assoc : b # a => assoc'[b] = assoc[b]
      /\ assoc'[a] \in Association /\ assoc'[a].st = assoc[a].st
      /\ assoc'[a].sock \notin Fd
      /\ assoc'[a].sock \in {assoc[a].sock, Closed}
      /\ queue' \in [Sock -> Seq(Event)]
      /\ \A u \in Sock : u # s => queue'[u] = queue[u]
      /\ (assoc'[a].sock = s /\ queue'[s] = queue[s]) \/ DOMAIN queue'[s] = {}
  <2>1. CASE a \in DOMAIN peers
    <3>1. /\ assoc' = [assoc EXCEPT ![a].sock = Closed]
          /\ queue' = [queue EXCEPT ![s] = none]
      BY <1>1, <1>2, <2>1 DEF Remove, a, none
    <3>2. assoc'[a] = [assoc[a] EXCEPT !.sock = Closed] /\ assoc[a] \in Association
      BY <1>1, <1>2, <3>1
    <3>3. assoc'[a] \in Association /\ assoc'[a].st = assoc[a].st /\ assoc'[a].sock = Closed
      BY <3>2 DEF Association
    <3>4. /\ queue' \in [Sock -> Seq(Event)] /\ DOMAIN queue'[s] = {}
          /\ \A u \in Sock : u # s => queue'[u] = queue[u]
      BY <1>2, <1>6, <3>1
    <3> QED
      BY <1>3, <3>1, <3>3, <3>4
  <2>2. CASE a \notin DOMAIN peers
    <3>1. assoc' = assoc /\ queue' = queue
      BY <2>2 DEF Remove, a, kernelVars
    <3>2. assoc[a].sock \notin Fd
      BY <1>1, <1>3, <2>2 DEF DataInv, PeelInv, Remove, LockFree
    <3> QED
      BY <1>1, <1>2, <3>1, <3>2
  <2> QED
    BY <2>1, <2>2
<1>8. DataTypes'
  BY <1>2, <1>4, <1>5, <1>7 DEF DataInv, DataTypes
<1>9. TableInv'
  <2>1. SocketsApart'
    BY <1>1, <1>5, <1>7, StillApart
  <2>2. \A b, c \in DOMAIN peers' : b # c => peers'[b].buf # peers'[c].buf
    BY <1>5 DEF DataInv, TableInv
  <2>3. \A b \in DOMAIN assoc' :
          /\ assoc'[b].st = "setup" => assoc'[b].sock = MainFd
          /\ assoc'[b].st \in {"setup", "up"} => assoc'[b].sock # Closed
    <3> TAKE b \in DOMAIN assoc'
    <3>1. CASE b = a
      BY <1>1, <1>7, <3>1
    <3>2. CASE b # a
      BY <1>7, <3>2 DEF DataInv, TableInv, Live
    <3> QED
      BY <3>1, <3>2
  <2> QED
    BY <2>1, <2>2, <2>3 DEF TableInv, Live
<1>10. \A x : Sound(x) /\ assoc[x.assoc].sock # s =>
         Sound(x)' /\ assoc'[x.assoc].sock = assoc[x.assoc].sock
  BY <1>1, <1>7 DEF Sound
<1>11. QueuesSound'
  <2> SUFFICES ASSUME NEW u \in Sock, NEW i \in DOMAIN queue'[u]
               PROVE  Sound(queue[u][i])' /\ assoc'[queue'[u][i].assoc].sock = u
    BY DEF QueuesSound
  <2>1. CASE u # s
    <3>1. queue'[u] = queue[u] /\ i \in DOMAIN queue[u]
      BY <1>7, <2>1
    <3>2. Sound(queue[u][i]) /\ assoc[queue[u][i].assoc].sock = u
      BY <3>1 DEF DataInv, QueuesSound
    <3> QED
      BY <1>10, <2>1, <3>1, <3>2 DEF Sound
  <2>2. CASE u = s
    <3>1. queue'[s] = queue[s] /\ assoc'[a].sock = s /\ i \in DOMAIN queue[s]
      BY <1>7, <2>2
    <3>2. Sound(queue[s][i]) /\ assoc[queue[s][i].assoc].sock = s
      BY <3>1 DEF DataInv, QueuesSound
    <3> QED
      BY <1>1, <1>7, <2>2, <3>1, <3>2 DEF Sound
  <2> QED
    BY <2>1, <2>2
<1>12. HandledSound'
  <2> SUFFICES ASSUME NEW u \in Sock
               PROVE  /\ hand'[u] = "dispatch" => Sound(hev[u])' /\ assoc'[hev[u].assoc].sock = u
                      /\ hand'[u] = "schedule" => hev[u] \in Event /\ hev[u].assoc \in DOMAIN assoc
    BY <1>7 DEF HandledSound
  <2>1. CASE u = s
    BY <1>1, <1>4, <2>1 DEF a
  <2>2. CASE u # s
    BY <1>4, <1>10, <2>2 DEF DataInv, HandledSound, Sound
  <2> QED
    BY <2>1, <2>2
<1>13. UpsOnce'
  <2>1. \A u \in Sock : DOMAIN queue'[u] = {} \/ queue'[u] = queue[u]
    BY <1>7
  <2>2. \A u \in Sock : hand'[u] = "dispatch" => hand[u] = "dispatch"
    BY <1>4
  <2> QED
    BY <1>3, <2>1, <2>2 DEF DataInv, UpsOnce
<1>14. HandlersServePeers'
  <2>1. ASSUME NEW f \in Fd, hand'[f] \in {"getBuffer", "receive", "dispatch"}
        PROVE  \E b \in DOMAIN peers' :
                 peers'[b].fd = f /\ (hand'[f] # "getBuffer" => peers'[b].buf = hbuf[f])
    <3>1. f # s /\ hand'[f] = hand[f]
      BY <1>3, <1>4, <2>1
    <3>2. PICK b \in DOMAIN peers :
            peers[b].fd = f /\ (hand[f] # "getBuffer" => peers[b].buf = hbuf[f])
      BY <2>1, <3>1 DEF DataInv, HandlersServePeers
    <3>3. b # a
      BY <1>1, <1>2, <3>1, <3>2
    <3> QED
      BY <1>5, <3>1, <3>2, <3>3
  <2>2. hand'[MainFd] \in {"receive", "dispatch"} => hbuf[MainFd] = MainBuf
    BY <1>3, <1>4 DEF DataInv, HandlersServePeers
  <2> QED
    BY <2>1, <2>2 DEF HandlersServePeers
<1>15. PeelInv'
  <2>1. \A u \in Sock : hand[u] # "peeled" /\ hand'[u] # "peeled"
    BY <1>4 DEF Remove, LockFree
  <2> QED
    BY <1>3, <1>5, <1>7, <2>1 DEF DataInv, PeelInv
<1> QED
  BY <1>8, <1>9, <1>11, <1>12, <1>13, <1>14, <1>15 DEF DataInv

\* COMM_UP of an association that is still up: it is not in the table yet, its
\* new descriptor is nobody's, and what waited for it follows.
LEMMA PeelOffKeeps ==
  ASSUME DataInv, NEW s \in Sock, PeelOff(s), assoc[hev[s].assoc].st = "up"
  PROVE  DataInv'
<1> DEFINE a == hev[s].assoc
           about == {e \in Event : e.assoc = a}
<1>1. PICK f \in Least(Fd \ OpenFds) :
        /\ At(s, "dispatch", "peeled")
        /\ assoc' = [assoc EXCEPT ![a].sock = f]
        /\ queue' = [queue EXCEPT ![f] = Sift(queue[MainFd], about),
                                  ![MainFd] = Sift(queue[MainFd], Event \ about)]
  BY DEF PeelOff
<1>2. /\ hand[s] = "dispatch" /\ hand' = [hand EXCEPT ![s] = "peeled"] /\ LockFree
      /\ hbuf' = hbuf /\ hev' = hev /\ peers' = peers /\ hev[s].type = "up"
  BY <1>1 DEF At, PeelOff, tableVars
<1>3. /\ hev[s] \in Event /\ a \in DOMAIN assoc /\ s = MainFd /\ assoc[a].sock = MainFd
      /\ assoc[a].st = "up"
      /\ \A i \in DOMAIN queue[MainFd] : queue[MainFd][i].type = "up" => queue[MainFd][i].assoc # a
  BY <1>2 DEF DataInv, HandledSound, Sound, UpsOnce
<1> DEFINE m == queue[MainFd]
           others == Event \ about
           mine == Sift(m, about)
           rest == Sift(m, others)
<1>4. /\ hand \in [Sock -> HandPc] /\ queue \in [Sock -> Seq(Event)] /\ m \in Seq(Event)
      /\ DOMAIN assoc \subseteq Assoc /\ DOMAIN peers \subseteq DOMAIN assoc
      /\ \A c \in DOMAIN assoc : assoc[c] \in Association
      /\ \A c \in DOMAIN peers : peers[c] \in [fd : Fd, buf : Buf] /\ assoc[c].sock = peers[c].fd
  BY DEF DataInv, DataTypes, TableInv, SocketsApart, Sock
<1>5. Fd \subseteq Sock /\ MainFd \in Sock /\ MainFd \notin Fd /\ Closed \notin Fd /\ MainFd # Closed
  BY SocketAssumption DEF Sock
<1>6. mine = Sift(m, about) /\ rest = Sift(m, others)
  OBVIOUS
<1> HIDE DEF m, about, others, mine, rest
<1>7. /\ mine \in Seq(Event)
      /\ \A i \in DOMAIN mine : mine[i] \in about /\ \E k \in DOMAIN m : m[k] = mine[i]
  BY <1>4, <1>6, SiftKeeps
<1>8. /\ rest \in Seq(Event)
      /\ \A i \in DOMAIN rest : rest[i] \in others /\ \E k \in DOMAIN m : m[k] = rest[i]
      /\ \A i, j \in DOMAIN rest : i < j =>
           \E k, l \in DOMAIN m : k < l /\ m[k] = rest[i] /\ m[l] = rest[j]
  BY <1>4, <1>6, SiftKeeps
<1>9. /\ \A i \in DOMAIN mine : mine[i].assoc = a
      /\ \A i \in DOMAIN rest : rest[i].assoc # a
  BY <1>7, <1>8 DEF about, others
<1> USE DEF m
<1>10. /\ f \in Fd /\ f # MainFd /\ f # Closed
       /\ \A c \in DOMAIN assoc : assoc[c].sock # f
  <2>1. f \in Fd \ OpenFds
    BY DEF Least
  <2>2. f \in Fd /\ f # MainFd /\ f # Closed
    BY <1>5, <2>1
  <2> QED
    BY <2>1, <2>2 DEF OpenFds
<1>11. a \notin DOMAIN peers
  BY <1>3, <1>4, <1>5
<1>12. queue' = [queue EXCEPT ![f] = mine, ![MainFd] = rest]
  BY <1>1 DEF mine, rest, about, others
<1> HIDE DEF a
<1>14. /\ DOMAIN assoc' = DOMAIN assoc
       /\ \A c \in DOMAIN assoc : c # a => assoc'[c] = assoc[c]
       /\ assoc'[a] \in Association /\ assoc'[a].st = "up" /\ assoc'[a].sock = f
  <2>1. assoc[a] \in Association
    BY <1>3, <1>4
  <2>2. assoc'[a] = [assoc[a] EXCEPT !.sock = f] /\ f \in Sock
    BY <1>1, <1>3, <1>5, <1>10
  <2>3. assoc'[a] \in Association /\ assoc'[a].st = "up" /\ assoc'[a].sock = f
    BY <1>3, <2>1, <2>2 DEF Association
  <2> QED
    BY <1>1, <2>3
<1>15. /\ queue' \in [Sock -> Seq(Event)]
       /\ queue'[f] = mine /\ queue'[MainFd] = rest
       /\ \A u \in Sock : u # f /\ u # MainFd => queue'[u] = queue[u]
  BY <1>4, <1>5, <1>7, <1>8, <1>10, <1>12
<1>16. /\ hand' \in [Sock -> HandPc] /\ hand'[MainFd] = "peeled"
       /\ \A u \in Sock : u # MainFd => hand'[u] = hand[u]
  BY <1>2, <1>3, <1>4 DEF HandPc
<1>17. DataTypes'
  <2>3. \A c \in DOMAIN assoc' : assoc'[c] \in Association
    BY <1>4, <1>14
  <2>4. hbuf' \in [Sock -> Buf \cup {MainBuf}] /\ hev' \in [Sock -> Event \cup {NoEvent}]
    BY <1>2 DEF DataInv, DataTypes
  <2> QED
    BY <1>2, <1>4, <1>14, <1>15, <1>16, <2>3, <2>4 DEF DataTypes
<1>18. TableInv'
  <2>1. SocketsApart'
    BY <1>2, <1>3, <1>10, <1>11, <1>14, StillApart
  <2> QED
    BY <1>2, <1>10, <1>14, <2>1 DEF DataInv, TableInv, Live
<1>19. \A x : Sound(x) => Sound(x)' /\ (x.assoc # a => assoc'[x.assoc].sock = assoc[x.assoc].sock)
  BY <1>3, <1>14 DEF Sound
<1>20. \A k \in DOMAIN m : Sound(m[k]) /\ assoc[m[k].assoc].sock = MainFd
  BY <1>5 DEF DataInv, QueuesSound
<1>21. QueuesSound'
  <2> SUFFICES ASSUME NEW u \in Sock, NEW i \in DOMAIN queue'[u]
               PROVE  Sound(queue[u][i])' /\ assoc'[queue'[u][i].assoc].sock = u
    BY DEF QueuesSound
  <2>1. CASE u = f
    <3>1. queue'[u] = mine /\ i \in DOMAIN mine
      BY <1>15, <2>1
    <3>2. Sound(mine[i]) /\ mine[i].assoc = a
      BY <1>7, <1>9, <1>20, <3>1
    <3> QED
      BY <1>14, <1>19, <2>1, <3>1, <3>2 DEF Sound
  <2>2. CASE u = MainFd
    <3>1. queue'[u] = rest /\ i \in DOMAIN rest
      BY <1>15, <2>2
    <3>2. Sound(rest[i]) /\ rest[i].assoc # a /\ assoc[rest[i].assoc].sock = MainFd
      BY <1>8, <1>9, <1>20, <3>1
    <3> QED
      BY <1>19, <2>2, <3>1, <3>2 DEF Sound
  <2>3. CASE u # f /\ u # MainFd
    <3>1. queue'[u] = queue[u] /\ i \in DOMAIN queue[u]
      BY <1>15, <2>3
    <3>2. Sound(queue[u][i]) /\ assoc[queue[u][i].assoc].sock = u
      BY <3>1 DEF DataInv, QueuesSound
    <3>3. queue[u][i].assoc # a
      BY <1>3, <2>3, <3>2
    <3> QED
      BY <1>19, <3>1, <3>2, <3>3 DEF Sound
  <2> QED
    BY <2>1, <2>2, <2>3
<1>22. HandledSound'
  <2> SUFFICES ASSUME NEW u \in Sock
               PROVE  /\ hand'[u] = "dispatch" => Sound(hev[u])' /\ assoc'[hev[u].assoc].sock = u
                      /\ hand'[u] = "schedule" => hev[u] \in Event /\ hev[u].assoc \in DOMAIN assoc
    BY <1>2, <1>14 DEF HandledSound
  <2>1. CASE u = MainFd
    BY <1>16, <2>1
  <2>2. CASE u # MainFd
    <3>1. hand[u] = "dispatch" => Sound(hev[u]) /\ assoc[hev[u].assoc].sock = u
      BY DEF DataInv, HandledSound
    <3>2. hand[u] = "schedule" => hev[u] \in Event /\ hev[u].assoc \in DOMAIN assoc
      BY DEF DataInv, HandledSound
    <3> QED
      BY <1>2, <1>3, <1>16, <1>19, <2>2, <3>1, <3>2 DEF Sound
  <2> QED
    BY <2>1, <2>2
<1>23. UpsOnce'
  <2>1. ASSUME NEW u \in Sock, NEW i \in DOMAIN queue'[u], queue'[u][i].type = "up"
        PROVE  u = MainFd
    <3>1. CASE u = f
      <4>1. i \in DOMAIN mine /\ mine[i].type = "up"
        BY <1>15, <2>1, <3>1
      <4>2. PICK k \in DOMAIN m : m[k] = mine[i]
        BY <1>7, <4>1
      <4> QED
        BY <1>3, <1>9, <4>1, <4>2
    <3>2. CASE u # f /\ u # MainFd
      BY <1>15, <2>1, <3>2 DEF DataInv, UpsOnce
    <3> QED
      BY <3>1, <3>2
  <2>2. ASSUME NEW i \in DOMAIN rest, NEW j \in DOMAIN rest,
               i < j, rest[i].type = "up", rest[j].type = "up"
        PROVE  rest[i].assoc # rest[j].assoc
    <3>1. PICK k \in DOMAIN m, l \in DOMAIN m : k < l /\ m[k] = rest[i] /\ m[l] = rest[j]
      BY <1>8, <2>2
    <3>2. m[k].type = "up" /\ m[l].type = "up"
      BY <2>2, <3>1
    <3>3. m[k].assoc # m[l].assoc
      BY <3>1, <3>2 DEF DataInv, UpsOnce
    <3> QED
      BY <3>1, <3>3
  <2>3. ASSUME NEW u \in Sock, hand'[u] = "dispatch", hev[u].type = "up"
        PROVE  FALSE
    BY <1>16, <2>3 DEF DataInv, UpsOnce
  <2> QED
    BY <1>2, <1>15, <2>1, <2>2, <2>3 DEF UpsOnce
<1>24. HandlersServePeers'
  <2>1. ASSUME NEW u \in Fd, hand'[u] \in {"getBuffer", "receive", "dispatch"}
        PROVE  \E c \in DOMAIN peers' :
                 peers'[c].fd = u /\ (hand'[u] # "getBuffer" => peers'[c].buf = hbuf[u])
    <3>1. hand'[u] = hand[u]
      BY <1>5, <1>16
    <3> QED
      BY <1>2, <2>1, <3>1 DEF DataInv, HandlersServePeers
  <2> QED
    BY <1>2, <1>16, <2>1 DEF HandlersServePeers
<1>25. PeelInv'
  <2>1. \A u \in Fd : hand'[u] # "peeled"
    BY <1>2, <1>5, <1>16 DEF LockFree
  <2>2. Peeled(hev[MainFd])'
    BY <1>2, <1>3, <1>10, <1>11, <1>14 DEF Peeled, a
  <2>3. \A c \in DOMAIN assoc' : assoc'[c].sock \in Fd => c \in DOMAIN peers \/ c = a
    BY <1>2, <1>5, <1>14 DEF DataInv, PeelInv, LockFree
  <2> QED
    BY <1>2, <1>3, <1>16, <2>1, <2>2, <2>3 DEF PeelInv, a
<1> QED
  BY <1>17, <1>18, <1>21, <1>22, <1>23, <1>24, <1>25 DEF DataInv

\* The table takes the association that was peeled off, with a buffer that is
\* nobody's.
LEMMA EmplaceKeeps ==
  ASSUME DataInv, NEW s \in Sock, EmplacePeer(s), assoc[hev[s].assoc].st = "up"
  PROVE  DataInv'
<1> DEFINE a == hev[s].assoc
           f == assoc[a].sock
<1>1. PICK b \in Least(Buf \ LentBufs) : peers' = Emplace(peers, a, [fd |-> f, buf |-> b])
  BY DEF EmplacePeer
<1>2. /\ hand[s] = "peeled" /\ hand' = [hand EXCEPT ![s] = "done"]
      /\ assoc' = assoc /\ queue' = queue /\ hbuf' = hbuf /\ hev' = hev
  BY DEF EmplacePeer, At, kernelVars
<1>3. s = MainFd /\ a \in DOMAIN assoc /\ a \notin DOMAIN peers /\ f \in Fd
  BY <1>2 DEF DataInv, PeelInv, Peeled, Sock
<1>4. b \in Buf /\ \A c \in DOMAIN peers : peers[c].buf # b
  BY DEF Least, LentBufs
<1> HIDE DEF a, f
<1>5. /\ DOMAIN peers' = DOMAIN peers \cup {a}
      /\ peers'[a] = [fd |-> f, buf |-> b]
      /\ \A c \in DOMAIN peers : peers'[c] = peers[c]
  BY <1>1, <1>3 DEF Emplace
<1>6. /\ hand \in [Sock -> HandPc] /\ hand' \in [Sock -> HandPc]
      /\ hand'[MainFd] = "done" /\ Fd \subseteq Sock /\ MainFd \notin Fd /\ MainFd \in Sock
      /\ \A u \in Sock : u # MainFd => hand'[u] = hand[u]
  BY <1>2, <1>3, SocketAssumption DEF DataInv, DataTypes, HandPc, Sock
<1>7. DataTypes'
  <2>1. peers'[a] \in [fd : Fd, buf : Buf]
    BY <1>3, <1>4, <1>5
  <2>2. \A c \in DOMAIN peers' : peers'[c] \in [fd : Fd, buf : Buf]
    BY <1>5, <2>1 DEF DataInv, DataTypes
  <2> QED
    BY <1>2, <1>3, <1>5, <1>6, <2>2 DEF DataInv, DataTypes
<1>8. TableInv'
  <2>1. peers'[a].fd = f /\ peers'[a].buf = b
    BY <1>5
  <2>2. SocketsApart'
    BY <1>2, <1>5, <2>1 DEF DataInv, TableInv, SocketsApart, f
  <2>3. \A c, d \in DOMAIN peers' : c # d => peers'[c].buf # peers'[d].buf
    BY <1>4, <1>5, <2>1 DEF DataInv, TableInv
  <2> QED
    BY <1>2, <2>2, <2>3 DEF DataInv, TableInv, Live
<1>9. QueuesSound'
  BY <1>2 DEF DataInv, QueuesSound, Sound
<1>10. HandledSound' /\ UpsOnce'
  BY <1>2, <1>6 DEF DataInv, HandledSound, Sound, UpsOnce
<1>11. HandlersServePeers'
  <2>1. ASSUME NEW u \in Fd, hand'[u] \in {"getBuffer", "receive", "dispatch"}
        PROVE  \E c \in DOMAIN peers' :
                 peers'[c].fd = u /\ (hand'[u] # "getBuffer" => peers'[c].buf = hbuf[u])
    <3>1. hand'[u] = hand[u]
      BY <1>6
    <3>2. PICK c \in DOMAIN peers :
            peers[c].fd = u /\ (hand[u] # "getBuffer" => peers[c].buf = hbuf[u])
      BY <2>1, <3>1 DEF DataInv, HandlersServePeers
    <3> QED
      BY <1>5, <3>1, <3>2
  <2> QED
    BY <1>2, <1>6, <2>1 DEF HandlersServePeers
<1>12. PeelInv'
  BY <1>2, <1>3, <1>5, <1>6 DEF DataInv, PeelInv, a
<1> QED
  BY <1>7, <1>8, <1>9, <1>10, <1>11, <1>12 DEF DataInv

\* The association ended while it was being peeled off: its descriptor goes, and
\* what waits there goes with it.  No handler works for that descriptor.
LEMMA PeelFailsKeeps ==
  ASSUME DataInv, NEW s \in Sock, EmplacePeer(s), assoc[hev[s].assoc].st # "up"
  PROVE  DataInv'
<1> DEFINE a == hev[s].assoc
           f == assoc[a].sock
           none == <<>>
<1>1. /\ hand[s] = "peeled" /\ hand' = [hand EXCEPT ![s] = "threw"]
      /\ peers' = peers /\ hbuf' = hbuf /\ hev' = hev
      /\ assoc' = [assoc EXCEPT ![a].sock = Closed]
      /\ queue' = [queue EXCEPT ![f] = none]
  BY DEF EmplacePeer, At
<1>2. /\ s = MainFd /\ a \in DOMAIN assoc /\ a \notin DOMAIN peers
      /\ f \in Fd /\ assoc[a].st \notin {"setup", "up"}
  BY <1>1 DEF DataInv, PeelInv, Peeled, Sock
<1>3. none \in Seq(Event) /\ DOMAIN none = {}
  OBVIOUS
<1> HIDE DEF a, f, none
<1>4. /\ Fd \subseteq Sock /\ MainFd \notin Fd /\ MainFd \in Sock /\ Closed \notin Fd
      /\ hand' \in [Sock -> HandPc] /\ hand'[MainFd] = "threw"
      /\ \A u \in Sock : u # MainFd => hand'[u] = hand[u]
  BY <1>1, <1>2, SocketAssumption DEF DataInv, DataTypes, HandPc, Sock
<1>5. /\ DOMAIN assoc' = DOMAIN assoc
      /\ \A c \in DOMAIN assoc : c # a => assoc'[c] = assoc[c]
      /\ assoc'[a] \in Association /\ assoc'[a].st = assoc[a].st /\ assoc'[a].sock = Closed
  <2>1. assoc[a] \in Association
    BY <1>2 DEF DataInv, DataTypes
  <2>2. assoc'[a] = [assoc[a] EXCEPT !.sock = Closed]
    BY <1>1, <1>2
  <2>3. assoc'[a] \in Association /\ assoc'[a].st = assoc[a].st /\ assoc'[a].sock = Closed
    BY <2>1, <2>2 DEF Association
  <2> QED
    BY <1>1, <2>3
<1>6. /\ queue' \in [Sock -> Seq(Event)] /\ DOMAIN queue'[f] = {}
      /\ \A u \in Sock : u # f => queue'[u] = queue[u]
  BY <1>1, <1>2, <1>3, <1>4 DEF DataInv, DataTypes
<1>7. \A c \in DOMAIN assoc : c # a => assoc[c].sock # f
  BY <1>2 DEF DataInv, TableInv, SocketsApart, f
<1>8. DataTypes'
  BY <1>1, <1>4, <1>5, <1>6 DEF DataInv, DataTypes
<1>9. TableInv'
  <2>1. SocketsApart'
    BY <1>1, <1>2, <1>4, <1>5 DEF DataInv, DataTypes, TableInv, SocketsApart
  <2>2. \A c \in DOMAIN assoc' :
          /\ assoc'[c].st = "setup" => assoc'[c].sock = MainFd
          /\ assoc'[c].st \in {"setup", "up"} => assoc'[c].sock # Closed
    <3> TAKE c \in DOMAIN assoc'
    <3>1. CASE c = a
      BY <1>2, <1>5, <3>1
    <3>2. CASE c # a
      BY <1>5, <3>2 DEF DataInv, TableInv, Live
    <3> QED
      BY <3>1, <3>2
  <2> QED
    BY <1>1, <2>1, <2>2 DEF DataInv, TableInv, Live
<1>10. \A x : Sound(x) /\ assoc[x.assoc].sock # f =>
         Sound(x)' /\ assoc'[x.assoc].sock = assoc[x.assoc].sock
  BY <1>5 DEF Sound, f
<1>11. QueuesSound'
  <2> SUFFICES ASSUME NEW u \in Sock, NEW i \in DOMAIN queue'[u]
               PROVE  Sound(queue[u][i])' /\ assoc'[queue'[u][i].assoc].sock = u
    BY DEF QueuesSound
  <2>1. u # f /\ queue'[u] = queue[u] /\ i \in DOMAIN queue[u]
    BY <1>6
  <2>2. Sound(queue[u][i]) /\ assoc[queue[u][i].assoc].sock = u
    BY <2>1 DEF DataInv, QueuesSound
  <2> QED
    BY <1>10, <2>1, <2>2 DEF Sound
<1>12. \A u \in Fd : hand[u] \in {"getBuffer", "receive", "dispatch"} => u # f
  <2> SUFFICES ASSUME hand[f] \in {"getBuffer", "receive", "dispatch"} PROVE FALSE
    OBVIOUS
  <2>1. PICK c \in DOMAIN peers : peers[c].fd = f
    BY <1>2 DEF DataInv, HandlersServePeers
  <2>2. assoc[c].sock = f /\ c \in DOMAIN assoc /\ c # a
    BY <1>2, <2>1 DEF DataInv, DataTypes, TableInv, SocketsApart
  <2> QED
    BY <1>7, <2>2
<1>13. HandledSound'
  <2> SUFFICES ASSUME NEW u \in Sock
               PROVE  /\ hand'[u] = "dispatch" => Sound(hev[u])' /\ assoc'[hev[u].assoc].sock = u
                      /\ hand'[u] = "schedule" => hev[u] \in Event /\ hev[u].assoc \in DOMAIN assoc
    BY <1>1, <1>5 DEF HandledSound
  <2>1. CASE u = MainFd
    BY <1>4, <2>1
  <2>2. CASE u # MainFd
    <3>1. u \in Fd /\ hand'[u] = hand[u]
      BY <1>4, <2>2 DEF Sock
    <3>2. hand[u] = "dispatch" => Sound(hev[u]) /\ assoc[hev[u].assoc].sock = u /\ u # f
      BY <1>12, <3>1 DEF DataInv, HandledSound
    <3>3. hand[u] = "schedule" => hev[u] \in Event /\ hev[u].assoc \in DOMAIN assoc
      BY DEF DataInv, HandledSound
    <3> QED
      BY <1>1, <1>10, <3>1, <3>2, <3>3 DEF Sound
  <2> QED
    BY <2>1, <2>2
<1>14. UpsOnce'
  <2>1. \A u \in Sock : DOMAIN queue'[u] = {} \/ queue'[u] = queue[u]
    BY <1>6
  <2>2. \A u \in Sock : hand'[u] = "dispatch" => hand[u] = "dispatch"
    BY <1>4
  <2> QED
    BY <1>1, <1>4, <2>1, <2>2 DEF DataInv, UpsOnce
<1>15. HandlersServePeers'
  BY <1>1, <1>4 DEF DataInv, HandlersServePeers
<1>16. PeelInv'
  BY <1>1, <1>2, <1>4, <1>5 DEF DataInv, PeelInv, a
<1> QED
  BY <1>8, <1>9, <1>11, <1>13, <1>14, <1>15, <1>16 DEF DataInv

LEMMA HandlerKeeps ==
  ASSUME IInv, NEW s \in Sock, HandlerStep(s)
  PROVE  IInv'
<1>1. DataInv
  BY DEF IInv
<1>2. /\ loop' = loop /\ todo' = todo /\ retried' = retried
      /\ \E from \in HandPc \ {"idle"}, to \in HandPc : At(s, from, to)
  BY DEF HandlerStep, GetBuffer, Receive, HandleData, PeelOff, EmplacePeer,
         HandleEstablishmentFailure, HandleGracefulShutdown, HandleCommLost,
         ScheduleReestablishment, Dispatch, HandPc, loopVars
<1>3. loop = "round"
  BY <1>2 DEF IInv, HandlersWithinRound, At
<1>4. HandlersWithinRound'
  BY <1>2, <1>3 DEF HandlersWithinRound
<1>5. reest \in [Remote -> Nat]
  BY DEF IInv, LoopTypes
<1>6. ASSUME NEW r, Schedule(r)
      PROVE  reest' \in [Remote -> Nat]
  <2>1. CASE r \in Remote
    <3>1. reest[r] + 1 \in Nat
      BY <1>5, <2>1
    <3> QED
      BY <1>5, <1>6, <3>1 DEF Schedule
  <2>2. CASE r \notin Remote
    BY <1>5, <1>6, <2>2 DEF Schedule
  <2> QED
    BY <2>1, <2>2
<1>7. reest' \in [Remote -> Nat]
  BY <1>5, <1>6 DEF HandlerStep, GetBuffer, Receive, HandleData, PeelOff, EmplacePeer,
         HandleEstablishmentFailure, HandleGracefulShutdown, HandleCommLost,
         ScheduleReestablishment, tableVars
<1>8. LoopTypes'
  BY <1>2, <1>3, <1>7 DEF IInv, LoopTypes
<1>9. CASE GetBuffer(s)
  BY <1>1, <1>4, <1>8, <1>9, GetBufferKeeps DEF IInv
<1>10. CASE Receive(s)
  BY <1>1, <1>4, <1>8, <1>10, ReceiveKeeps DEF IInv
<1>11. CASE HandleData(s)
  BY <1>1, <1>4, <1>8, <1>11, HandlerMoves DEF IInv, HandleData, Dispatch, At, kernelVars, tableVars
<1>12. CASE PeelOff(s)
  <2>1. CASE assoc[hev[s].assoc].st = "up"
    BY <1>1, <1>4, <1>8, <1>12, <2>1, PeelOffKeeps DEF IInv
  <2>2. CASE assoc[hev[s].assoc].st # "up"
    BY <1>1, <1>4, <1>8, <1>12, <2>2, HandlerMoves DEF IInv, PeelOff, At, kernelVars, tableVars
  <2> QED
    BY <2>1, <2>2
<1>17. CASE EmplacePeer(s)
  BY <1>1, <1>4, <1>8, <1>17, EmplaceKeeps, PeelFailsKeeps DEF IInv
<1>13. CASE HandleEstablishmentFailure(s)
  BY <1>1, <1>4, <1>8, <1>13, HandlerMoves
    DEF IInv, HandleEstablishmentFailure, Dispatch, At, kernelVars
<1>14. CASE HandleGracefulShutdown(s)
  BY <1>1, <1>4, <1>8, <1>14, RemoveKeeps DEF IInv, HandleGracefulShutdown, Dispatch, At
<1>15. CASE HandleCommLost(s)
  BY <1>1, <1>4, <1>8, <1>15, RemoveKeeps DEF IInv, HandleCommLost, Dispatch, At
<1>16. CASE ScheduleReestablishment(s)
  BY <1>1, <1>4, <1>8, <1>16, HandlerMoves DEF IInv, ScheduleReestablishment, At, kernelVars
<1> QED
  BY <1>9, <1>10, <1>11, <1>12, <1>13, <1>14, <1>15, <1>16, <1>17 DEF HandlerStep

-----------------------------------------------------------------------------
(* The balance of reestablishments. *)

\* What obliges the socket to try again, and where a report of it can be:
\* waiting on a socket, or with a handler that has not scheduled yet.
Ending == {"failed", "lost"}
Waits(s, a) == \E i \in DOMAIN queue[s] : queue[s][i].type \in Ending /\ queue[s][i].assoc = a
Busy(s) == hand[s] \in {"dispatch", "schedule"}
Holds(s, a) == Busy(s) /\ hev[s].type \in Ending /\ hev[s].assoc = a
Reported(a) == \E s \in Sock : Waits(s, a) \/ Holds(s, a)

\* There is never a second report of one end.
ReportedOnce ==
  /\ \A s \in Sock : \A i, j \in DOMAIN queue[s] :
       i < j /\ queue[s][i].type \in Ending /\ queue[s][j].type \in Ending
         => queue[s][i].assoc # queue[s][j].assoc
  /\ \A s, u \in Sock : \A a \in Assoc : Holds(u, a) =>
       ~Waits(s, a) /\ (s # u => ~Holds(s, a))

\* handleCommLost keeps to the association it removed.
LostHeld ==
  \A s \in Sock : hand[s] = "schedule" =>
    hev[s].type = "lost" /\ assoc[hev[s].assoc].st = "lost"

\* Ends whose report has been handled: each has been scheduled once.
Settled(r) ==
  {a \in DOMAIN assoc : assoc[a].remote = r /\ assoc[a].st \in Ending /\ ~Reported(a)}

\* An exception ends the task with its round, and may take a report with it.
Unharmed == Running /\ \A s \in Sock : hand[s] # "threw"

Balanced == Unharmed => \A r \in Remote : Cardinality(Settled(r)) = reest[r] + retried[r]

BalanceInv == IsFiniteSet(DOMAIN assoc) /\ ReportedOnce /\ LostHeld /\ Balanced

\* A report tells the truth, wherever it is.
LEMMA ReportsTrue ==
  ASSUME DataInv, LostHeld, NEW a, Reported(a)
  PROVE  a \in DOMAIN assoc /\ a \in Assoc /\ assoc[a].st \in Ending
<1>1. PICK s \in Sock : Waits(s, a) \/ Holds(s, a)
  BY DEF Reported
<1>2. DOMAIN assoc \subseteq Assoc
  BY DEF DataInv, DataTypes
<1>3. CASE Waits(s, a)
  <2>1. PICK i \in DOMAIN queue[s] : queue[s][i].type \in Ending /\ queue[s][i].assoc = a
    BY <1>3 DEF Waits
  <2>2. Sound(queue[s][i])
    BY DEF DataInv, QueuesSound
  <2> QED
    BY <1>2, <2>1, <2>2 DEF Sound, Ending, EndState
<1>4. CASE Holds(s, a)
  <2>1. CASE hand[s] = "dispatch"
    <3>1. Sound(hev[s]) /\ hev[s].type \in Ending /\ hev[s].assoc = a
      BY <1>4, <2>1 DEF DataInv, HandledSound, Holds
    <3> QED
      BY <1>2, <3>1 DEF Sound, Ending, EndState
  <2>2. CASE hand[s] = "schedule"
    BY <1>2, <1>4, <2>2 DEF DataInv, HandledSound, LostHeld, Holds, Ending
  <2> QED
    BY <1>4, <2>1, <2>2 DEF Holds, Busy
<1> QED
  BY <1>1, <1>3, <1>4

\* What is settled changes only with the associations and the reports.
LEMMA SettledSame ==
  ASSUME NEW r,
         \A a \in DOMAIN assoc \cup DOMAIN assoc' : Reported(a)' <=> Reported(a),
         DOMAIN assoc \subseteq DOMAIN assoc',
         \A a \in DOMAIN assoc :
           /\ assoc'[a].remote = assoc[a].remote
           /\ (assoc'[a].st \in Ending) <=> (assoc[a].st \in Ending),
         \A a \in DOMAIN assoc' \ DOMAIN assoc : assoc'[a].st \notin Ending
  PROVE  Settled(r)' = Settled(r)
<1>1. ASSUME NEW a \in DOMAIN assoc
      PROVE  a \in Settled(r)' <=> a \in Settled(r)
  BY DEF Settled
<1>2. ASSUME NEW a \in DOMAIN assoc' \ DOMAIN assoc
      PROVE  a \notin Settled(r)'
  BY DEF Settled
<1>3. Settled(r) \subseteq DOMAIN assoc /\ Settled(r)' \subseteq DOMAIN assoc'
  BY DEF Settled
<1> QED
  BY <1>1, <1>2, <1>3

\* Nobody's report comes, goes or moves.
LEMMA ReportsSame ==
  ASSUME ReportedOnce,
         \A s \in Sock : queue'[s] = queue[s] \/ (DOMAIN queue'[s] = {} /\ \A a : ~Waits(s, a)),
         \A s \in Sock : \A a : Holds(s, a)' <=> Holds(s, a)
  PROVE  ReportedOnce' /\ \A a : Reported(a)' <=> Reported(a)
<1>1. ASSUME NEW s \in Sock, NEW a
      PROVE  Waits(s, a)' <=> Waits(s, a)
  <2>1. CASE queue'[s] = queue[s]
    BY <2>1 DEF Waits
  <2>2. CASE DOMAIN queue'[s] = {} /\ \A b : ~Waits(s, b)
    <3>1. ~Waits(s, a)'
      BY <2>2 DEF Waits
    <3> QED
      BY <2>2, <3>1
  <2> QED
    BY <2>1, <2>2
<1>2. ASSUME NEW s \in Sock, NEW i \in DOMAIN queue'[s], NEW j \in DOMAIN queue'[s],
             i < j, queue'[s][i].type \in Ending, queue'[s][j].type \in Ending
      PROVE  queue'[s][i].assoc # queue'[s][j].assoc
  <2>1. queue'[s] = queue[s]
    BY <1>2
  <2> QED
    BY <1>2, <2>1 DEF ReportedOnce
<1>3. \A s, u \in Sock : \A a \in Assoc : Holds(u, a)' => ~Waits(s, a)' /\ (s # u => ~Holds(s, a)')
  BY <1>1 DEF ReportedOnce
<1>4. ReportedOnce'
  BY <1>2, <1>3 DEF ReportedOnce
<1>5. \A a : Reported(a)' <=> Reported(a)
  BY <1>1 DEF Reported
<1> QED
  BY <1>4, <1>5

\* What waited still waits when something is appended.
LEMMA QueueKeeps ==
  ASSUME NEW Q \in [Sock -> Seq(Event)], NEW k \in Sock, NEW e \in Event,
         NEW R, R = [Q EXCEPT ![k] = Append(@, e)]
  PROVE  /\ \A s \in Sock : \A i \in DOMAIN Q[s] : i \in DOMAIN R[s] /\ R[s][i] = Q[s][i]
         /\ \E i \in DOMAIN R[k] : R[k][i] = e
<1>1. Q[k] \in Seq(Event)
  OBVIOUS
<1>2. /\ \A i \in DOMAIN Q[k] : i \in DOMAIN Append(Q[k], e) /\ Append(Q[k], e)[i] = Q[k][i]
      /\ Len(Q[k]) + 1 \in DOMAIN Append(Q[k], e)
      /\ Append(Q[k], e)[Len(Q[k]) + 1] = e
  BY <1>1
<1>3. R[k] = Append(Q[k], e) /\ \A s \in Sock : s # k => R[s] = Q[s]
  OBVIOUS
<1> QED
  BY <1>2, <1>3

\* An association begins, or goes on, or ends and is reported.
LEMMA ReportArrives ==
  ASSUME DataInv, ReportedOnce, LostHeld, NEW a \in Assoc, NEW type \in EventType, NEW k \in Sock,
         a \in DOMAIN assoc => Live(a) /\ assoc'[a].remote = assoc[a].remote,
         DOMAIN assoc' = DOMAIN assoc \cup {a},
         \A b \in DOMAIN assoc : b # a => assoc'[b] = assoc[b],
         assoc'[a].st \in Ending => type \in Ending,
         queue' = [queue EXCEPT ![k] = Append(@, [assoc |-> a, type |-> type])],
         hand' = hand, hev' = hev
  PROVE  ReportedOnce' /\ LostHeld' /\ \A r : Settled(r)' = Settled(r)
<1> DEFINE e == [assoc |-> a, type |-> type]
<1>1. e \in Event /\ e.assoc = a /\ e.type = type
  BY DEF Event
<1>2. queue \in [Sock -> Seq(Event)]
  BY DEF DataInv, DataTypes
<1> HIDE DEF e
<1>3. queue' = [queue EXCEPT ![k] = Append(@, e)]
  BY DEF e
<1>4. /\ \A s \in Sock : \A i \in DOMAIN queue'[s] :
           \/ i \in DOMAIN queue[s] /\ queue'[s][i] = queue[s][i]
           \/ s = k /\ i = Len(queue[k]) + 1 /\ queue'[s][i] = e
      /\ Len(queue[k]) \in Nat /\ DOMAIN queue[k] = 1 .. Len(queue[k])
  BY <1>1, <1>2, <1>3, QueueGrows
<1>5. /\ \A s \in Sock : \A i \in DOMAIN queue[s] : i \in DOMAIN queue'[s] /\ queue'[s][i] = queue[s][i]
      /\ \E i \in DOMAIN queue'[k] : queue'[k][i] = e
  BY <1>1, <1>2, <1>3, QueueKeeps
<1>6. ~Reported(a)
  BY ReportsTrue DEF Live, Ending
<1>7. \A s \in Sock : ~Waits(s, a) /\ ~Holds(s, a)
  BY <1>6 DEF Reported
<1>8. ASSUME NEW s \in Sock, NEW b
      PROVE  Waits(s, b)' <=> Waits(s, b) \/ (s = k /\ b = a /\ type \in Ending)
  <2>1. Waits(s, b) => Waits(s, b)'
    BY <1>5 DEF Waits
  <2>2. s = k /\ b = a /\ type \in Ending => Waits(s, b)'
    BY <1>1, <1>5 DEF Waits
  <2>3. ASSUME Waits(s, b)'
        PROVE  Waits(s, b) \/ (s = k /\ b = a /\ type \in Ending)
    <3>1. PICK i \in DOMAIN queue'[s] : queue'[s][i].type \in Ending /\ queue'[s][i].assoc = b
      BY <2>3 DEF Waits
    <3> QED
      BY <1>1, <1>4, <3>1 DEF Waits
  <2> QED
    BY <2>1, <2>2, <2>3
<1>9. \A s \in Sock : \A b : Holds(s, b)' <=> Holds(s, b)
  BY DEF Holds, Busy
<1>10. ASSUME NEW s \in Sock, NEW i \in DOMAIN queue'[s], NEW j \in DOMAIN queue'[s],
              i < j, queue'[s][i].type \in Ending, queue'[s][j].type \in Ending
       PROVE  queue'[s][i].assoc # queue'[s][j].assoc
  <2>1. CASE j \in DOMAIN queue[s] /\ queue'[s][j] = queue[s][j]
    <3>1. i \in DOMAIN queue[s] /\ queue'[s][i] = queue[s][i]
      BY <1>4, <1>10, <2>1
    <3> QED
      BY <1>10, <2>1, <3>1 DEF ReportedOnce
  <2>2. CASE s = k /\ j = Len(queue[k]) + 1 /\ queue'[s][j] = e
    <3>1. i \in DOMAIN queue[s] /\ queue'[s][i] = queue[s][i]
      BY <1>4, <1>10, <2>2
    <3>2. queue[s][i].assoc # a
      BY <1>7, <1>10, <3>1 DEF Waits
    <3> QED
      BY <1>1, <2>2, <3>1, <3>2
  <2> QED
    BY <1>4, <2>1, <2>2
<1>11. \A s, u \in Sock : \A b \in Assoc : Holds(u, b)' => ~Waits(s, b)' /\ (s # u => ~Holds(s, b)')
  BY <1>7, <1>8, <1>9 DEF ReportedOnce
<1>12. ReportedOnce'
  BY <1>10, <1>11 DEF ReportedOnce
<1>13. LostHeld'
  <2> SUFFICES ASSUME NEW s \in Sock, hand[s] = "schedule"
               PROVE  hev[s].type = "lost" /\ assoc'[hev[s].assoc].st = "lost"
    BY DEF LostHeld
  <2>1. hev[s].type = "lost" /\ assoc[hev[s].assoc].st = "lost" /\ hev[s].assoc \in DOMAIN assoc
    BY DEF LostHeld, DataInv, HandledSound
  <2>2. hev[s].assoc # a
    BY <2>1 DEF Live
  <2> QED
    BY <2>1, <2>2
<1>14. \A b : b # a => (Reported(b)' <=> Reported(b))
  BY <1>8, <1>9 DEF Reported
<1>15. assoc'[a].st \in Ending => Reported(a)'
  BY <1>8 DEF Reported
<1>16. a \in DOMAIN assoc => assoc[a].st \notin Ending
  BY DEF Live, Ending
<1>17. ASSUME NEW r
       PROVE  Settled(r)' = Settled(r)
  <2>1. a \notin Settled(r) /\ a \notin Settled(r)'
    BY <1>15, <1>16 DEF Settled
  <2>2. ASSUME NEW b, b # a
        PROVE  b \in Settled(r)' <=> b \in Settled(r)
    BY <1>14, <2>2 DEF Settled
  <2>3. Settled(r)' \subseteq Settled(r) /\ Settled(r) \subseteq Settled(r)'
    BY <2>1, <2>2
  <2> QED
    BY <2>3
<1> QED
  BY <1>12, <1>13, <1>17

\* A step that settles nothing keeps the balance.
LEMMA BalanceSame ==
  ASSUME BalanceInv, \A r : Settled(r)' = Settled(r),
         \A r \in Remote : reest'[r] + retried'[r] = reest[r] + retried[r],
         Unharmed' => Unharmed
  PROVE  Balanced'
BY DEF BalanceInv, Balanced

\* The state of a live association changes, and its socket hears of it.
LEMMA ChangeBalances ==
  ASSUME DataInv, BalanceInv, Running, NEW a \in DOMAIN assoc, Live(a),
         NEW st \in {"up"} \cup EndState, NEW type \in EventType,
         st \in Ending => type \in Ending,
         assoc' = [assoc EXCEPT ![a].st = st], Notify(a, type),
         UNCHANGED <<tableVars, handlerVars, loopVars>>
  PROVE  BalanceInv'
<1>1. /\ a \in Assoc /\ assoc[a] \in Association /\ assoc[a].sock # Closed
  BY DEF DataInv, DataTypes, TableInv
<1>2. assoc[a].sock \in Sock
  BY <1>1 DEF Association
<1>3. /\ DOMAIN assoc' = DOMAIN assoc /\ DOMAIN assoc' = DOMAIN assoc \cup {a}
      /\ \A b \in DOMAIN assoc : b # a => assoc'[b] = assoc[b]
      /\ assoc'[a] = [assoc[a] EXCEPT !.st = st]
  OBVIOUS
<1>4. assoc'[a].remote = assoc[a].remote /\ assoc'[a].st = st
  BY <1>1, <1>3 DEF Association
<1>5. queue' = [queue EXCEPT ![assoc[a].sock] = Append(@, [assoc |-> a, type |-> type])]
  BY DEF Notify
<1>6. hand' = hand /\ hev' = hev /\ reest' = reest /\ retried' = retried
  BY DEF tableVars, handlerVars, loopVars
<1>7. ReportedOnce /\ LostHeld
  BY DEF BalanceInv
<1>8. ReportedOnce' /\ LostHeld' /\ \A r : Settled(r)' = Settled(r)
  BY <1>1, <1>2, <1>3, <1>4, <1>5, <1>6, <1>7, ReportArrives
<1>9. Balanced'
  BY <1>6, <1>8, BalanceSame DEF Unharmed, Running
<1>10. IsFiniteSet(DOMAIN assoc')
  BY <1>3 DEF BalanceInv
<1> QED
  BY <1>8, <1>9, <1>10 DEF BalanceInv

\* A new association settles nothing.
LEMMA NewAssocBalances ==
  ASSUME DataInv, BalanceInv, NEW r \in Remote, NEW st \in {"setup", "up"}, NewAssoc(r, st),
         hand' = hand, hev' = hev
  PROVE  /\ IsFiniteSet(DOMAIN assoc') /\ ReportedOnce' /\ LostHeld'
         /\ \A p : Settled(p)' = Settled(p)
<1>1. PICK a \in Least(Assoc \ DOMAIN assoc) :
        /\ assoc' = Emplace(assoc, a, [remote |-> r, st |-> st, sock |-> MainFd])
        /\ queue' = IF st = "up"
                    THEN [queue EXCEPT ![MainFd] = Append(@, [assoc |-> a, type |-> "up"])]
                    ELSE queue
  BY DEF NewAssoc
<1>2. a \in Assoc /\ a \notin DOMAIN assoc
  BY DEF Least
<1>3. /\ DOMAIN assoc' = DOMAIN assoc \cup {a}
      /\ \A b \in DOMAIN assoc : assoc'[b] = assoc[b]
      /\ assoc'[a].st = st /\ st \notin Ending
  BY <1>1, <1>2 DEF Emplace, Ending
<1>4. ReportedOnce /\ LostHeld /\ IsFiniteSet(DOMAIN assoc)
  BY DEF BalanceInv
<1>5. IsFiniteSet(DOMAIN assoc')
  BY <1>3, <1>4, FS_AddElement
<1>6. CASE st = "up"
  <2>1. queue' = [queue EXCEPT ![MainFd] = Append(@, [assoc |-> a, type |-> "up"])]
    BY <1>1, <1>6
  <2>2. MainFd \in Sock /\ "up" \in EventType
    BY DEF Sock, EventType
  <2> QED
    BY <1>2, <1>3, <1>4, <1>5, <2>1, <2>2, ReportArrives
<1>7. CASE st = "setup"
  <2>1. queue' = queue
    BY <1>1, <1>7
  <2>2. \A s \in Sock : \A b : Holds(s, b)' <=> Holds(s, b)
    BY DEF Holds, Busy
  <2>3. ReportedOnce' /\ \A b : Reported(b)' <=> Reported(b)
    BY <1>4, <2>1, <2>2, ReportsSame
  <2>4. \A p : Settled(p)' = Settled(p)
    BY <1>2, <1>3, <2>3, SettledSame
  <2>5. \A s \in Sock : hand[s] = "schedule" => hev[s].assoc \in DOMAIN assoc
    BY DEF DataInv, HandledSound
  <2>6. LostHeld'
    BY <1>3, <1>4, <2>5 DEF LostHeld
  <2> QED
    BY <1>5, <2>3, <2>4, <2>6
<1> QED
  BY <1>6, <1>7

LEMMA KernelBalances ==
  ASSUME IInv, BalanceInv, KernelStep
  PROVE  BalanceInv'
<1>1. /\ UNCHANGED <<tableVars, handlerVars, loopVars>> /\ Running
      /\ hand' = hand /\ hev' = hev /\ reest' = reest /\ retried' = retried
  BY DEF KernelStep, tableVars, handlerVars, loopVars
<1>2. DataInv
  BY DEF IInv
<1>3. ASSUME NEW r \in Remote, RemoteConnects(r)
      PROVE  BalanceInv'
  <2>1. /\ IsFiniteSet(DOMAIN assoc') /\ ReportedOnce' /\ LostHeld'
        /\ \A p : Settled(p)' = Settled(p)
    BY <1>1, <1>2, <1>3, NewAssocBalances DEF RemoteConnects
  <2>2. Balanced'
    BY <1>1, <2>1, BalanceSame DEF Unharmed, Running
  <2> QED
    BY <2>1, <2>2 DEF BalanceInv
<1>4. ASSUME NEW a \in DOMAIN assoc, Live(a), NEW st \in {"up"} \cup EndState, NEW type \in EventType,
             st \in Ending => type \in Ending,
             assoc' = [assoc EXCEPT ![a].st = st], Notify(a, type)
      PROVE  BalanceInv'
  BY <1>1, <1>2, <1>4, ChangeBalances
<1>5. ASSUME NEW a \in DOMAIN assoc,
             \/ Establish(a) \/ EstablishFails(a)
             \/ RemoteShutsDown(a) \/ PathFails(a)
      PROVE  BalanceInv'
  <2>1. CASE Establish(a)
    BY <1>4, <2>1 DEF Establish, SetState, Live, EventType, Ending
  <2>2. CASE EstablishFails(a)
    BY <1>4, <2>2 DEF EstablishFails, SetState, Live, EventType, EndState, Ending
  <2>3. CASE RemoteShutsDown(a)
    BY <1>4, <2>3 DEF RemoteShutsDown, SetState, Live, EventType, EndState, Ending
  <2>4. CASE PathFails(a)
    BY <1>4, <2>4 DEF PathFails, SetState, Live, EventType, EndState, Ending
  <2> QED
    BY <1>5, <2>1, <2>2, <2>3, <2>4
<1>6. ASSUME NEW a \in DOMAIN assoc, RemoteSends(a)
      PROVE  BalanceInv'
  <2>1. /\ assoc[a].st = "up" /\ assoc' = assoc /\ a \in Assoc
        /\ queue' = [queue EXCEPT ![assoc[a].sock] = Append(@, [assoc |-> a, type |-> "data"])]
    BY <1>2, <1>6 DEF RemoteSends, Notify, DataInv, DataTypes
  <2>2. assoc[a].sock \in Sock
    BY <1>2, <2>1 DEF DataInv, DataTypes, TableInv, Live, Association
  <2>3. ReportedOnce' /\ LostHeld' /\ \A r : Settled(r)' = Settled(r)
    BY <1>1, <1>2, <2>1, <2>2, ReportArrives DEF BalanceInv, Live, EventType, Ending
  <2>4. Balanced'
    BY <1>1, <2>3, BalanceSame DEF Unharmed, Running
  <2> QED
    BY <2>1, <2>3, <2>4 DEF BalanceInv
<1> QED
  BY <1>3, <1>5, <1>6 DEF KernelStep

\* The end of the socket leaves no report, and nothing to be balanced.
LEMMA StopBalances ==
  ASSUME BalanceInv, NEW label \in Stopped, Stop(label),
         \A s \in Sock : hand'[s] = "idle"
  PROVE  BalanceInv'
<1> DEFINE none == <<>>
<1>0. DOMAIN none = {}
  OBVIOUS
<1> HIDE DEF none
<1>1. \A s \in Sock : DOMAIN queue'[s] = {}
  BY <1>0 DEF Stop, none
<1>2. DOMAIN assoc' = DOMAIN assoc /\ loop' \in Stopped /\ ~Running'
  BY DEF Stop, Running
<1>3. \A s \in Sock : \A a : ~Holds(s, a)'
  BY DEF Holds, Busy
<1>4. ReportedOnce'
  BY <1>1, <1>3 DEF ReportedOnce
<1>5. LostHeld' /\ Balanced'
  BY <1>2 DEF LostHeld, Balanced, Unharmed
<1> QED
  BY <1>2, <1>4, <1>5 DEF BalanceInv

\* When no handler is at work a step of the loop that leaves the kernel alone
\* and starts or ends a round keeps every report where it is.
LEMMA RoundBalances ==
  ASSUME BalanceInv, Running, assoc' = assoc, queue' = queue, reest' = reest, retried' = retried,
         \A s \in Sock : hand[s] \notin {"dispatch", "schedule", "threw"},
         \A s \in Sock : hand'[s] \notin {"dispatch", "schedule"}
  PROVE  BalanceInv'
<1>1. \A s \in Sock : \A a : ~Holds(s, a) /\ ~Holds(s, a)'
  BY DEF Holds, Busy
<1>2. ReportedOnce' /\ \A a : Reported(a)' <=> Reported(a)
  BY <1>1, ReportsSame DEF BalanceInv
<1>3. \A r : Settled(r)' = Settled(r)
  BY <1>2, SettledSame
<1>4. Balanced'
  BY <1>3, BalanceSame DEF Unharmed, Running
<1>5. LostHeld'
  BY DEF LostHeld
<1> QED
  BY <1>2, <1>4, <1>5 DEF BalanceInv

LEMMA ConnectBalances ==
  ASSUME DataInv, BalanceInv, Running, \A s \in Sock : hand[s] = "idle",
         NEW r \in Remote, NEW next, Connect(r, next), UNCHANGED handlerVars,
         \A p \in Remote : reest'[p] + retried'[p] = reest[p] + retried[p]
  PROVE  BalanceInv'
<1>1. hand' = hand /\ hev' = hev
  BY DEF handlerVars
<1>2. CASE NewAssoc(r, "setup")
  <2>1. /\ IsFiniteSet(DOMAIN assoc') /\ ReportedOnce' /\ LostHeld'
        /\ \A p : Settled(p)' = Settled(p)
    BY <1>1, <1>2, NewAssocBalances
  <2>2. Balanced'
    BY <2>1, BalanceSame DEF Unharmed, Running
  <2> QED
    BY <2>1, <2>2 DEF BalanceInv
<1>3. CASE Stop("threw")
  BY <1>1, <1>3, StopBalances DEF Stopped
<1> QED
  BY <1>2, <1>3 DEF Connect

LEMMA LoopBalances ==
  ASSUME IInv, BalanceInv, LoopStep
  PROVE  BalanceInv'
<1>1. loop # "round" => \A s \in Sock : hand[s] = "idle"
  BY DEF IInv, HandlersWithinRound
<1>2. DataInv /\ reest \in [Remote -> Nat] /\ retried \in [Remote -> Nat]
  BY DEF IInv, LoopTypes
<1>3. CASE ConnectNext
  <2>1. loop = "connect" /\ reest' = reest /\ retried' = retried /\ UNCHANGED handlerVars
    BY <1>3 DEF ConnectNext
  <2>2. Running /\ \A s \in Sock : hand[s] = "idle"
    BY <1>1, <2>1 DEF Running, Stopped
  <2>3. CASE UNCHANGED <<kernelVars, peers, todo>>
    BY <2>1, <2>2, <2>3, RoundBalances DEF kernelVars, handlerVars
  <2>4. ASSUME NEW r \in todo, Connect(r, "connect")
        PROVE  BalanceInv'
    <3>1. r \in Remote
      BY ConfiguredAssumption DEF IInv, LoopTypes
    <3> QED
      BY <1>2, <2>1, <2>2, <2>4, <3>1, ConnectBalances
  <2> QED
    BY <1>3, <2>3, <2>4 DEF ConnectNext
<1>4. ASSUME NEW r \in Remote, Reestablish(r)
      PROVE  BalanceInv'
  <2>1. /\ loop = "launch" /\ reest[r] > 0 /\ UNCHANGED handlerVars /\ Connect(r, "launch")
        /\ reest' = [reest EXCEPT ![r] = @ - 1] /\ retried' = [retried EXCEPT ![r] = @ + 1]
    BY <1>4 DEF Reestablish
  <2>2. \A p \in Remote : reest'[p] + retried'[p] = reest[p] + retried[p]
    BY <1>2, <2>1
  <2> QED
    BY <1>1, <1>2, <2>1, <2>2, ConnectBalances DEF Running, Stopped
<1>5. CASE EndLaunch
  BY <1>1, <1>5, RoundBalances
    DEF EndLaunch, Running, Stopped, kernelVars, tableVars, handlerVars
<1>6. CASE Select
  <2>1. \A s \in Sock : hand'[s] \in {"getBuffer", "idle"}
    BY <1>6 DEF Select
  <2> QED
    BY <1>1, <1>6, <2>1, RoundBalances DEF Select, Running, Stopped, kernelVars, tableVars
<1>7. CASE JoinHandlers
  <2>1. /\ loop = "round" /\ \A s \in Sock : hand[s] \in {"idle", "done", "threw"}
        /\ \A s \in Sock : hand'[s] = "idle"
        /\ reest' = reest /\ retried' = retried
    BY <1>7 DEF JoinHandlers
  <2>2. CASE \E s \in Sock : hand[s] = "threw"
    <3>1. Stop("threw")
      BY <1>7, <2>2 DEF JoinHandlers
    <3> QED
      BY <2>1, <3>1, StopBalances DEF Stopped
  <2>3. CASE ~\E s \in Sock : hand[s] = "threw"
    <3>1. UNCHANGED <<kernelVars, peers>>
      BY <1>7, <2>3 DEF JoinHandlers
    <3> QED
      BY <2>1, <2>3, <3>1, RoundBalances DEF Running, Stopped, kernelVars
  <2> QED
    BY <2>2, <2>3
<1>8. CASE Chat
  <2>1. loop = "chat" /\ hand' = hand /\ reest' = reest /\ retried' = retried
    BY <1>8 DEF Chat, handlerVars
  <2>2. CASE UNCHANGED <<kernelVars, peers>>
    BY <1>1, <2>1, <2>2, RoundBalances DEF Running, Stopped, kernelVars
  <2>3. CASE Stop("ended")
    BY <1>1, <2>1, <2>3, StopBalances DEF Stopped
  <2> QED
    BY <1>8, <2>2, <2>3 DEF Chat
<1> QED
  BY <1>3, <1>4, <1>5, <1>6, <1>7, <1>8 DEF LoopStep

LEMMA SendBalances ==
  ASSUME IInv, BalanceInv, Send
  PROVE  BalanceInv'
<1>1. /\ loop = "send" /\ hand' = hand /\ reest' = reest /\ retried' = retried
      /\ \A s \in Sock : hand[s] = "idle"
  BY DEF Send, handlerVars, IInv, HandlersWithinRound
<1>2. CASE UNCHANGED <<kernelVars, peers>>
  BY <1>1, <1>2, RoundBalances DEF Running, Stopped, kernelVars
<1>3. CASE Stop("threw")
  BY <1>1, <1>3, StopBalances DEF Stopped
<1> QED
  BY <1>2, <1>3 DEF Send

\* A handler schedules the reestablishment it was left to: one more end is
\* settled, and one more attempt is due.
LEMMA ScheduleBalances ==
  ASSUME IInv, BalanceInv, Running, NEW s \in Sock, Busy(s), hev[s].type \in Ending,
         hand' = [hand EXCEPT ![s] = "done"], Schedule(assoc[hev[s].assoc].remote),
         assoc' = assoc, queue' = queue, hev' = hev, retried' = retried
  PROVE  BalanceInv'
<1>0. PICK a : a = hev[s].assoc
  OBVIOUS
<1> DEFINE p == assoc[a].remote
<1>1. Holds(s, a) /\ hand \in [Sock -> HandPc] /\ DataInv /\ ReportedOnce /\ LostHeld
  BY <1>0 DEF Holds, IInv, DataInv, DataTypes, BalanceInv
<1>2. Reported(a)
  BY <1>1 DEF Reported
<1>3. a \in DOMAIN assoc /\ a \in Assoc /\ assoc[a].st \in Ending
  BY <1>1, <1>2, ReportsTrue
<1>4. p \in Remote
  BY <1>1, <1>3 DEF DataInv, DataTypes, Association
<1>5. reest' = [reest EXCEPT ![p] = @ + 1]
  BY <1>0 DEF Schedule
<1> HIDE DEF p
<1>6. /\ \A u \in Sock : \A b : Waits(u, b)' <=> Waits(u, b)
      /\ \A u \in Sock : \A b : Holds(u, b)' <=> u # s /\ Holds(u, b)
  <2>1. hand'[s] = "done" /\ \A u \in Sock : u # s => hand'[u] = hand[u]
    BY <1>1
  <2> QED
    BY <2>1 DEF Waits, Holds, Busy
<1>7. \A b : Holds(s, b) => b = a
  BY <1>0 DEF Holds
<1>8. \A u \in Sock : ~Waits(u, a) /\ (u # s => ~Holds(u, a))
  BY <1>1, <1>3 DEF ReportedOnce
<1>9. ReportedOnce' /\ LostHeld'
  <2>1. \A u \in Sock : \A i, j \in DOMAIN queue'[u] :
          i < j /\ queue'[u][i].type \in Ending /\ queue'[u][j].type \in Ending
            => queue'[u][i].assoc # queue'[u][j].assoc
    BY <1>1 DEF ReportedOnce
  <2>2. \A u, v \in Sock : \A b \in Assoc : Holds(v, b)' =>
          ~Waits(u, b)' /\ (u # v => ~Holds(u, b)')
    BY <1>1, <1>6 DEF ReportedOnce
  <2>3. \A u \in Sock : hand'[u] = "schedule" => hand[u] = "schedule"
    BY <1>1
  <2> QED
    BY <1>1, <2>1, <2>2, <2>3 DEF ReportedOnce, LostHeld
<1>10. \A b : Reported(b)' <=> Reported(b) /\ b # a
  <2>1. ~Reported(a)'
    BY <1>6, <1>8 DEF Reported
  <2>2. \A b : b # a => (Reported(b)' <=> Reported(b))
    BY <1>6, <1>7 DEF Reported
  <2> QED
    BY <2>1, <2>2
<1>11. ASSUME NEW r \in Remote
       PROVE  Settled(r)' = IF r = p THEN Settled(r) \cup {a} ELSE Settled(r)
  <2>1. \A b : b \in Settled(r)' <=>
          b \in DOMAIN assoc /\ assoc[b].remote = r /\ assoc[b].st \in Ending /\ (~Reported(b) \/ b = a)
    BY <1>10 DEF Settled
  <2>2. \A b : b \in Settled(r) <=>
          b \in DOMAIN assoc /\ assoc[b].remote = r /\ assoc[b].st \in Ending /\ ~Reported(b)
    BY DEF Settled
  <2>3. \A b : b \in Settled(r)' <=> b \in Settled(r) \/ (b = a /\ r = p)
    BY <1>3, <2>1, <2>2 DEF p
  <2>4. CASE r = p
    <3>1. Settled(r)' \subseteq Settled(r) \cup {a} /\ Settled(r) \cup {a} \subseteq Settled(r)'
      BY <2>3, <2>4
    <3> QED
      BY <2>4, <3>1
  <2>5. CASE r # p
    <3>1. Settled(r)' \subseteq Settled(r) /\ Settled(r) \subseteq Settled(r)'
      BY <2>3, <2>5
    <3> QED
      BY <2>5, <3>1
  <2> QED
    BY <2>4, <2>5
<1>12. a \notin Settled(p) /\ IsFiniteSet(Settled(p))
  <2>1. Settled(p) \subseteq DOMAIN assoc
    BY DEF Settled
  <2>2. a \notin Settled(p)
    BY <1>2 DEF Settled
  <2> QED
    BY <2>1, <2>2, FS_Subset DEF BalanceInv
<1>13. Cardinality(Settled(p) \cup {a}) = Cardinality(Settled(p)) + 1
  BY <1>12, FS_AddElement
<1>14. ASSUME Unharmed', NEW r \in Remote
       PROVE  Cardinality(Settled(r)') = reest'[r] + retried'[r]
  <2>0. Unharmed
    BY <1>1, <1>14 DEF Unharmed, Busy
  <2>1. Cardinality(Settled(r)) = reest[r] + retried[r]
    BY <2>0 DEF BalanceInv, Balanced
  <2>2. reest \in [Remote -> Nat] /\ retried \in [Remote -> Nat]
    BY DEF IInv, LoopTypes
  <2>3. CASE r = p
    <3>1. reest'[r] = reest[r] + 1 /\ reest[r] \in Nat /\ retried[r] \in Nat
      BY <1>5, <2>2, <2>3
    <3>2. Cardinality(Settled(r)') = Cardinality(Settled(r)) + 1
      BY <1>11, <1>13, <2>3
    <3> QED
      BY <2>1, <3>1, <3>2
  <2>4. CASE r # p
    <3>1. reest'[r] = reest[r]
      BY <1>5, <2>2, <2>4
    <3> QED
      BY <1>11, <2>1, <2>4, <3>1
  <2> QED
    BY <2>3, <2>4
<1>15. Balanced'
  BY <1>14 DEF Balanced
<1> QED
  BY <1>9, <1>15 DEF BalanceInv

\* A report goes from a socket into the hands of its handler.
LEMMA ReceiveBalances ==
  ASSUME IInv, BalanceInv, Running, NEW s \in Sock, Receive(s)
  PROVE  BalanceInv'
<1> DEFINE q == queue[s]
           e == Head(q)
           t == Tail(q)
<1>1. /\ assoc' = assoc /\ reest' = reest /\ retried' = retried /\ q # <<>>
      /\ hand[s] = "receive" /\ hand' = [hand EXCEPT ![s] = "dispatch"]
      /\ hev' = [hev EXCEPT ![s] = e] /\ queue' = [queue EXCEPT ![s] = t]
  BY DEF Receive, At, tableVars, loopVars
<1>2. /\ hand \in [Sock -> HandPc] /\ hev \in [Sock -> Event \cup {NoEvent}]
      /\ queue \in [Sock -> Seq(Event)] /\ q \in Seq(Event) /\ DataInv
      /\ ReportedOnce /\ LostHeld
  BY DEF IInv, DataInv, DataTypes, BalanceInv
<1>3. /\ e \in Event /\ e = q[1] /\ 1 \in DOMAIN q /\ t \in Seq(Event)
      /\ \A i \in DOMAIN t :
           i \in Nat /\ i + 1 \in DOMAIN q /\ 1 < i + 1 /\ t[i] = q[i + 1]
  BY <1>1, <1>2, TailFacts
<1>4. \A i \in DOMAIN q : i = 1 \/ (i - 1 \in DOMAIN t /\ t[i - 1] = q[i])
  BY <1>1, <1>2
<1> HIDE DEF e, t
<1>5. /\ hand'[s] = "dispatch" /\ hev'[s] = e /\ queue'[s] = t
      /\ \A u \in Sock : u # s => hand'[u] = hand[u] /\ hev'[u] = hev[u] /\ queue'[u] = queue[u]
  BY <1>1, <1>2
<1> DEFINE Given(b) == e.type \in Ending /\ e.assoc = b
<1>6. ASSUME NEW b
      PROVE  /\ Waits(s, b) <=> Waits(s, b)' \/ Given(b)
             /\ Given(b) => ~Waits(s, b)'
             /\ ~Holds(s, b) /\ (Holds(s, b)' <=> Given(b))
  <2>1. Waits(s, b)' => Waits(s, b)
    BY <1>3, <1>5 DEF Waits
  <2>2. Given(b) => Waits(s, b)
    BY <1>3 DEF Waits
  <2>3. ASSUME Waits(s, b)
        PROVE  Waits(s, b)' \/ Given(b)
    <3>1. PICK i \in DOMAIN q : q[i].type \in Ending /\ q[i].assoc = b
      BY <2>3 DEF Waits
    <3> QED
      BY <1>3, <1>4, <1>5, <3>1 DEF Waits
  <2>4. ASSUME Given(b), Waits(s, b)'
        PROVE  FALSE
    <3>1. PICK i \in DOMAIN t : t[i].type \in Ending /\ t[i].assoc = b
      BY <1>5, <2>4 DEF Waits
    <3>2. 1 \in DOMAIN q /\ i + 1 \in DOMAIN q /\ 1 < i + 1 /\ q[i + 1] = t[i] /\ q[1] = e
      BY <1>3
    <3>3. q[1].assoc # q[i + 1].assoc
      BY <1>2, <2>4, <3>1, <3>2 DEF ReportedOnce
    <3> QED
      BY <2>4, <3>1, <3>2, <3>3
  <2>5. ~Holds(s, b) /\ (Holds(s, b)' <=> Given(b))
    BY <1>1, <1>5 DEF Holds, Busy
  <2> QED
    BY <2>1, <2>2, <2>3, <2>4, <2>5
<1>7. \A u \in Sock : \A b : u # s => (Waits(u, b)' <=> Waits(u, b)) /\ (Holds(u, b)' <=> Holds(u, b))
  BY <1>5 DEF Waits, Holds, Busy
<1>8. \A b : Reported(b)' <=> Reported(b)
  BY <1>6, <1>7 DEF Reported
<1>9. ASSUME NEW u \in Sock, NEW b, Given(b), u # s
      PROVE  ~Waits(u, b)
  <2>1. Sound(e) /\ assoc[e.assoc].sock = s
    BY <1>2, <1>3 DEF DataInv, QueuesSound
  <2> QED
    BY <1>2, <1>9, <2>1 DEF Waits, DataInv, QueuesSound
<1>10. ASSUME NEW u \in Sock, NEW i \in DOMAIN queue'[u], NEW j \in DOMAIN queue'[u],
              i < j, queue'[u][i].type \in Ending, queue'[u][j].type \in Ending
       PROVE  queue'[u][i].assoc # queue'[u][j].assoc
  <2>1. CASE u # s
    BY <1>2, <1>5, <1>10, <2>1 DEF ReportedOnce
  <2>2. CASE u = s
    <3>1. /\ i + 1 \in DOMAIN q /\ j + 1 \in DOMAIN q /\ i + 1 < j + 1
          /\ queue'[u][i] = q[i + 1] /\ queue'[u][j] = q[j + 1]
      BY <1>3, <1>5, <1>10, <2>2
    <3> QED
      BY <1>2, <1>10, <3>1 DEF ReportedOnce
  <2> QED
    BY <2>1, <2>2
<1>11. ASSUME NEW u \in Sock, NEW v \in Sock, NEW b \in Assoc, Holds(v, b)'
       PROVE  ~Waits(u, b)' /\ (u # v => ~Holds(u, b)')
  <2>1. CASE v = s
    <3>1. Given(b) /\ Waits(s, b)
      BY <1>6, <1>11, <2>1
    <3>2. \A w \in Sock : ~Holds(w, b)
      BY <1>2, <3>1 DEF ReportedOnce
    <3> QED
      BY <1>6, <1>7, <1>9, <2>1, <3>1, <3>2
  <2>2. CASE v # s
    <3>1. Holds(v, b)
      BY <1>7, <1>11, <2>2
    <3>2. ~Waits(u, b) /\ ~Waits(s, b) /\ (u # v => ~Holds(u, b))
      BY <1>2, <3>1 DEF ReportedOnce
    <3> QED
      BY <1>6, <1>7, <3>2
  <2> QED
    BY <2>1, <2>2
<1>12. ReportedOnce'
  BY <1>10, <1>11 DEF ReportedOnce
<1>13. LostHeld'
  BY <1>1, <1>2, <1>5 DEF LostHeld
<1>14. \A r : Settled(r)' = Settled(r)
  BY <1>1, <1>8, SettledSame
<1>15. Balanced'
  BY <1>1, <1>2, <1>5, <1>14, BalanceSame DEF Unharmed, Running
<1> QED
  BY <1>1, <1>12, <1>13, <1>15 DEF BalanceInv

\* The peer taken away had no other report of its end waiting: what is thrown
\* away with its socket are messages.
LEMMA RemoveBalances ==
  ASSUME IInv, BalanceInv, Running, NEW s \in Sock, hand[s] = "dispatch",
         hev[s].type \in {"shut", "lost"},
         NEW to, hand' = [hand EXCEPT ![s] = to],
         to = IF hev[s].type = "lost" THEN "schedule" ELSE "done",
         Remove(hev[s].assoc), hev' = hev, reest' = reest, retried' = retried
  PROVE  BalanceInv'
<1>1. PICK a : a = hev[s].assoc
  OBVIOUS
<1>2. /\ DataInv /\ ReportedOnce /\ LostHeld /\ hand \in [Sock -> HandPc]
      /\ queue \in [Sock -> Seq(Event)]
      /\ \A b \in DOMAIN peers : assoc[b].sock = peers[b].fd
      /\ DOMAIN peers \subseteq DOMAIN assoc
  BY DEF IInv, DataInv, DataTypes, BalanceInv, TableInv, SocketsApart
<1>3. /\ a \in DOMAIN assoc /\ a \in Assoc /\ assoc[a].sock = s /\ assoc[a].st = hev[s].type
      /\ assoc[a] \in Association
  BY <1>1, <1>2 DEF DataInv, DataTypes, HandledSound, Sound, EndState
<1>4. \A b : ~Waits(s, b) \/ b # a
  <2>1. CASE hev[s].type = "lost"
    <3>1. Holds(s, a)
      BY <1>1, <2>1 DEF Holds, Busy, Ending
    <3> QED
      BY <1>2, <1>3, <3>1 DEF ReportedOnce
  <2>2. CASE hev[s].type = "shut"
    <3>1. assoc[a].st \notin Ending
      BY <1>3, <2>2 DEF Ending
    <3>2. ~Reported(a)
      BY <1>2, <3>1, ReportsTrue
    <3> QED
      BY <3>2 DEF Reported
  <2> QED
    BY <2>1, <2>2
<1> DEFINE none == <<>>
<1>5. DOMAIN none = {}
  OBVIOUS
<1> HIDE DEF none
<1>6. /\ DOMAIN assoc' = DOMAIN assoc
      /\ \A b \in DOMAIN assoc : assoc'[b].remote = assoc[b].remote /\ assoc'[b].st = assoc[b].st
      /\ \A u \in Sock : queue'[u] = queue[u] \/ (DOMAIN queue'[u] = {} /\ \A b : ~Waits(u, b))
  <2>1. CASE a \in DOMAIN peers
    <3>1. peers[a].fd = s
      BY <1>2, <1>3, <2>1
    <3>2. assoc' = [assoc EXCEPT ![a].sock = Closed] /\ queue' = [queue EXCEPT ![s] = none]
      BY <1>1, <2>1, <3>1 DEF Remove, none
    <3>3. assoc'[a] = [assoc[a] EXCEPT !.sock = Closed]
      BY <1>3, <3>2
    <3>4. assoc'[a].remote = assoc[a].remote /\ assoc'[a].st = assoc[a].st
      BY <1>3, <3>3 DEF Association
    <3>5. /\ queue'[s] = none /\ \A u \in Sock : u # s => queue'[u] = queue[u]
      BY <1>2, <3>2
    <3>6. \A b : ~Waits(s, b)
      <4> SUFFICES ASSUME NEW b, Waits(s, b) PROVE FALSE
        OBVIOUS
      <4>1. PICK i \in DOMAIN queue[s] : queue[s][i].assoc = b
        BY DEF Waits
      <4>2. b \in DOMAIN assoc /\ assoc[b].sock = s
        BY <1>2, <4>1 DEF DataInv, QueuesSound, Sound
      <4>3. peers[a].fd \in Fd
        BY <1>2, <2>1 DEF DataInv, DataTypes
      <4>4. b = a
        BY <1>2, <1>3, <3>1, <4>2, <4>3 DEF DataInv, TableInv, SocketsApart
      <4> QED
        BY <1>4, <4>4
    <3> QED
      BY <1>5, <3>2, <3>4, <3>5, <3>6
  <2>2. CASE a \notin DOMAIN peers
    BY <1>1, <2>2 DEF Remove, kernelVars
  <2> QED
    BY <2>1, <2>2
<1>7. hand'[s] = to /\ \A u \in Sock : u # s => hand'[u] = hand[u]
  BY <1>2
<1>8. \A u \in Sock : \A b : Holds(u, b)' <=> Holds(u, b)
  BY <1>7 DEF Holds, Busy, Ending
<1>9. ReportedOnce' /\ \A b : Reported(b)' <=> Reported(b)
  BY <1>2, <1>6, <1>8, ReportsSame
<1>10. \A r : Settled(r)' = Settled(r)
  BY <1>6, <1>9, SettledSame
<1>11. Balanced'
  BY <1>7, <1>10, BalanceSame DEF Unharmed, Running
<1>12. LostHeld'
  <2> SUFFICES ASSUME NEW u \in Sock, hand'[u] = "schedule"
               PROVE  hev[u].type = "lost" /\ assoc'[hev[u].assoc].st = "lost"
    BY DEF LostHeld
  <2>1. CASE u = s
    BY <1>1, <1>3, <1>6, <1>7, <2>1
  <2>2. CASE u # s
    <3>1. hand[u] = "schedule"
      BY <1>7, <2>2
    <3>2. hev[u].type = "lost" /\ assoc[hev[u].assoc].st = "lost" /\ hev[u].assoc \in DOMAIN assoc
      BY <1>2, <3>1 DEF LostHeld, DataInv, HandledSound
    <3> QED
      BY <1>6, <3>2
  <2> QED
    BY <2>1, <2>2
<1> QED
  BY <1>6, <1>9, <1>11, <1>12 DEF BalanceInv

\* Peeling off moves the reports of one association to its new socket: none is
\* lost on the way, none comes twice.
LEMMA PeelOffBalances ==
  ASSUME IInv, BalanceInv, Running, NEW s \in Sock, PeelOff(s), assoc[hev[s].assoc].st = "up"
  PROVE  BalanceInv'
<1>1. PICK a : a = hev[s].assoc
  OBVIOUS
<1> DEFINE about == {e \in Event : e.assoc = a}
<1>2. PICK f \in Least(Fd \ OpenFds) :
        /\ At(s, "dispatch", "peeled")
        /\ assoc' = [assoc EXCEPT ![a].sock = f]
        /\ queue' = [queue EXCEPT ![f] = Sift(queue[MainFd], about),
                                  ![MainFd] = Sift(queue[MainFd], Event \ about)]
  BY <1>1 DEF PeelOff
<1>3. /\ hand[s] = "dispatch" /\ hand' = [hand EXCEPT ![s] = "peeled"]
      /\ hev' = hev /\ hev[s].type = "up" /\ reest' = reest /\ retried' = retried
  BY <1>2 DEF At, PeelOff, tableVars, loopVars
<1>4. /\ DataInv /\ ReportedOnce /\ LostHeld /\ hand \in [Sock -> HandPc]
      /\ queue \in [Sock -> Seq(Event)]
      /\ MainFd \in Sock /\ Fd \subseteq Sock /\ MainFd \notin Fd /\ Closed \notin Fd
  BY SocketAssumption DEF IInv, DataInv, DataTypes, BalanceInv, Sock
<1>5. a \in DOMAIN assoc /\ assoc[a].st = "up" /\ assoc[a] \in Association
  BY <1>1, <1>3, <1>4 DEF DataInv, DataTypes, HandledSound, Sound
<1>6. \A u \in Sock : ~Waits(u, a)
  BY <1>4, <1>5, ReportsTrue DEF Reported, Ending
<1>7. f \in Fd /\ f # MainFd /\ \A c \in DOMAIN assoc : assoc[c].sock # f
  <2>1. f \in Fd \ OpenFds
    BY DEF Least
  <2> QED
    BY <1>4, <2>1 DEF OpenFds
<1> DEFINE m == queue[MainFd]
           others == Event \ about
           mine == Sift(m, about)
           rest == Sift(m, others)
<1>8. queue' = [queue EXCEPT ![f] = mine, ![MainFd] = rest]
  BY <1>2
<1>9. mine = Sift(m, about) /\ rest = Sift(m, others) /\ m \in Seq(Event)
  BY <1>4
<1> HIDE DEF m, about, others, mine, rest
<1>10. \A i \in DOMAIN mine : mine[i] \in about /\ \E k \in DOMAIN m : m[k] = mine[i]
  BY <1>9, SiftKeeps
<1>11. /\ rest \in Seq(Event)
       /\ \A i \in DOMAIN rest : rest[i] \in others /\ \E k \in DOMAIN m : m[k] = rest[i]
       /\ \A i, j \in DOMAIN rest : i < j =>
            \E k, l \in DOMAIN m : k < l /\ m[k] = rest[i] /\ m[l] = rest[j]
  BY <1>9, SiftKeeps
<1>12. \A k \in DOMAIN m : m[k] \in others => \E i \in DOMAIN rest : rest[i] = m[k]
  BY <1>9, SiftLosesNone
<1>13. /\ queue'[f] = mine /\ queue'[MainFd] = rest
       /\ \A u \in Sock : u # f /\ u # MainFd => queue'[u] = queue[u]
  BY <1>4, <1>7, <1>8
<1>14. \A c : ~Waits(f, c)
  BY <1>4, <1>7 DEF Waits, DataInv, QueuesSound, Sound
<1>15. \A k \in DOMAIN m : m[k] \in Event /\ (m[k].assoc # a => m[k] \in others)
  BY <1>9 DEF others, about
<1>16. \A i \in DOMAIN mine : mine[i].type \notin Ending
  <2> SUFFICES ASSUME NEW i \in DOMAIN mine, mine[i].type \in Ending PROVE FALSE
    OBVIOUS
  <2>1. PICK k \in DOMAIN m : m[k] = mine[i]
    BY <1>10
  <2>2. m[k].assoc = a
    BY <1>10, <2>1 DEF about
  <2> QED
    BY <1>4, <1>6, <2>1, <2>2 DEF Waits, m
<1>17. ASSUME NEW u \in Sock, NEW c
       PROVE  Waits(u, c)' <=> Waits(u, c)
  <2>1. CASE u = f
    BY <1>13, <1>14, <1>16, <2>1 DEF Waits
  <2>2. CASE u = MainFd
    <3>1. ASSUME Waits(MainFd, c)'
          PROVE  Waits(MainFd, c)
      BY <1>11, <1>13, <3>1 DEF Waits, m
    <3>2. ASSUME Waits(MainFd, c)
          PROVE  Waits(MainFd, c)'
      <4>1. PICK k \in DOMAIN m : m[k].type \in Ending /\ m[k].assoc = c
        BY <3>2 DEF Waits, m
      <4>2. c # a
        BY <1>4, <1>6, <3>2
      <4>3. PICK i \in DOMAIN rest : rest[i] = m[k]
        BY <1>12, <1>15, <4>1, <4>2
      <4> QED
        BY <1>13, <4>1, <4>3 DEF Waits
    <3> QED
      BY <2>2, <3>1, <3>2
  <2>3. CASE u # f /\ u # MainFd
    BY <1>13, <2>3 DEF Waits
  <2> QED
    BY <2>1, <2>2, <2>3
<1>18. hand'[s] = "peeled" /\ \A u \in Sock : u # s => hand'[u] = hand[u]
  BY <1>3, <1>4
<1>19. \A u \in Sock : \A c : Holds(u, c)' <=> Holds(u, c)
  BY <1>3, <1>18 DEF Holds, Busy, Ending
<1>20. ASSUME NEW u \in Sock, NEW i \in DOMAIN queue'[u], NEW j \in DOMAIN queue'[u],
              i < j, queue'[u][i].type \in Ending, queue'[u][j].type \in Ending
       PROVE  queue'[u][i].assoc # queue'[u][j].assoc
  <2>1. CASE u = f
    BY <1>13, <1>16, <1>20, <2>1
  <2>2. CASE u = MainFd
    <3>1. PICK k \in DOMAIN m, l \in DOMAIN m : k < l /\ m[k] = rest[i] /\ m[l] = rest[j]
      BY <1>11, <1>13, <1>20, <2>2
    <3>2. m[k].assoc # m[l].assoc
      BY <1>4, <1>13, <1>20, <2>2, <3>1 DEF ReportedOnce, m
    <3> QED
      BY <1>13, <2>2, <3>1, <3>2
  <2>3. CASE u # f /\ u # MainFd
    BY <1>4, <1>13, <1>20, <2>3 DEF ReportedOnce
  <2> QED
    BY <2>1, <2>2, <2>3
<1>21. ReportedOnce'
  <2>1. \A u, v \in Sock : \A c \in Assoc : Holds(v, c)' =>
          ~Waits(u, c)' /\ (u # v => ~Holds(u, c)')
    BY <1>4, <1>17, <1>19 DEF ReportedOnce
  <2> QED
    BY <1>20, <2>1 DEF ReportedOnce
<1>22. \A c : Reported(c)' <=> Reported(c)
  BY <1>17, <1>19 DEF Reported
<1>23. /\ DOMAIN assoc' = DOMAIN assoc
       /\ \A c \in DOMAIN assoc : assoc'[c].remote = assoc[c].remote /\ assoc'[c].st = assoc[c].st
  <2>1. /\ DOMAIN assoc' = DOMAIN assoc
        /\ \A c \in DOMAIN assoc : c # a => assoc'[c] = assoc[c]
        /\ assoc'[a] = [assoc[a] EXCEPT !.sock = f]
    BY <1>2, <1>5
  <2>2. assoc'[a].remote = assoc[a].remote /\ assoc'[a].st = assoc[a].st
    BY <1>5, <2>1 DEF Association
  <2> QED
    BY <2>1, <2>2
<1>24. \A r : Settled(r)' = Settled(r)
  BY <1>22, <1>23, SettledSame
<1>25. Balanced'
  BY <1>3, <1>18, <1>24, BalanceSame DEF Unharmed, Running
<1>26. LostHeld'
  <2> SUFFICES ASSUME NEW u \in Sock, hand'[u] = "schedule"
               PROVE  hev[u].type = "lost" /\ assoc'[hev[u].assoc].st = "lost"
    BY <1>3 DEF LostHeld
  <2>1. hand[u] = "schedule"
    BY <1>18
  <2>2. hev[u].type = "lost" /\ assoc[hev[u].assoc].st = "lost" /\ hev[u].assoc \in DOMAIN assoc
    BY <1>4, <2>1 DEF LostHeld, DataInv, HandledSound
  <2> QED
    BY <1>23, <2>2
<1> QED
  BY <1>21, <1>23, <1>25, <1>26 DEF BalanceInv

\* The exception throws the rest of a queue away, and breaks the balance; what
\* is reported still is reported once.
LEMMA PeelFailsBalances ==
  ASSUME IInv, BalanceInv, NEW s \in Sock, EmplacePeer(s), assoc[hev[s].assoc].st # "up"
  PROVE  BalanceInv'
<1>1. PICK a : a = hev[s].assoc
  OBVIOUS
<1>2. PICK f : f = assoc[a].sock
  OBVIOUS
<1> DEFINE none == <<>>
<1>3. DOMAIN none = {}
  OBVIOUS
<1> HIDE DEF none
<1>4. /\ hand[s] = "peeled" /\ hand' = [hand EXCEPT ![s] = "threw"] /\ hev' = hev
      /\ assoc' = [assoc EXCEPT ![a].sock = Closed]
      /\ queue' = [queue EXCEPT ![f] = none]
  BY <1>1, <1>2 DEF EmplacePeer, At, none
<1>5. /\ DataInv /\ ReportedOnce /\ LostHeld /\ hand \in [Sock -> HandPc]
      /\ queue \in [Sock -> Seq(Event)] /\ \A b \in DOMAIN assoc : assoc[b] \in Association
  BY DEF IInv, DataInv, DataTypes, BalanceInv
<1>6. /\ DOMAIN assoc' = DOMAIN assoc
      /\ \A b \in DOMAIN assoc : assoc'[b].st = assoc[b].st
  <2>1. /\ DOMAIN assoc' = DOMAIN assoc
        /\ \A b \in DOMAIN assoc : b # a => assoc'[b] = assoc[b]
        /\ a \in DOMAIN assoc => assoc'[a] = [assoc[a] EXCEPT !.sock = Closed]
    BY <1>4
  <2>2. a \in DOMAIN assoc => assoc'[a].st = assoc[a].st
    BY <1>5, <2>1 DEF Association
  <2> QED
    BY <2>1, <2>2
<1>7. \A u \in Sock : queue'[u] = queue[u] \/ DOMAIN queue'[u] = {}
  BY <1>3, <1>4, <1>5
<1>8. hand'[s] = "threw" /\ \A u \in Sock : u # s => hand'[u] = hand[u]
  BY <1>4, <1>5
<1>9. \A u \in Sock : \A b : (Waits(u, b)' => Waits(u, b)) /\ (Holds(u, b)' => Holds(u, b))
  BY <1>4, <1>7, <1>8 DEF Waits, Holds, Busy
<1>10. ReportedOnce'
  <2>1. \A u \in Sock : \A i, j \in DOMAIN queue'[u] :
          i < j /\ queue'[u][i].type \in Ending /\ queue'[u][j].type \in Ending
            => queue'[u][i].assoc # queue'[u][j].assoc
    BY <1>5, <1>7 DEF ReportedOnce
  <2>2. \A u, v \in Sock : \A b \in Assoc : Holds(v, b)' =>
          ~Waits(u, b)' /\ (u # v => ~Holds(u, b)')
    BY <1>5, <1>9 DEF ReportedOnce
  <2> QED
    BY <2>1, <2>2 DEF ReportedOnce
<1>11. LostHeld'
  <2> SUFFICES ASSUME NEW u \in Sock, hand'[u] = "schedule"
               PROVE  hev[u].type = "lost" /\ assoc'[hev[u].assoc].st = "lost"
    BY <1>4 DEF LostHeld
  <2>1. hand[u] = "schedule"
    BY <1>8
  <2>2. hev[u].type = "lost" /\ assoc[hev[u].assoc].st = "lost" /\ hev[u].assoc \in DOMAIN assoc
    BY <1>5, <2>1 DEF LostHeld, DataInv, HandledSound
  <2> QED
    BY <1>6, <2>2
<1>12. Balanced'
  BY <1>8 DEF Balanced, Unharmed
<1> QED
  BY <1>6, <1>10, <1>11, <1>12 DEF BalanceInv

LEMMA HandlerBalances ==
  ASSUME IInv, BalanceInv, NEW s \in Sock, HandlerStep(s)
  PROVE  BalanceInv'
<1>1. DataInv /\ hand \in [Sock -> HandPc]
  BY DEF IInv, DataInv, DataTypes
<1>2. hand[s] # "idle"
  BY DEF HandlerStep, GetBuffer, Receive, HandleData, PeelOff, EmplacePeer,
         HandleEstablishmentFailure, HandleGracefulShutdown, HandleCommLost,
         ScheduleReestablishment, Dispatch, At
<1>3. Running
  BY <1>2 DEF IInv, HandlersWithinRound, Running, Stopped
\* A handler moves on that has no report, or none any more.
<1>4. ASSUME NEW from \in HandPc \ {"threw"}, NEW to, At(s, from, to),
             from \notin {"dispatch", "schedule"} \/ hev[s].type \notin Ending,
             to \notin {"dispatch", "schedule"},
             assoc' = assoc, queue' = queue, hev' = hev, reest' = reest, retried' = retried
      PROVE  BalanceInv'
  <2>1. hand[s] = from /\ hand'[s] = to /\ \A u \in Sock : u # s => hand'[u] = hand[u]
    BY <1>1, <1>4 DEF At
  <2>2. \A u \in Sock : \A b : Holds(u, b)' <=> Holds(u, b)
    BY <1>4, <2>1 DEF Holds, Busy
  <2>3. ReportedOnce' /\ \A b : Reported(b)' <=> Reported(b)
    BY <1>4, <2>2, ReportsSame DEF BalanceInv
  <2>4. \A r : Settled(r)' = Settled(r)
    BY <1>4, <2>3, SettledSame
  <2>5. Balanced'
    BY <1>3, <1>4, <2>1, <2>4, BalanceSame DEF Unharmed, Running
  <2>6. LostHeld'
    BY <1>4, <2>1 DEF BalanceInv, LostHeld
  <2> QED
    BY <1>4, <2>3, <2>5, <2>6 DEF BalanceInv
<1>5. CASE GetBuffer(s)
  BY <1>4, <1>5 DEF GetBuffer, kernelVars, tableVars, loopVars, HandPc
<1>6. CASE Receive(s)
  BY <1>3, <1>6, ReceiveBalances
<1>7. CASE HandleData(s)
  BY <1>4, <1>7 DEF HandleData, Dispatch, kernelVars, tableVars, loopVars, Ending, HandPc
<1>8. CASE PeelOff(s)
  <2>1. CASE assoc[hev[s].assoc].st = "up"
    BY <1>3, <1>8, <2>1, PeelOffBalances
  <2>2. CASE assoc[hev[s].assoc].st # "up"
    BY <1>4, <1>8, <2>2 DEF PeelOff, kernelVars, tableVars, loopVars, Ending, HandPc
  <2> QED
    BY <2>1, <2>2
<1>13. CASE EmplacePeer(s)
  <2>1. CASE assoc[hev[s].assoc].st = "up"
    BY <1>4, <1>13, <2>1 DEF EmplacePeer, kernelVars, loopVars, HandPc
  <2>2. CASE assoc[hev[s].assoc].st # "up"
    BY <1>13, <2>2, PeelFailsBalances
  <2> QED
    BY <2>1, <2>2
<1>9. CASE HandleEstablishmentFailure(s)
  BY <1>3, <1>9, ScheduleBalances
    DEF HandleEstablishmentFailure, Dispatch, At, kernelVars, loopVars, Busy, Ending
<1>10. CASE HandleGracefulShutdown(s)
  BY <1>3, <1>10, RemoveBalances DEF HandleGracefulShutdown, Dispatch, At, loopVars
<1>11. CASE HandleCommLost(s)
  BY <1>3, <1>11, RemoveBalances DEF HandleCommLost, Dispatch, At, loopVars
<1>12. CASE ScheduleReestablishment(s)
  <2>1. hev[s].type \in Ending
    BY <1>12 DEF ScheduleReestablishment, At, BalanceInv, LostHeld, Ending
  <2> QED
    BY <1>3, <1>12, <2>1, ScheduleBalances
      DEF ScheduleReestablishment, At, kernelVars, loopVars, Busy
<1> QED
  BY <1>5, <1>6, <1>7, <1>8, <1>9, <1>10, <1>11, <1>12, <1>13 DEF HandlerStep

LEMMA BalanceInit == Init => BalanceInv
<1> SUFFICES ASSUME Init PROVE BalanceInv
  OBVIOUS
<1> DEFINE none == <<>>
<1>1. DOMAIN none = {}
  OBVIOUS
<1>2. queue = [s \in Sock |-> none] /\ DOMAIN assoc = {}
  BY DEF Init, EmptyMap, none
<1> HIDE DEF none
<1>3. \A s \in Sock : DOMAIN queue[s] = {} /\ hand[s] = "idle"
  BY <1>1, <1>2 DEF Init
<1>4. ReportedOnce /\ LostHeld
  BY <1>3 DEF ReportedOnce, LostHeld, Holds, Busy
<1>5. \A r \in Remote : Settled(r) = {} /\ reest[r] = 0 /\ retried[r] = 0
  BY <1>2 DEF Init, Settled
<1>6. Balanced
  BY <1>5, FS_EmptySet DEF Balanced
<1> QED
  BY <1>2, <1>4, <1>6, FS_EmptySet DEF BalanceInv

LEMMA BalanceNext == IInv /\ BalanceInv /\ [Next]_vars => BalanceInv'
<1> SUFFICES ASSUME IInv, BalanceInv, [Next]_vars PROVE BalanceInv'
  OBVIOUS
<1>1. CASE vars' = vars
  <2>1. /\ assoc' = assoc /\ queue' = queue /\ reest' = reest /\ retried' = retried
        /\ loop' = loop /\ hand' = hand /\ hev' = hev
    BY <1>1 DEF vars
  <2> QED
    BY <2>1 DEF BalanceInv, ReportedOnce, LostHeld, Balanced, Unharmed, Running, Settled, Reported, Waits, Holds, Busy
<1> QED
  BY <1>1, KernelBalances, LoopBalances, SendBalances, HandlerBalances DEF Next

\* Three sets that share nothing.
LEMMA ThreeParts ==
  ASSUME NEW D, IsFiniteSet(D), NEW A, NEW B, NEW C, D = A \cup B \cup C,
         A \cap B = {}, (A \cup B) \cap C = {}
  PROVE  /\ IsFiniteSet(A) /\ IsFiniteSet(B)
         /\ Cardinality(D) = Cardinality(A) + Cardinality(B) + Cardinality(C)
<1>1. A \in SUBSET D /\ B \in SUBSET D /\ C \in SUBSET D
  OBVIOUS
<1>2. IsFiniteSet(A) /\ IsFiniteSet(B) /\ IsFiniteSet(C)
  BY <1>1, FS_Subset
<1>3. /\ IsFiniteSet(A \cup B)
      /\ Cardinality(A \cup B) = Cardinality(A) + Cardinality(B) - Cardinality(A \cap B)
  BY <1>2, FS_Union
<1>4. Cardinality((A \cup B) \cup C)
        = Cardinality(A \cup B) + Cardinality(C) - Cardinality((A \cup B) \cap C)
  BY <1>2, <1>3, FS_Union
<1>5. Cardinality(A \cap B) = 0 /\ Cardinality((A \cup B) \cap C) = 0
  <2>1. Cardinality({}) = 0
    BY FS_EmptySet
  <2> QED
    BY <2>1, A \cap B = {}, (A \cup B) \cap C = {}, Zenon
<1>6. Cardinality(A) \in Nat /\ Cardinality(B) \in Nat /\ Cardinality(C) \in Nat
  BY <1>2, FS_CardinalityType
<1>7. Cardinality(A \cup B) = Cardinality(A) + Cardinality(B)
  BY <1>3, <1>5, <1>6
<1>8. Cardinality((A \cup B) \cup C) = Cardinality(A \cup B) + Cardinality(C)
  BY <1>4, <1>5, <1>6, <1>7
<1> QED
  BY <1>2, <1>7, <1>8, D = A \cup B \cup C, Zenon

\* As many reports as associations reported, if each comes once.
LEMMA CountReports ==
  ASSUME NEW P, NEW T, IsFiniteSet(T), NEW f, f \in [P -> T],
         \A p, q \in P : f[p] = f[q] => p = q,
         \A t \in T : \E p \in P : f[p] = t
  PROVE  Cardinality(P) = Cardinality(T)
<1>1. f \in Injection(P, T) /\ f \in Surjection(P, T)
  BY DEF Injection, Surjection, IsInjective
<1> QED
  BY <1>1, FS_Injection

-----------------------------------------------------------------------------
(* The theorems. *)

LEMMA InitInv == Init => IInv
<1> SUFFICES ASSUME Init PROVE IInv
  OBVIOUS
<1> DEFINE none == <<>>
<1>1. none \in Seq(Event) /\ DOMAIN none = {}
  OBVIOUS
<1>2. DOMAIN assoc = {} /\ DOMAIN peers = {}
  BY DEF Init, EmptyMap
<1>3. queue = [s \in Sock |-> none]
  BY DEF Init, none
<1> HIDE DEF none
<1>4. queue \in [Sock -> Seq(Event)] /\ \A s \in Sock : DOMAIN queue[s] = {}
  BY <1>1, <1>3
<1>5. hand = [s \in Sock |-> "idle"] /\ hand \in [Sock -> HandPc] /\ \A s \in Sock : hand[s] = "idle"
  BY DEF Init, HandPc
<1>6. LoopTypes /\ HandlersWithinRound
  BY <1>5 DEF Init, LoopTypes, HandlersWithinRound
<1>7. DataTypes /\ TableInv /\ PeelInv
  BY <1>2, <1>4, <1>5 DEF Init, DataTypes, TableInv, SocketsApart, PeelInv, Sock
<1>8. QueuesSound /\ HandledSound /\ UpsOnce /\ HandlersServePeers
  BY <1>4, <1>5 DEF QueuesSound, HandledSound, UpsOnce, HandlersServePeers, Sock
<1> QED
  BY <1>6, <1>7, <1>8 DEF IInv, DataInv

LEMMA NextInv == IInv /\ [Next]_vars => IInv'
<1> SUFFICES ASSUME IInv, [Next]_vars PROVE IInv'
  OBVIOUS
<1>1. CASE vars' = vars
  <2>1. /\ assoc' = assoc /\ queue' = queue /\ peers' = peers /\ todo' = todo /\ reest' = reest
        /\ retried' = retried /\ loop' = loop /\ hand' = hand /\ hbuf' = hbuf /\ hev' = hev
    BY <1>1 DEF vars
  <2>2. LoopTypes' /\ HandlersWithinRound'
    BY <2>1 DEF IInv, LoopTypes, HandlersWithinRound
  <2> QED
    BY <2>1, <2>2, DataUnchanged DEF IInv
<1> QED
  BY <1>1, KernelKeeps, LoopKeeps, SendKeeps, HandlerKeeps DEF Next

\* Every reachable state is well typed: the table names only associations the
\* kernel knows, with a descriptor of their own (SocketSctp::handleCommUp).
THEOREM SctpTypeCorrect == Spec => []TypeOK
<1>1. IInv => TypeOK
  BY TypesSplit DEF IInv, DataInv
<1> QED
  BY <1>1, InitInv, NextInv, PTL DEF Spec

\* Handlers that run together receive into different buffers, and the buffer of
\* a peer's handler is lent to that peer while it is used (SocketSctp::getBuffer).
THEOREM SctpBuffersApart == Spec => []BuffersNotShared
<1>1. ASSUME IInv PROVE BuffersNotShared
  <2>1. \A f \in Fd : f \in Receiving => \E a \in DOMAIN peers : peers[a].fd = f /\ peers[a].buf = hbuf[f]
    BY <1>1 DEF Receiving, IInv, DataInv, HandlersServePeers
  <2>2. MainFd \in Receiving => hbuf[MainFd] = MainBuf
    BY <1>1 DEF Receiving, IInv, DataInv, HandlersServePeers
  <2>3. \A a \in DOMAIN peers : peers[a].buf \in Buf /\ peers[a].buf # MainBuf
    BY <1>1, BufferAssumption DEF IInv, DataInv, DataTypes
  <2>4. Receiving \subseteq Fd \cup {MainFd}
    BY DEF Receiving, Sock
  <2>5. ASSUME NEW s \in Receiving, NEW u \in Receiving, s # u
        PROVE  hbuf[s] # hbuf[u]
    <3>1. CASE s \in Fd /\ u \in Fd
      <4>1. PICK a \in DOMAIN peers : peers[a].fd = s /\ peers[a].buf = hbuf[s]
        BY <2>1, <3>1
      <4>2. PICK b \in DOMAIN peers : peers[b].fd = u /\ peers[b].buf = hbuf[u]
        BY <2>1, <3>1
      <4>3. a # b
        BY <2>5, <4>1, <4>2
      <4> QED
        BY <1>1, <4>1, <4>2, <4>3 DEF IInv, DataInv, TableInv
    <3>2. CASE s = MainFd \/ u = MainFd
      BY <2>1, <2>2, <2>3, <2>4, <2>5, <3>2
    <3> QED
      BY <2>4, <3>1, <3>2
  <2>6. ASSUME NEW s \in Receiving \ {MainFd}
        PROVE  \E a \in DOMAIN peers : peers[a].fd = s /\ peers[a].buf = hbuf[s]
    BY <2>1, <2>4
  <2> QED
    BY <2>5, <2>6 DEF BuffersNotShared
<1> QED
  BY <1>1, InitInv, NextInv, PTL DEF Spec

\* The lookup of getBuffer (SocketSctp.cpp) finds the peer of its descriptor,
\* whatever the other handlers of the round remove.
THEOREM SctpPeerIsFound == Spec => []PeerFoundByHandler
<1>1. IInv => PeerFoundByHandler
  BY DEF IInv, DataInv, HandlersServePeers, PeerFoundByHandler
<1> QED
  BY <1>1, InitInv, NextInv, PTL DEF Spec

\* An association has a descriptor of its own exactly while the table has it or
\* a handler is about to put it there, and no two share one (peelOff, remove).
THEOREM SctpTableOwns == Spec => []TableOwnsDescriptors
<1>1. ASSUME IInv PROVE TableOwnsDescriptors
  <2>1. SocketsApart /\ PeelInv /\ DataTypes
    BY <1>1 DEF IInv, DataInv, TableInv
  <2>2. ASSUME NEW a \in DOMAIN assoc, assoc[a].sock \in Fd, a \notin DOMAIN peers
        PROVE  PeelingOff(a)
    BY <2>1, <2>2 DEF PeelInv, PeelingOff, Sock
  <2>3. \A a \in DOMAIN peers : a \in DOMAIN assoc /\ assoc[a].sock = peers[a].fd /\ peers[a].fd \in Fd
    BY <2>1 DEF SocketsApart, DataTypes
  <2>4. \A a, b \in DOMAIN peers : a # b => peers[a].fd # peers[b].fd
    BY <2>1, <2>3 DEF SocketsApart
  <2> QED
    BY <2>2, <2>3, <2>4 DEF TableOwnsDescriptors
<1> QED
  BY <1>1, InitInv, NextInv, PTL DEF Spec

\* A handler takes a peer out of the table only when its association has ended.
LEMMA RemovedWhenOver ==
  ASSUME IInv, NEW s \in Sock, HandlerStep(s),
         NEW a \in DOMAIN peers, a \notin DOMAIN peers'
  PROVE  ~Live(a)
<1>1. CASE EmplacePeer(s)
  BY <1>1 DEF EmplacePeer, Emplace
<1>2. CASE HandleGracefulShutdown(s) \/ HandleCommLost(s)
  <2>1. /\ hand[s] = "dispatch" /\ hev[s].type \in {"shut", "lost"}
        /\ DOMAIN peers' = DOMAIN peers \ {hev[s].assoc}
    BY <1>2 DEF HandleGracefulShutdown, HandleCommLost, Dispatch, At, Remove, Erase, Restrict
  <2>2. a = hev[s].assoc /\ Sound(hev[s])
    BY <2>1 DEF IInv, DataInv, HandledSound
  <2> QED
    BY <2>1, <2>2 DEF Sound, EndState, Live
<1>3. CASE \/ GetBuffer(s) \/ Receive(s) \/ HandleData(s)
           \/ PeelOff(s) \/ HandleEstablishmentFailure(s) \/ ScheduleReestablishment(s)
  BY <1>3 DEF GetBuffer, Receive, HandleData, PeelOff, HandleEstablishmentFailure,
              ScheduleReestablishment, tableVars
<1> QED
  BY <1>1, <1>2, <1>3 DEF HandlerStep

\* A peer leaves the table only when its association has ended, or with the
\* socket itself: a handler acts on a notification that is true when it acts
\* (handleGracefulShutdown and handleCommLost, SocketSctp.cpp).
THEOREM SctpPeersLeaveWhenOver == Spec => PeersLeaveWhenOver
<1> DEFINE Leave == \A a \in DOMAIN peers : a \notin DOMAIN peers' /\ loop' \notin Stopped => ~Live(a)
<1>1. IInv /\ [Next]_vars => [Leave]_vars
  <2> SUFFICES ASSUME IInv, Next, NEW a \in DOMAIN peers, a \notin DOMAIN peers', loop' \notin Stopped
               PROVE  ~Live(a)
    BY DEF vars
  <2>1. ~KernelStep
    BY DEF KernelStep, tableVars
  <2>2. ~Stop("threw") /\ ~Stop("ended")
    BY DEF Stop, Stopped
  <2>3. ~LoopStep /\ ~Send
    BY <2>2 DEF Send, LoopStep, ConnectNext, Reestablish, Connect, EndLaunch, Select, JoinHandlers, Chat, tableVars
  <2> QED
    BY <2>1, <2>3, RemovedWhenOver DEF Next
<1> QED
  BY <1>1, InitInv, NextInv, PTL DEF Spec, PeersLeaveWhenOver

\* Every association that failed or was lost leads to exactly one attempt to
\* reestablish it (handleEstablishmentFailure, handleCommLost and
\* Socket::scheduleReestablishment): its report is on its way, or it has been
\* scheduled, or the attempt has been made; unless a handler throws, which ends
\* the task with this round.
THEOREM SctpReestablishmentsConserved == Spec => []ReestablishmentsConserved
<1>1. ASSUME IInv, BalanceInv PROVE ReestablishmentsConserved
  <2> SUFFICES ASSUME Unharmed, NEW r \in Remote
               PROVE  LET Owed(e) == assoc[e.assoc].remote = r /\ e.type \in {"failed", "lost"} IN
                      Cardinality({a \in DOMAIN assoc : assoc[a].remote = r /\ assoc[a].st \in {"failed", "lost"}})
                        = InFlight(Owed) + reest[r] + retried[r]
    BY DEF ReestablishmentsConserved, Unharmed
  <2> DEFINE Owed(e) == assoc[e.assoc].remote = r /\ e.type \in {"failed", "lost"}
             D == {a \in DOMAIN assoc : assoc[a].remote = r /\ assoc[a].st \in {"failed", "lost"}}
             P == {p \in UNION {{s} \X DOMAIN queue[s] : s \in Sock} : Owed(queue[p[1]][p[2]])}
             H == {s \in Sock : hand[s] \in {"dispatch", "schedule"} /\ Owed(hev[s])}
             A == {a \in D : \E s \in Sock : Waits(s, a)}
             B == {a \in D : \E s \in Sock : Holds(s, a)}
             C == Settled(r)
  <2>1. DataInv /\ ReportedOnce /\ LostHeld /\ IsFiniteSet(DOMAIN assoc)
    BY <1>1 DEF IInv, BalanceInv
  <2>2. \A s \in Sock : \A a : Waits(s, a) \/ Holds(s, a) =>
          a \in DOMAIN assoc /\ a \in Assoc /\ assoc[a].st \in Ending
    BY <2>1, ReportsTrue DEF Reported
  <2>3. D = A \cup B \cup C
    BY DEF Settled, Reported, Ending
  <2>4. A \cap B = {} /\ (A \cup B) \cap C = {}
    <3>1. A \cap B = {}
      BY <2>1, <2>2 DEF ReportedOnce
    <3>2. (A \cup B) \cap C = {}
      BY DEF Settled, Reported
    <3> QED
      BY <3>1, <3>2
  <2>5. IsFiniteSet(D)
    <3>1. D \in SUBSET DOMAIN assoc
      OBVIOUS
    <3> HIDE DEF D
    <3> QED
      BY <2>1, <3>1, FS_Subset
  <2> HIDE DEF D, A, B, C
  <2>6. /\ IsFiniteSet(A) /\ IsFiniteSet(B)
        /\ Cardinality(D) = Cardinality(A) + Cardinality(B) + Cardinality(C)
    <3>1. \A X, Y, Z :
            /\ D = X \cup Y \cup Z /\ X \cap Y = {} /\ (X \cup Y) \cap Z = {}
            => /\ IsFiniteSet(X) /\ IsFiniteSet(Y)
               /\ Cardinality(D) = Cardinality(X) + Cardinality(Y) + Cardinality(Z)
      BY <2>5, ThreeParts
    <3> QED
      BY <2>3, <2>4, <3>1
  <2>7. Cardinality(P) = Cardinality(A)
    <3> DEFINE f == [p \in P |-> queue[p[1]][p[2]].assoc]
    <3>0. /\ \A p \in P : /\ p[1] \in Sock /\ p[2] \in DOMAIN queue[p[1]] /\ p = <<p[1], p[2]>>
                        /\ Owed(queue[p[1]][p[2]])
          /\ \A s \in Sock : \A i \in DOMAIN queue[s] :
               Owed(queue[s][i]) => <<s, i>> \in P
      OBVIOUS
    <3> HIDE DEF P
    <3>1. ASSUME NEW p \in P
          PROVE  /\ p[1] \in Sock /\ p[2] \in DOMAIN queue[p[1]] /\ p = <<p[1], p[2]>>
                 /\ queue[p[1]][p[2]].type \in Ending /\ f[p] \in A
                 /\ f[p] = queue[p[1]][p[2]].assoc
      <4>1. f[p] = queue[p[1]][p[2]].assoc
        OBVIOUS
      <4>2. queue[p[1]][p[2]].type \in Ending /\ assoc[f[p]].remote = r
        BY <3>0, <4>1 DEF Ending
      <4>3. Waits(p[1], f[p])
        BY <3>0, <4>1, <4>2 DEF Waits
      <4>4. f[p] \in D
        BY <2>2, <3>0, <4>2, <4>3 DEF D, Ending
      <4> QED
        BY <3>0, <4>1, <4>2, <4>3, <4>4 DEF A
    <3>2. \A a \in A : \E p \in P : f[p] = a
      <4> TAKE a \in A
      <4>1. PICK s \in Sock : Waits(s, a)
        BY DEF A
      <4>2. PICK i \in DOMAIN queue[s] : queue[s][i].type \in Ending /\ queue[s][i].assoc = a
        BY <4>1 DEF Waits
      <4>3. assoc[a].remote = r
        BY DEF A, D
      <4>4. <<s, i>> \in P
        BY <3>0, <4>2, <4>3 DEF Ending
      <4> QED
        BY <4>2, <4>4
    <3>3. \A s \in Sock : DOMAIN queue[s] \subseteq Nat
      BY <2>1 DEF DataInv, DataTypes
    <3>4. f \in [P -> A]
      BY <3>1
    <3> HIDE DEF f
    <3>5. ASSUME NEW p \in P, NEW q \in P, f[p] = f[q]
          PROVE  p = q
      <4> DEFINE e == queue[p[1]][p[2]]
                 d == queue[q[1]][q[2]]
      <4>0. /\ p[1] \in Sock /\ p[2] \in DOMAIN queue[p[1]] /\ e.type \in Ending
            /\ q[1] \in Sock /\ q[2] \in DOMAIN queue[q[1]] /\ d.type \in Ending
            /\ e.assoc = d.assoc
        BY <3>1, <3>5
      <4>1. p[1] = q[1]
        <5>1. assoc[e.assoc].sock = p[1] /\ assoc[d.assoc].sock = q[1]
          BY <2>1, <4>0 DEF DataInv, QueuesSound
        <5> QED
          BY <4>0, <5>1
      <4>2. p[2] \in Nat /\ q[2] \in Nat
        BY <3>1, <3>3
      <4>3. ~(p[2] < q[2]) /\ ~(q[2] < p[2])
        BY <2>1, <4>0, <4>1 DEF ReportedOnce
      <4> QED
        BY <3>1, <4>1, <4>2, <4>3
    <3> QED
      BY <2>6, <3>2, <3>4, <3>5, CountReports
  <2>8. Cardinality(H) = Cardinality(B)
    <3> DEFINE g == [s \in H |-> hev[s].assoc]
    <3>1. ASSUME NEW s \in H
          PROVE  s \in Sock /\ Holds(s, g[s]) /\ g[s] \in B
      <4>1. s \in Sock /\ Holds(s, g[s]) /\ assoc[g[s]].remote = r
        BY DEF Holds, Busy, Ending
      <4> QED
        BY <2>2, <4>1 DEF B, D, Ending
    <3>2. \A a \in B : \E s \in H : g[s] = a
      BY DEF B, D, Holds, Busy, Ending
    <3>3. g \in [H -> B]
      BY <3>1
    <3>4. \A s, u \in H : g[s] = g[u] => s = u
      BY <2>1, <2>2, <3>1 DEF ReportedOnce
    <3> HIDE DEF g, H
    <3> QED
      BY <2>6, <3>2, <3>3, <3>4, CountReports
  <2>9. Cardinality(C) = reest[r] + retried[r] /\ reest[r] \in Nat /\ retried[r] \in Nat
    BY <1>1 DEF C, BalanceInv, Balanced, IInv, LoopTypes
  <2>10. Cardinality(A) \in Nat /\ Cardinality(B) \in Nat
    BY <2>6, FS_CardinalityType
  <2>11. InFlight(Owed) = Cardinality(P) + Cardinality(H)
    BY DEF InFlight
  <2> HIDE DEF P, H
  <2>12. Cardinality(D) = InFlight(Owed) + reest[r] + retried[r]
    BY <2>6, <2>7, <2>8, <2>9, <2>10, <2>11
  <2> QED
    BY <2>12 DEF D
<1> QED
  BY <1>1, InitInv, NextInv, BalanceInit, BalanceNext, PTL DEF Spec
==============================================================================
