---------------------------- MODULE UdpPeers_proofs ----------------------------
(***************************************************************************)
(* Proofs about UdpPeers, for any remotes, keep-alive period and number of *)
(* probes, and for a scheduler that restores repetitions or does not.      *)
(***************************************************************************)
EXTENDS UdpPeers, TLAPS

-----------------------------------------------------------------------------
(* The invariant. *)

TasksOK(ts) == DOMAIN ts \subseteq TaskId /\ \A t \in DOMAIN ts : ts[t] \in Task

\* l is the comm lost task of the peer k, which has been silent for q seconds.
LostOf(ts, l, k, q) ==
  /\ l \in DOMAIN ts /\ ts[l].kind = "lost" /\ ts[l].key = k
  /\ q + ts[l].left = LostDelay

\* The scheduler may not restore the repetitions of a task that is reset.
RepsMayStay == FALSE \in Refills

ProbesDue == IF RepsMayStay THEN 1 ELSE Probes

\* p is the ping of the peer k, sent n times in those q seconds: one at the end
\* of every period, until its repetitions are used up and it is gone.
PingOf(ts, p, k, q, n) ==
  \/ p = NoTask /\ n >= ProbesDue
  \/ /\ p \in DOMAIN ts /\ ts[p].kind = "ping" /\ ts[p].key = k
     /\ q + ts[p].left = (n + 1) * Period
     /\ ts[p].reps >= 1 /\ n + ts[p].reps <= Probes
     /\ ~RepsMayStay => n + ts[p].reps = Probes

\* What holds of the entries in terms of the tasks.
Entries(ts, ps, q, n) ==
  \A k \in DOMAIN ps : LostOf(ts, ps[k].lost, k, q[k]) /\ PingOf(ts, ps[k].ping, k, q[k], n[k])

EntryInv == Entries(tasks, peers, quiet, probed)

\* The task receives only when it has run what was due.
NothingDue == loop = "receive" => \A t \in DOMAIN tasks : tasks[t].left > 0

IInv == TypeOK /\ EntryInv /\ NeverForgotten /\ NothingDue

-----------------------------------------------------------------------------
(* Periods. *)

LEMMA Periods ==
  /\ Period \in Nat /\ Period > 0 /\ Probes \in Nat /\ Probes > 0 /\ LostDelay \in Nat
  /\ ReestDelay \in Nat /\ (0 + 1) * Period = Period
  /\ \A n \in Nat : (n + 1 + 1) * Period = (n + 1) * Period + Period /\ (n + 1) * Period \in Nat
<1>1. Period \in Nat /\ Period > 0 /\ Probes \in Nat /\ Probes > 0 /\ ReestDelay \in Nat
  BY TimingAssumption
<1>2. LostDelay \in Nat
  BY <1>1 DEF LostDelay
<1> QED
  BY <1>1, <1>2

\* As many periods as comm lost takes are not over before as many probes are.
LEMMA ProbesTakeTheirPeriods ==
  ASSUME NEW n \in Nat, NEW left \in Nat, LostDelay + left = (n + 1) * Period
  PROVE  n >= Probes
<1>1. Period \in Nat /\ Period > 0 /\ Probes \in Nat
  BY TimingAssumption
<1>2. LostDelay = (Probes + 1) * Period
  BY <1>1 DEF LostDelay
<1> SUFFICES ASSUME n < Probes PROVE FALSE
  BY <1>1
<1>3. PICK d \in Nat : Probes = n + 1 + d
  <2>1. Probes - n - 1 \in Nat /\ Probes = n + 1 + (Probes - n - 1)
    BY <1>1
  <2> QED
    BY <2>1
<1>4. (Probes + 1) * Period = (n + 1) * Period + (d + 1) * Period
  BY <1>1, <1>3
<1>5. (d + 1) * Period = d * Period + Period /\ d * Period \in Nat
  BY <1>1, <1>3
<1>6. (n + 1) * Period \in Nat
  BY <1>1
<1> QED
  BY <1>1, <1>2, <1>4, <1>5, <1>6

-----------------------------------------------------------------------------
(* What the handlers share. *)

\* An entry knows its tasks by their kind and key.
LEMMA EntryKeeps ==
  ASSUME NEW ts, NEW us, NEW k, NEW l, NEW p, NEW q, NEW n,
         LostOf(ts, l, k, q), PingOf(ts, p, k, q, n),
         \A u \in DOMAIN ts : ts[u].kind \in {"lost", "ping"} /\ ts[u].key = k
                                => u \in DOMAIN us /\ us[u] = ts[u]
  PROVE  LostOf(us, l, k, q) /\ PingOf(us, p, k, q, n)
BY DEF LostOf, PingOf

LEMMA NewTask ==
  ASSUME NEW ts, TasksOK(ts), NEW t \in Fresh(ts), NEW x \in Task,
         NEW us, us = Emplace(ts, t, x)
  PROVE  /\ TasksOK(us)
         /\ t \in TaskId /\ t # NoTask /\ t \notin DOMAIN ts
         /\ DOMAIN us = DOMAIN ts \cup {t} /\ us[t] = x
         /\ \A u \in DOMAIN ts : us[u] = ts[u]
<1>1. t \in TaskId /\ t # NoTask /\ t \notin DOMAIN ts
  BY TaskIdAssumption DEF Fresh
<1>2. /\ DOMAIN us = DOMAIN ts \cup {t} /\ us[t] = x
      /\ \A u \in DOMAIN ts : us[u] = ts[u]
  BY <1>1 DEF Emplace
<1> QED
  BY <1>1, <1>2 DEF TasksOK

LEMMA TwoNewTasks ==
  ASSUME NEW ts, TasksOK(ts), NEW p \in Fresh(ts), NEW x \in Task,
         NEW us, us = Emplace(ts, p, x),
         NEW l \in Fresh(us), NEW y \in Task, NEW vs, vs = Emplace(us, l, y)
  PROVE  /\ TasksOK(vs)
         /\ p \in TaskId /\ p # NoTask /\ l \in TaskId
         /\ p \in DOMAIN vs /\ vs[p] = x /\ l \in DOMAIN vs /\ vs[l] = y
         /\ \A u \in DOMAIN ts : u \in DOMAIN vs /\ vs[u] = ts[u]
<1>1. p \in TaskId /\ p # NoTask /\ p \notin DOMAIN ts /\ l \in TaskId /\ l \notin DOMAIN us
  BY TaskIdAssumption DEF Fresh
<1>2. DOMAIN us = DOMAIN ts \cup {p} /\ us[p] = x /\ \A u \in DOMAIN ts : us[u] = ts[u]
  BY <1>1 DEF Emplace
<1>3. DOMAIN vs = DOMAIN us \cup {l} /\ vs[l] = y /\ \A u \in DOMAIN us : vs[u] = us[u]
  BY <1>1 DEF Emplace
<1>4. /\ p \in DOMAIN vs /\ vs[p] = x /\ l \in DOMAIN vs /\ vs[l] = y
      /\ \A u \in DOMAIN ts : u \in DOMAIN vs /\ vs[u] = ts[u]
      /\ DOMAIN vs = DOMAIN ts \cup {p, l}
  BY <1>2, <1>3
<1> QED
  BY <1>1, <1>4 DEF TasksOK

LEMMA TaskTypes ==
  ASSUME NEW k \in Key
  PROVE  PingTask(k) \in Task /\ LostTask(k) \in Task /\ ReestTask(k) \in Task
BY Periods DEF PingTask, LostTask, ReestTask, Task

\* handleCommUp adds the two tasks of the new peer, and for a peer that is in
\* the table changes no entry.
LEMMA CommUpKeeps ==
  ASSUME TypeOK, NEW k \in Key, NEW ts, TasksOK(ts), CommUp(k, ts),
         Entries(ts, peers, quiet, probed)
  PROVE  /\ TasksOK(tasks') /\ EntryInv'
         /\ DOMAIN peers' = DOMAIN peers \cup {k} /\ known' = known \cup {k}
         /\ \A c \in DOMAIN peers' : peers'[c] \in [ping : TaskId \cup {NoTask}, lost : TaskId]
         /\ quiet' \in [Key -> Nat] /\ probed' \in [Key -> 0 .. Probes]
         /\ \A u \in DOMAIN ts : u \in DOMAIN tasks' /\ tasks'[u] = ts[u]
<1>0. PICK p \in Fresh(ts) : \E l \in Fresh(Emplace(ts, p, PingTask(k))) :
        /\ tasks' = Emplace(Emplace(ts, p, PingTask(k)), l, LostTask(k))
        /\ peers' = Emplace(peers, k, [ping |-> p, lost |-> l])
  BY DEF CommUp
<1>1. PICK l \in Fresh(Emplace(ts, p, PingTask(k))) :
        /\ tasks' = Emplace(Emplace(ts, p, PingTask(k)), l, LostTask(k))
        /\ peers' = Emplace(peers, k, [ping |-> p, lost |-> l])
  BY <1>0
<1> DEFINE x == PingTask(k)
           y == LostTask(k)
           us == Emplace(ts, p, x)
<1>2. p \in Fresh(ts) /\ l \in Fresh(us) /\ x \in Task /\ y \in Task /\ tasks' = Emplace(us, l, y)
  BY <1>1, TaskTypes
<1>3. PICK vs : vs = tasks'
  OBVIOUS
<1>4. vs = Emplace(us, l, y)
  BY <1>2, <1>3
<1> HIDE DEF x, y
<1>5. /\ TasksOK(vs)
      /\ p \in TaskId /\ p # NoTask /\ l \in TaskId
      /\ p \in DOMAIN vs /\ vs[p] = x /\ l \in DOMAIN vs /\ vs[l] = y
      /\ \A u \in DOMAIN ts : u \in DOMAIN vs /\ vs[u] = ts[u]
  BY <1>2, <1>4, TwoNewTasks
<1> HIDE DEF us
<1>6. /\ DOMAIN peers' = DOMAIN peers \cup {k}
      /\ \A c \in DOMAIN peers : peers'[c] = peers[c]
      /\ k \notin DOMAIN peers => peers'[k] = [ping |-> p, lost |-> l]
  BY <1>1 DEF Emplace
<1>7. quiet \in [Key -> Nat] /\ probed \in [Key -> 0 .. Probes] /\ 0 \in 0 .. Probes
  BY Periods DEF TypeOK
<1>8. /\ quiet' \in [Key -> Nat] /\ probed' \in [Key -> 0 .. Probes]
      /\ \A c \in DOMAIN peers : c \in Key => quiet'[c] = quiet[c] /\ probed'[c] = probed[c]
      /\ k \notin DOMAIN peers => quiet'[k] = 0 /\ probed'[k] = 0
  BY <1>7 DEF CommUp, Heard
<1>9. \A c \in DOMAIN peers' : peers'[c] \in [ping : TaskId \cup {NoTask}, lost : TaskId]
  BY <1>5, <1>6 DEF TypeOK
<1>10. EntryInv'
  <2> SUFFICES ASSUME NEW c \in DOMAIN peers'
               PROVE  LostOf(tasks', peers'[c].lost, c, quiet'[c])
                      /\ PingOf(tasks', peers'[c].ping, c, quiet'[c], probed'[c])
    BY DEF EntryInv, Entries, LostOf, PingOf
  <2>1. CASE c \in DOMAIN peers
    <3>1. c \in Key /\ peers'[c] = peers[c] /\ quiet'[c] = quiet[c] /\ probed'[c] = probed[c]
      BY <1>6, <1>8, <2>1 DEF TypeOK
    <3>2. LostOf(ts, peers[c].lost, c, quiet[c]) /\ PingOf(ts, peers[c].ping, c, quiet[c], probed[c])
      BY <2>1 DEF Entries
    <3> QED
      BY <1>3, <1>5, <3>1, <3>2, EntryKeeps
  <2>2. CASE c = k /\ k \notin DOMAIN peers
    <3>1. peers'[c].lost = l /\ peers'[c].ping = p /\ quiet'[c] = 0 /\ probed'[c] = 0
      BY <1>6, <1>8, <2>2
    <3>2. /\ tasks'[p] = PingTask(k) /\ p \in DOMAIN tasks'
          /\ tasks'[l] = LostTask(k) /\ l \in DOMAIN tasks'
      BY <1>3, <1>5 DEF x, y
    <3>3. LostOf(tasks', l, k, 0)
      BY <3>2, Periods DEF LostOf, LostTask
    <3>4. PingOf(tasks', p, k, 0, 0)
      <4>1. /\ tasks'[p].kind = "ping" /\ tasks'[p].key = k
            /\ tasks'[p].left = Period /\ tasks'[p].reps = Probes
        BY <3>2 DEF PingTask
      <4>2. 0 + Period = (0 + 1) * Period /\ Probes >= 1 /\ 0 + Probes = Probes /\ Probes <= Probes
        BY Periods
      <4> QED
        BY <3>2, <4>1, <4>2 DEF PingOf
    <3> QED
      BY <2>2, <3>1, <3>3, <3>4
  <2> QED
    BY <1>6, <2>1, <2>2
<1> QED
  BY <1>3, <1>5, <1>6, <1>8, <1>9, <1>10 DEF CommUp

\* remove takes away the entry of one key, and of the tasks only those that the
\* entry owns; ts has the tasks of the other keys.
LEMMA RemoveKeeps ==
  ASSUME TypeOK, EntryInv, NEW k \in Key, NEW ts, TasksOK(ts), Remove(k, ts),
         \A u \in DOMAIN tasks : tasks[u].key # k => u \in DOMAIN ts /\ ts[u] = tasks[u],
         quiet' = quiet, probed' = probed
  PROVE  /\ TasksOK(tasks') /\ EntryInv'
         /\ DOMAIN peers' = DOMAIN peers \ {k}
         /\ \A c \in DOMAIN peers' : peers'[c] = peers[c]
         /\ DOMAIN tasks' = DOMAIN ts \ Owned(k)
         /\ \A u \in DOMAIN tasks' : tasks'[u] = ts[u]
         /\ \A u \in Owned(k) \ {NoTask} : u \in DOMAIN tasks /\ tasks[u].kind \in {"ping", "lost"}
<1>1. /\ DOMAIN peers' = DOMAIN peers \ {k}
      /\ \A c \in DOMAIN peers' : peers'[c] = peers[c]
      /\ DOMAIN tasks' = DOMAIN ts \ Owned(k)
      /\ \A u \in DOMAIN tasks' : tasks'[u] = ts[u]
  BY DEF Remove, Erase, Restrict
<1>2. \A u \in Owned(k) \ {NoTask} :
        u \in DOMAIN tasks /\ tasks[u].kind \in {"ping", "lost"} /\ tasks[u].key = k
  <2> SUFFICES ASSUME k \in DOMAIN peers, NEW u \in {peers[k].ping, peers[k].lost}, u # NoTask
               PROVE  u \in DOMAIN tasks /\ tasks[u].kind \in {"ping", "lost"} /\ tasks[u].key = k
    BY DEF Owned
  <2>1. /\ LostOf(tasks, peers[k].lost, k, quiet[k])
        /\ PingOf(tasks, peers[k].ping, k, quiet[k], probed[k])
    BY DEF EntryInv, Entries
  <2> QED
    BY <2>1 DEF LostOf, PingOf
<1>3. NoTask \notin DOMAIN tasks
  BY TaskIdAssumption DEF TypeOK
<1>4. TasksOK(tasks')
  BY <1>1 DEF TasksOK
<1>5. EntryInv'
  <2> SUFFICES ASSUME NEW c \in DOMAIN peers'
               PROVE  LostOf(tasks', peers'[c].lost, c, quiet'[c])
                      /\ PingOf(tasks', peers'[c].ping, c, quiet'[c], probed'[c])
    BY DEF EntryInv, Entries, LostOf, PingOf
  <2>1. c \in DOMAIN peers /\ c # k /\ peers'[c] = peers[c]
    BY <1>1
  <2>2. LostOf(tasks, peers[c].lost, c, quiet[c]) /\ PingOf(tasks, peers[c].ping, c, quiet[c], probed[c])
    BY <2>1 DEF EntryInv, Entries
  <2>3. ASSUME NEW u \in DOMAIN tasks, tasks[u].key = c
        PROVE  u \in DOMAIN tasks' /\ tasks'[u] = tasks[u]
    <3>1. u \in DOMAIN ts /\ ts[u] = tasks[u]
      BY <2>1, <2>3
    <3>2. u \notin Owned(k)
      BY <1>2, <1>3, <2>1, <2>3
    <3> QED
      BY <1>1, <3>1, <3>2
  <2> QED
    BY <2>1, <2>2, <2>3, EntryKeeps
<1> QED
  BY <1>1, <1>2, <1>4, <1>5

-----------------------------------------------------------------------------
(* The steps. *)

LEMMA TypesGive ==
  ASSUME TypeOK
  PROVE  /\ TasksOK(tasks)
         /\ \A t \in DOMAIN tasks : tasks[t].key \in Key /\ tasks[t].left \in Nat /\ tasks[t].reps \in Nat
         /\ quiet \in [Key -> Nat] /\ probed \in [Key -> Nat]
         /\ \A k \in DOMAIN peers : k \in Key
         /\ NoTask \notin DOMAIN tasks
BY Periods, TaskIdAssumption DEF TypeOK, TasksOK, Task

\* The end of the socket leaves nothing to speak of.
LEMMA StopKeeps ==
  ASSUME IInv, NEW label \in Stopped, Stop(label), todo' = todo
  PROVE  IInv'
<1>1. /\ DOMAIN tasks' = {} /\ DOMAIN peers' = {} /\ loop' \in Stopped
      /\ known' = known /\ quiet' = quiet /\ probed' = probed
  BY DEF Stop, EmptyMap, Stopped, history
<1>2. TypeOK'
  BY <1>1 DEF IInv, TypeOK
<1>3. EntryInv' /\ NeverForgotten' /\ NothingDue'
  BY <1>1 DEF EntryInv, Entries, LostOf, PingOf, NeverForgotten, NothingDue, Stopped
<1> QED
  BY <1>2, <1>3 DEF IInv

LEMMA ConnectKeeps ==
  ASSUME IInv, ConnectNext
  PROVE  IInv'
<1>1. loop = "connect" /\ TasksOK(tasks)
  BY TypesGive DEF ConnectNext, IInv
<1>2. ASSUME NEW r \in todo, CommUp(ConfiguredKey(r), tasks), todo' = todo \ {r}, loop' = loop
      PROVE  IInv'
  <2>1. ConfiguredKey(r) \in Key
    BY ConfiguredAssumption DEF IInv, TypeOK, ConfiguredKey, Key
  <2>2. /\ TasksOK(tasks') /\ EntryInv'
        /\ DOMAIN peers' = DOMAIN peers \cup {ConfiguredKey(r)}
        /\ known' = known \cup {ConfiguredKey(r)}
        /\ \A c \in DOMAIN peers' : peers'[c] \in [ping : TaskId \cup {NoTask}, lost : TaskId]
        /\ quiet' \in [Key -> Nat] /\ probed' \in [Key -> 0 .. Probes]
        /\ \A u \in DOMAIN tasks : u \in DOMAIN tasks' /\ tasks'[u] = tasks[u]
    BY <1>1, <1>2, <2>1, CommUpKeeps DEF IInv, EntryInv
  <2>3. TypeOK'
    BY <1>2, <2>1, <2>2 DEF IInv, TypeOK, TasksOK
  <2>4. NeverForgotten' /\ NothingDue'
    BY <1>1, <1>2, <2>2 DEF IInv, NeverForgotten, NothingDue, Stopped
  <2> QED
    BY <2>2, <2>3, <2>4 DEF IInv
<1>3. ASSUME loop' = "launch", UNCHANGED <<tasks, peers, todo, history>>
      PROVE  IInv'
  <2>1. /\ tasks' = tasks /\ peers' = peers /\ todo' = todo
        /\ known' = known /\ quiet' = quiet /\ probed' = probed
    BY <1>3 DEF history
  <2>2. TypeOK'
    BY <1>3, <2>1 DEF IInv, TypeOK
  <2>3. EntryInv'
    BY <2>1 DEF IInv, EntryInv, Entries, LostOf, PingOf
  <2> QED
    BY <1>1, <1>3, <2>1, <2>2, <2>3 DEF IInv, NeverForgotten, NothingDue, Stopped
<1> QED
  BY <1>2, <1>3 DEF ConnectNext

\* A ping that is sent is the end of one more period for the peer that owns it.
LEMMA PingKeeps ==
  ASSUME IInv, NEW t \in DOMAIN tasks, Ping(t)
  PROVE  IInv'
<1> DEFINE k == tasks[t].key
<1>1. CASE Stop("threw")
  BY <1>1, StopKeeps DEF Ping, Stopped
<1>2. CASE /\ IF tasks[t].reps > 1
              THEN /\ tasks' = [tasks EXCEPT ![t].left = Period, ![t].reps = @ - 1]
                   /\ UNCHANGED peers
              ELSE /\ tasks' = Erase(tasks, {t})
                   /\ peers' = [p \in DOMAIN peers |->
                        IF peers[p].ping = t THEN [peers[p] EXCEPT !.ping = NoTask] ELSE peers[p]]
           /\ probed' = [probed EXCEPT ![k] =
                IF k \in DOMAIN peers /\ peers[k].ping = t /\ @ < Probes THEN @ + 1 ELSE @]
           /\ UNCHANGED <<loop, known, quiet>>
  <2>1. /\ loop = "launch" /\ loop' = "launch" /\ todo' = todo /\ known' = known /\ quiet' = quiet
        /\ tasks[t].kind = "ping" /\ tasks[t].left = 0
    BY <1>2 DEF Ping, Due
  <2>2. /\ TypeOK /\ TasksOK(tasks) /\ k \in Key
        /\ quiet \in [Key -> Nat] /\ probed \in [Key -> 0 .. Probes] /\ DOMAIN peers \subseteq Key
        /\ tasks[t] \in Task /\ NoTask \notin DOMAIN tasks
    BY TypesGive DEF IInv, TypeOK
  <2>3. \A c \in DOMAIN peers :
          /\ LostOf(tasks, peers[c].lost, c, quiet[c])
          /\ PingOf(tasks, peers[c].ping, c, quiet[c], probed[c])
    BY DEF IInv, EntryInv, Entries
  <2>4. probed' \in [Key -> 0 .. Probes] /\ \A c \in Key : c # k => probed'[c] = probed[c]
    BY <1>2, <2>2, Periods
  \* What becomes of the tasks.
  <2>5. /\ DOMAIN tasks' \subseteq DOMAIN tasks
        /\ \A u \in DOMAIN tasks : u # t => u \in DOMAIN tasks' /\ tasks'[u] = tasks[u]
        /\ tasks[t].reps > 1 =>
             /\ t \in DOMAIN tasks' /\ tasks'[t] \in Task
             /\ tasks'[t].kind = "ping" /\ tasks'[t].key = k
             /\ tasks'[t].left = Period /\ tasks'[t].reps = tasks[t].reps - 1
        /\ ~(tasks[t].reps > 1) => t \notin DOMAIN tasks'
    <3>1. CASE tasks[t].reps > 1
      <4>1. tasks' = [tasks EXCEPT ![t].left = Period, ![t].reps = @ - 1]
        BY <1>2, <3>1
      <4>2. tasks[t].reps - 1 \in Nat /\ Period \in Nat
        BY <2>2, <3>1, Periods DEF Task
      <4>3. tasks'[t] = [tasks[t] EXCEPT !.left = Period, !.reps = tasks[t].reps - 1]
        BY <4>1
      <4>4. /\ tasks'[t] \in Task
            /\ tasks'[t].kind = "ping" /\ tasks'[t].key = k
            /\ tasks'[t].left = Period /\ tasks'[t].reps = tasks[t].reps - 1
        BY <2>1, <2>2, <4>2, <4>3 DEF Task
      <4> QED
        BY <3>1, <4>1, <4>4
    <3>2. CASE ~(tasks[t].reps > 1)
      BY <1>2, <3>2 DEF Erase, Restrict
    <3> QED
      BY <3>1, <3>2
  <2>6. /\ DOMAIN peers' = DOMAIN peers
        /\ \A c \in DOMAIN peers : peers'[c] =
             IF ~(tasks[t].reps > 1) /\ peers[c].ping = t THEN [peers[c] EXCEPT !.ping = NoTask] ELSE peers[c]
    BY <1>2
  <2>7. TasksOK(tasks')
    <3> SUFFICES ASSUME NEW u \in DOMAIN tasks' PROVE u \in TaskId /\ tasks'[u] \in Task
      BY DEF TasksOK
    <3>1. CASE u = t
      BY <2>2, <2>5, <3>1 DEF TasksOK
    <3>2. CASE u # t
      BY <2>2, <2>5, <3>2 DEF TasksOK
    <3> QED
      BY <3>1, <3>2
  <2>8. \A c \in DOMAIN peers' : peers'[c] \in [ping : TaskId \cup {NoTask}, lost : TaskId]
    <3> SUFFICES ASSUME NEW c \in DOMAIN peers
                 PROVE  peers'[c] \in [ping : TaskId \cup {NoTask}, lost : TaskId]
      BY <2>6
    <3>1. peers[c] \in [ping : TaskId \cup {NoTask}, lost : TaskId]
      BY <2>2 DEF TypeOK
    <3> QED
      BY <2>6, <3>1
  <2>9. TypeOK'
    BY <2>1, <2>2, <2>4, <2>6, <2>7, <2>8 DEF TypeOK, TasksOK
  <2> HIDE DEF k
  <2>10. EntryInv'
    <3> SUFFICES ASSUME NEW c \in DOMAIN peers
                 PROVE  LostOf(tasks', peers'[c].lost, c, quiet[c])
                        /\ PingOf(tasks', peers'[c].ping, c, quiet[c], probed'[c])
      BY <2>1, <2>6 DEF EntryInv, Entries, LostOf, PingOf
    <3>1. peers'[c].lost = peers[c].lost /\ peers[c].lost # t
      <4>1. peers[c] \in [ping : TaskId \cup {NoTask}, lost : TaskId]
        BY <2>2 DEF TypeOK
      <4>2. peers'[c].lost = peers[c].lost
        BY <2>6, <4>1
      <4> QED
        BY <2>1, <2>3, <4>2 DEF LostOf
    <3>2. LostOf(tasks', peers'[c].lost, c, quiet[c])
      BY <2>3, <2>5, <3>1 DEF LostOf
    <3>3. CASE peers[c].ping # t
      <4>1. peers'[c].ping = peers[c].ping
        BY <2>6, <3>3
      <4>2. c \in Key /\ probed'[c] = probed[c]
        <5>1. CASE c = k
          BY <1>2, <2>2, <3>3, <5>1 DEF k
        <5>2. CASE c # k
          BY <2>2, <2>4, <5>2
        <5> QED
          BY <2>2, <5>1, <5>2
      <4>3. PingOf(tasks, peers[c].ping, c, quiet[c], probed[c])
        BY <2>3
      <4>4. PingOf(tasks', peers[c].ping, c, quiet[c], probed[c])
        BY <2>5, <3>3, <4>3 DEF PingOf
      <4> QED
        BY <3>2, <4>1, <4>2, <4>4
    <3>4. CASE peers[c].ping = t
      <4> DEFINE n == probed[c]
                 reps == tasks[t].reps
      <4>1. t # NoTask /\ n \in 0 .. Probes /\ quiet[c] \in Nat /\ reps \in Nat
        BY <2>2 DEF Task
      <4>2. /\ c = k /\ quiet[c] + 0 = (n + 1) * Period
            /\ reps >= 1 /\ n + reps <= Probes
            /\ ~RepsMayStay => n + reps = Probes
        BY <2>1, <2>3, <3>4, <4>1 DEF PingOf, k
      <4>3. n < Probes
        BY <4>1, <4>2, Periods
      <4>4. probed'[c] = n + 1
        BY <1>2, <2>2, <3>4, <4>2, <4>3 DEF k
      <4> HIDE DEF n, reps
      <4>5. CASE reps > 1
        <5>1. peers'[c].ping = t
          BY <2>6, <3>4, <4>5 DEF reps
        <5>2. /\ t \in DOMAIN tasks' /\ tasks'[t].kind = "ping" /\ tasks'[t].key = c
              /\ tasks'[t].left = Period /\ tasks'[t].reps = reps - 1
          BY <2>5, <4>2, <4>5 DEF reps
        <5>3. quiet[c] + Period = (n + 1 + 1) * Period
          <6>1. n \in Nat /\ quiet[c] = (n + 1) * Period
            BY <4>1, <4>2, Periods
          <6> QED
            BY <6>1, Periods
        <5>4. /\ reps - 1 >= 1 /\ n + 1 + (reps - 1) <= Probes
              /\ ~RepsMayStay => n + 1 + (reps - 1) = Probes
          <6>1. n \in Nat /\ Probes \in Nat
            BY <4>1, Periods
          <6>2. /\ reps \in Nat /\ reps > 1 /\ n + reps <= Probes
                /\ ~RepsMayStay => n + reps = Probes
            BY <4>1, <4>2, <4>5
          <6> QED
            BY <6>1, <6>2
        <5>5. PingOf(tasks', t, c, quiet[c], n + 1)
          BY <5>2, <5>3, <5>4 DEF PingOf
        <5> QED
          BY <3>2, <4>4, <5>1, <5>5
      <4>6. CASE ~(reps > 1)
        <5>1. peers'[c].ping = NoTask
          <6>1. peers'[c] = [peers[c] EXCEPT !.ping = NoTask]
            BY <2>6, <3>4, <4>6 DEF reps
          <6>2. peers[c] \in [ping : TaskId \cup {NoTask}, lost : TaskId]
            BY <2>2 DEF TypeOK
          <6> QED
            BY <6>1, <6>2
        <5>2. n + 1 >= ProbesDue
          <6>1. n \in Nat /\ Probes \in Nat
            BY <4>1, Periods
          <6>2. reps = 1 /\ (~RepsMayStay => n + reps = Probes)
            BY <4>1, <4>2, <4>6
          <6> QED
            BY <6>1, <6>2 DEF ProbesDue
        <5> QED
          BY <3>2, <4>4, <5>1, <5>2 DEF PingOf
      <4> QED
        BY <4>5, <4>6
    <3> QED
      BY <3>3, <3>4
  <2>11. NeverForgotten'
    <3> SUFFICES ASSUME NEW c \in known, c \notin DOMAIN peers
                 PROVE  \E u \in DOMAIN tasks' : tasks'[u].kind = "reest" /\ tasks'[u].key = c
      BY <2>1, <2>6 DEF NeverForgotten
    <3>1. PICK u \in DOMAIN tasks : tasks[u].kind = "reest" /\ tasks[u].key = c
      BY <2>1 DEF IInv, NeverForgotten, Stopped
    <3> QED
      BY <2>1, <2>5, <3>1
  <2>12. NothingDue'
    BY <2>1 DEF NothingDue
  <2> QED
    BY <2>9, <2>10, <2>11, <2>12 DEF IInv
<1> QED
  BY <1>1, <1>2 DEF Ping

\* What the steps that take a peer away or bring one leave to be shown.
LEMMA TypesFollow ==
  ASSUME TasksOK(tasks'), DOMAIN peers' \subseteq Key,
         \A c \in DOMAIN peers' : peers'[c] \in [ping : TaskId \cup {NoTask}, lost : TaskId],
         todo' \subseteq Configured, loop' \in {"connect", "launch", "receive", "chat"} \cup Stopped,
         known' \subseteq Key, quiet' \in [Key -> Nat], probed' \in [Key -> 0 .. Probes]
  PROVE  TypeOK'
BY DEF TypeOK, TasksOK

\* handleCommLost leaves the reestablishment behind when the peer goes.
LEMMA CommLostKeeps ==
  ASSUME IInv, NEW t \in DOMAIN tasks, CommLost(t)
  PROVE  IInv'
<1> DEFINE k == tasks[t].key
<1>1. PICK n \in Fresh(tasks) : Remove(k, Erase(Emplace(tasks, n, ReestTask(k)), {t}))
  BY DEF CommLost
<1>2. /\ loop = "launch" /\ loop' = "launch" /\ todo' = todo /\ known' = known
      /\ quiet' = quiet /\ probed' = probed /\ tasks[t].kind = "lost"
  BY DEF CommLost, Due, history
<1>3. TypeOK /\ TasksOK(tasks) /\ k \in Key /\ NoTask \notin DOMAIN tasks
  BY TypesGive DEF IInv
<1> HIDE DEF k
<1> DEFINE x == ReestTask(k)
           us == Emplace(tasks, n, x)
           ts == Erase(us, {t})
<1>4. x \in Task /\ x.kind = "reest" /\ x.key = k
  BY <1>3, TaskTypes DEF ReestTask
<1> HIDE DEF x
<1>5. /\ TasksOK(us) /\ n # NoTask /\ n \notin DOMAIN tasks
      /\ DOMAIN us = DOMAIN tasks \cup {n} /\ us[n] = x
      /\ \A u \in DOMAIN tasks : us[u] = tasks[u]
  BY <1>3, <1>4, NewTask
<1> HIDE DEF us
<1>6. DOMAIN ts = DOMAIN us \ {t} /\ \A u \in DOMAIN ts : ts[u] = us[u]
  BY DEF Erase, Restrict
<1>7. Remove(k, ts)
  BY <1>1 DEF us, x
<1> HIDE DEF ts
<1>8. TasksOK(ts)
  BY <1>5, <1>6 DEF TasksOK
<1>9. \A u \in DOMAIN tasks : tasks[u].key # k => u \in DOMAIN ts /\ ts[u] = tasks[u]
  BY <1>5, <1>6 DEF k
<1>10. /\ TasksOK(tasks') /\ EntryInv'
       /\ DOMAIN peers' = DOMAIN peers \ {k}
       /\ \A c \in DOMAIN peers' : peers'[c] = peers[c]
       /\ DOMAIN tasks' = DOMAIN ts \ Owned(k)
       /\ \A u \in DOMAIN tasks' : tasks'[u] = ts[u]
       /\ \A u \in Owned(k) \ {NoTask} : u \in DOMAIN tasks /\ tasks[u].kind \in {"ping", "lost"}
  BY <1>2, <1>3, <1>7, <1>8, <1>9, RemoveKeeps DEF IInv
<1>11. TypeOK'
  <2>1. /\ DOMAIN peers' \subseteq Key
        /\ \A c \in DOMAIN peers' : peers'[c] \in [ping : TaskId \cup {NoTask}, lost : TaskId]
    BY <1>3, <1>10 DEF TypeOK
  <2> QED
    BY <1>2, <1>3, <1>10, <2>1, TypesFollow DEF TypeOK
<1>12. NeverForgotten'
  <2> SUFFICES ASSUME NEW c \in known, c \notin DOMAIN peers'
               PROVE  \E u \in DOMAIN tasks' : tasks'[u].kind = "reest" /\ tasks'[u].key = c
    BY <1>2 DEF NeverForgotten
  <2>1. CASE c = k
    <3>1. n \in DOMAIN tasks' /\ tasks'[n] = x
      BY <1>5, <1>6, <1>10
    <3> QED
      BY <1>4, <2>1, <3>1
  <2>2. CASE c # k
    <3>1. PICK u \in DOMAIN tasks : tasks[u].kind = "reest" /\ tasks[u].key = c
      BY <1>2, <1>10, <2>2 DEF IInv, NeverForgotten, Stopped
    <3>2. u # t /\ u \notin Owned(k)
      BY <1>2, <1>3, <1>10, <3>1
    <3> QED
      BY <1>5, <1>6, <1>10, <3>1, <3>2
  <2> QED
    BY <2>1, <2>2
<1> QED
  BY <1>2, <1>10, <1>11, <1>12 DEF IInv, NothingDue

LEMMA ReestablishKeeps ==
  ASSUME IInv, NEW t \in DOMAIN tasks, Reestablish(t)
  PROVE  IInv'
<1> DEFINE k == tasks[t].key
           ts == Erase(tasks, {t})
<1>1. /\ loop = "launch" /\ loop' = "launch" /\ todo' = todo /\ tasks[t].kind = "reest"
      /\ CommUp(k, ts)
  BY DEF Reestablish, Due
<1>2. TypeOK /\ TasksOK(tasks) /\ k \in Key
  BY TypesGive DEF IInv
<1>3. DOMAIN ts = DOMAIN tasks \ {t} /\ \A u \in DOMAIN ts : ts[u] = tasks[u]
  BY DEF Erase, Restrict
<1> HIDE DEF ts
<1>4. TasksOK(ts)
  BY <1>2, <1>3 DEF TasksOK
<1>5. Entries(ts, peers, quiet, probed)
  <2> SUFFICES ASSUME NEW c \in DOMAIN peers
               PROVE  LostOf(ts, peers[c].lost, c, quiet[c])
                      /\ PingOf(ts, peers[c].ping, c, quiet[c], probed[c])
    BY DEF Entries
  <2>1. LostOf(tasks, peers[c].lost, c, quiet[c]) /\ PingOf(tasks, peers[c].ping, c, quiet[c], probed[c])
    BY DEF IInv, EntryInv, Entries
  <2>2. \A u \in DOMAIN tasks : tasks[u].kind \in {"lost", "ping"} => u \in DOMAIN ts /\ ts[u] = tasks[u]
    BY <1>1, <1>3
  <2> QED
    BY <2>1, <2>2, EntryKeeps
<1>6. /\ TasksOK(tasks') /\ EntryInv'
      /\ DOMAIN peers' = DOMAIN peers \cup {k} /\ known' = known \cup {k}
      /\ \A c \in DOMAIN peers' : peers'[c] \in [ping : TaskId \cup {NoTask}, lost : TaskId]
      /\ quiet' \in [Key -> Nat] /\ probed' \in [Key -> 0 .. Probes]
      /\ \A u \in DOMAIN ts : u \in DOMAIN tasks' /\ tasks'[u] = ts[u]
  BY <1>1, <1>2, <1>4, <1>5, CommUpKeeps
<1>7. TypeOK'
  BY <1>1, <1>2, <1>6, TypesFollow DEF TypeOK
<1>8. NeverForgotten'
  <2> SUFFICES ASSUME NEW c \in known, c \notin DOMAIN peers, c # k
               PROVE  \E u \in DOMAIN tasks' : tasks'[u].kind = "reest" /\ tasks'[u].key = c
    BY <1>6 DEF NeverForgotten
  <2>1. PICK u \in DOMAIN tasks : tasks[u].kind = "reest" /\ tasks[u].key = c
    BY <1>1 DEF IInv, NeverForgotten, Stopped
  <2> QED
    BY <1>3, <1>6, <2>1
<1> QED
  BY <1>1, <1>6, <1>7, <1>8 DEF IInv, NothingDue

\* Launch has run what was due, and nothing else happens before the next second.
LEMMA EndLaunchKeeps ==
  ASSUME IInv, EndLaunch
  PROVE  IInv'
<1>1. /\ tasks' = tasks /\ peers' = peers /\ todo' = todo
      /\ known' = known /\ quiet' = quiet /\ probed' = probed
      /\ loop = "launch" /\ loop' = "receive"
      /\ \A t \in DOMAIN tasks : tasks[t].left > 0
  BY DEF EndLaunch, history
<1>2. TypeOK'
  BY <1>1 DEF IInv, TypeOK
<1>3. EntryInv'
  BY <1>1 DEF IInv, EntryInv, Entries, LostOf, PingOf
<1> QED
  BY <1>1, <1>2, <1>3 DEF IInv, NeverForgotten, NothingDue, Stopped

LEMMA QuitKeeps ==
  ASSUME IInv, NEW r \in Remote, ReceiveQuit(r)
  PROVE  IInv'
<1> DEFINE k == KeyOfSender(r)
<1>1. /\ loop = "receive" /\ loop' = "chat" /\ todo' = todo /\ known' = known \ {k}
      /\ quiet' = quiet /\ probed' = probed /\ Remove(k, tasks)
  BY DEF ReceiveQuit
<1>2. TypeOK /\ TasksOK(tasks) /\ k \in Key /\ NoTask \notin DOMAIN tasks
  BY TypesGive DEF IInv, KeyOfSender, Key
<1> HIDE DEF k
<1>3. /\ TasksOK(tasks') /\ EntryInv'
      /\ DOMAIN peers' = DOMAIN peers \ {k}
      /\ \A c \in DOMAIN peers' : peers'[c] = peers[c]
      /\ DOMAIN tasks' = DOMAIN tasks \ Owned(k)
      /\ \A u \in DOMAIN tasks' : tasks'[u] = tasks[u]
      /\ \A u \in Owned(k) \ {NoTask} : u \in DOMAIN tasks /\ tasks[u].kind \in {"ping", "lost"}
  BY <1>1, <1>2, RemoveKeeps DEF IInv
<1>4. TypeOK'
  <2>1. /\ DOMAIN peers' \subseteq Key
        /\ \A c \in DOMAIN peers' : peers'[c] \in [ping : TaskId \cup {NoTask}, lost : TaskId]
    BY <1>2, <1>3 DEF TypeOK
  <2> QED
    BY <1>1, <1>2, <1>3, <2>1, TypesFollow DEF TypeOK
<1>5. NeverForgotten'
  <2> SUFFICES ASSUME NEW c \in known, c # k, c \notin DOMAIN peers
               PROVE  \E u \in DOMAIN tasks' : tasks'[u].kind = "reest" /\ tasks'[u].key = c
    BY <1>1, <1>3 DEF NeverForgotten
  <2>1. PICK u \in DOMAIN tasks : tasks[u].kind = "reest" /\ tasks[u].key = c
    BY <1>1 DEF IInv, NeverForgotten, Stopped
  <2>2. u \notin Owned(k)
    BY <1>2, <1>3, <2>1
  <2> QED
    BY <1>3, <2>1, <2>2
<1> QED
  BY <1>1, <1>3, <1>4, <1>5 DEF IInv, NothingDue

\* A second passes for every task and every peer.
LEMMA TickKeeps ==
  ASSUME IInv, Tick
  PROVE  IInv'
<1>1. /\ loop = "receive" /\ loop' = "chat" /\ peers' = peers /\ todo' = todo
      /\ known' = known /\ probed' = probed
      /\ tasks' = [t \in DOMAIN tasks |-> [tasks[t] EXCEPT !.left = @ - 1]]
      /\ quiet' = [k \in Key |-> IF k \in DOMAIN peers THEN quiet[k] + 1 ELSE quiet[k]]
  BY DEF Tick
<1>2. /\ TypeOK /\ TasksOK(tasks) /\ quiet \in [Key -> Nat] /\ probed \in [Key -> Nat]
      /\ DOMAIN peers \subseteq Key
  BY TypesGive DEF IInv
<1>3. /\ DOMAIN tasks' = DOMAIN tasks
      /\ \A t \in DOMAIN tasks :
           /\ tasks'[t] \in Task /\ tasks[t].left \in Nat /\ tasks'[t].left = tasks[t].left - 1
           /\ tasks'[t].kind = tasks[t].kind /\ tasks'[t].key = tasks[t].key
           /\ tasks'[t].reps = tasks[t].reps
  <2> SUFFICES ASSUME NEW t \in DOMAIN tasks
               PROVE  /\ tasks'[t] \in Task /\ tasks[t].left \in Nat /\ tasks'[t].left = tasks[t].left - 1
                      /\ tasks'[t].kind = tasks[t].kind /\ tasks'[t].key = tasks[t].key
                      /\ tasks'[t].reps = tasks[t].reps
    BY <1>1
  <2>1. tasks[t] \in Task /\ tasks[t].left > 0
    BY <1>1, <1>2 DEF IInv, NothingDue, TasksOK
  <2>2. tasks[t].left - 1 \in Nat /\ tasks'[t] = [tasks[t] EXCEPT !.left = tasks[t].left - 1]
    BY <1>1, <2>1 DEF Task
  <2> QED
    BY <2>1, <2>2 DEF Task
<1>4. quiet' \in [Key -> Nat] /\ \A c \in DOMAIN peers : quiet'[c] = quiet[c] + 1 /\ quiet[c] \in Nat
  BY <1>1, <1>2
<1>5. TypeOK'
  <2>1. TasksOK(tasks')
    BY <1>2, <1>3 DEF TasksOK
  <2> QED
    BY <1>1, <1>2, <1>4, <2>1, TypesFollow DEF TypeOK
<1>6. EntryInv'
  <2> SUFFICES ASSUME NEW c \in DOMAIN peers
               PROVE  LostOf(tasks', peers[c].lost, c, quiet'[c])
                      /\ PingOf(tasks', peers[c].ping, c, quiet'[c], probed[c])
    <3>1. peers' = peers /\ probed' = probed
      BY <1>1
    <3> QED
      BY <3>1 DEF EntryInv, Entries
  <2>1. LostOf(tasks, peers[c].lost, c, quiet[c]) /\ PingOf(tasks, peers[c].ping, c, quiet[c], probed[c])
    BY DEF IInv, EntryInv, Entries
  <2>2. \A x \in Nat : quiet[c] + 1 + (x - 1) = quiet[c] + x
    BY <1>4
  <2>3. LostOf(tasks', peers[c].lost, c, quiet'[c])
    BY <1>3, <1>4, <2>1, <2>2 DEF LostOf
  <2>4. PingOf(tasks', peers[c].ping, c, quiet'[c], probed[c])
    <3>1. CASE peers[c].ping = NoTask /\ probed[c] >= ProbesDue
      BY <3>1 DEF PingOf
    <3>2. CASE peers[c].ping \in DOMAIN tasks
      <4> DEFINE p == peers[c].ping
      <4>1. /\ tasks[p].kind = "ping" /\ tasks[p].key = c
            /\ quiet[c] + tasks[p].left = (probed[c] + 1) * Period
            /\ tasks[p].reps >= 1 /\ probed[c] + tasks[p].reps <= Probes
            /\ ~RepsMayStay => probed[c] + tasks[p].reps = Probes
        BY <1>2, <2>1, <3>2, TypesGive DEF PingOf
      <4>2. quiet'[c] + tasks'[p].left = quiet[c] + tasks[p].left
        BY <1>3, <1>4, <2>2, <3>2
      <4> QED
        BY <1>3, <3>2, <4>1, <4>2 DEF PingOf
    <3> QED
      BY <2>1, <3>1, <3>2 DEF PingOf
  <2> QED
    BY <2>3, <2>4
<1>7. NeverForgotten'
  <2> SUFFICES ASSUME NEW c \in known, c \notin DOMAIN peers
               PROVE  \E u \in DOMAIN tasks' : tasks'[u].kind = "reest" /\ tasks'[u].key = c
    BY <1>1 DEF NeverForgotten
  <2>1. PICK u \in DOMAIN tasks : tasks[u].kind = "reest" /\ tasks[u].key = c
    BY <1>1 DEF IInv, NeverForgotten, Stopped
  <2> QED
    BY <1>3, <2>1
<1> QED
  BY <1>1, <1>5, <1>6, <1>7 DEF IInv, NothingDue

\* resetTasks: the peer starts over, the others do not notice.
LEMMA ResetKeeps ==
  ASSUME TypeOK, EntryInv, NEW k \in DOMAIN peers, ResetTasks(k)
  PROVE  /\ TasksOK(tasks') /\ EntryInv'
         /\ DOMAIN peers' = DOMAIN peers /\ known' = known
         /\ \A c \in DOMAIN peers' : peers'[c] \in [ping : TaskId \cup {NoTask}, lost : TaskId]
         /\ quiet' \in [Key -> Nat] /\ probed' \in [Key -> 0 .. Probes]
         /\ \A u \in DOMAIN tasks : u \in DOMAIN tasks' /\ tasks'[u].kind = tasks[u].kind
                                      /\ tasks'[u].key = tasks[u].key
<1> DEFINE l == peers[k].lost
           p == peers[k].ping
           afresh == [tasks EXCEPT ![l].left = LostDelay]
<1>1. /\ TasksOK(tasks) /\ k \in Key /\ NoTask \notin DOMAIN tasks
      /\ quiet \in [Key -> Nat] /\ probed \in [Key -> 0 .. Probes] /\ DOMAIN peers \subseteq Key
      /\ \A c \in DOMAIN peers : peers[c] \in [ping : TaskId \cup {NoTask}, lost : TaskId]
  BY TypesGive DEF TypeOK
<1>2. \A c \in DOMAIN peers :
        LostOf(tasks, peers[c].lost, c, quiet[c]) /\ PingOf(tasks, peers[c].ping, c, quiet[c], probed[c])
  BY DEF EntryInv, Entries
<1>3. l \in DOMAIN tasks /\ tasks[l].kind = "lost" /\ tasks[l].key = k
  BY <1>2 DEF LostOf
<1>4. /\ known' = known /\ quiet' \in [Key -> Nat] /\ probed' \in [Key -> 0 .. Probes]
      /\ quiet'[k] = 0 /\ probed'[k] = 0
      /\ \A c \in Key : c # k => quiet'[c] = quiet[c] /\ probed'[c] = probed[c]
  BY <1>1, Periods DEF ResetTasks, Heard
<1>5. /\ TasksOK(afresh) /\ DOMAIN afresh = DOMAIN tasks
      /\ afresh[l].kind = "lost" /\ afresh[l].key = k /\ afresh[l].left = LostDelay
      /\ \A u \in DOMAIN tasks : u # l => afresh[u] = tasks[u]
  <2>1. afresh[l] = [tasks[l] EXCEPT !.left = LostDelay] /\ tasks[l] \in Task
    BY <1>1, <1>3 DEF TasksOK
  <2>2. afresh[l] \in Task /\ afresh[l].kind = "lost" /\ afresh[l].key = k /\ afresh[l].left = LostDelay
    BY <1>3, <2>1, Periods DEF Task
  <2>3. DOMAIN afresh = DOMAIN tasks /\ \A u \in DOMAIN tasks : u # l => afresh[u] = tasks[u]
    OBVIOUS
  <2> QED
    BY <1>1, <2>2, <2>3 DEF TasksOK
<1>6. /\ p # NoTask => \E refill \in Refills :
           /\ tasks' = [afresh EXCEPT ![p].left = Period, ![p].reps = IF refill THEN Probes ELSE @]
           /\ peers' = peers
      /\ p = NoTask => \E q \in Fresh(afresh) :
           /\ tasks' = Emplace(afresh, q, PingTask(k))
           /\ peers' = [peers EXCEPT ![k].ping = q]
  BY DEF ResetTasks
<1> HIDE DEF afresh, l, p
\* The tasks of the peer are set anew; nothing else changes.
<1>7. \E q \in DOMAIN tasks' :
        /\ TasksOK(tasks')
        /\ q \in TaskId /\ q # l /\ tasks'[q].kind = "ping" /\ tasks'[q].key = k
        /\ tasks'[q].left = Period /\ tasks'[q].reps >= 1 /\ tasks'[q].reps <= Probes
        /\ ~RepsMayStay => tasks'[q].reps = Probes
        /\ tasks'[l] = afresh[l] /\ l \in DOMAIN tasks'
        /\ \A u \in DOMAIN tasks : u \in DOMAIN tasks' /\ (u # q => tasks'[u] = afresh[u])
        /\ q \in DOMAIN tasks => tasks[q].kind = "ping" /\ tasks[q].key = k
        /\ DOMAIN peers' = DOMAIN peers /\ peers'[k] = [peers[k] EXCEPT !.ping = q]
        /\ \A c \in DOMAIN peers : c # k => peers'[c] = peers[c]
  <2>1. CASE p # NoTask
    <3>1. /\ p \in DOMAIN tasks /\ tasks[p].kind = "ping" /\ tasks[p].key = k
          /\ tasks[p].reps >= 1 /\ probed[k] + tasks[p].reps <= Probes
      BY <1>2, <2>1 DEF PingOf, p
    <3>2. probed[k] \in Nat /\ tasks[p].reps \in Nat /\ Probes \in Nat /\ Probes >= 1 /\ Period \in Nat
      BY <1>1, <3>1, Periods, TypesGive
    <3>3. tasks[p].reps <= Probes /\ p # l /\ afresh[p] = tasks[p]
      BY <1>3, <1>5, <3>1, <3>2
    <3>4. PICK refill \in Refills :
            /\ tasks' = [afresh EXCEPT ![p].left = Period, ![p].reps = IF refill THEN Probes ELSE @]
            /\ peers' = peers
      BY <1>6, <2>1
    <3>5. PICK reps : reps = IF refill THEN Probes ELSE tasks[p].reps
      OBVIOUS
    <3>6. reps = Probes \/ (RepsMayStay /\ reps = tasks[p].reps)
      <4>1. refill \in BOOLEAN
        BY RefillsAssumption
      <4>2. CASE refill = TRUE
        BY <3>5, <4>2
      <4>3. CASE refill = FALSE
        BY <3>5, <4>3 DEF RepsMayStay
      <4> QED
        BY <4>1, <4>2, <4>3
    <3>7. reps \in Nat /\ reps >= 1 /\ reps <= Probes
      BY <3>1, <3>2, <3>3, <3>6
    <3>8. tasks' = [afresh EXCEPT ![p].left = Period, ![p].reps = reps]
      BY <3>3, <3>4, <3>5
    <3>9. PICK us : us = tasks'
      OBVIOUS
    <3>10. /\ p \in DOMAIN afresh /\ DOMAIN us = DOMAIN afresh
           /\ us[p] = [afresh[p] EXCEPT !.left = Period, !.reps = reps]
           /\ \A u \in DOMAIN afresh : u # p => us[u] = afresh[u]
      BY <1>5, <3>1, <3>8, <3>9
    <3>11. /\ TasksOK(us)
           /\ us[p].kind = afresh[p].kind /\ us[p].key = afresh[p].key
           /\ us[p].left = Period /\ us[p].reps = reps
      <4>1. afresh[p] \in Task
        BY <1>5, <3>10 DEF TasksOK
      <4>2. /\ us[p] \in Task
            /\ us[p].kind = afresh[p].kind /\ us[p].key = afresh[p].key
            /\ us[p].left = Period /\ us[p].reps = reps
        BY <3>2, <3>7, <3>10, <4>1 DEF Task
      <4>3. TasksOK(us)
        BY <1>5, <3>10, <4>2 DEF TasksOK
      <4> QED
        BY <4>2, <4>3
    <3>12. p \in TaskId /\ peers[k] = [peers[k] EXCEPT !.ping = p]
      BY <1>1, <3>1 DEF p, TasksOK
    <3>13. p \in DOMAIN tasks'
      BY <3>9, <3>10
    <3> WITNESS p \in DOMAIN tasks'
    <3> QED
      BY <1>3, <1>5, <3>1, <3>3, <3>4, <3>6, <3>7, <3>9, <3>10, <3>11, <3>12, <3>13
  <2>2. CASE p = NoTask
    <3>1. PICK q \in Fresh(afresh) :
            tasks' = Emplace(afresh, q, PingTask(k)) /\ peers' = [peers EXCEPT ![k].ping = q]
      BY <1>6, <2>2
    <3>2. PICK us : us = tasks'
      OBVIOUS
    <3>3. PICK x \in Task : x = PingTask(k)
      BY <1>1, TaskTypes
    <3>4. us = Emplace(afresh, q, x)
      BY <3>1, <3>2, <3>3
    <3>5. /\ TasksOK(us) /\ q \in TaskId /\ q \notin DOMAIN afresh
          /\ DOMAIN us = DOMAIN afresh \cup {q} /\ us[q] = x
          /\ \A u \in DOMAIN afresh : us[u] = afresh[u]
      BY <1>5, <3>4, NewTask
    <3>6. x.kind = "ping" /\ x.key = k /\ x.left = Period /\ x.reps = Probes
      BY <3>3 DEF PingTask
    <3>7. Probes \in Nat /\ Probes >= 1
      BY Periods
    <3>8. q \in DOMAIN tasks'
      BY <3>2, <3>5
    <3> WITNESS q \in DOMAIN tasks'
    <3> QED
      BY <1>3, <1>5, <3>1, <3>2, <3>5, <3>6, <3>7, <3>8
  <2> QED
    BY <2>1, <2>2
<1>8. PICK q \in DOMAIN tasks' :
        /\ TasksOK(tasks')
        /\ q \in TaskId /\ q # l /\ tasks'[q].kind = "ping" /\ tasks'[q].key = k
        /\ tasks'[q].left = Period /\ tasks'[q].reps >= 1 /\ tasks'[q].reps <= Probes
        /\ ~RepsMayStay => tasks'[q].reps = Probes
        /\ tasks'[l] = afresh[l] /\ l \in DOMAIN tasks'
        /\ \A u \in DOMAIN tasks : u \in DOMAIN tasks' /\ (u # q => tasks'[u] = afresh[u])
        /\ q \in DOMAIN tasks => tasks[q].kind = "ping" /\ tasks[q].key = k
        /\ DOMAIN peers' = DOMAIN peers /\ peers'[k] = [peers[k] EXCEPT !.ping = q]
        /\ \A c \in DOMAIN peers : c # k => peers'[c] = peers[c]
  BY <1>7
<1>9. peers'[k].ping = q /\ peers'[k].lost = l
      /\ peers'[k] \in [ping : TaskId \cup {NoTask}, lost : TaskId]
  BY <1>1, <1>8 DEF l
<1>10. \A c \in DOMAIN peers' : peers'[c] \in [ping : TaskId \cup {NoTask}, lost : TaskId]
  BY <1>1, <1>8, <1>9
<1>11. \A u \in DOMAIN tasks : u \in DOMAIN tasks' /\ tasks'[u].kind = tasks[u].kind
                                 /\ tasks'[u].key = tasks[u].key
  <2> TAKE u \in DOMAIN tasks
  <2>1. CASE u = q
    BY <1>8, <2>1
  <2>2. CASE u = l
    BY <1>3, <1>5, <1>8, <2>2
  <2>3. CASE u # q /\ u # l
    BY <1>5, <1>8, <2>3
  <2> QED
    BY <2>1, <2>2, <2>3
<1>12. EntryInv'
  <2> SUFFICES ASSUME NEW c \in DOMAIN peers
               PROVE  LostOf(tasks', peers'[c].lost, c, quiet'[c])
                      /\ PingOf(tasks', peers'[c].ping, c, quiet'[c], probed'[c])
    BY <1>8 DEF EntryInv, Entries, LostOf, PingOf
  <2>1. CASE c = k
    <3>1. LostOf(tasks', l, k, 0)
      BY <1>5, <1>8, Periods DEF LostOf
    <3>2. 0 + Period = (0 + 1) * Period
      BY Periods
    <3>3. tasks'[q].reps \in Nat
      BY <1>8 DEF TasksOK, Task
    <3>4. /\ 0 + tasks'[q].reps <= Probes
          /\ ~RepsMayStay => 0 + tasks'[q].reps = Probes
      BY <1>8, <3>3
    <3>5. PingOf(tasks', q, k, 0, 0)
      BY <1>8, <3>2, <3>4 DEF PingOf
    <3> QED
      BY <1>4, <1>9, <2>1, <3>1, <3>5
  <2>2. CASE c # k
    <3>1. c \in Key /\ peers'[c] = peers[c] /\ quiet'[c] = quiet[c] /\ probed'[c] = probed[c]
      BY <1>1, <1>4, <1>8, <2>2
    <3>2. ASSUME NEW u \in DOMAIN tasks, tasks[u].key = c
          PROVE  u \in DOMAIN tasks' /\ tasks'[u] = tasks[u]
      BY <1>3, <1>5, <1>8, <2>2, <3>2
    <3>3. LostOf(tasks, peers[c].lost, c, quiet[c]) /\ PingOf(tasks, peers[c].ping, c, quiet[c], probed[c])
      BY <1>2
    <3> QED
      BY <3>1, <3>2, <3>3, EntryKeeps
  <2> QED
    BY <2>1, <2>2
<1> QED
  BY <1>4, <1>8, <1>10, <1>11, <1>12

LEMMA MessageKeeps ==
  ASSUME IInv, NEW r \in Remote, ReceiveMessage(r)
  PROVE  IInv'
<1> DEFINE k == KeyOfSender(r)
<1>1. loop = "receive" /\ todo' = todo /\ TypeOK /\ TasksOK(tasks) /\ k \in Key
  BY TypesGive DEF ReceiveMessage, IInv, KeyOfSender, Key
<1>2. CASE Stop("threw")
  BY <1>1, <1>2, StopKeeps DEF Stopped
<1>3. CASE loop' = "chat" /\ IF k \in DOMAIN peers THEN ResetTasks(k) ELSE CommUp(k, tasks)
  <2> HIDE DEF k
  <2>1. /\ TasksOK(tasks') /\ EntryInv'
        /\ DOMAIN peers \subseteq DOMAIN peers' /\ DOMAIN peers' \subseteq Key
        /\ known' \subseteq known \cup (DOMAIN peers' \cap Key)
        /\ \A c \in DOMAIN peers' : peers'[c] \in [ping : TaskId \cup {NoTask}, lost : TaskId]
        /\ quiet' \in [Key -> Nat] /\ probed' \in [Key -> 0 .. Probes]
        /\ \A u \in DOMAIN tasks : u \in DOMAIN tasks' /\ tasks'[u].kind = tasks[u].kind
                                     /\ tasks'[u].key = tasks[u].key
    <3>1. DOMAIN peers \subseteq Key
      BY <1>1 DEF TypeOK
    <3>2. CASE k \in DOMAIN peers
      <4>1. ResetTasks(k)
        BY <1>3, <3>2
      <4> QED
        BY <1>1, <3>1, <3>2, <4>1, ResetKeeps DEF IInv
    <3>3. CASE k \notin DOMAIN peers
      <4>1. CommUp(k, tasks) /\ Entries(tasks, peers, quiet, probed)
        BY <1>3, <3>3 DEF IInv, EntryInv
      <4> QED
        BY <1>1, <3>1, <4>1, CommUpKeeps
    <3> QED
      BY <3>2, <3>3
  <2>2. known' \subseteq Key
    BY <1>1, <2>1 DEF TypeOK
  <2>3. TypeOK'
    BY <1>1, <1>3, <2>1, <2>2, TypesFollow DEF TypeOK
  <2>4. NeverForgotten'
    <3> SUFFICES ASSUME NEW c \in known', c \notin DOMAIN peers'
                 PROVE  \E u \in DOMAIN tasks' : tasks'[u].kind = "reest" /\ tasks'[u].key = c
      BY DEF NeverForgotten
    <3>1. c \in known /\ c \notin DOMAIN peers
      BY <2>1
    <3>2. PICK u \in DOMAIN tasks : tasks[u].kind = "reest" /\ tasks[u].key = c
      BY <1>1, <3>1 DEF IInv, NeverForgotten, Stopped
    <3> QED
      BY <2>1, <3>2
  <2> QED
    BY <1>3, <2>1, <2>3, <2>4 DEF IInv, NothingDue
<1> QED
  BY <1>2, <1>3 DEF ReceiveMessage

LEMMA ChatKeeps ==
  ASSUME IInv, Chat
  PROVE  IInv'
<1>1. todo' = todo /\ loop = "chat"
  BY DEF Chat
<1>2. ASSUME NEW label \in Stopped, Stop(label)
      PROVE  IInv'
  BY <1>1, <1>2, StopKeeps
<1>3. CASE loop' = "launch" /\ UNCHANGED <<tasks, peers, history>>
  <2>1. /\ tasks' = tasks /\ peers' = peers
        /\ known' = known /\ quiet' = quiet /\ probed' = probed
    BY <1>3 DEF history
  <2>2. TypeOK'
    BY <1>1, <1>3, <2>1 DEF IInv, TypeOK
  <2>3. EntryInv'
    BY <2>1 DEF IInv, EntryInv, Entries, LostOf, PingOf
  <2> QED
    BY <1>1, <1>3, <2>1, <2>2, <2>3 DEF IInv, NeverForgotten, NothingDue, Stopped
<1> QED
  BY <1>2, <1>3 DEF Chat, Stopped

-----------------------------------------------------------------------------
(* The theorems. *)

LEMMA InitInv == Init => IInv
<1> SUFFICES ASSUME Init PROVE IInv
  OBVIOUS
<1>1. DOMAIN tasks = {} /\ DOMAIN peers = {}
  BY DEF Init, EmptyMap
<1>2. TypeOK
  BY <1>1, Periods DEF Init, TypeOK
<1> QED
  BY <1>1, <1>2 DEF Init, IInv, EntryInv, Entries, NeverForgotten, NothingDue

LEMMA NextInv == IInv /\ [Next]_vars => IInv'
<1> SUFFICES ASSUME IInv, [Next]_vars PROVE IInv'
  OBVIOUS
<1>1. CASE vars' = vars
  <2>1. /\ tasks' = tasks /\ peers' = peers /\ todo' = todo /\ loop' = loop
        /\ known' = known /\ quiet' = quiet /\ probed' = probed
    BY <1>1 DEF vars
  <2>2. TypeOK'
    BY <2>1 DEF IInv, TypeOK
  <2>3. EntryInv'
    BY <2>1 DEF IInv, EntryInv, Entries, LostOf, PingOf
  <2> QED
    BY <2>1, <2>2, <2>3 DEF IInv, NeverForgotten, NothingDue
<1> QED
  BY <1>1, ConnectKeeps, PingKeeps, CommLostKeeps, ReestablishKeeps, EndLaunchKeeps,
     MessageKeeps, QuitKeeps, TickKeeps, ChatKeeps DEF Next, LaunchStep, ReceiveStep

\* Every reachable state is well typed; a task whose repetitions or seconds run
\* out does not go below zero.
THEOREM UdpTypeCorrect == Spec => []TypeOK
<1>1. IInv => TypeOK
  BY DEF IInv
<1> QED
  BY <1>1, InitInv, NextInv, PTL DEF Spec

\* An entry points to tasks that exist and are its own, whatever expired or was
\* scheduled twice (the ScheduledTaskPtrs of SocketUdp::Peer).
THEOREM UdpEntriesOwn == Spec => []EntriesOwnTheirTasks
<1>1. ASSUME IInv PROVE EntriesOwnTheirTasks
  <2>1. \A k \in DOMAIN peers :
          LostOf(tasks, peers[k].lost, k, quiet[k]) /\ PingOf(tasks, peers[k].ping, k, quiet[k], probed[k])
    BY <1>1 DEF IInv, EntryInv, Entries
  <2> QED
    BY <2>1 DEF EntriesOwnTheirTasks, LostOf, PingOf
<1> QED
  BY <1>1, InitInv, NextInv, PTL DEF Spec

\* A peer that did not say goodbye is in the table or about to be tried again
\* (handleCommLost and handleGracefulShutdown, SocketUdp.cpp).
THEOREM UdpNeverForgets == Spec => []NeverForgotten
<1>1. IInv => NeverForgotten
  BY DEF IInv
<1> QED
  BY <1>1, InitInv, NextInv, PTL DEF Spec

\* The comm lost task counts the seconds since its peer was heard, and a peer
\* silent for all of them is gone when the task next receives.
THEOREM UdpSilentDropped == Spec => []SilentPeersDropped
<1>1. ASSUME IInv PROVE SilentPeersDropped
  <2> SUFFICES ASSUME NEW k \in DOMAIN peers
               PROVE  /\ quiet[k] + tasks[peers[k].lost].left = LostDelay
                      /\ loop = "receive" => quiet[k] < LostDelay
    BY DEF SilentPeersDropped
  <2>1. LostOf(tasks, peers[k].lost, k, quiet[k])
    BY <1>1 DEF IInv, EntryInv, Entries
  <2>2. peers[k].lost \in DOMAIN tasks /\ quiet[k] + tasks[peers[k].lost].left = LostDelay
    BY <2>1 DEF LostOf
  <2>3. quiet[k] \in Nat /\ tasks[peers[k].lost].left \in Nat
    BY <1>1, <2>2, TypesGive DEF IInv
  <2>4. loop = "receive" => tasks[peers[k].lost].left > 0
    BY <1>1, <2>2 DEF IInv, NothingDue
  <2> QED
    BY <2>2, <2>3, <2>4
<1> QED
  BY <1>1, InitInv, NextInv, PTL DEF Spec

\* When the comm lost task that an entry points to is due, every keep_alive probe
\* has been sent since the peer was last heard (one at least if reset() does not
\* restore repetitions), whatever the period.  Comm lost tasks that no entry points
\* to, which a second handleCommUp for a peer leaves behind, are not covered: they
\* may drop a peer that answers.
THEOREM UdpLostTaskWaits == Spec => []LostTaskWaitsForProbes
<1>1. ASSUME IInv PROVE LostTaskWaitsForProbes
  <2> SUFFICES ASSUME NEW k \in DOMAIN peers, tasks[peers[k].lost].left = 0
               PROVE  probed[k] >= ProbesDue
    BY DEF LostTaskWaitsForProbes, ProbesDue, RepsMayStay
  <2>0. quiet[k] = LostDelay
    <3>1. LostOf(tasks, peers[k].lost, k, quiet[k])
      BY <1>1 DEF IInv, EntryInv, Entries
    <3>2. quiet[k] \in Nat /\ quiet[k] + tasks[peers[k].lost].left = LostDelay
      BY <1>1, <3>1, TypesGive DEF IInv, LostOf
    <3> QED
      BY <3>2
  <2>1. PingOf(tasks, peers[k].ping, k, quiet[k], probed[k])
    BY <1>1 DEF IInv, EntryInv, Entries
  <2>2. CASE ~(probed[k] >= ProbesDue)
    <3>1. /\ peers[k].ping \in DOMAIN tasks
          /\ LostDelay + tasks[peers[k].ping].left = (probed[k] + 1) * Period
      BY <2>0, <2>1, <2>2 DEF PingOf
    <3>2. tasks[peers[k].ping].left \in Nat /\ probed[k] \in Nat
      BY <1>1, <3>1, TypesGive DEF IInv
    <3>3. probed[k] >= Probes
      BY <3>1, <3>2, ProbesTakeTheirPeriods
    <3>4. Probes \in Nat /\ Probes >= 1
      BY Periods
    <3> QED
      BY <3>2, <3>3, <3>4 DEF ProbesDue
  <2> QED
    BY <2>2
<1> QED
  BY <1>1, InitInv, NextInv, PTL DEF Spec
==============================================================================
