------------------------------- MODULE UdpPeers -------------------------------
(***************************************************************************)
(* One network task with a UDP (or UDP-Lite) socket: the peers table and   *)
(* the keep-alive of SocketUdp (SocketUdp.cpp), the delayed                *)
(* reestablishment of Socket (Socket.cpp) and the loop of networkTask      *)
(* (NetworkTask.cpp).  Everything runs on the task's own thread: launch()  *)
(* runs the scheduled tasks that are due, and the only handler of a round  *)
(* is joined before the loop goes on.                                      *)
(*                                                                         *)
(* The table is keyed by IPSocket.  An address that comes from the kernel  *)
(* is padded to INET_ADDRSTRLEN characters (IPSocket.cpp), a configured    *)
(* one is not, and the comparison sees the padding: one endpoint has two   *)
(* keys.                                                                   *)
(*                                                                         *)
(* The task scheduler and the network are outside the repository; they are *)
(* modelled from how the code uses them.  A step of time is a second.      *)
(***************************************************************************)
EXTENDS Naturals, FiniteSets, Functions

CONSTANTS
  Remote,      \* the remote endpoints
  Configured,  \* config.remotes, connected to at the start
  Period,      \* keep_alive_period
  Probes,      \* keep_alive_probes
  ReestDelay,  \* the delay of scheduleReestablishment
  Refills,     \* whether reset() of a scheduled task restores its repetitions
  TaskId,      \* identities of scheduled tasks; bound: tasks at one time
  NoTask       \* an expired ScheduledTaskPtr

ASSUME ConfiguredAssumption == Configured \subseteq Remote
ASSUME TimingAssumption ==
  Period \in Nat \ {0} /\ Probes \in Nat \ {0} /\ ReestDelay \in Nat \ {0}
ASSUME RefillsAssumption == Refills \subseteq BOOLEAN /\ Refills # {}
ASSUME TaskIdAssumption == TaskId \subseteq Nat /\ NoTask \notin TaskId

VARIABLES
  tasks,     \* the scheduler's tasks: kind, key, time left, repetitions left
  peers,     \* the peers table: the ping and the comm lost task of each key
  todo,      \* the remotes the first connect() has still to go through
  loop,      \* where the network task stands
  known,     \* history: keys that became peers and have not said goodbye since
  quiet,     \* history: seconds since each peer was new or last heard
  probed     \* history: pings of its own task sent to each peer in those seconds

history == <<known, quiet, probed>>
vars == <<tasks, peers, todo, loop, known, quiet, probed>>

\* What IPSocket compares: the endpoint and whether its address is padded.
Key == Remote \X {"configured", "padded"}
ConfiguredKey(r) == <<r, "configured">>
KeyOfSender(r) == <<r, "padded">>

LostDelay == Period * (Probes + 1)
Stopped == {"ended", "threw", "aborted"}
EmptyMap == [x \in {} |-> x]

\* emplace() of the standard maps: an existing key keeps its value.
Emplace(map, key, value) ==
  [k \in DOMAIN map \cup {key} |-> IF k \in DOMAIN map THEN map[k] ELSE value]

Erase(map, keys) == Restrict(map, DOMAIN map \ keys)

Task == [kind : {"ping", "lost", "reest"}, key : Key, left : Nat, reps : Nat]
PingTask(k) == [kind |-> "ping", key |-> k, left |-> Period, reps |-> Probes]
LostTask(k) == [kind |-> "lost", key |-> k, left |-> LostDelay, reps |-> 1]
ReestTask(k) == [kind |-> "reest", key |-> k, left |-> ReestDelay, reps |-> 1]

\* The identity of the next task scheduled: the least one that is free.
Fresh(ts) == {t \in TaskId \ DOMAIN ts : \A u \in TaskId \ DOMAIN ts : t <= u}

Init ==
  /\ tasks = EmptyMap
  /\ peers = EmptyMap
  /\ todo = Configured
  /\ loop = "connect"
  /\ known = {}
  /\ quiet = [k \in Key |-> 0]
  /\ probed = [k \in Key |-> 0]

-----------------------------------------------------------------------------
(* What the handlers share. *)

Heard(k) ==
  /\ quiet' = [quiet EXCEPT ![k] = 0]
  /\ probed' = [probed EXCEPT ![k] = 0]

\* The entry of a new peer has no comm lost task yet.
CommUp_NoCommLost(k, ts) ==
  /\ \E p \in Fresh(ts) :
       /\ tasks' = Emplace(ts, p, PingTask(k))
       /\ peers' = Emplace(peers, k, [ping |-> p, lost |-> NoTask])
  /\ known' = known \cup {k}
  /\ IF k \in DOMAIN peers THEN UNCHANGED <<quiet, probed>> ELSE Heard(k)

\* The two tasks are stored in each other's place.
CommUp_Swapped(k, ts) ==
  /\ \E p \in Fresh(ts) : \E l \in Fresh(Emplace(ts, p, PingTask(k))) :
       /\ tasks' = Emplace(Emplace(ts, p, PingTask(k)), l, LostTask(k))
       /\ peers' = Emplace(peers, k, [ping |-> l, lost |-> p])
  /\ known' = known \cup {k}
  /\ IF k \in DOMAIN peers THEN UNCHANGED <<quiet, probed>> ELSE Heard(k)

\* handleCommUp, with ts the tasks that exist when it is called.  Both tasks
\* are scheduled before emplace() looks at the table: for a key that is there
\* already they run, but no entry points to them.
CommUp(k, ts) ==
  /\ \E p \in Fresh(ts) : \E l \in Fresh(Emplace(ts, p, PingTask(k))) :
       /\ tasks' = Emplace(Emplace(ts, p, PingTask(k)), l, LostTask(k))
       /\ peers' = Emplace(peers, k, [ping |-> p, lost |-> l])
  /\ known' = known \cup {k}
  /\ IF k \in DOMAIN peers THEN UNCHANGED <<quiet, probed>> ELSE Heard(k)

Owned(k) == IF k \in DOMAIN peers THEN {peers[k].ping, peers[k].lost} ELSE {}

\* remove: the entry goes and the tasks it points to are disabled.
Remove(k, ts) ==
  /\ peers' = Erase(peers, {k})
  /\ tasks' = Erase(ts, Owned(k))

\* The socket is destroyed: the destructor says goodbye to every peer, and an
\* exception that leaves it terminates the process.
Stop(label) ==
  /\ loop' = label \/ (DOMAIN peers # {} /\ loop' = "aborted")
  /\ peers' = EmptyMap
  /\ tasks' = EmptyMap
  /\ UNCHANGED history

-----------------------------------------------------------------------------
(* The loop. *)

\* socket->connect(config.remotes).
ConnectNext ==
  /\ loop = "connect"
  /\ \/ \E r \in todo :
          /\ CommUp(ConfiguredKey(r), tasks)
          /\ todo' = todo \ {r}
          /\ UNCHANGED loop
     \/ /\ todo = {}
        /\ loop' = "launch"
        /\ UNCHANGED <<tasks, peers, todo, history>>

Due(t, kind) == loop = "launch" /\ tasks[t].kind = kind /\ tasks[t].left = 0

\* A ping that is due: it is sent, or the failed send ends the task.  After the
\* last repetition the scheduler drops it and the entry's pointer expires.
Ping(t) ==
  LET k == tasks[t].key IN
  /\ Due(t, "ping")
  /\ \/ /\ IF tasks[t].reps > 1
           THEN /\ tasks' = [tasks EXCEPT ![t].left = Period, ![t].reps = @ - 1]
                /\ UNCHANGED peers
           ELSE /\ tasks' = Erase(tasks, {t})
                /\ peers' = [p \in DOMAIN peers |->
                     IF peers[p].ping = t THEN [peers[p] EXCEPT !.ping = NoTask] ELSE peers[p]]
        /\ probed' = [probed EXCEPT ![k] =
             IF k \in DOMAIN peers /\ peers[k].ping = t /\ @ < Probes THEN @ + 1 ELSE @]
        /\ UNCHANGED <<loop, known, quiet>>
     \/ Stop("threw")
  /\ UNCHANGED todo

\* The lost peer is only removed.
CommLost_NoRetry(t) ==
  /\ Due(t, "lost")
  /\ Remove(tasks[t].key, Erase(tasks, {t}))
  /\ UNCHANGED <<todo, loop, history>>

\* handleCommLost: schedule the reestablishment, then remove the peer.
CommLost(t) ==
  LET k == tasks[t].key IN
  /\ Due(t, "lost")
  /\ \E n \in Fresh(tasks) : Remove(k, Erase(Emplace(tasks, n, ReestTask(k)), {t}))
  /\ UNCHANGED <<todo, loop, history>>

\* scheduleReestablishment's task: connect({remote}).
Reestablish(t) ==
  /\ Due(t, "reest")
  /\ CommUp(tasks[t].key, Erase(tasks, {t}))
  /\ UNCHANGED <<todo, loop>>

EndLaunch ==
  /\ loop = "launch"
  /\ \A t \in DOMAIN tasks : tasks[t].left > 0
  /\ loop' = "receive"
  /\ UNCHANGED <<tasks, peers, todo, history>>

\* Only the ping starts again; the comm lost task runs on.
ResetTasks_PingOnly(k) ==
  /\ IF peers[k].ping # NoTask
     THEN /\ \E refill \in Refills :
               tasks' = [tasks EXCEPT ![peers[k].ping].left = Period,
                                      ![peers[k].ping].reps = IF refill THEN Probes ELSE @]
          /\ UNCHANGED peers
     ELSE \E p \in Fresh(tasks) :
            /\ tasks' = Emplace(tasks, p, PingTask(k))
            /\ peers' = [peers EXCEPT ![k].ping = p]
  /\ Heard(k)
  /\ UNCHANGED known

\* The expired ping is not scheduled anew.
ResetTasks_NoNewPing(k) ==
  LET afresh == [tasks EXCEPT ![peers[k].lost].left = LostDelay] IN
  /\ IF peers[k].ping # NoTask
     THEN \E refill \in Refills :
            tasks' = [afresh EXCEPT ![peers[k].ping].left = Period,
                                    ![peers[k].ping].reps = IF refill THEN Probes ELSE @]
     ELSE tasks' = afresh
  /\ Heard(k)
  /\ UNCHANGED <<peers, known>>

\* resetTasks: the ping starts again, or anew when it has expired, and so does
\* the comm lost task.
ResetTasks(k) ==
  LET afresh == [tasks EXCEPT ![peers[k].lost].left = LostDelay] IN
  /\ IF peers[k].ping # NoTask
     THEN /\ \E refill \in Refills :
               tasks' = [afresh EXCEPT ![peers[k].ping].left = Period,
                                       ![peers[k].ping].reps = IF refill THEN Probes ELSE @]
          /\ UNCHANGED peers
     ELSE \E p \in Fresh(afresh) :
            /\ tasks' = Emplace(afresh, p, PingTask(k))
            /\ peers' = [peers EXCEPT ![k].ping = p]
  /\ Heard(k)
  /\ UNCHANGED known

\* handleMessage for anything but quit_msg, from the sender r; a keep-alive is
\* acknowledged first, which may throw.
ReceiveMessage(r) ==
  LET k == KeyOfSender(r) IN
  /\ loop = "receive"
  /\ \/ /\ IF k \in DOMAIN peers THEN ResetTasks(k) ELSE CommUp(k, tasks)
        /\ loop' = "chat"
     \/ Stop("threw")
  /\ UNCHANGED todo

\* handleMessage for quit_msg: handleGracefulShutdown.
ReceiveQuit(r) ==
  LET k == KeyOfSender(r) IN
  /\ loop = "receive"
  /\ Remove(k, tasks)
  /\ known' = known \ {k}
  /\ loop' = "chat"
  /\ UNCHANGED <<todo, quiet, probed>>

\* select() times out: a second passes with nothing to read.
Tick ==
  /\ loop = "receive"
  /\ tasks' = [t \in DOMAIN tasks |-> [tasks[t] EXCEPT !.left = @ - 1]]
  /\ quiet' = [k \in Key |-> IF k \in DOMAIN peers THEN quiet[k] + 1 ELSE quiet[k]]
  /\ loop' = "chat"
  /\ UNCHANGED <<peers, todo, known, probed>>

\* chatOrQuit and the loop condition: no message, one that goes to every peer,
\* one that cannot be sent, or the end.
Chat ==
  /\ loop = "chat"
  /\ \/ loop' = "launch" /\ UNCHANGED <<tasks, peers, history>>
     \/ DOMAIN peers # {} /\ Stop("threw")
     \/ Stop("ended")
  /\ UNCHANGED todo

LaunchStep == \E t \in DOMAIN tasks : Ping(t) \/ CommLost(t) \/ Reestablish(t)
ReceiveStep == \E r \in Remote : ReceiveMessage(r) \/ ReceiveQuit(r)

Next ==
  \/ ConnectNext \/ LaunchStep \/ EndLaunch
  \/ ReceiveStep \/ Tick \/ Chat

Spec == Init /\ [][Next]_vars

-----------------------------------------------------------------------------
TypeOK ==
  /\ DOMAIN tasks \subseteq TaskId
  /\ \A t \in DOMAIN tasks : tasks[t] \in Task
  /\ DOMAIN peers \subseteq Key
  /\ \A k \in DOMAIN peers : peers[k] \in [ping : TaskId \cup {NoTask}, lost : TaskId]
  /\ todo \subseteq Configured
  /\ loop \in {"connect", "launch", "receive", "chat"} \cup Stopped
  /\ known \subseteq Key
  /\ quiet \in [Key -> Nat] /\ probed \in [Key -> 0..Probes]

\* An entry points to live tasks of its own, so that resetting and disabling
\* them never reaches another peer's.
EntriesOwnTheirTasks ==
  \A k \in DOMAIN peers :
    LET e == peers[k] IN
    /\ e.lost \in DOMAIN tasks /\ tasks[e.lost].kind = "lost" /\ tasks[e.lost].key = k
    /\ e.ping # NoTask =>
         e.ping \in DOMAIN tasks /\ tasks[e.ping].kind = "ping" /\ tasks[e.ping].key = k

\* A peer is never forgotten: unless it said goodbye it is in the table or a
\* reestablishment is scheduled.
NeverForgotten ==
  loop \notin Stopped =>
    \A k \in known :
      k \in DOMAIN peers \/ \E t \in DOMAIN tasks : tasks[t].kind = "reest" /\ tasks[t].key = k

\* A peer that has been silent for keep_alive_period * (keep_alive_probes + 1)
\* is not in the table when the task next receives: the comm lost task of its
\* entry counts the seconds since it was heard.  (Not the other way round: a comm
\* lost task that no entry points to may drop a peer that was heard just now.)
SilentPeersDropped ==
  \A k \in DOMAIN peers :
    /\ quiet[k] + tasks[peers[k].lost].left = LostDelay
    /\ loop = "receive" => quiet[k] < LostDelay

\* The comm lost task of an entry is due only after every probe was sent since the
\* peer was last heard; one probe at least when reset() does not restore
\* repetitions.  It says nothing of comm lost tasks that no entry points to.
LostTaskWaitsForProbes ==
  \A k \in DOMAIN peers :
    tasks[peers[k].lost].left = 0 => probed[k] >= IF FALSE \in Refills THEN 1 ELSE Probes

\* A peer that is lost is tried again and again, until it says goodbye or the
\* task stops.
LostPeersTriedAgain ==
  \A k \in Key :
    (k \in known \ DOMAIN peers) ~> (k \in DOMAIN peers \/ k \notin known \/ loop \in Stopped)

\* "New peer" (SocketUdp.cpp:78): the table has one entry for an endpoint.
OneEntryPerEndpoint ==
  \A r \in Remote : ~ {ConfiguredKey(r), KeyOfSender(r)} \subseteq DOMAIN peers
=============================================================================
