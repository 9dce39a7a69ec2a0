# A TLA+ development of sctp_sandbox

The program is a chat over sockets: it reads lines from stdin and sends them to its peers over SCTP, TCP, UDP, UDP-Lite,
DCCP, unix datagram sockets, or a pair of processes it forks. This directory holds TLA+ modules that model its tasks,
its peers tables and its failure handling, the TLC configurations that check them, and proofs for TLAPS. Paths are
relative to the repository (`src/src/...` here is `src/...` there).

Contents: [the program](#the-program), [modules](#modules), [runs](#runs), [fairness](#fairness),
[outside code](#what-is-taken-from-outside-the-repository), [findings](#findings), [proofs](#proofs),
[not modelled](#not-modelled), [plan](#plan).

## The program

| part | state | operations | interacts with |
|---|---|---|---|
| main (`main.cpp`) | the list of tasks | starts the io task and one or three network tasks, joins them | all tasks |
| io task (`IoTask.cpp`) | its line `msg` | `getline`, `chat(msg)`, ends after `q` | the slot |
| slot (`Chat.cpp`) | a static message under a mutex | `chat`: exchange | io task, network tasks |
| network task (`NetworkTask.cpp`) | `send_msg`, lifetime, its `TaskScheduler` and its socket | loop: `ts.launch()`, `receive()`, `chatOrQuit` | slot, scheduler, socket |
| `Socket` (`Socket.cpp`) | main descriptor, `FDSet`, buffer | `receive` starts one handler thread per readable descriptor and joins them; `connect`, `accept`, `scheduleReestablishment` | kernel, scheduler |
| `SocketSctp` | peers table (association id, descriptor, buffer) under `peers_mtx` | COMM_UP peels the association off; loss or failure schedules a reestablishment; shutdown and loss remove the entry | kernel notifications, handlers of the same round |
| `SocketTcp`, `SocketDccp` | peers table (descriptor, remote, `should_reestablish`, buffer) under `peers_mtx` | accept, receive, graceful shutdown, loss, remove | as above |
| `SocketUdp` | peers table keyed by `IPSocket`, with a ping and a comm lost task per peer | keep-alive, reset of both tasks, loss, goodbye | scheduler |
| `SocketUnix` | set of peer paths | goodbye removes, any other message adds; destructor says goodbye | other processes |
| `SocketUnixForked` | fork, socket pair, pipe, named pipe, two message queues, two shared memories, two semaphores | sends on all of them, polls all of them | parent and child process |
| `FileDescriptor` | a descriptor and `should_close` | move, close | tables of the sockets |
| `FDSet` | fd_set, `fd_max` | reset, set, select with a timeout of 100 ms | kernel |
| `IPSocket`, `SctpGetAddrs` | address, port, family | conversions from and to sockaddr, packed lists | keys of `SocketUdp`, log |
| `NetworkConfiguration`, `SocketFactory`, `SocketConfiguration` | protocol, locals, remotes, sizes | parse the arguments, make the socket, set options | start-up |
| tools submodule | task scheduler, async tasks, buffers, logger | not in this repository | all |

What is hard about it, and where:

* **Threads over one slot.** The quit message is one message for four threads. Each network task that takes it must put
  it back, in a second critical section (`NetworkTask.cpp:22-33`).
* **Handlers of one round.** Up to one thread per descriptor works on the same peers table; each looks its entry or its
  buffer up, unlocks, and uses it later (`SocketSctp.cpp:98-124`, `SocketTcp.cpp:51-78`).
* **Order of notifications.** An association may be gone before its COMM_UP is handled; what is queued for it moves to
  another descriptor when it is peeled off, and it may be lost in the middle of that (`SocketSctp.cpp:241-268`).
* **Calls that block.** A peeled-off descriptor is never made nonblocking, and `send` holds `peers_mtx` (`SocketSctp.cpp:35-44`, `139`).
* **Delayed work.** A reestablishment runs five seconds after its cause (`Socket.cpp:135-139`), when the remote may have
  come back or said goodbye.
* **Timers.** A UDP peer has two timers, one of which may have expired when the other is reset (`SocketUdp.cpp:113-124`).
* **Partial failure.** One send that throws ends a task, in a destructor the process.
* **Two processes.** The forked pair shares named objects that must be removed by whoever is left, and each is meant to end with the other,
  by signals whose handlers throw (`SocketUnixForked.cpp:27-28`, `176-216`, `223-244`).
* **Start-up.** What a word of the command line means depends on the words before it, and its value on conversions that cut it
  (`NetworkConfiguration.cpp:17`, `36`, `41`). Which tasks there are, and what they bind, depends on a protocol that may be uninitialised and on lists that two
  functions look at (`NetworkConfiguration.hpp:13`, `main.cpp:14-47`, `Socket.cpp:71-78`). The tasks run in one process, so that a
  descriptor closed twice by one is another's (`FileDescriptor.cpp`).
* **Locks.** `peers_mtx` is locked by functions that call each other (`SocketTcp.cpp:112-134`).

`PROJECT.json` lists each of these as a hazard, at its line, with the properties that would catch it going wrong.

## Modules

| module | models | composed with |
|---|---|---|
| `QuitBroadcast` | what the program promises about its end | abstract specification of `ChatTasks` |
| `ChatTasks` | main, io task, network tasks, slot | implements `QuitBroadcast` |
| `SctpPeers` | a network task with `SocketSctp`: loop, handlers, table, kernel | |
| `TcpPeers` | a network task with `SocketTcp` or `SocketDccp` | |
| `UdpPeers` | a network task with `SocketUdp`, its timers | |
| `UnixPeers` | several processes with `SocketUnix` | each process is one network task |
| `ForkedChat` | the whole program with `SocketUnixForked`: main, io task, parent and child | takes the place of `ChatTasks` for this socket |
| `Addresses` | `IPSocket`, `toSockaddrs`, `getAddrs` | |
| `Arguments` | `NetworkConfiguration`, the parser | uses `Addresses` |
| `FileDescriptors` | `FileDescriptor` objects on a heap | |
| `Startup` | main, the factory, `Socket`: creation, options, bind, listen, first connections, accept, removal | composes `Arguments` and `FileDescriptors` |
| `MC...` | instances for TLC; `MCUdpLive` adds fairness and a bound to `UdpPeers` | |
| `ChatTasks_proofs`, `SctpPeers_proofs`, `TcpPeers_proofs`, `UdpPeers_proofs`, `UnixPeers_proofs`, `ForkedChat_proofs`, `FileDescriptors_proofs`, `Startup_proofs` | the theorems | each extends its module; `Startup_proofs` also `FileDescriptors_proofs` |

Operators named `<Action>_<Something>` stand before the action they vary. They are plausible mistakes in that code, used
to see that a property can fail; no specification uses them.

### ChatTasks

`slot` is the static message of `chat()`; the exchange under its mutex is one step. `io`, `line` and `eof` are the io
task: `ReadLine` is a `getline` that returns, `ReadPastEnd` one at the end of stdin, which leaves `msg` as it was, so
that `PostLine` posts the last line again and again (this is what the loop does). `pc[t]` and `got[t]` are a network task:
`Check` is the loop condition, `LaunchAndReceive` is `ts.launch()` and `receive()`,
`TakeMessage`, `SendMessage` and `PutQuitBack` are `chatOrQuit`. An exception leads to `failed` (the function try block
of `networkTask`). A call to a socket may also never return, which leads to `hung`: `receive()` does so for TCP and DCCP once a
connection ends (`tcp_remove`), `send` for SCTP when a peer does not read. `Join` is the end of `main`.

Properties: the quit message is never lost (`QuitNeverLost`), after it every task whose socket does not hang comes to its end,
and main returns unless one hangs for good (`QuitEndsProcess`), and the whole is a correct broadcast (`ImplementsBroadcast`): no task ends
unasked unless it fails or has a lifetime. The properties do not say that the process ends in every case, because it does not.

### SctpPeers

The kernel part: `assoc` gives each association its remote, its state and the socket it lives on; `queue[s]` is what waits
on socket `s`. `Establish`, `EstablishFails`, `RemoteConnects`, `RemoteSends`, `RemoteShutsDown` and `PathFails` append to the
queue of the socket on which the association lives at that moment. The task's thread: `ConnectNext` (start), `Reestablish`
and `EndLaunch` (`ts.launch()`), `Select` and `JoinHandlers` (`Socket::receive`), `Chat` (`chatOrQuit`). A handler thread
per readable socket: `GetBuffer`, `Receive` and one action per notification. Most critical sections of `peers_mtx` are short
and call nothing that locks, so each is a step; `handleCommLost` is two, because the reestablishment is scheduled outside
the lock. `peelOff` is two steps that hold the lock in between (`LockFree`): `PeelOff` moves the association to its descriptor, and
`EmplacePeer` is `logPeerInfo` and the entry in the table. An association that has ended in between makes `logPeerInfo` throw, which
closes the descriptor and all that is queued on it. `Chat` is the loop's look at the slot, and `Send` the calls of `::send`, which
may throw or not return: `configureNonBlockingMode` is called in `configure`, which peeled-off descriptors never pass. Destruction of the socket (`Stop`) closes all descriptors. `Sift` is the part of a
queue that `sctp_peeloff` moves, in its order, or leaves.

Properties: no two handlers share a buffer and no handler keeps one that has been returned; `getBuffer`'s unchecked
`find_if` finds its peer; the table owns exactly the open descriptors; each failure or loss leads to exactly one attempt
to reestablish (a conservation law over queues, handlers, scheduler and history), as long as no handler has thrown, which ends the task with
its round; peers leave the table only when over, and do leave it unless a send blocks for good; rounds end.

### TcpPeers

`conn`, `inbox` and `pending` are the kernel's connections. `peers[f]` is the table entry of a descriptor, `ours` is
`should_reestablish`. `kind` is the class that `createSocket` made; the two classes differ in `ReactionTo` (what an
error, an empty read and `q` mean) and in `Chat` (`SocketDccp::send` catches). `protocolOk` is the value of the member
`protocol` of `SocketTcp`, which no constructor sets and which goes into `socket()`: the value is either one that
`socket()` takes or one that it does not, and stays.

`lock` is `peers_mtx`, a `std::mutex`. Sections that call nothing that locks are one step, enabled when `lock = Nobody`. The two handlers
that call `remove` with the lock held (`HandleGracefulShutdown`, `HandleCommLost`) keep it and go to `relock` (`RemoveLocked`), where they stay:
the owner locks again and waits for itself. What would come after that lock is never reached and is not in the model: no
entry is erased while the task runs, and no scheduled reestablishment, which a later `ts.launch()` would have to run, ever does.

Properties: a handler's `peers.at` finds its peer; the table owns exactly the open descriptors; each configured remote has exactly one of a
connection of ours that is not given up, a scheduled reestablishment and a connect still to come, and others have none
(`OneConnectionOfOurs`); nothing but `remove` keeps a round from its end (`OnlyRemoveHangs`); a connection that fails brings a handler to
`remove`, unless the task ends first (`FailuresNoticed`). That rounds end is not among them: the run `tcp_remove` shows that they need not.

### UdpPeers

Everything runs on the task's thread, so every handler is a step. `tasks` are the tasks in the scheduler with the seconds
and repetitions they have left, `peers[k]` the ids of the two tasks of an entry (`NoTask` for an expired weak pointer).
`ResetTasks`, `CommUp`, `Remove` and `CommLost` follow the code: `CommUp` schedules both tasks before it looks whether the key
is there. A key is an endpoint and the form of its address: one read from the kernel is padded with zeros to
`INET_ADDRSTRLEN` (`IPSocket.cpp:42`), and the comparison sees them. `Tick` is a second in which nothing arrives;
`quiet` and `probed` are history.

Properties: entries own their tasks; no peer is forgotten without a goodbye (`NeverForgotten`); the comm lost task of an entry counts
the silence of its peer, which is dropped in time (`SilentPeersDropped`), and is not due before the probes were sent
(`LostTaskWaitsForProbes`); a lost peer is tried again (`LostPeersTriedAgain`). The two about silence speak of the task an entry points
to. `CommUp` for a key that is in the table schedules two tasks that no entry points to (`SocketUdp.cpp:79`); the model has them, nothing
resets them, and such a comm lost task may drop a peer that has just answered.

### UnixPeers

Each process has a `pc`, the set `peers`, and the kernel's `inbox` of its socket. `SayGoodbye` is the destructor, one
datagram at a time, after the end of the loop or after an exception. A send to a socket that is closed or full throws;
in the destructor that ends the process with `std::terminate` (`aborted`).

Properties: who has read the goodbye of a process no longer sends to it (`GoodbyeHeeded`: nothing older is read later), and leaving
ends, whatever the others do (`LeavingEnds`).

### ForkedChat

`pc[p]` is the network task of parent or child: the constructor (`Create`, `Fork`, `TrapChildDeath` and `Arm` for the signals,
`Configure`), the loop (`Receive`, `Chat`, and `SendNext`, `SendFails` or `SendKills` for each call that `send` makes, in the order
`Script`), and the destructor (`Unlink`, `Notify`). `slot[p]` is each process's copy of the message of `chat()`, which is what `fork` makes
of a static; `stuck` says that the copy of its mutex was made while the io task held it. `waiting` and `answer` are the channels.
`names` are `/shm` and `/sem`, the objects created with `O_EXCL`; they outlive the processes, so that `Restart` finds them.
The objects that are removed before they are made, or that have no name, cannot make a start fail and are not state.

A signal is requested by `asked` and outstanding in `pending`. Its handler throws. `ChildDied` and `ParentDied` allow everything that such
an exception may do: leave the network task as any other exception would (`Throw`), hit another thread, or end the process.
`Throw` skips the destructor while the constructor runs, and leaving the destructor ends the process. `garbage` is the value that
the parent finds in the member `parent`, which only the child's side of `fork` sets.

Properties: a name is left behind only when neither process came to the end of its destructor (`NamesOutliveOnlyACrash`); the child never
outlives the parent for good (`NoOrphan`); quitting, which only the parent hears of, ends both (`QuitEndsBoth`); every channel is emptied
while the child runs (`ChannelsDrain`). `TypeOK` also says that a semaphore is never above 1.

### Arguments and Addresses

`args` and `i` are the vector (behind the program's name) and the index of the loop, `filling` the list that the pointer points to. One
action per kind of argument; `ReadFails` is a `stoi` that throws. A member that no constructor sets, `protocol`, is `"unset"` until
somebody reads it. `Number` is what `stoi` makes of a word that begins with a number. What is stored is converted first: `portOf` cuts
it to 16 bits, `Stored` wraps the value of `-msg`, an `int`, to an unsigned `Size` of `Sizes` values, and `getProtocol` looks the word up in
lower case (`toLower`), so that `-p TCP` is TCP. An address is its word, its port and the family that `detectFamily` finds.

A `sockaddr` holds the bytes that `inet_pton` makes of the word (`toSockaddr`). `toSockaddrs` packs a list into memory counted in units of
four bytes: 4 for a `sockaddr_in`, 7 for a `sockaddr_in6`. `Walk` takes the `sockaddr`s out again, as the kernel does with the memory it is
given and `getAddrs` with what the kernel returns. `FromSockaddr` is the constructor that reads one back: its text spells the same
address and is padded to 16 or 46 characters (`IPSocket.cpp:42`), so that it is not the word it was made from. `Mapped` is an IPv4
address as a socket of IPv6 reports it.

Property: when all arguments are read, the configuration is what the line as a whole says (`ArgumentsMeanWhatTheySay`). That
definition does not run the loop: an argument is a value when the one before it is no value and takes one (`AreValues`); the addresses in front
of the first `-r` are locals, the others remotes, each list in the order of the line (`Lists`); the last `-p` and the last of each size
count (`Means`).

### FileDescriptors

A heap is the objects that are alive, by name, and the descriptors open in the process. `Construct`, `MoveConstruct`, `MoveAssign`,
`Close` and `Destroy` are the members of the class; `Open` is a call that returns a descriptor into a new object. A moved-from object
keeps its number and loses its right to close; a target of an assignment keeps its own right, which matters when it has closed or has
been moved from.

### Startup

`RunNetwork` is `runNetwork`, once the arguments are read: it gives an unset protocol any value, one outside the enumeration included, and
starts one task or the predefined three. The parser's index and words are forgotten then. `pc[t]` is where a task stands:
`CreateSocket`, `Configure` and `Bind` are the constructors, `Listen`, `ConnectNext`, `ConnectStream` and `Connected` are
`establishSocket`, `Accept`, `RemovePeer` and `Stop` are the chat as far as descriptors go. Every call may throw, which ends the task and
all its objects (`Leave`). Names say where an object lives: the member of the socket, a local variable, a temporary, an entry of a
table. `Emplace` is `peers.emplace(fd, Peer{move(fd), ...})` with its order: move into the temporary, read the key, move into the node,
or drop the temporary when the key is taken.

Properties: whatever the protocol, a task that binds an address has one (`LocalsToBind`); packed addresses arrive at the kernel as
they were given and in their order, and are read back as text that spells the same addresses, mapped or not, with the same ports
(`AddressesSurvivePacking`; the text is padded and so not equal); the predefined tasks bind different addresses and both base stations know the MME's
(`PredefinedTasksMeet`); each open descriptor has one object that will close it (`DescriptorsOwned`); an entry's key is the number of
its descriptor (`KeysNameDescriptors`).

The options are set or the first refused throws. Of the kernel's verdicts on bind, listen and connect the model has what depends on
the program (families that do not match, ports that differ, words that are no address) and leaves the rest open. The descriptors of the
forked socket, those of peeled-off associations (`SctpPeers`) and the receipt of messages are left to the modules of those sockets.

## Runs

| run | expected | question | bounds |
|---|---|---|---|
| `chat` | pass | is the quit message ever lost, does it end every task that does not hang, is `QuitBroadcast` implemented | the three tasks of the predefined configuration, one mortal; 2 lines and then the end of stdin |
| `sctp` | pass | do concurrent handlers and notifications keep table, buffers, descriptors and retries consistent; do rounds end, do dead peers leave | 2 remotes, 1 configured; 3 associations; queue of 1 |
| `sctp_retry` | violation | can a scheduled reestablishment end the task | 2 associations |
| `udp` | pass | do timers, table and history stay consistent | 2 remotes, 1 configured; 5 tasks at a time |
| `udp_retries` | pass | is a lost peer tried again; does its comm lost task wait for a probe even when `reset()` restores no repetitions | 1 remote, 2 datagrams, 8 tasks |
| `udp_entries` | violation | has an endpoint one entry | 1 remote |
| `tcp` | pass | are table, descriptors and what is scheduled consistent for TCP and DCCP; does anything but `remove` hang | 2 remotes, 1 configured; 2 connections |
| `tcp_remove` | violation | does `remove`, and with it the round, come to its end | 1 remote, 2 connections |
| `unix` | pass | are goodbyes heeded, does leaving end | 3 processes in a chain, queue of 2 |
| `unix_abort` | violation | can a failed send abort the process | 2 processes |
| `forked` | pass | are the shared names cleaned up, is nobody left behind, does quitting end both, are the channels read | 2 starts, 2 lines in each, 2 copies of a line for a queue of 3, room for 1 on every other channel |
| `startup` | pass | does the parser mean what the line says; do the tasks that start have what they need, own their descriptors and find each other | all lines of up to 4 words over 10, and lines with a local, `-r` and a remote, with and without `-p TCP`; 2^20 values of `Size`; 5 descriptors |

Why the bounds are enough for the cases of interest:

* `chat`: three tasks let one task take the quit message while a second holds nothing and a third is dead; two lines let a
  line overwrite another before the quit message is posted.
* `sctp`: three associations allow one that is lost, its reestablishment, and one opened by the other remote at the same time, so that a
  round has up to three handlers. `Assoc` is a bound on associations in a behaviour; when it is used up no more come, which the
  fairness tolerates because nothing is required of the kernel. `MaxQueue` limits only what a remote sends, never the
  notifications, which all come. `Fd` and `Buf` are as many as there can be entries. The kernel gives the lowest free
  descriptor, the case in which a stale number is most likely to meet a new owner.
* `udp`: `TaskId` is a bound on tasks at one time: a step that would need more is not taken. Five are enough for two
  entries with both their tasks and one reestablishment, and for an entry with two pairs of tasks, one of which nobody owns.
  The delays keep the order of the code's (silence, then a longer delay before the reestablishment), with two probes in place of
  three.
* `udp_retries`: every message from a remote that has been entered twice adds tasks that are not reset, so that the state has
  no bound. `MaxHeard` bounds the datagrams and `TaskId` is large enough that no step is refused for want of an id.
* `tcp`: a remote may have both a connection of ours and one of its own at once, or two remotes one each, with a handler each in a round.
* `unix`: in the chain a knows b, b knows c and nobody knows a, so that some goodbyes are sent to processes that do not
  know the sender, and some processes leave without telling one that sends to them.
* `forked`: two lines are enough to fill a channel before the child reads it, to have one line copied by the fork and another
  sent, and to quit after a line. A second start is enough to find what the first has left; a start that fails leaves what it found.
* `startup`: four words let an option that reads its value be followed by another, by an address and its port, or by an end of the line in the
  middle of both. The words have an option without a value, an unknown one that is a negative number as a value (-5, which wraps as a `Size`), a protocol
  in upper case, an address of each family, a port, and 65543, which overflows one; every one of them also stands where a value is
  expected. `Sizes` stands for 2^32 or 2^64, which TLC's integers do not hold; any number that is larger than the positive values and wraps the
  negative one shows the conversion. The longer lines have locals and remotes of every family, which a
  line of four words cannot have. Five descriptors for three tasks run out while connections are still opened, so that sockets are
  refused and numbers come back to other tasks.

Deadlock is not checked: every one of these programs is meant to stop.

## Fairness

Fairness is only assumed of the program's own threads: each thread is scheduled, `select` returns after 100 ms at most
(`FDSet.hpp`), and `join` returns when the threads it waits for have ended. A task that is
caught in a call of its socket takes no step (`hung` in `ChatTasks`, `relock` in `TcpPeers`), and nothing is assumed of `::send` on a
descriptor that blocks (`Send` in `SctpPeers` is not fair). Nothing is assumed of the user (who need not
type, in particular not `q`), of the remotes, of the network, or of a lifetime being over. For UDP, time passes (a `Tick` is part of the
loop). Fairness is weak everywhere; the loop of a task is one
action for fairness, since it is one thread, and so is each handler. A mutex that is free again and again but never when a given
thread asks is not among the behaviours that weak fairness rules out in general; here each handler takes `peers_mtx`
a bounded number of times in a round, and apart from `remove` of TCP and a send of SCTP that blocks none keeps it.

## What is taken from outside the repository

The tools submodule is empty in this repository, and the kernel is the kernel. The models assume of them:

* `asyncTask` runs a function on a thread; `join` waits for all and rethrows an exception. The code relies on it:
  `SocketUnixForked::handleMessage` throws `"Unwinding stack"` in a handler to end the task (`SocketUnixForked.cpp:94`).
* `TaskScheduler::launch` runs the tasks that are due on the caller's thread and lets their exceptions out.
  A scheduled task has a delay and a number of repetitions; a pointer to it expires when it is done; `reset()` starts its
  delay again (whether it restores the repetitions is not known: the constant `Refills`), `disable()` ends it.
* `LOG_EXCEPTIONS` is a handler that logs. `toLower` gives the word in lower case. `Size` is an unsigned type.
* Locking a `std::mutex` that the thread holds does not return.
* SCTP as on Linux: `sctp_peeloff` moves what is queued for the association to the new descriptor and fails for an association that is
  gone, and so do the queries of `logPeerInfo`; a descriptor made by it blocks unless it is told not to; `connect` on a one-to-many socket fails when there is an association with that address.
* Signals as on Linux: `PR_SET_PDEATHSIG` sends its signal when the thread that forked ends, and again when the process does; a child's
  end raises SIGCHLD, which is lost while nobody handles it; any thread may get it; a write to a pipe that nobody reads ends the process.
  What an exception out of a handler does is left open, between unwinding the thread it hits and ending the process; `getline` turns
  it into a bad stream.
* `stoi` takes the number a word begins with and throws when there is none. The value 0 of `NetworkProtocol` is SCTP, the first
  enumerator, so that `operator[]` of the map gives SCTP for an unknown word.
* A new descriptor is the lowest that is free. An SCTP socket of IPv6 takes addresses of both families and reports IPv4 ones mapped (the code
  asks for that, `SocketConfiguration.cpp:82-85`); every other socket takes its own family only.
* A pipe in packet mode and a message queue give one message to a read, a named pipe everything it holds (lines are short).
* Unix datagrams are not lost or reordered; a send to a closed socket, or to a full one that does not block, fails.

## Findings

* `tcp_remove`: `handleGracefulShutdown` and `handleCommLost` hold `peers_mtx`, a `std::mutex`, and call `remove`, which locks it
  again (`SocketTcp.cpp:112-134`). The first connection that ends hangs its handler, its round, its task and main.
* `udp_entries`: the endpoint of a configured remote gets a second entry when it answers (`IPSocket.cpp:42`). The first entry
  is never reset and is lost and reestablished for ever.
* `sctp_retry`: when a lost remote comes back before the five seconds are over, the scheduled `connect` fails and the
  exception ends the task with its other associations (`Socket.cpp:135-139`).
* `unix_abort`: the destructor of `SocketUnix` sends; when a peer is closed the exception leaves the destructor
  (`SocketUnix.cpp:17-20`) and the process aborts.

Consequences of the code that the models show but about which the repository states nothing, listed with the hazards: a remote that
leaves before its COMM_UP is handled ends the SCTP task; a UDP reestablishment brings back a peer that has said goodbye since, or
adds timers that nobody resets to a peer that has come back, which then drop it although it answers; an SCTP peer that stops
reading blocks the task in `send`; a line that is typed before the fork is also in the child's slot, whose
`send` fails on the read end of its pipe and ends it; a parent whose SIGCHLD hits main, or came too early, goes on without a child
until a send fails; after both processes were killed, or the parent was and the child did not unwind, no start succeeds until the names are removed by hand.

## Proofs

Each theorem holds for every value of the constants that the module's named assumptions allow. The assumptions say what the
constants are (descriptors and ids are numbers, the main socket's names are no others', words are words, the quit message is no other
line, delays and bounds are positive where zero would mean no program) and nothing about how many there are: any number of tasks,
remotes, associations, processes, addresses, words of a line, and queues of any length. Every invariant below was
checked by TLC on its module's instance before it was proved. Each component's proofs are in its `_proofs` module, in the order: the invariant, lemmas
about the operators, one lemma or step for each action, initial states, next step, theorems.

`ChatTasks_proofs`:

* `TypeCorrect`: `Spec => []TypeOK`.
* `QuitIsNeverLost`: `Spec => []QuitNeverLost`. The invariant is not inductive by itself: a task that puts back what it
  holds could put back anything. The inductive invariant adds `QuitKnown`: a task at `requeue` holds the quit
  message. Then the step that empties the slot is the step that brings its task to `requeue`, and the step that leaves `requeue` fills the slot
  with the quit message.
* `RefinesBroadcast`: the safety part of `ChatTasks` implements that of `QuitBroadcast`. It needs that a task whose own message is `q`
  has it from the io task (`QuitKnown` again), so that the abstract `End` is allowed whenever the loop condition fails.

`SctpPeers_proofs`:

* `SctpTypeCorrect`, `SctpBuffersApart`, `SctpPeerIsFound`, `SctpTableOwns` and the action property `SctpPeersLeaveWhenOver`, all from one
  invariant, `IInv`. None of them is inductive: that a handler finds its peer depends on nobody else removing it,
  which depends on no other handler having an event about the same association. So `IInv` follows events from the
  kernel to the handlers: what waits on a socket, or is held by its handler, is about an association that lives there
  and has ended in the way the event says (`QueuesSound`, `HandledSound`), and COMM_UP comes once for each
  association and to the main socket only (`UpsOnce`). `sctp_peeloff` moves part of a queue; that it keeps the events of
  one association in their order and loses none is `SiftExists` and `SiftLosesNone`.
  While a handler holds the lock between `PeelOff` and `EmplacePeer`, its association has a descriptor and no entry (`PeelInv`); it is the
  only one, and no other handler has an event about it.
* `SctpReestablishmentsConserved`: the conservation law, for states in which no handler has thrown. It needs a second invariant, `BalanceInv`: no end is reported twice, over all
  queues and handlers (`ReportedOnce`), so that the number of ends whose report has been dealt with is the number
  of reestablishments scheduled and made (`Balanced`). The remaining ends are those whose reports wait or are held, which is what the property
  counts (`CountReports`: events correspond one to one to the associations they report).

`TcpPeers_proofs`, for both classes: `TcpTypeCorrect`, `PeerIsFound`, `TcpTableOwns`, `OneConnectionEach`.
That a handler finds its peer needs that handlers run within a round only (`HandlersWithinRound`): a task that ends empties the
table, and does so outside of one. `OneConnectionEach` is a count and needs its addends to be finite
(`Accounts`). The step that matters is the loss of a connection of ours: its handler schedules the reestablishment and gives the
connection up (`GivenUp`) in one step, so that what the count loses in one addend it gains in the other (`LostAccounts`).

`UdpPeers_proofs`: `UdpTypeCorrect`, `UdpEntriesOwn`, `UdpNeverForgets`, `UdpSilentDropped`, `UdpLostTaskWaits`, for any period and number of
probes and whether or not `reset()` restores repetitions. The invariant is arithmetic: for each entry the time since the last message and
the time its comm lost task has left add up to the delay (`LostOf`), and the probes sent, the repetitions left and
the position in the period add up likewise (`PingOf`); nothing that is due is put off behind a receive (`NothingDue`). The last
theorem comes from comparing the two sums at the moment the comm lost task is due. All of it is about the two tasks that an entry
points to; nothing is claimed of tasks that no entry points to.

`UnixPeers_proofs`: `UnixTypeCorrect` and `GoodbyeIsHeeded`. A text of the sender that waits behind its goodbye would bring it back into
the set, so the invariant says of every queue that none does (`QuitIsLast`), and why: texts are sent only in the loop and goodbyes only after it
(`ToldAfterLoop`). `Heeded` has the goodbye either still waiting or already dealt with, with nothing of the sender left.

`ForkedChat_proofs`: `ForkedTypeCorrect`, whose claim that no semaphore is ever above 1 needs that the parent posts in a
send only what it has tried to take at its start (`TriedBeforePosted`); `NamesGoWithOneCleanUp`, because the
destructor removes `/sem` before `/shm` and nothing is made once one has begun (`UnlinkedInOrder`, `MadeBeforeFork`); and `NoOrphanUntold`, the safety half of `NoOrphan`: a
child that outlives its parent has the signal pending, has its check of the parent before it, or is cleaning up. That the last step then comes is liveness.

`FileDescriptors_proofs` holds, for any names and descriptors, what each operation leaves behind (the `...Shape` lemmas) and that each
keeps `AllOwned` when it is used as it should be: an object to be constructed has a free name, a source of a move owns, the
target of an assignment holds nothing and still has its right to close. The conditions are the content: with a source that owns
nothing the move constructor makes an object that would close another's descriptor.

`Startup_proofs` shows that the sockets use them so, in every order of any tasks' steps, with any call throwing, for every command
line, set of words and set of descriptors:

* `TypeCorrect`, `AlwaysOwned`, `KeysRight`, `AlwaysLocals`: `Spec => []` of `TypeOK`, `DescriptorsOwned`, `KeysNameDescriptors` and
  `LocalsToBind`, all from `Invariant`: `Spec => []IInv`.
* `DescriptorsOwned` is not inductive: an object could stand in the name that the next one takes. `Places` says that between two steps
  only members and table entries are alive, and only those of tasks that run. `Idle` says that none runs before the arguments are
  read, so that `RunNetwork` finds the heap empty. A table key is free because its owner would own the same descriptor
  as the local object (`EmplaceLemma`): `KeysNameDescriptors` and `DescriptorsOwned` need each other.
* `LocalsToBind` holds because `Single` and the classes agree on who binds (`HasLocals`); that the predefined tasks have locals is `PredefinedType`.
* `LinesMeanWhatTheySay`: the parser. `Parsed` says that at every argument the loop looks at, the configuration is what the arguments in front
  of it say, and that the argument itself is no value. The set of values is carried along, one argument at a time, so that
  nothing has to be said about a recursion over the line. The conversions of a value (`getProtocol`, `Stored`, `portOf`) are part of what a line means. That the list that is filled depends on a `-r` anywhere before is the part a mutant breaks.
* `PackingLosesNothing`: for lists of any length and mix of families, `Walk` reads out of the packed memory the `sockaddr`s that were packed
  (`PackedIs` and `WalkPacked`, by induction over the addresses: the pointer stands where the sizes of the addresses before it add up to), and `bound` is what
  was asked for (`Bindings`). `ReadBack` adds what the kernel and `FromSockaddr` change on the way back.
* `PredefinedAlwaysMeet`: the three predefined configurations list different addresses of their own, and both base stations list the MME's
  whatever remotes the line has added; `OneOrThree` says that the tasks that run have these configurations or that there is only one.

Induction and recursion are stated of sets and functions: `Induction` says that a set of numbers that holds 0 and the successors of its members
holds all, from the well-foundedness of `<`. It is what shows that a recursive function such as the one in `Packed` exists (`Recursion`),
and is enough for what is proved about the lists here.

Model-checked only: everything about liveness, which is beyond the prover (`QuitEndsProcess`, the fair half of `ImplementsBroadcast`,
`RoundsEnd` and `DeadPeersRemoved` of SCTP, `OnlyRemoveHangs`, `FailuresNoticed`, `LostPeersTriedAgain`, `LeavingEnds`, `NoOrphan`, `QuitEndsBoth`, `ChannelsDrain`). Every invariant and every
action property of the passing runs is a theorem.

## Not modelled

The bit set and `fd_max` of `FDSet` are not modelled: `select` is a set of descriptors or a timeout. `SocketConfiguration` is
one step that may throw: which options a class sets is in the code a list of system calls, and their values are the kernel's state.
`SocketIO`, `SocketApi.hpp` and `WinSockCrap.hpp` are formatting and headers. Of the modelled parts, logging, the
contents and sizes of messages, start delays and `connectMultihomed` (never called) are left out. A bad command line ends main while the io task
still waits for a line; the parser's `"threw"` is where the model stops. An empty argument, of which the parser reads the first letter, is not
among the words.
In `ForkedChat` the integers in the shared memories, which are only logged, the System V segment, which nobody removes, system calls that fail
for want of resources, a start of the program while a process of the last one is still there, and the effect of `kill` on whatever process
an uninitialised `parent` names are left out too.

## Plan

1. Proofs: the refinement of an abstract table of peers by `TcpPeers` and `SctpPeers`, which the two share (who is connected, who is owed an
   attempt), and the safety halves of the liveness properties where they say something, as `NoOrphanUntold` does for `NoOrphan`.
2. `fd_max` of `FDSet`, with descriptors at its limit.
3. Two `UdpPeers` over a network that loses and reorders. Set aside for now: two entries for one endpoint (`udp_entries`) make the tasks grow
   without a bound on both sides, so that an instance small enough to check refuses the interesting steps.
