------------------------------ MODULE Arguments ------------------------------
(***************************************************************************)
(* The command line as NetworkConfiguration.cpp reads it: args[1] is the   *)
(* first argument behind the program's name, which the loop skips, and i   *)
(* the argument it is at.                                                  *)
(***************************************************************************)
EXTENDS Addresses

CONSTANTS
  OtherFlag,     \* the words in front of which a dash stands, the options apart
  Number,        \* Number[w]: what stoi makes of a word w that begins with a number
  toLower,       \* toLower[w]: the word w in lower case
  Sizes,         \* bound: how many values the unsigned type Size has
  CommandLines   \* the command lines the program may be started with

SizeOption == {"-mtu", "-seg", "-msg"}
Flag == {"-p", "-r"} \cup SizeOption \cup OtherFlag

Named == [sctp |-> "SCTP", tcp |-> "TCP", udp |-> "UDP", udp_lite |-> "UDP_Lite",
          dccp |-> "DCCP", unix |-> "Unix", fork |-> "UnixForked"]
Protocol == {Named[w] : w \in DOMAIN Named}

\* operator[] of the map makes a value of 0, which is SCTP, for any other word.
getProtocol(word) == IF toLower[word] \in DOMAIN Named THEN Named[toLower[word]] ELSE "SCTP"

\* path_mtu and max_seg are ints, as is what stoi returns; big_msg_size is a Size.
Stored(option, n) == IF option = "-msg" THEN n % Sizes ELSE n

ASSUME WordAssumption ==
  /\ CommandLines \subseteq Seq(Word)
  /\ \A w \in DOMAIN Number : Number[w] \in Int
  /\ Sizes \in Nat \ {0}
  /\ OtherFlag \cap ({"-p", "-r"} \cup SizeOption) = {}

VARIABLES
  args,      \* the arguments; forgotten once they are read
  i,         \* where the loop is
  filling,   \* the list that takes the addresses: "locals" or "remotes"
  config,    \* the NetworkConfiguration under construction
  parser     \* "reads", "done", or "threw" an exception, which ends main

\* A member that no constructor sets has the value "unset" until it is read.
Config == [locals : Seq(Address), remotes : Seq(Address),
           protocol : Protocol \cup {"unset", "other"}, sizes : [SizeOption -> Int]]

InitArguments ==
  /\ args \in CommandLines
  /\ i = 1
  /\ filling = "locals"
  /\ config = [locals |-> <<>>, remotes |-> <<>>, protocol |-> "unset",
               sizes |-> [o \in SizeOption |-> 0]]
  /\ parser = "reads"

\* The loop goes on as long as an argument follows.
More == parser = "reads" /\ i < Len(args)

Advance(n) == i' = i + n /\ UNCHANGED <<args, parser>>

ReadProtocol ==
  /\ More /\ args[i] = "-p"
  /\ config' = [config EXCEPT !.protocol = getProtocol(args[i + 1])]
  /\ Advance(2) /\ UNCHANGED filling

\* -mtu, -seg and -msg.
ReadSize ==
  /\ More /\ args[i] \in SizeOption /\ args[i + 1] \in DOMAIN Number
  /\ config' = [config EXCEPT !.sizes[args[i]] = Stored(args[i], Number[args[i + 1]])]
  /\ Advance(2) /\ UNCHANGED filling

\* The list changes for one address only.
ReadRemotes_Toggles ==
  /\ More /\ args[i] = "-r"
  /\ filling' = IF filling = "locals" THEN "remotes" ELSE "locals"
  /\ Advance(1) /\ UNCHANGED config

\* From here on every address is a remote.
ReadRemotes ==
  /\ More /\ args[i] = "-r"
  /\ filling' = "remotes"
  /\ Advance(1) /\ UNCHANGED config

\* An unknown option; what follows it is an argument of its own.
SkipFlag ==
  /\ More /\ args[i] \in OtherFlag
  /\ Advance(1) /\ UNCHANGED <<filling, config>>

\* The port is stored as stoi returns it.
portOf_Wide(word) == Number[word]

\* static_cast<Port>(stoi(word))
portOf(word) == Number[word] % Ports

ReadAddress ==
  /\ More /\ args[i] \notin Flag /\ args[i + 1] \in DOMAIN Number
  /\ LET a == IPSocket(args[i], portOf(args[i + 1])) IN
     config' = IF filling = "locals" THEN [config EXCEPT !.locals = Append(@, a)]
                                     ELSE [config EXCEPT !.remotes = Append(@, a)]
  /\ Advance(2) /\ UNCHANGED filling

\* stoi throws.
ReadFails ==
  /\ More /\ args[i] \notin {"-p", "-r"} \cup OtherFlag /\ args[i + 1] \notin DOMAIN Number
  /\ parser' = "threw"
  /\ UNCHANGED <<args, i, filling, config>>

ReadArgument ==
  ReadProtocol \/ ReadSize \/ ReadRemotes \/ SkipFlag \/ ReadAddress \/ ReadFails

ArgumentsRead == parser = "reads" /\ i >= Len(args)

-----------------------------------------------------------------------------
(* What a command line means, as a whole. *)

\* V are, of the first n arguments of a line, the values: an argument is one when that
\* before it takes a value and is none itself.
AreValues(line, V, n) ==
  /\ V \subseteq 1 .. n
  /\ \A k \in 1 .. n : k \in V <=> k > 1 /\ k - 1 \notin V /\ line[k - 1] \notin {"-r"} \cup OtherFlag

\* Where, in front of argument n, a word of W says something by itself.
Says(line, V, n, W) == {k \in 1 .. n - 1 : k \notin V /\ line[k] \in W}

AddressesIn(line, V, n) == Says(line, V, n, Word \ Flag)
RemotesIn(line, V, n) == {k \in AddressesIn(line, V, n) : \E r \in Says(line, V, n, {"-r"}) : r < k}

\* ss are the addresses that stand at the places S, in that order.
Lists(line, ss, S) ==
  \E at \in [DOMAIN ss -> S] :
    /\ \A k \in S : \E m \in DOMAIN ss : at[m] = k
    /\ \A m, n \in DOMAIN ss : m < n => at[m] < at[n]
    /\ \A m \in DOMAIN ss : ss[m] = IPSocket(line[at[m]], Number[line[at[m] + 1]] % Ports)

Last(S, k) == k \in S /\ \A m \in S : m <= k

\* A configuration c is what the arguments in front of n say.
Means(line, c, V, n) ==
  /\ Lists(line, c.locals, AddressesIn(line, V, n) \ RemotesIn(line, V, n))
  /\ Lists(line, c.remotes, RemotesIn(line, V, n))
  /\ Says(line, V, n, {"-p"}) = {} => c.protocol = "unset"
  /\ \A k \in 1 .. n : Last(Says(line, V, n, {"-p"}), k) => c.protocol = getProtocol(line[k + 1])
  /\ \A o \in SizeOption : Says(line, V, n, {o}) = {} => c.sizes[o] = 0
  /\ \A k \in 1 .. n, o \in SizeOption :
       Last(Says(line, V, n, {o}), k) => c.sizes[o] = Stored(o, Number[line[k + 1]])

\* The arguments read one after the other mean what the whole line says: the
\* addresses in front of the first -r are locals, those behind it remotes, the
\* last -p and the last size count, a value is never taken for an argument, and
\* the last argument says nothing.
ArgumentsMeanWhatTheySay ==
  ArgumentsRead => \E V \in SUBSET DOMAIN args :
    AreValues(args, V, Len(args)) /\ Means(args, config, V, Len(args))
=============================================================================
