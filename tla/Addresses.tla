------------------------------ MODULE Addresses ------------------------------
(***************************************************************************)
(* IPSocket.cpp and SctpGetAddrs.cpp: addresses, and lists of addresses    *)
(* packed into memory for the SCTP calls of the kernel.  Memory is counted *)
(* in units of four bytes; an IPSocket holds the address as text, a        *)
(* sockaddr as bytes.                                                      *)
(***************************************************************************)
EXTENDS Integers, Sequences

CONSTANTS
  Word,      \* the words that may stand on the command line
  IPv4,      \* those that inet_pton(AF_INET) takes
  IPv6,      \* those that inet_pton(AF_INET6) takes
  inet_pton  \* inet_pton[w]: the bytes of the IP address that w spells

Ports == 65536
Port == 0 .. Ports - 1        \* u16
Families == {"v4", "v6", "unix"}
Address == [addr : Word, port : Port, family : Families]

detectFamily(addr) == IF addr \in IPv4 THEN "v4" ELSE IF addr \in IPv6 THEN "v6" ELSE "unix"

IPSocket(addr, port) == [addr |-> addr, port |-> port, family |-> detectFamily(addr)]

\* sizeof(sockaddr_in6) and sizeof(sockaddr_in)
sizeofSockaddr(s) == IF s.family = "v6" THEN 7 ELSE 4

\* inet_pton takes no other family: the conversion to a sockaddr throws.
Convertible(s) == s.family # "unix"

\* operator sockaddr_storage
toSockaddr(s) == [ip |-> inet_pton[s.addr], port |-> s.port, family |-> s.family]

\* IPSocket(const sockaddr&): the string is INET_ADDRSTRLEN or INET6_ADDRSTRLEN
\* characters long, whatever the text that inet_ntop writes into it; the text is
\* modelled by the address it spells.
FromSockaddr(sa) ==
  [addr |-> [spells |-> sa.ip, size |-> IF sa.family = "v6" THEN 46 ELSE 16],
   port |-> sa.port, family |-> sa.family]

\* An IPv4 address as one of IPv6: ::ffff:a.b.c.d
Mapped(sa) == [sa EXCEPT !.ip = <<65535>> \o @, !.family = "v6"]

\* What a sockaddr holds behind its family, port and address.
Zeros == [ip |-> <<>>, port |-> 0, family |-> "unix"]
Sockaddr(sa) == [n \in 1 .. sizeofSockaddr(sa) |-> IF n = 1 THEN sa ELSE Zeros]

\* sockaddrs one after the other, each as long as its family requires
Packed(sas) ==
  LET upTo[n \in 0 .. Len(sas)] == IF n = 0 THEN <<>> ELSE upTo[n - 1] \o Sockaddr(sas[n])
  IN upTo[Len(sas)]

toSockaddrs(ss) == Packed([n \in DOMAIN ss |-> toSockaddr(ss[n])])

At(memory, n) == IF n \in DOMAIN memory THEN memory[n] ELSE Zeros

\* The pointer moves on as if the list were an array.
Walk_AsArray(memory, count) == [n \in 1 .. count |-> At(memory, 4 * n - 3)]

\* count sockaddrs read out of memory: the size of each tells where the next is.
\* The kernel does this with what it is given, and so does getAddrs.
Walk(memory, count) ==
  LET at[n \in 1 .. count] ==
        IF n = 1 THEN 1 ELSE at[n - 1] + sizeofSockaddr(At(memory, at[n - 1]))
  IN [n \in 1 .. count |-> At(memory, at[n])]

getAddrs(memory, count) ==
  LET sas == Walk(memory, count) IN [n \in 1 .. count |-> FromSockaddr(sas[n])]
=============================================================================
