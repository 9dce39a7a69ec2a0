--------------------------- MODULE FileDescriptors ---------------------------
(***************************************************************************)
(* FileDescriptor.cpp: objects that close a descriptor when they end.  A   *)
(* heap is a record of obj, the objects alive by name, and open, the       *)
(* descriptors open in the process.                                        *)
(***************************************************************************)
EXTENDS Integers

Invalid == -1        \* invalid_fd

Object(Fd) == [fd : Fd \cup {Invalid}, should_close : BOOLEAN]

\* A heap of objects with names in Name and descriptors in Fd.
IsHeap(h, Name, Fd) ==
  /\ h \in [obj : {h.obj}, open : SUBSET Fd]
  /\ h.obj \in [DOMAIN h.obj -> Object(Fd)]
  /\ DOMAIN h.obj \subseteq Name

WillClose(d) == d.should_close /\ d.fd # Invalid

Owns(h, x) == WillClose(h.obj[x])

\* FileDescriptor x{fd}.
Construct(h, x, fd) ==
  [obj |-> [y \in {x} \cup DOMAIN h.obj |->
              IF y = x THEN [fd |-> fd, should_close |-> TRUE] ELSE h.obj[y]],
   open |-> h.open]

\* A system call returns the descriptor fd, which x{fd} takes.
Open(h, x, fd) == [Construct(h, x, fd) EXCEPT !.open = @ \cup {fd}]

\* The ends of the objects xs.
Destroy(h, xs) ==
  [obj |-> [y \in DOMAIN h.obj \ xs |-> h.obj[y]],
   open |-> h.open \ {h.obj[x].fd : x \in {y \in DOMAIN h.obj \cap xs : Owns(h, y)}}]

Close(h, x) ==
  IF Owns(h, x)
  THEN [obj |-> [h.obj EXCEPT ![x].should_close = FALSE], open |-> h.open \ {h.obj[x].fd}]
  ELSE h

Disown(h, y) == [h EXCEPT !.obj[y].should_close = FALSE]

\* The source forgets its descriptor as well.
MoveConstruct_Forgets(h, x, y) ==
  [Disown(Construct(h, x, h.obj[y].fd), y) EXCEPT !.obj[y].fd = Invalid]

\* FileDescriptor x{move(y)}: y keeps the number and loses the right to close it.
MoveConstruct(h, x, y) == Disown(Construct(h, x, h.obj[y].fd), y)

\* The source keeps the right to close what it was moved from.
MoveAssign_KeepsRight(h, x, y) ==
  LET c == Close(h, x) IN [c EXCEPT !.obj[x].fd = c.obj[y].fd]

\* x = move(y), for two objects: x keeps its own right to close, which it lacks
\* when it has closed or has been moved from.
MoveAssign(h, x, y) ==
  LET c == Close(h, x) IN Disown([c EXCEPT !.obj[x].fd = c.obj[y].fd], y)

\* Every open descriptor has one object that will close it, and no object will
\* close one that is not its own.
AllOwned(h) ==
  /\ \A x \in DOMAIN h.obj : Owns(h, x) => h.obj[x].fd \in h.open
  /\ \A x, y \in DOMAIN h.obj : Owns(h, x) /\ Owns(h, y) /\ h.obj[x].fd = h.obj[y].fd => x = y
  /\ \A f \in h.open : \E x \in DOMAIN h.obj : Owns(h, x) /\ h.obj[x].fd = f
=============================================================================
