------------------------ MODULE FileDescriptors_proofs ------------------------
(***************************************************************************)
(* Proofs about FileDescriptors, for any names and descriptors: what each  *)
(* operation leaves behind, and when it keeps every descriptor owned.      *)
(***************************************************************************)
EXTENDS FileDescriptors, TLAPS

LEMMA ConstructShape ==
  ASSUME NEW h, NEW Name, NEW Fd, IsHeap(h, Name, Fd), NEW x \in Name, NEW fd \in Fd \cup {Invalid}
  PROVE  LET c == Construct(h, x, fd) IN
         /\ IsHeap(c, Name, Fd)
         /\ c.open = h.open
         /\ DOMAIN c.obj = DOMAIN h.obj \cup {x}
         /\ c.obj[x] = [fd |-> fd, should_close |-> TRUE]
         /\ \A y \in DOMAIN h.obj \ {x} : c.obj[y] = h.obj[y]
  BY DEF Construct, IsHeap, Object

LEMMA OpenShape ==
  ASSUME NEW h, NEW Name, NEW Fd, IsHeap(h, Name, Fd), NEW x \in Name, NEW fd \in Fd
  PROVE  LET c == Open(h, x, fd) IN
         /\ IsHeap(c, Name, Fd)
         /\ c.open = h.open \cup {fd}
         /\ DOMAIN c.obj = DOMAIN h.obj \cup {x}
         /\ c.obj[x] = [fd |-> fd, should_close |-> TRUE]
         /\ \A y \in DOMAIN h.obj \ {x} : c.obj[y] = h.obj[y]
  BY DEF Open, Construct, IsHeap, Object

LEMMA DestroyShape ==
  ASSUME NEW h, NEW Name, NEW Fd, IsHeap(h, Name, Fd), NEW xs
  PROVE  LET c == Destroy(h, xs) IN
         /\ IsHeap(c, Name, Fd)
         /\ c.open = h.open \ {h.obj[x].fd : x \in {y \in DOMAIN h.obj \cap xs : Owns(h, y)}}
         /\ DOMAIN c.obj = DOMAIN h.obj \ xs
         /\ \A y \in DOMAIN h.obj \ xs : c.obj[y] = h.obj[y]
  BY DEF Destroy, IsHeap

LEMMA DisownShape ==
  ASSUME NEW h, NEW Name, NEW Fd, IsHeap(h, Name, Fd), NEW y \in DOMAIN h.obj
  PROVE  LET c == Disown(h, y) IN
         /\ IsHeap(c, Name, Fd)
         /\ c.open = h.open
         /\ DOMAIN c.obj = DOMAIN h.obj
         /\ c.obj[y] = [fd |-> h.obj[y].fd, should_close |-> FALSE]
         /\ \A z \in DOMAIN h.obj \ {y} : c.obj[z] = h.obj[z]
  BY DEF Disown, IsHeap, Object

LEMMA MoveConstructShape ==
  ASSUME NEW h, NEW Name, NEW Fd, IsHeap(h, Name, Fd), NEW x \in Name, NEW y \in DOMAIN h.obj, x # y
  PROVE  LET c == MoveConstruct(h, x, y) IN
         /\ IsHeap(c, Name, Fd)
         /\ c.open = h.open
         /\ DOMAIN c.obj = DOMAIN h.obj \cup {x}
         /\ c.obj[x] = [fd |-> h.obj[y].fd, should_close |-> TRUE]
         /\ c.obj[y] = [fd |-> h.obj[y].fd, should_close |-> FALSE]
         /\ \A z \in DOMAIN h.obj \ {x, y} : c.obj[z] = h.obj[z]
<1> DEFINE c == Construct(h, x, h.obj[y].fd)
<1>1. h.obj[y].fd \in Fd \cup {Invalid}
  BY DEF IsHeap, Object
<1>2. /\ IsHeap(c, Name, Fd)
      /\ c.open = h.open
      /\ DOMAIN c.obj = DOMAIN h.obj \cup {x}
      /\ c.obj[x] = [fd |-> h.obj[y].fd, should_close |-> TRUE]
      /\ \A z \in DOMAIN h.obj \ {x} : c.obj[z] = h.obj[z]
  BY <1>1, ConstructShape
<1>3. MoveConstruct(h, x, y) = Disown(c, y)
  BY DEF MoveConstruct
<1> HIDE DEF c
<1>4. /\ IsHeap(Disown(c, y), Name, Fd)
      /\ Disown(c, y).open = c.open
      /\ DOMAIN Disown(c, y).obj = DOMAIN c.obj
      /\ Disown(c, y).obj[y] = [fd |-> c.obj[y].fd, should_close |-> FALSE]
      /\ \A z \in DOMAIN c.obj \ {y} : Disown(c, y).obj[z] = c.obj[z]
  BY <1>2, DisownShape
<1> QED
  BY <1>2, <1>3, <1>4

\* An object that holds nothing is moved into.
LEMMA MoveAssignShape ==
  ASSUME NEW h, NEW Name, NEW Fd, IsHeap(h, Name, Fd), NEW x \in DOMAIN h.obj,
         NEW y \in DOMAIN h.obj, x # y, h.obj[x].fd = Invalid
  PROVE  LET c == MoveAssign(h, x, y) IN
         /\ IsHeap(c, Name, Fd)
         /\ c.open = h.open
         /\ DOMAIN c.obj = DOMAIN h.obj
         /\ c.obj[x] = [fd |-> h.obj[y].fd, should_close |-> h.obj[x].should_close]
         /\ c.obj[y] = [fd |-> h.obj[y].fd, should_close |-> FALSE]
         /\ \A z \in DOMAIN h.obj \ {x, y} : c.obj[z] = h.obj[z]
<1> DEFINE c == [h EXCEPT !.obj[x].fd = h.obj[y].fd]
<1>1. Close(h, x) = h
  BY DEF Close, Owns, WillClose
<1>2. /\ IsHeap(c, Name, Fd)
      /\ c.open = h.open
      /\ DOMAIN c.obj = DOMAIN h.obj
      /\ c.obj[x] = [fd |-> h.obj[y].fd, should_close |-> h.obj[x].should_close]
      /\ \A z \in DOMAIN h.obj \ {x} : c.obj[z] = h.obj[z]
  BY DEF IsHeap, Object
<1>3. MoveAssign(h, x, y) = Disown(c, y)
  BY <1>1 DEF MoveAssign
<1> HIDE DEF c
<1>4. /\ IsHeap(Disown(c, y), Name, Fd)
      /\ Disown(c, y).open = c.open
      /\ DOMAIN Disown(c, y).obj = DOMAIN c.obj
      /\ Disown(c, y).obj[y] = [fd |-> c.obj[y].fd, should_close |-> FALSE]
      /\ \A z \in DOMAIN c.obj \ {y} : Disown(c, y).obj[z] = c.obj[z]
  BY <1>2, DisownShape
<1> QED
  BY <1>2, <1>3, <1>4

-----------------------------------------------------------------------------
(* Ownership. *)

\* A new object without a descriptor owns nothing.
THEOREM ConstructOwned ==
  ASSUME NEW h, NEW Name, NEW Fd, IsHeap(h, Name, Fd), AllOwned(h),
         NEW x \in Name, x \notin DOMAIN h.obj
  PROVE  AllOwned(Construct(h, x, Invalid))
<1> DEFINE c == Construct(h, x, Invalid)
<1>1. /\ c.open = h.open
      /\ DOMAIN c.obj = DOMAIN h.obj \cup {x}
      /\ c.obj[x] = [fd |-> Invalid, should_close |-> TRUE]
      /\ \A y \in DOMAIN h.obj \ {x} : c.obj[y] = h.obj[y]
  BY ConstructShape
<1> HIDE DEF c
<1> QED
  BY <1>1 DEF AllOwned, Owns, WillClose, c

\* A new object with a descriptor that was not open owns it.
THEOREM OpenOwned ==
  ASSUME NEW h, NEW Name, NEW Fd, IsHeap(h, Name, Fd), AllOwned(h),
         NEW x \in Name, x \notin DOMAIN h.obj, NEW fd \in Fd \ h.open, fd # Invalid
  PROVE  AllOwned(Open(h, x, fd))
<1> DEFINE c == Open(h, x, fd)
<1>1. /\ c.open = h.open \cup {fd}
      /\ DOMAIN c.obj = DOMAIN h.obj \cup {x}
      /\ c.obj[x] = [fd |-> fd, should_close |-> TRUE]
      /\ \A y \in DOMAIN h.obj \ {x} : c.obj[y] = h.obj[y]
  BY OpenShape
<1> HIDE DEF c
<1> QED
  BY <1>1 DEF AllOwned, Owns, WillClose, c

\* When objects end, their descriptors are closed with them and no others.
THEOREM DestroyOwned ==
  ASSUME NEW h, NEW Name, NEW Fd, IsHeap(h, Name, Fd), AllOwned(h), NEW xs
  PROVE  AllOwned(Destroy(h, xs))
<1> DEFINE c == Destroy(h, xs)
<1>1. /\ c.open = h.open \ {h.obj[x].fd : x \in {y \in DOMAIN h.obj \cap xs : Owns(h, y)}}
      /\ DOMAIN c.obj = DOMAIN h.obj \ xs
      /\ \A y \in DOMAIN h.obj \ xs : c.obj[y] = h.obj[y]
  BY DestroyShape
<1> HIDE DEF c
<1>2. \A x \in DOMAIN c.obj : Owns(c, x) => c.obj[x].fd \in c.open
  BY <1>1 DEF AllOwned, Owns
<1>3. \A x, y \in DOMAIN c.obj : Owns(c, x) /\ Owns(c, y) /\ c.obj[x].fd = c.obj[y].fd => x = y
  BY <1>1 DEF AllOwned, Owns
<1>4. \A f \in c.open : \E x \in DOMAIN c.obj : Owns(c, x) /\ c.obj[x].fd = f
  BY <1>1 DEF AllOwned, Owns
<1> QED
  BY <1>2, <1>3, <1>4 DEF AllOwned, c

\* Moving what is owned into a new object moves the ownership.
THEOREM MoveConstructOwned ==
  ASSUME NEW h, NEW Name, NEW Fd, IsHeap(h, Name, Fd), AllOwned(h),
         NEW x \in Name, x \notin DOMAIN h.obj, NEW y \in DOMAIN h.obj, Owns(h, y)
  PROVE  AllOwned(MoveConstruct(h, x, y))
<1> DEFINE c == MoveConstruct(h, x, y)
<1>1. /\ c.open = h.open
      /\ DOMAIN c.obj = DOMAIN h.obj \cup {x}
      /\ c.obj[x] = [fd |-> h.obj[y].fd, should_close |-> TRUE]
      /\ c.obj[y] = [fd |-> h.obj[y].fd, should_close |-> FALSE]
      /\ \A z \in DOMAIN h.obj \ {x, y} : c.obj[z] = h.obj[z]
  BY MoveConstructShape
<1> HIDE DEF c
<1> QED
  BY <1>1 DEF AllOwned, Owns, WillClose, c

\* So does moving it into an object that holds nothing, provided that object
\* still has its right to close.
THEOREM MoveAssignOwned ==
  ASSUME NEW h, NEW Name, NEW Fd, IsHeap(h, Name, Fd), AllOwned(h),
         NEW x \in DOMAIN h.obj, h.obj[x].fd = Invalid, h.obj[x].should_close = TRUE,
         NEW y \in DOMAIN h.obj, x # y, Owns(h, y)
  PROVE  AllOwned(MoveAssign(h, x, y))
<1> DEFINE c == MoveAssign(h, x, y)
<1>1. /\ c.open = h.open
      /\ DOMAIN c.obj = DOMAIN h.obj
      /\ c.obj[x] = [fd |-> h.obj[y].fd, should_close |-> h.obj[x].should_close]
      /\ c.obj[y] = [fd |-> h.obj[y].fd, should_close |-> FALSE]
      /\ \A z \in DOMAIN h.obj \ {x, y} : c.obj[z] = h.obj[z]
  BY MoveAssignShape
<1> HIDE DEF c
<1> QED
  BY <1>1 DEF AllOwned, Owns, WillClose, c
=============================================================================
