--------------------------- MODULE ChatTasks_proofs ---------------------------
(***************************************************************************)
(* Proofs about ChatTasks, for any set of network tasks and any messages.  *)
(***************************************************************************)
EXTENDS ChatTasks, TLAPS

\* Nobody holds the quit message, and the slot does not contain it, before
\* the io task has posted it and stopped: from then on only network tasks
\* write the slot, and the one that took the message will put it back.
QuitKnown ==
  /\ slot = Quit => io = "done"
  /\ \A t \in NetTask :
       /\ got[t] = Quit => io = "done"
       /\ pc[t] = "requeue" => got[t] = Quit

IInv == TypeOK /\ QuitNeverLost /\ QuitKnown

LEMMA InitIInv == Init => IInv
<1> SUFFICES ASSUME Init PROVE IInv
  OBVIOUS
<1>1. TypeOK
  <2>1. eof \in BOOLEAN /\ joined \in BOOLEAN
    BY DEF Init
  <2>2. slot \in Message /\ line \in Message /\ got \in [NetTask -> Message]
    BY DEF Init, Message
  <2>3. io \in {"getline", "chat", "done"} /\ pc \in [NetTask -> TaskPc]
    BY DEF Init, TaskPc
  <2>4. typed \in 0..MaxLines
    BY MaxLinesAssumption DEF Init
  <2> QED
    BY <2>1, <2>2, <2>3, <2>4 DEF TypeOK
<1>2. QuitNeverLost
  BY DEF Init, QuitNeverLost
<1>3. QuitKnown
  BY MessageAssumption DEF Init, QuitKnown
<1> QED
  BY <1>1, <1>2, <1>3 DEF IInv

\* The type invariant is preserved by every action on its own.
LEMMA TypeInductive == TypeOK /\ [Next]_vars => TypeOK'
<1> SUFFICES ASSUME TypeOK, [Next]_vars PROVE TypeOK'
  OBVIOUS
<1> USE MaxLinesAssumption DEF TypeOK, Message, TaskPc, Finished, Goto
<1>1. CASE ReadLine
  BY <1>1 DEF ReadLine
<1>2. CASE ReadPastEnd
  BY <1>2 DEF ReadPastEnd
<1>3. CASE PostLine
  BY <1>3 DEF PostLine
<1>4. CASE \E t \in NetTask : TaskStep(t)
  <2>1. PICK t \in NetTask : TaskStep(t)
    BY <1>4
  <2>2. CASE Start(t)
    BY <2>2 DEF Start
  <2>3. CASE Check(t)
    BY <2>3 DEF Check
  <2>4. CASE LaunchAndReceive(t)
    BY <2>4 DEF LaunchAndReceive
  <2>5. CASE TakeMessage(t)
    BY <2>5 DEF TakeMessage
  <2>6. CASE SendMessage(t)
    BY <2>6 DEF SendMessage
  <2>7. CASE PutQuitBack(t)
    BY <2>7 DEF PutQuitBack
  <2> QED
    BY <2>1, <2>2, <2>3, <2>4, <2>5, <2>6, <2>7 DEF TaskStep
<1>5. CASE Join
  BY <1>5 DEF Join
<1>6. CASE UNCHANGED vars
  BY <1>6 DEF vars
<1> QED
  BY <1>1, <1>2, <1>3, <1>4, <1>5, <1>6 DEF Next

LEMMA QuitInductive ==
  ASSUME TypeOK, QuitNeverLost, QuitKnown, [Next]_vars
  PROVE  QuitNeverLost' /\ QuitKnown'
<1> USE MessageAssumption DEF TypeOK, QuitNeverLost, QuitKnown, Message, TaskPc, Finished, Goto
<1>1. CASE ReadLine
  BY <1>1 DEF ReadLine
<1>2. CASE ReadPastEnd
  BY <1>2 DEF ReadPastEnd
<1>3. CASE PostLine
  BY <1>3 DEF PostLine
<1>4. CASE \E t \in NetTask : TaskStep(t)
  <2>1. PICK t \in NetTask : TaskStep(t)
    BY <1>4
  <2>2. CASE Start(t)
    BY <2>2 DEF Start
  <2>3. CASE Check(t)
    BY <2>3 DEF Check
  <2>4. CASE LaunchAndReceive(t)
    BY <2>4 DEF LaunchAndReceive
  <2>5. CASE TakeMessage(t)
    BY <2>5 DEF TakeMessage
  <2>6. CASE SendMessage(t)
    BY <2>6 DEF SendMessage
  <2>7. CASE PutQuitBack(t)
    BY <2>7 DEF PutQuitBack
  <2> QED
    BY <2>1, <2>2, <2>3, <2>4, <2>5, <2>6, <2>7 DEF TaskStep
<1>5. CASE Join
  BY <1>5 DEF Join
<1>6. CASE UNCHANGED vars
  BY <1>6 DEF vars
<1> QED
  BY <1>1, <1>2, <1>3, <1>4, <1>5, <1>6 DEF Next

LEMMA Inductive == IInv /\ [Next]_vars => IInv'
BY TypeInductive, QuitInductive DEF IInv

\* The type invariant of the program's threads and of the slot they share.
THEOREM TypeCorrect == Spec => []TypeOK
<1>1. Init => TypeOK
  BY InitIInv DEF IInv
<1> QED
  BY <1>1, TypeInductive, PTL DEF Spec

\* Whatever the number of network tasks, chat()'s exchange and chatOrQuit()'s
\* put-back never lose a quit message that the io task has posted.
THEOREM QuitIsNeverLost == Spec => []QuitNeverLost
<1>1. IInv => QuitNeverLost
  BY DEF IInv
<1> QED
  BY <1>1, InitIInv, Inductive, PTL DEF Spec

-----------------------------------------------------------------------------
(* The refinement, safety part: ChatTasks implements QuitBroadcast. *)

\* The threads start as the broadcast does: nobody asked, everybody running.
LEMMA InitRefines == Init => Abstract!Init
BY DEF Init, Abstract!Init, Outcome, Finished

\* Each step of a thread is a step of the broadcast or leaves it alone: only
\* PostLine asks, Check ends a task for a reason, a throw fails one, Join returns.
LEMMA StepRefines ==
  ASSUME TypeOK, QuitKnown, [Next]_vars
  PROVE  [Abstract!Next]_(Abstract!vars)
<1> DEFINE out == [t \in NetTask |-> Outcome(pc[t])]
<1> DEFINE Over == Finished \cup {"hung"}
<1> USE DEF Outcome, Finished, Abstract!vars
<1>1. CASE ReadLine
  BY <1>1 DEF ReadLine
<1>2. CASE ReadPastEnd
  BY <1>2 DEF ReadPastEnd
<1>3. CASE PostLine
  BY <1>3 DEF PostLine, Abstract!Next, Abstract!Ask
<1>4. CASE \E t \in NetTask : TaskStep(t)
  <2>1. PICK t \in NetTask : TaskStep(t)
    BY <1>4
  <2>2. ASSUME NEW label \in TaskPc \ Over, pc[t] \notin Over, Goto(t, label)
        PROVE  out' = out
    BY <2>2 DEF Goto, TypeOK, TaskPc
  <2>3. ASSUME NEW label \in Over, pc[t] \notin Over, Goto(t, label)
        PROVE  out' = [out EXCEPT ![t] = label] /\ out[t] = "running"
    BY <2>3 DEF Goto, TypeOK, TaskPc
  <2>4. CASE Start(t)
    <3>1. CASE Goto(t, "check")
      BY <2>2, <2>4, <3>1 DEF Start, TaskPc
    <3>2. CASE Goto(t, "failed")
      BY <2>3, <2>4, <3>2 DEF Start, Abstract!Next, Abstract!Fail
    <3> QED
      BY <2>4, <3>1, <3>2 DEF Start
  <2>5. CASE Check(t)
    <3>1. CASE Goto(t, "receive")
      BY <2>2, <2>5, <3>1 DEF Check, TaskPc
    <3>2. CASE (got[t] = Quit \/ t \in Mortal) /\ Goto(t, "ended")
      BY <2>3, <2>5, <3>2 DEF Check, QuitKnown, Abstract!Next, Abstract!End
    <3> QED
      BY <2>5, <3>1, <3>2 DEF Check
  <2>6. CASE LaunchAndReceive(t)
    <3>1. CASE Goto(t, "chat")
      BY <2>2, <2>6, <3>1 DEF LaunchAndReceive, TaskPc
    <3>2. CASE Goto(t, "failed")
      BY <2>3, <2>6, <3>2 DEF LaunchAndReceive, Abstract!Next, Abstract!Fail
    <3>3. CASE Goto(t, "hung")
      BY <2>3, <2>6, <3>3 DEF LaunchAndReceive, Abstract!Next, Abstract!Hang
    <3> QED
      BY <2>6, <3>1, <3>2, <3>3 DEF LaunchAndReceive
  <2>7. CASE TakeMessage(t)
    BY <2>2, <2>7 DEF TakeMessage, TaskPc
  <2>8. CASE SendMessage(t)
    <3>1. CASE Goto(t, "check")
      BY <2>2, <2>8, <3>1 DEF SendMessage, TaskPc
    <3>2. CASE Goto(t, "failed")
      BY <2>3, <2>8, <3>2 DEF SendMessage, Abstract!Next, Abstract!Fail
    <3>3. CASE Goto(t, "hung")
      BY <2>3, <2>8, <3>3 DEF SendMessage, Abstract!Next, Abstract!Hang
    <3> QED
      BY <2>8, <3>1, <3>2, <3>3 DEF SendMessage
  <2>9. CASE PutQuitBack(t)
    BY <2>2, <2>9 DEF PutQuitBack, TaskPc
  <2> QED
    BY <2>1, <2>4, <2>5, <2>6, <2>7, <2>8, <2>9 DEF TaskStep
<1>5. CASE Join
  BY <1>5 DEF Join, Abstract!Next, Abstract!Return
<1>6. CASE UNCHANGED vars
  BY <1>6 DEF vars
<1> QED
  BY <1>1, <1>2, <1>3, <1>4, <1>5, <1>6 DEF Next

\* The io task, the slot and the network tasks implement the broadcast of the
\* quit message: nobody but a mortal task ends by itself before it was asked.
THEOREM RefinesBroadcast == Spec => Abstract!Spec
<1>1. IInv /\ [Next]_vars => [Abstract!Next]_(Abstract!vars)
  BY StepRefines DEF IInv
<1> QED
  BY <1>1, InitIInv, Inductive, InitRefines, PTL DEF Spec, Abstract!Spec
=============================================================================
