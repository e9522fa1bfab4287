---------------------------- MODULE ThreadsProofs ----------------------------
(***************************************************************************)
(* Safety of the two threads with a queue, Dispatcher and DatabaseTasks,   *)
(* for every set of tasks, queries and posting threads.                    *)
(***************************************************************************)
EXTENDS Dispatcher, DatabaseTasks, TLAPS, SequenceTheorems, FiniteSetTheorems

-------------------------------------------------------------------------------
(***************************************************************************)
(* Safety of the dispatcher for every set of tasks and of posting threads. *)
(*                                                                         *)
(* Inv is the inductive invariant.  InOrder needs Control to know that the *)
(* batch is used up whenever the list is taken; DrainedAtExit needs to     *)
(* know that the terminating task is the last one accepted (LastTask) and  *)
(* that nothing is accepted twice (Once).                                  *)
(***************************************************************************)

-------------------------------------------------------------------------------
(* Sequences *)

LEMMA AppendInSeq ==
  ASSUME NEW S, NEW s \in Seq(S), NEW e \in S
  PROVE  /\ Append(s, e) \in Seq(S)
         /\ Len(Append(s, e)) = Len(s) + 1
         /\ Append(s, e) # <<>>
         /\ Elements(Append(s, e)) = Elements(s) \cup {e}
         /\ \A i \in 1..Len(s) : Append(s, e)[i] = s[i]
         /\ Append(s, e)[Len(s) + 1] = e
<1>1. /\ Append(s, e) \in Seq(S)
      /\ Len(Append(s, e)) = Len(s) + 1
      /\ \A i \in 1..Len(s) : Append(s, e)[i] = s[i]
      /\ Append(s, e)[Len(s) + 1] = e
  OBVIOUS
<1>2. Append(s, e) # <<>>
  BY <1>1
<1>3. DOMAIN s = 1..Len(s) /\ DOMAIN Append(s, e) = 1..(Len(s) + 1) /\ Len(s) \in Nat
  BY <1>1
<1>4. Elements(Append(s, e)) = Elements(s) \cup {e}
  BY <1>1, <1>3 DEF Elements
<1>5. QED BY <1>1, <1>2, <1>4

LEMMA HeadTail ==
  ASSUME NEW S, NEW s \in Seq(S), s # <<>>
  PROVE  /\ Head(s) \in S
         /\ Tail(s) \in Seq(S)
         /\ Len(s) \in Nat \ {0}
         /\ Len(Tail(s)) = Len(s) - 1
         /\ Head(s) = s[1]
         /\ \A i \in 1..Len(s) - 1 : Tail(s)[i] = s[i + 1]
OBVIOUS

\* What a push does to the history.
LEMMA PushAtEnd ==
  ASSUME NEW S, NEW f \in Seq(S), NEW b \in Seq(S), NEW l \in Seq(S), NEW e \in S
  PROVE  (f \o b \o l) \o <<e>> = f \o b \o (l \o <<e>>)
<1> DEFINE h == f \o b  L == (h \o l) \o <<e>>  R == h \o (l \o <<e>>)
<1>1. h \in Seq(S) /\ <<e>> \in Seq(S) /\ Len(<<e>>) = 1 /\ <<e>>[1] = e
  OBVIOUS
<1> HIDE DEF h
<1>2. /\ h \o l \in Seq(S) /\ Len(h \o l) = Len(h) + Len(l)
      /\ l \o <<e>> \in Seq(S) /\ Len(l \o <<e>>) = Len(l) + 1
      /\ Len(h) \in Nat /\ Len(l) \in Nat
  BY <1>1, ConcatProperties
<1>3. /\ L \in Seq(S) /\ Len(L) = Len(h) + Len(l) + 1
      /\ R \in Seq(S) /\ Len(R) = Len(h) + Len(l) + 1
  BY <1>1, <1>2, ConcatProperties
<1>4. ASSUME NEW i \in 1..Len(L)
      PROVE  L[i] = R[i]
  BY <1>1, <1>2, <1>3, ConcatProperties
<1>5. L = R
  BY <1>3, <1>4, SeqEqual
<1>6. QED BY <1>5 DEF h

LEMMA OneIsLeft ==
  ASSUME NEW n \in Nat, NEW x \in Nat, NEW y \in Nat, x # 0, n + x + y = n + 1
  PROVE  x = 1 /\ y = 0
OBVIOUS

\* A history with one unfinished task has it in the batch.
LEMMA OneLeft ==
  ASSUME NEW S, NEW b \in Seq(S), NEW l \in Seq(S), NEW n \in Nat,
         b # <<>>, n + Len(b) + Len(l) = n + 1
  PROVE  l = <<>> /\ Tail(b) = <<>>
<1>1. Len(b) \in Nat /\ Len(l) \in Nat /\ Len(b) # 0
  OBVIOUS
<1>2. Len(b) = 1 /\ Len(l) = 0
  BY <1>1, OneIsLeft
<1>3. Tail(b) \in Seq(S) /\ Len(Tail(b)) = 0
  BY <1>2, HeadTail
<1>4. QED BY <1>2, <1>3, EmptySeq

\* What the end of a task does to it.
LEMMA HeadMoves ==
  ASSUME NEW S, NEW f \in Seq(S), NEW b \in Seq(S), b # <<>>
  PROVE  f \o b = Append(f, Head(b)) \o Tail(b)
<1> DEFINE L == f \o b  R == Append(f, Head(b)) \o Tail(b)
<1>1. /\ Append(f, Head(b)) \in Seq(S)
      /\ Len(Append(f, Head(b))) = Len(f) + 1
      /\ \A i \in 1..Len(f) : Append(f, Head(b))[i] = f[i]
      /\ Append(f, Head(b))[Len(f) + 1] = b[1]
  BY HeadTail, AppendInSeq
<1>2. L \in Seq(S) /\ R \in Seq(S) /\ Len(L) = Len(R)
  BY <1>1, HeadTail, ConcatProperties
<1>3. \A i \in 1..Len(L) : L[i] = R[i]
  <2> SUFFICES ASSUME NEW i \in 1..Len(L) PROVE L[i] = R[i]
    OBVIOUS
  <2>0. /\ Len(f) \in Nat /\ Len(b) \in Nat \ {0} /\ i \in Nat
        /\ Len(L) = Len(f) + Len(b)
    BY HeadTail, ConcatProperties
  <2>1. L[i] = IF i <= Len(f) THEN f[i] ELSE b[i - Len(f)]
    BY <2>0, ConcatProperties
  <2>2. R[i] = IF i <= Len(f) + 1 THEN Append(f, Head(b))[i] ELSE Tail(b)[i - (Len(f) + 1)]
    BY <2>0, <1>1, HeadTail, ConcatProperties
  <2>3. CASE i <= Len(f)
    BY <2>0, <2>1, <2>2, <2>3, <1>1
  <2>4. CASE i = Len(f) + 1
    BY <2>0, <2>1, <2>2, <2>4, <1>1
  <2>5. CASE i > Len(f) + 1
    <3>1. i - (Len(f) + 1) \in 1..Len(b) - 1
      BY <2>0, <2>5
    <3>2. Tail(b)[i - (Len(f) + 1)] = b[i - (Len(f) + 1) + 1]
      BY <3>1, HeadTail
    <3>3. i - (Len(f) + 1) + 1 = i - Len(f)
      BY <2>0
    <3>4. QED BY <2>0, <2>1, <2>2, <2>5, <3>2, <3>3
  <2>6. QED BY <2>0, <2>3, <2>4, <2>5
<1>4. QED BY <1>2, <1>3, SeqEqual

-------------------------------------------------------------------------------
(* The inductive invariant *)

\* The batch is empty whenever threadMain is about to take the list, and the
\* task that is running is the head of the batch.
Control ==
  /\ worker \in {"check", "lock", "wait", "woken", "exit"} => batch = <<>>
  /\ worker \in {"exec", "stopping"} => batch # <<>>

\* No task is accepted twice.
Once == \A i, j \in 1..Len(accepted) : accepted[i] = accepted[j] => i = j

\* In an ordered shutdown the terminating task comes from Game::shutdown, when
\* the list is closed: it stays the last task accepted, and once it has run
\* nothing is left.
LastTask ==
  /\ aborted => Fresh(GameShutdown)
  /\ ~aborted /\ ~Fresh(Terminator) =>
       /\ accepted[Len(accepted)] = Terminator
       /\ threadState # "RUNNING"
       /\ GameShutdown \in Elements(finished)
       /\ worker # "stopping"
  /\ ~aborted /\ threadState # "RUNNING" => ~Fresh(GameShutdown)
  /\ ~aborted /\ ~Fresh(GameShutdown) =>
       threadState # "RUNNING" \/ worker = "stopping"
  /\ ~aborted /\ threadState = "TERMINATED" =>
       taskList = <<>> /\ batch = <<>> /\ ~Fresh(Terminator)
  /\ worker = "exit" => threadState = "TERMINATED"
  /\ worker = "stopping" =>
       ~aborted /\ ~Fresh(GameShutdown) /\ threadState = "RUNNING"

Inv == TypeOK /\ InOrder /\ NoLostWakeup /\ Control /\ Once /\ LastTask

-------------------------------------------------------------------------------
(* Steps that push a task *)

LEMMA PushInOrder ==
  ASSUME TypeOK, InOrder, NEW t \in AnyTask, Push(t), UNCHANGED <<finished, batch>>
  PROVE  InOrder'
<1>1. /\ finished \in Seq(AnyTask) /\ batch \in Seq(AnyTask)
      /\ taskList \in Seq(AnyTask) /\ t \in AnyTask
  BY DEF TypeOK
<1>2. (finished \o batch \o taskList) \o <<t>> = finished \o batch \o (taskList \o <<t>>)
  BY <1>1, PushAtEnd
<1>3. Append(taskList, t) = taskList \o <<t>> /\ Append(accepted, t) = accepted \o <<t>>
  BY DEF TypeOK
<1>4. QED BY <1>2, <1>3 DEF InOrder, Push

LEMMA PushOnce ==
  ASSUME TypeOK, Once, NEW t \in AnyTask, Fresh(t), accepted' = Append(accepted, t)
  PROVE  Once'
<1>1. /\ Len(accepted') = Len(accepted) + 1
      /\ Len(accepted) \in Nat
      /\ \A i \in 1..Len(accepted) : accepted'[i] = accepted[i]
      /\ accepted'[Len(accepted) + 1] = t
      /\ DOMAIN accepted = 1..Len(accepted)
  <2>1. accepted \in Seq(AnyTask)
    BY DEF TypeOK
  <2>2. QED BY <2>1, AppendInSeq
<1>2. \A i \in 1..Len(accepted) : accepted[i] # t
  BY <1>1 DEF Fresh, Elements
<1>3. QED BY <1>1, <1>2 DEF Once

LEMMA PushElements ==
  ASSUME TypeOK, NEW t \in AnyTask, accepted' = Append(accepted, t)
  PROVE  Elements(accepted') = Elements(accepted) \cup {t}
<1>1. accepted \in Seq(AnyTask)
  BY DEF TypeOK
<1>2. Elements(Append(accepted, t)) = Elements(accepted) \cup {t}
  BY <1>1, AppendInSeq
<1>3. QED BY <1>2

\* Steps that end a task.
LEMMA FinishInOrder ==
  ASSUME TypeOK, InOrder, Finish, batch # <<>>, UNCHANGED <<accepted, taskList>>
  PROVE  InOrder'
<1>1. finished \in Seq(AnyTask) /\ batch \in Seq(AnyTask)
  BY DEF TypeOK
<1>2. finished \o batch = Append(finished, Head(batch)) \o Tail(batch)
  BY <1>1, HeadMoves
<1>3. QED BY <1>2 DEF InOrder, Finish

\* A step that pushes a task and ends another.
LEMMA PushFinishInOrder ==
  ASSUME TypeOK, InOrder, NEW t \in AnyTask, Push(t), Finish, batch # <<>>
  PROVE  InOrder'
<1>1. /\ finished \in Seq(AnyTask) /\ batch \in Seq(AnyTask)
      /\ taskList \in Seq(AnyTask) /\ t \in AnyTask
  BY DEF TypeOK
<1>2. (finished \o batch \o taskList) \o <<t>> = finished \o batch \o (taskList \o <<t>>)
  BY <1>1, PushAtEnd
<1>3. accepted \in Seq(AnyTask) /\ taskList \in Seq(AnyTask)
  BY DEF TypeOK
<1>4. Append(taskList, t) = taskList \o <<t>> /\ Append(accepted, t) = accepted \o <<t>>
  BY <1>3, AppendIsConcat
<1>5. finished \o batch = Append(finished, Head(batch)) \o Tail(batch)
  BY <1>1, HeadMoves
<1>6. QED BY <1>2, <1>4, <1>5 DEF InOrder, Push, Finish

\* Where the history stands: the running task is the first one not finished.
LEMMA Positions ==
  ASSUME TypeOK, InOrder
  PROVE  /\ Elements(finished) \subseteq Elements(accepted)
         /\ Len(accepted) = Len(finished) + Len(batch) + Len(taskList)
         /\ DOMAIN accepted = 1..Len(accepted)
         /\ Len(finished) \in Nat /\ Len(batch) \in Nat /\ Len(taskList) \in Nat
         /\ \A i \in 1..Len(finished) : accepted[i] = finished[i]
         /\ batch # <<>> => /\ accepted[Len(finished) + 1] = Head(batch)
                            /\ Head(batch) \in Elements(accepted)
<1>1. /\ finished \in Seq(AnyTask) /\ batch \in Seq(AnyTask)
      /\ taskList \in Seq(AnyTask) /\ accepted \in Seq(AnyTask)
      /\ accepted = finished \o batch \o taskList
  BY DEF TypeOK, InOrder
<1>2. /\ Len(finished) \in Nat /\ Len(batch) \in Nat /\ Len(taskList) \in Nat
      /\ DOMAIN finished = 1..Len(finished)
      /\ DOMAIN accepted = 1..Len(accepted)
  BY <1>1
<1>3. /\ Len(accepted) = Len(finished) + Len(batch) + Len(taskList)
      /\ \A i \in 1..Len(finished) : accepted[i] = finished[i]
      /\ batch # <<>> => accepted[Len(finished) + 1] = batch[1]
  BY <1>1, <1>2
<1>4. Elements(finished) \subseteq Elements(accepted)
  BY <1>2, <1>3 DEF Elements
<1>5. ASSUME batch # <<>>
      PROVE  accepted[Len(finished) + 1] = Head(batch) /\ Head(batch) \in Elements(accepted)
  <2>1. Len(batch) >= 1 /\ Head(batch) = batch[1]
    BY <1>1, <1>5
  <2>2. Len(finished) + 1 \in DOMAIN accepted
    BY <1>2, <1>3, <2>1
  <2>3. QED BY <1>3, <1>5, <2>1, <2>2 DEF Elements
<1>6. QED BY <1>2, <1>3, <1>4, <1>5

LEMMA FinishElements ==
  ASSUME TypeOK, Finish, batch # <<>>
  PROVE  Elements(finished') = Elements(finished) \cup {Head(batch)}
<1>1. finished \in Seq(AnyTask) /\ Head(batch) \in AnyTask
  BY HeadTail DEF TypeOK
<1>2. Elements(Append(finished, Head(batch))) = Elements(finished) \cup {Head(batch)}
  BY <1>1, AppendInSeq
<1>3. QED BY <1>2 DEF Finish

-------------------------------------------------------------------------------
(* The invariant is inductive *)

LEMMA InitInv == Init => Inv
<1> SUFFICES ASSUME Init PROVE Inv
  OBVIOUS
<1>0. <<>> \in Seq(AnyTask)
  OBVIOUS
<1>1. TypeOK /\ Control /\ NoLostWakeup
  BY <1>0 DEF Init, TypeOK, Control, NoLostWakeup
<1>2. InOrder
  BY DEF Init, InOrder
<1>3. Once /\ LastTask
  BY DEF Init, Once, LastTask, Fresh, Elements
<1>4. QED BY <1>1, <1>2, <1>3 DEF Inv

\* Steps that only move the worker or a poster.
LEMMA QuietStep ==
  ASSUME Inv,
         \/ \E p \in Poster : Notify(p)
         \/ CheckState \/ BeginTask \/ EndBatch \/ SpuriousWakeup
  PROVE  Inv'
<1> USE DEF Inv, Notify, CheckState, BeginTask, EndBatch, SpuriousWakeup
<1>1. TypeOK' /\ Control'
  BY DEF TypeOK, Control
<1>2. InOrder' /\ Once'
  BY DEF InOrder, Once
<1>3. NoLostWakeup'
  BY DEF TypeOK, NoLostWakeup
<1>4. LastTask'
  BY DEF TypeOK, Control, LastTask, Fresh
<1>5. QED BY <1>1, <1>2, <1>3, <1>4

LEMMA AddTaskStep ==
  ASSUME Inv, NEW p \in Poster, NEW t \in Task, AddTask(p, t)
  PROVE  Inv'
<1> USE DEF Inv, AddTask, Accepts, DoSignal
<1>0. t \in AnyTask /\ t # Terminator /\ t # GameShutdown
  BY DispatcherAssumption DEF AnyTask
<1>1. TypeOK' /\ Control'
  BY <1>0 DEF TypeOK, Control, Push
<1>2. InOrder'
  BY <1>0, PushInOrder
<1>3. Once'
  BY <1>0, PushOnce DEF Push
<1>4. NoLostWakeup'
  BY DEF TypeOK, NoLostWakeup, Push
<1>5. Elements(accepted') = Elements(accepted) \cup {t}
  BY <1>0, PushElements DEF Push
<1>6. LastTask'
  BY <1>0, <1>5 DEF TypeOK, LastTask, Fresh, Push
<1>7. QED BY <1>1, <1>2, <1>3, <1>4, <1>6

LEMMA AddTaskFromTaskStep ==
  ASSUME Inv, NEW t \in Task, AddTaskFromTask(t)
  PROVE  Inv'
<1> USE DEF Inv, AddTaskFromTask, Accepts
<1>0. t \in AnyTask /\ t # Terminator /\ t # GameShutdown
  BY DispatcherAssumption DEF AnyTask
<1>1. TypeOK' /\ Control' /\ NoLostWakeup'
  BY <1>0 DEF TypeOK, Control, Push, NoLostWakeup
<1>2. InOrder'
  BY <1>0, PushInOrder
<1>3. Once'
  BY <1>0, PushOnce DEF Push
<1>5. Elements(accepted') = Elements(accepted) \cup {t}
  BY <1>0, PushElements DEF Push
<1>6. LastTask'
  BY <1>0, <1>5 DEF TypeOK, LastTask, Fresh, Push
<1>7. QED BY <1>1, <1>2, <1>3, <1>6

LEMMA TakeStep ==
  ASSUME Inv, TakeTasks \/ TakeAfterWait
  PROVE  Inv'
<1> USE DEF Inv, TakeTasks, TakeAfterWait, Swap
<1>1. TypeOK' /\ Control' /\ NoLostWakeup'
  BY DEF TypeOK, Control, NoLostWakeup
<1>2. InOrder'
  <2>1. batch = <<>>
    BY DEF Control
  <2>2. finished \o <<>> \o taskList = finished \o taskList \o <<>>
    BY ConcatEmptySeq DEF TypeOK
  <2>3. QED BY <2>1, <2>2 DEF InOrder
<1>3. Once' /\ LastTask'
  BY DEF Once, TypeOK, LastTask, Fresh, Control
<1>4. QED BY <1>1, <1>2, <1>3

LEMMA EndTaskStep ==
  ASSUME Inv, EndTask \/ DropExpired
  PROVE  Inv'
<1> USE DEF Inv, EndTask, DropExpired
<1>0. batch # <<>> /\ Finish
  BY DEF Control
<1>1. TypeOK' /\ Control' /\ NoLostWakeup'
  BY <1>0, HeadTail, AppendInSeq DEF TypeOK, Control, NoLostWakeup, Finish
<1>2. InOrder'
  BY <1>0, FinishInOrder
<1>3. Once'
  BY DEF Once
<1>4. Elements(finished') = Elements(finished) \cup {Head(batch)}
  BY <1>0, FinishElements
<1>5. LastTask'
  BY <1>0, <1>4 DEF TypeOK, LastTask, Fresh
<1>6. QED BY <1>1, <1>2, <1>3, <1>5

LEMMA RequestShutdownStep ==
  ASSUME Inv, RequestShutdown
  PROVE  Inv'
<1> USE DEF Inv, RequestShutdown
<1>0. GameShutdown \in AnyTask /\ GameShutdown # Terminator
  BY DispatcherAssumption DEF AnyTask
<1>1. TypeOK' /\ Control' /\ NoLostWakeup'
  BY <1>0 DEF TypeOK, Control, Push, NoLostWakeup
<1>2. InOrder'
  BY <1>0, PushInOrder
<1>3. Once'
  BY <1>0, PushOnce DEF Push
<1>4. Elements(accepted') = Elements(accepted) \cup {GameShutdown}
  BY <1>0, PushElements DEF Push
<1>5. threadState = "RUNNING" /\ Fresh(Terminator)
  BY Positions DEF LastTask, Fresh, TypeOK
<1>6. LastTask'
  BY <1>0, <1>4, <1>5 DEF TypeOK, LastTask, Fresh
<1>7. QED BY <1>1, <1>2, <1>3, <1>6

LEMMA StopStep ==
  ASSUME Inv, Stop
  PROVE  Inv'
<1> USE DEF Inv, Stop
<1>1. TypeOK' /\ Control' /\ NoLostWakeup'
  BY DEF TypeOK, Control, NoLostWakeup
<1>2. InOrder' /\ Once'
  BY DEF InOrder, Once
<1>3. LastTask'
  BY DEF LastTask, Fresh
<1>4. QED BY <1>1, <1>2, <1>3

LEMMA RunGameShutdownStep ==
  ASSUME Inv, RunGameShutdown
  PROVE  Inv'
<1> USE DEF Inv, RunGameShutdown
<1>0. /\ Terminator \in AnyTask /\ GameShutdown # Terminator
      /\ batch # <<>> /\ Finish
  BY DispatcherAssumption DEF AnyTask, Control
<1>1. TypeOK' /\ Control' /\ NoLostWakeup'
  BY <1>0, HeadTail, AppendInSeq DEF TypeOK, Control, NoLostWakeup, Finish
<1>2. InOrder'
  BY <1>0, PushFinishInOrder DEF Push
<1>3. ~aborted /\ threadState = "CLOSING" /\ ~Fresh(GameShutdown)
  BY <1>0, Positions DEF LastTask, Fresh, TypeOK
<1>4. Fresh(Terminator)
  <2> SUFFICES ASSUME ~Fresh(Terminator) PROVE FALSE
    OBVIOUS
  <2>1. GameShutdown \in Elements(finished)
    BY <1>3 DEF LastTask
  <2>2. PICK i \in 1..Len(finished) : finished[i] = GameShutdown
    BY <2>1 DEF Elements, TypeOK
  <2>3. /\ accepted[i] = GameShutdown /\ accepted[Len(finished) + 1] = GameShutdown
        /\ i \in 1..Len(accepted) /\ Len(finished) + 1 \in 1..Len(accepted)
        /\ i # Len(finished) + 1
    <3>1. Len(batch) # 0
      BY <1>0 DEF TypeOK
    <3>2. QED BY <1>0, <2>2, <3>1, Positions
  <2>4. QED BY <2>3 DEF Once
<1>5. Once'
  BY <1>0, <1>4, PushOnce
<1>6. /\ Elements(accepted') = Elements(accepted) \cup {Terminator}
      /\ Elements(finished') = Elements(finished) \cup {GameShutdown}
  BY <1>0, PushElements, FinishElements
<1>7. accepted'[Len(accepted')] = Terminator
  BY <1>0, AppendInSeq DEF TypeOK
<1>8. LastTask'
  BY <1>0, <1>3, <1>6, <1>7 DEF LastTask, Fresh
<1>9. QED BY <1>1, <1>2, <1>5, <1>8

LEMMA RunTerminatorStep ==
  ASSUME Inv, RunTerminator
  PROVE  Inv'
<1> USE DEF Inv, RunTerminator
<1>0. batch # <<>> /\ Finish
  BY DEF Control
<1>1. TypeOK' /\ Control' /\ NoLostWakeup'
  BY <1>0, HeadTail, AppendInSeq DEF TypeOK, Control, NoLostWakeup, Finish
<1>2. InOrder'
  BY <1>0, FinishInOrder
<1>3. Once'
  BY DEF Once
<1>4. Elements(finished') = Elements(finished) \cup {Terminator}
  BY <1>0, FinishElements
<1>5. ASSUME ~aborted
      PROVE  taskList = <<>> /\ Tail(batch) = <<>> /\ ~Fresh(Terminator) /\ ~Fresh(GameShutdown)
  <2>1. ~Fresh(Terminator)
    BY <1>0, Positions DEF Fresh
  <2>2. /\ accepted[Len(accepted)] = Terminator
        /\ accepted[Len(finished) + 1] = Terminator
        /\ GameShutdown \in Elements(accepted)
    BY <1>0, <1>5, <2>1, Positions DEF LastTask
  <2>3. Len(batch) >= 1
    BY <1>0 DEF TypeOK
  <2>4. Len(accepted) = Len(finished) + 1
    <3>1. Len(accepted) \in 1..Len(accepted) /\ Len(finished) + 1 \in 1..Len(accepted)
      BY <2>3, Positions
    <3>2. QED BY <2>2, <3>1 DEF Once
  <2>5. /\ batch \in Seq(AnyTask) /\ taskList \in Seq(AnyTask) /\ Len(finished) \in Nat
        /\ Len(finished) + Len(batch) + Len(taskList) = Len(finished) + 1
    BY <2>4, Positions DEF TypeOK
  <2>6. taskList = <<>> /\ Tail(batch) = <<>>
    <3> HIDE DEF RunTerminator, Inv
    <3>1. QED BY <1>0, <2>5, OneLeft
  <2>7. QED BY <2>1, <2>2, <2>6 DEF Fresh, LastTask, TypeOK
<1>6. LastTask'
  BY <1>0, <1>4, <1>5 DEF LastTask, Fresh, Finish, TypeOK
<1>7. QED BY <1>1, <1>2, <1>3, <1>6

LEMMA AbortStartupStep ==
  ASSUME Inv, AbortStartup
  PROVE  Inv'
<1> USE DEF Inv, AbortStartup
<1>0. Terminator \in AnyTask /\ GameShutdown # Terminator
  BY DispatcherAssumption DEF AnyTask
<1>1. TypeOK' /\ Control' /\ NoLostWakeup'
  BY <1>0, AppendInSeq DEF TypeOK, Control, Push, NoLostWakeup
<1>2. InOrder'
  BY <1>0, PushInOrder
<1>3. Fresh(Terminator)
  BY Positions DEF LastTask, Fresh
<1>4. Once'
  BY <1>0, <1>3, PushOnce DEF Push
<1>5. Elements(accepted') = Elements(accepted) \cup {Terminator}
  BY <1>0, PushElements DEF Push
<1>6. LastTask'
  BY <1>0, <1>5 DEF LastTask, Fresh, TypeOK
<1>7. QED BY <1>1, <1>2, <1>4, <1>6

LEMMA NextInv == Inv /\ [Next]_vars => Inv'
<1> SUFFICES ASSUME Inv, [Next]_vars PROVE Inv'
  OBVIOUS
<1>1. CASE \E p \in Poster, t \in Task : AddTask(p, t)
  BY <1>1, AddTaskStep
<1>2. CASE \E t \in Task : AddTaskFromTask(t)
  BY <1>2, AddTaskFromTaskStep
<1>3. CASE \/ \E p \in Poster : Notify(p)
           \/ CheckState \/ BeginTask \/ EndBatch \/ SpuriousWakeup
  BY <1>3, QuietStep
<1>4. CASE TakeTasks \/ TakeAfterWait
  BY <1>4, TakeStep
<1>5. CASE EndTask \/ DropExpired
  BY <1>5, EndTaskStep
<1>6. CASE RequestShutdown
  BY <1>6, RequestShutdownStep
<1>7. CASE Stop
  BY <1>7, StopStep
<1>8. CASE RunGameShutdown
  BY <1>8, RunGameShutdownStep
<1>9. CASE RunTerminator
  BY <1>9, RunTerminatorStep
<1>10. CASE AbortStartup
  BY <1>10, AbortStartupStep
<1>11. CASE UNCHANGED vars
  BY <1>11 DEF vars, Inv, TypeOK, InOrder, NoLostWakeup, Control, Once, LastTask, Fresh
<1>12. QED
  BY <1>1, <1>2, <1>3, <1>4, <1>5, <1>6, <1>7, <1>8, <1>9, <1>10, <1>11
     DEF Next, WorkerStep, Terminated

\* Inv holds in every reachable state.
THEOREM Invariance == Spec => []Inv
BY InitInv, NextInv, PTL DEF Spec

-------------------------------------------------------------------------------
(* Results *)

\* The variables keep their types.
THEOREM TypeCorrect == Spec => []TypeOK
<1>1. Inv => TypeOK
  BY DEF Inv
<1>2. QED BY <1>1, Invariance, PTL

\* Tasks are finished in the order in which they were accepted, none lost and
\* none twice, whatever the threads that post them.
THEOREM OrderKept == Spec => []InOrder
<1>1. Inv => InOrder
  BY DEF Inv
<1>2. QED BY <1>1, Invariance, PTL

\* The dispatcher thread is never left asleep on a list that holds tasks.
THEOREM WakeupNotLost == Spec => []NoLostWakeup
<1>1. Inv => NoLostWakeup
  BY DEF Inv
<1>2. QED BY <1>1, Invariance, PTL

\* An ordered shutdown leaves no accepted task behind.
THEOREM ShutdownDrains == Spec => []DrainedAtExit
<1>1. Inv => DrainedAtExit
  BY DEF Inv, LastTask, DrainedAtExit
<1>2. QED BY <1>1, Invariance, PTL

-------------------------------------------------------------------------------
(***************************************************************************)
(* Safety of the database queries for every set of queries and of threads  *)
(* that push them.                                                         *)
(*                                                                         *)
(* DbInv is the inductive invariant.  The list is always what is left of   *)
(* the queries pushed (Placed), and those taken from it are each executed  *)
(* or in one of the two hands, never in two places (Settled): from that    *)
(* the counting and the order of QueriesSound follow.                      *)
(***************************************************************************)

-------------------------------------------------------------------------------
(* The inductive invariant *)

\* How many of the queries pushed have been taken from the list.
Taken == Len(pushed) - Len(tasks)

Placed ==
  /\ Len(tasks) <= Len(pushed)
  /\ \A i \in 1..Len(tasks) : tasks[i] = pushed[Taken + i]

Distinct(s) == \A i, j \in 1..Len(s) : s[i] = s[j] => i = j

\* The two hands never hold the same query, nor one that has been executed.
Settled ==
  /\ \A i \in 1..Taken : pushed[i] \in Elems(executed) \cup InFlight
  /\ \A q \in Elems(executed) \cup InFlight : \E i \in 1..Taken : pushed[i] = q
  /\ Elems(executed) \cap InFlight = {}
  /\ dbWorker = "run" /\ flusher = "run" => hand["worker"] # hand["flusher"]

\* shutdown notifies when it has seen the list empty for good.
Closing ==
  /\ flusher \in {"notify", "done"} => dbState = "TERMINATED" /\ tasks = <<>>
  /\ dbWorker = "exit" => dbState = "TERMINATED"

DbInv ==
  /\ DbTypeOK /\ NoLostDbWakeup
  /\ Placed /\ Distinct(pushed) /\ Distinct(executed) /\ Settled /\ Closing

-------------------------------------------------------------------------------
(* Steps of the three sequences *)

\* What the proofs need of the sequences.
LEMMA Lengths ==
  ASSUME DbTypeOK
  PROVE  /\ Len(tasks) \in Nat /\ Len(pushed) \in Nat /\ Len(executed) \in Nat
         /\ DOMAIN tasks = 1..Len(tasks)
         /\ DOMAIN pushed = 1..Len(pushed)
         /\ DOMAIN executed = 1..Len(executed)
         /\ tasks # <<>> => Len(tasks) # 0
         /\ tasks = <<>> => Len(tasks) = 0
         /\ \A i \in 1..Len(pushed) : pushed[i] \in Query
         /\ \A i \in 1..Len(executed) : executed[i] \in Query
BY DEF DbTypeOK

LEMMA Appends ==
  ASSUME NEW S, NEW s \in Seq(S), NEW e \in S
  PROVE  /\ Append(s, e) \in Seq(S)
         /\ Len(s) \in Nat /\ Len(Append(s, e)) = Len(s) + 1
         /\ \A i \in 1..Len(s) : Append(s, e)[i] = s[i]
         /\ Append(s, e)[Len(s) + 1] = e
         /\ Elems(Append(s, e)) = Elems(s) \cup {e}
<1>1. /\ Append(s, e) \in Seq(S) /\ Len(s) \in Nat /\ Len(Append(s, e)) = Len(s) + 1
      /\ \A i \in 1..Len(s) : Append(s, e)[i] = s[i]
      /\ Append(s, e)[Len(s) + 1] = e
      /\ DOMAIN s = 1..Len(s) /\ DOMAIN Append(s, e) = 1..(Len(s) + 1)
  OBVIOUS
<1>2. Elems(Append(s, e)) = Elems(s) \cup {e}
  BY <1>1 DEF Elems
<1>3. QED BY <1>1, <1>2

\* An element that is new to a sequence keeps it distinct.
LEMMA AppendDistinct ==
  ASSUME NEW S, NEW s \in Seq(S), NEW e \in S, Distinct(s), e \notin Elems(s)
  PROVE  Distinct(Append(s, e))
<1> DEFINE r == Append(s, e)
<1>1. /\ Len(s) \in Nat /\ Len(r) = Len(s) + 1 /\ DOMAIN s = 1..Len(s)
      /\ \A i \in 1..Len(s) : r[i] = s[i]
      /\ r[Len(s) + 1] = e
  BY Appends
<1>2. \A i \in 1..Len(s) : s[i] # e
  BY <1>1 DEF Elems
<1> HIDE DEF r
<1>3. Distinct(r)
  BY <1>1, <1>2 DEF Distinct
<1>4. QED BY <1>3 DEF r

\* Steps that leave the sequences and what is in flight alone.
LEMMA QuietQueryStep ==
  ASSUME DbInv, UNCHANGED <<tasks, pushed, executed>>, InFlight' = InFlight,
         dbWorker' = "run" /\ flusher' = "run" =>
           dbWorker = "run" /\ flusher = "run" /\ UNCHANGED hand
  PROVE  Placed' /\ Distinct(pushed)' /\ Distinct(executed)' /\ Settled'
<1>1. Taken' = Taken /\ Elems(executed)' = Elems(executed)
  BY DEF Taken, Elems
<1>2. Placed' /\ Distinct(pushed)' /\ Distinct(executed)'
  BY <1>1 DEF DbInv, Placed, Distinct
<1>3. Settled'
  BY <1>1 DEF DbInv, Settled
<1>4. QED BY <1>2, <1>3

\* addTask: the list and the history grow by the same query.
LEMMA PushStep ==
  ASSUME DbInv, NEW q \in Query, q \notin Elems(pushed),
         tasks' = Append(tasks, q), pushed' = Append(pushed, q),
         UNCHANGED <<executed, hand, dbWorker, flusher>>
  PROVE  Placed' /\ Distinct(pushed)' /\ Distinct(executed)' /\ Settled'
<1>1. DbTypeOK /\ tasks \in Seq(Query) /\ pushed \in Seq(Query)
  BY DEF DbInv, DbTypeOK
<1>2. /\ Len(tasks) \in Nat /\ Len(tasks') = Len(tasks) + 1
      /\ \A i \in 1..Len(tasks) : tasks'[i] = tasks[i]
      /\ tasks'[Len(tasks) + 1] = q
  BY <1>1, Appends
<1>3. /\ Len(pushed) \in Nat /\ Len(pushed') = Len(pushed) + 1
      /\ \A i \in 1..Len(pushed) : pushed'[i] = pushed[i]
      /\ pushed'[Len(pushed) + 1] = q
  BY <1>1, Appends
<1>4. Distinct(pushed)'
  <2>1. Distinct(pushed')
    BY <1>1, AppendDistinct DEF DbInv
  <2>2. QED BY <2>1 DEF Distinct
<1>5. Taken' = Taken /\ Taken \in Nat /\ Len(pushed) = Taken + Len(tasks)
  BY <1>2, <1>3 DEF Taken, DbInv, Placed
<1>6. Placed'
  <2>1. Len(tasks') <= Len(pushed')
    BY <1>2, <1>3 DEF DbInv, Placed
  <2>2. ASSUME NEW i \in 1..Len(tasks')
        PROVE  tasks'[i] = pushed'[Taken + i]
    <3>1. CASE i \in 1..Len(tasks)
      <4>1. tasks'[i] = tasks[i] /\ tasks[i] = pushed[Taken + i]
        BY <3>1, <1>2 DEF DbInv, Placed
      <4>2. Taken + i \in 1..Len(pushed)
        BY <3>1, <1>2, <1>3, <1>5
      <4>3. QED BY <4>1, <4>2, <1>3
    <3>2. CASE i = Len(tasks) + 1
      <4>1. Taken + i = Len(pushed) + 1
        BY <3>2, <1>2, <1>3, <1>5
      <4>2. QED BY <3>2, <4>1, <1>2, <1>3
    <3>3. i \in 1..Len(tasks) \/ i = Len(tasks) + 1
      BY <2>2, <1>2
    <3>4. QED BY <3>1, <3>2, <3>3
  <2>3. QED BY <2>1, <2>2, <1>5 DEF Placed
<1>7. Distinct(executed)' /\ Elems(executed)' = Elems(executed) /\ InFlight' = InFlight
  BY DEF DbInv, Distinct, Elems, InFlight
<1>8. Settled'
  <2>1. \A i \in 1..Taken : i \in 1..Len(pushed) /\ pushed'[i] = pushed[i]
    BY <1>2, <1>3, <1>5
  <2>2. /\ \A i \in 1..Taken : pushed[i] \in Elems(executed) \cup InFlight
        /\ \A e \in Elems(executed) \cup InFlight : \E i \in 1..Taken : pushed[i] = e
        /\ Elems(executed) \cap InFlight = {}
        /\ dbWorker = "run" /\ flusher = "run" => hand["worker"] # hand["flusher"]
    BY DEF DbInv, Settled
  <2>3. QED BY <2>1, <2>2, <1>5, <1>7 DEF Settled
<1>9. QED BY <1>4, <1>6, <1>7, <1>8

\* The query at the head of the list: the first one not taken, and nowhere else.
LEMMA HeadIsNext ==
  ASSUME DbInv, tasks # <<>>
  PROVE  /\ Head(tasks) \in Query
         /\ Taken \in Nat /\ Taken + 1 \in 1..Len(pushed)
         /\ Head(tasks) = pushed[Taken + 1]
         /\ Head(tasks) \notin Elems(executed) \cup InFlight
         /\ Len(Tail(tasks)) = Len(tasks) - 1
         /\ Tail(tasks) \in Seq(Query)
         /\ \A i \in 1..(Len(tasks) - 1) : Tail(tasks)[i] = tasks[i + 1]
<1>1. DbTypeOK /\ tasks \in Seq(Query)
  BY DEF DbInv, DbTypeOK
<1>2. Len(tasks) \in Nat \ {0} /\ Len(pushed) \in Nat
  BY <1>1, Lengths
<1>3. /\ Head(tasks) = tasks[1] /\ Head(tasks) \in Query
      /\ Tail(tasks) \in Seq(Query)
      /\ Len(Tail(tasks)) = Len(tasks) - 1
      /\ \A i \in 1..(Len(tasks) - 1) : Tail(tasks)[i] = tasks[i + 1]
  BY <1>1, HeadTailProperties
<1>4. Taken \in Nat /\ Taken + 1 \in 1..Len(pushed)
  BY <1>2 DEF Taken, DbInv, Placed
<1>5. Head(tasks) = pushed[Taken + 1]
  BY <1>2, <1>3 DEF DbInv, Placed
<1>6. \A i \in 1..Taken : pushed[i] # pushed[Taken + 1]
  <2>1. \A i \in 1..Taken : i \in 1..Len(pushed) /\ i # Taken + 1
    BY <1>2, <1>4
  <2>2. QED BY <2>1, <1>4 DEF DbInv, Distinct
<1>7. Head(tasks) \notin Elems(executed) \cup InFlight
  BY <1>5, <1>6 DEF DbInv, Settled
<1>8. QED BY <1>3, <1>4, <1>5, <1>7

\* A pop: the next query goes into a hand.
LEMMA PopStep ==
  ASSUME DbInv, tasks # <<>>, tasks' = Tail(tasks), UNCHANGED <<pushed, executed>>,
         InFlight' = InFlight \cup {Head(tasks)},
         dbWorker' = "run" /\ flusher' = "run" => hand'["worker"] # hand'["flusher"]
  PROVE  /\ tasks' \in Seq(Query)
         /\ Placed' /\ Distinct(pushed)' /\ Distinct(executed)' /\ Settled'
<1>1. /\ tasks' \in Seq(Query) /\ Taken \in Nat /\ Taken + 1 \in 1..Len(pushed)
      /\ Head(tasks) = pushed[Taken + 1]
      /\ Head(tasks) \notin Elems(executed) \cup InFlight
      /\ Len(tasks') = Len(tasks) - 1
      /\ \A i \in 1..(Len(tasks) - 1) : tasks'[i] = tasks[i + 1]
  BY HeadIsNext
<1>2. Len(tasks) \in Nat \ {0} /\ Len(pushed) \in Nat
  BY Lengths DEF DbInv
<1>3. Taken' = Taken + 1
  BY <1>1, <1>2 DEF Taken
<1>4. Placed'
  <2>1. Len(tasks') <= Len(pushed')
    BY <1>1, <1>2 DEF DbInv, Placed
  <2>2. ASSUME NEW i \in 1..(Len(tasks) - 1)
        PROVE  tasks'[i] = pushed[(Taken + 1) + i]
    <3>1. i + 1 \in 1..Len(tasks) /\ Taken + (i + 1) = (Taken + 1) + i
      BY <1>1, <1>2
    <3>2. tasks[i + 1] = pushed[Taken + (i + 1)]
      BY <3>1 DEF DbInv, Placed
    <3>3. QED BY <3>1, <3>2, <1>1
  <2>3. QED BY <2>1, <2>2, <1>1, <1>3 DEF Placed
<1>5. Distinct(pushed)' /\ Distinct(executed)' /\ Elems(executed)' = Elems(executed)
  BY DEF DbInv, Distinct, Elems
<1>6. Settled'
  <2>1. /\ \A i \in 1..Taken : pushed[i] \in Elems(executed) \cup InFlight
        /\ \A e \in Elems(executed) \cup InFlight : \E i \in 1..Taken : pushed[i] = e
        /\ Elems(executed) \cap InFlight = {}
    BY DEF DbInv, Settled
  <2>2. \A i \in 1..(Taken + 1) : i \in 1..Taken \/ i = Taken + 1
    BY <1>1
  <2>3. \A i \in 1..(Taken + 1) : pushed[i] \in Elems(executed) \cup InFlight'
    BY <2>1, <2>2, <1>1
  <2>4. \A e \in Elems(executed) \cup InFlight' : \E i \in 1..(Taken + 1) : pushed[i] = e
    <3>1. Taken + 1 \in 1..(Taken + 1) /\ \A i \in 1..Taken : i \in 1..(Taken + 1)
      BY <1>1
    <3>2. QED BY <3>1, <2>1, <1>1
  <2>5. Elems(executed) \cap InFlight' = {}
    BY <2>1, <1>1
  <2>6. QED BY <2>3, <2>4, <2>5, <1>3, <1>5 DEF Settled
<1>7. QED BY <1>1, <1>4, <1>5, <1>6

\* A query in a hand is executed.
LEMMA ExecuteStep ==
  ASSUME DbInv, NEW q \in Query, q \in InFlight, executed' = Append(executed, q),
         UNCHANGED <<tasks, pushed>>, InFlight' = InFlight \ {q},
         ~(dbWorker' = "run" /\ flusher' = "run")
  PROVE  /\ executed' \in Seq(Query)
         /\ Placed' /\ Distinct(pushed)' /\ Distinct(executed)' /\ Settled'
<1>1. executed \in Seq(Query) /\ q \in Query /\ q \notin Elems(executed)
  BY DEF DbInv, DbTypeOK, Settled, InFlight
<1>2. executed' \in Seq(Query) /\ Elems(executed') = Elems(executed) \cup {q}
  <2>1. executed \in Seq(Query) /\ q \in Query
    BY <1>1
  <2>2. /\ Append(executed, q) \in Seq(Query)
        /\ Elems(Append(executed, q)) = Elems(executed) \cup {q}
    BY <2>1, Appends
  <2>3. QED BY <2>2
<1>3. Distinct(executed)'
  <2>1. Distinct(executed')
    BY <1>1, AppendDistinct DEF DbInv
  <2>2. QED BY <2>1 DEF Distinct
<1>4. Taken' = Taken /\ Elems(executed)' = Elems(executed) \cup {q}
  BY <1>2 DEF Taken, Elems
<1>5. Placed' /\ Distinct(pushed)'
  BY <1>4 DEF DbInv, Placed, Distinct
<1>6. Settled'
  BY <1>1, <1>4 DEF DbInv, Settled
<1>7. QED BY <1>2, <1>3, <1>5, <1>6

-------------------------------------------------------------------------------
(* The steps, one lemma each *)

LEMMA AddDbTaskKeeps ==
  ASSUME DbInv, NEW a \in Adder, NEW q \in Query, AddDbTask(a, q)
  PROVE  DbInv'
<1>1. DbTypeOK /\ tasks \in Seq(Query) /\ pushed \in Seq(Query)
  BY DEF DbInv, DbTypeOK
<1>2. /\ dbState = "RUNNING" /\ q \notin Elems(pushed)
      /\ tasks' = Append(tasks, q) /\ pushed' = Append(pushed, q)
      /\ UNCHANGED <<dbState, dbWorker, flusher, hand, open, missed, executed, answered>>
      /\ signal' = IF tasks = <<>> THEN signal \cup {a} ELSE signal
  BY DEF AddDbTask, DbDoSignal
<1>3. Placed' /\ Distinct(pushed)' /\ Distinct(executed)' /\ Settled'
  BY <1>2, PushStep
<1>4. tasks' \in Seq(Query) /\ pushed' \in Seq(Query)
  BY <1>1, <1>2, Appends
<1>5. DbTypeOK'
  BY <1>1, <1>2, <1>4 DEF DbTypeOK
<1>6. NoLostDbWakeup'
  <2>1. signal' # {} \/ (tasks # <<>> /\ signal' = signal)
    BY <1>2
  <2>2. QED BY <2>1, <1>2 DEF DbInv, NoLostDbWakeup
<1>7. Closing'
  BY <1>2 DEF DbInv, Closing
<1>8. QED BY <1>3, <1>5, <1>6, <1>7 DEF DbInv

\* Steps that touch neither the sequences nor the hands, and start no query.
LEMMA IdleSteps ==
  ASSUME DbInv,
         \/ \E a \in Adder : DbNotify(a)
         \/ DbCheckState \/ DbSpuriousWakeup \/ StartFlush \/ DbStop \/ Shutdown
         \/ NotifyShutdown \/ DbTerminated \/ UNCHANGED dbVars
  PROVE  DbInv'
<1>1. UNCHANGED <<tasks, pushed, executed, hand>>
  BY DEF DbNotify, DbCheckState, DbSpuriousWakeup, StartFlush, DbStop, Shutdown, NotifyShutdown,
         DbTerminated, dbVars
<1>2. /\ dbWorker' = dbWorker \/ (dbWorker' \in {"lock", "exit", "woken"} /\ dbWorker \in {"check", "wait"})
      /\ flusher' = flusher \/ (flusher' \in {"flush", "done"} /\ flusher \in {"idle", "notify"})
  BY DEF DbNotify, DbCheckState, DbSpuriousWakeup, StartFlush, DbStop, Shutdown, NotifyShutdown,
         DbTerminated, dbVars, Wake
<1>3. InFlight' = InFlight /\ (dbWorker' = "run" => dbWorker = "run") /\ (flusher' = "run" => flusher = "run")
  BY <1>1, <1>2 DEF InFlight
<1>4. Placed' /\ Distinct(pushed)' /\ Distinct(executed)' /\ Settled'
  BY <1>1, <1>3, QuietQueryStep
<1>5. DbTypeOK'
  <2>1. DbTypeOK
    BY DEF DbInv
  <2>2. /\ dbState' \in {"RUNNING", "CLOSING", "TERMINATED"} /\ open' \in BOOLEAN /\ missed' \in BOOLEAN
        /\ signal' \in SUBSET Adder /\ UNCHANGED answered
    BY <2>1 DEF DbTypeOK, DbNotify, DbCheckState, DbSpuriousWakeup, StartFlush, DbStop, Shutdown,
           NotifyShutdown, DbTerminated, dbVars
  <2>3. /\ dbWorker' \in {"check", "lock", "wait", "woken", "run", "answer", "exit"}
        /\ flusher' \in {"idle", "flush", "run", "answer", "notify", "done"}
        /\ dbWorker' \in {"run", "answer"} <=> dbWorker \in {"run", "answer"}
        /\ flusher' \in {"run", "answer"} <=> flusher \in {"run", "answer"}
    BY <2>1, <1>2 DEF DbTypeOK
  <2>4. QED BY <2>1, <2>2, <2>3, <1>1 DEF DbTypeOK
<1>6. NoLostDbWakeup'
  BY <1>1 DEF DbInv, NoLostDbWakeup, DbNotify, DbCheckState, DbSpuriousWakeup, StartFlush, DbStop,
         Shutdown, NotifyShutdown, DbTerminated, dbVars, Wake
<1>7. Closing'
  BY <1>1 DEF DbInv, Closing, DbTypeOK, DbNotify, DbCheckState, DbSpuriousWakeup, StartFlush, DbStop,
         Shutdown, NotifyShutdown, DbTerminated, dbVars, Wake
<1>8. QED BY <1>4, <1>5, <1>6, <1>7 DEF DbInv

LEMMA WorkerTakes ==
  ASSUME DbInv, LockAndTake \/ DbTakeAfterWait
  PROVE  DbInv'
<1>1. /\ dbWorker \in {"lock", "woken"}
      /\ UNCHANGED <<dbState, flusher, signal, open, missed, pushed, executed, answered>>
  BY DEF LockAndTake, DbTakeAfterWait
<1>2. DbTypeOK /\ Closing
  BY DEF DbInv
<1>3. CASE tasks = <<>>
  <2>1. UNCHANGED <<tasks, hand>> /\ dbWorker' \in {"wait", "check"}
    BY <1>3 DEF LockAndTake, DbTakeAfterWait
  <2>2. InFlight' = InFlight
    BY <1>1, <2>1 DEF InFlight
  <2>3. Placed' /\ Distinct(pushed)' /\ Distinct(executed)' /\ Settled'
    BY <1>1, <2>1, <2>2, QuietQueryStep
  <2>4. DbTypeOK'
    BY <1>1, <1>2, <2>1 DEF DbTypeOK
  <2>5. NoLostDbWakeup' /\ Closing'
    BY <1>1, <1>2, <1>3, <2>1 DEF NoLostDbWakeup, Closing
  <2>6. QED BY <2>3, <2>4, <2>5 DEF DbInv
<1>4. CASE tasks # <<>>
  <2>1. /\ dbWorker' = "run" /\ tasks' = Tail(tasks)
        /\ hand' = [hand EXCEPT !["worker"] = Head(tasks)]
    BY <1>4 DEF LockAndTake, DbTakeAfterWait, Pop
  <2>2. Head(tasks) \in Query /\ Head(tasks) \notin InFlight
    BY <1>4, HeadIsNext
  <2>3. hand'["worker"] = Head(tasks) /\ hand'["flusher"] = hand["flusher"]
    BY <1>2, <2>1 DEF DbTypeOK
  <2>4. InFlight' = InFlight \cup {Head(tasks)}
    BY <1>1, <2>1, <2>2, <2>3 DEF InFlight
  <2>5. flusher' = "run" => hand'["worker"] # hand'["flusher"]
    <3>1. flusher = "run" => hand["flusher"] \in InFlight
      BY <1>2, DatabaseTasksAssumption DEF DbTypeOK, InFlight
    <3>2. QED BY <3>1, <1>1, <2>2, <2>3
  <2>6. /\ tasks' \in Seq(Query)
        /\ Placed' /\ Distinct(pushed)' /\ Distinct(executed)' /\ Settled'
    BY <1>1, <1>4, <2>1, <2>4, <2>5, PopStep
  <2>7. DbTypeOK'
    BY <1>1, <1>2, <2>1, <2>2, <2>3, <2>6, DatabaseTasksAssumption DEF DbTypeOK
  <2>8. NoLostDbWakeup' /\ Closing'
    BY <1>1, <1>2, <1>4, <2>1 DEF NoLostDbWakeup, Closing
  <2>9. QED BY <2>6, <2>7, <2>8 DEF DbInv
<1>5. QED BY <1>3, <1>4

LEMMA FlushTakeKeeps ==
  ASSUME DbInv, FlushTake
  PROVE  DbInv'
<1>1. /\ flusher = "flush"
      /\ UNCHANGED <<dbState, dbWorker, signal, open, missed, pushed, executed, answered>>
  BY DEF FlushTake
<1>2. DbTypeOK /\ Closing /\ NoLostDbWakeup
  BY DEF DbInv
<1>3. CASE tasks = <<>>
  <2>1. /\ UNCHANGED <<tasks, hand>>
        /\ flusher' = IF dbState = "TERMINATED" THEN "notify" ELSE "idle"
    BY <1>3 DEF FlushTake
  <2>2. InFlight' = InFlight
    BY <1>1, <2>1 DEF InFlight
  <2>3. Placed' /\ Distinct(pushed)' /\ Distinct(executed)' /\ Settled'
    BY <1>1, <2>1, <2>2, QuietQueryStep
  <2>4. DbTypeOK'
    BY <1>1, <1>2, <2>1 DEF DbTypeOK
  <2>5. NoLostDbWakeup' /\ Closing'
    BY <1>1, <1>2, <1>3, <2>1 DEF NoLostDbWakeup, Closing
  <2>6. QED BY <2>3, <2>4, <2>5 DEF DbInv
<1>4. CASE tasks # <<>>
  <2>1. /\ flusher' = "run" /\ tasks' = Tail(tasks)
        /\ hand' = [hand EXCEPT !["flusher"] = Head(tasks)]
    BY <1>4 DEF FlushTake, Pop
  <2>2. Head(tasks) \in Query /\ Head(tasks) \notin InFlight
    BY <1>4, HeadIsNext
  <2>3. hand'["flusher"] = Head(tasks) /\ hand'["worker"] = hand["worker"]
    BY <1>2, <2>1 DEF DbTypeOK
  <2>4. InFlight' = InFlight \cup {Head(tasks)}
    BY <1>1, <2>1, <2>2, <2>3 DEF InFlight
  <2>5. dbWorker' = "run" => hand'["worker"] # hand'["flusher"]
    <3>1. dbWorker = "run" => hand["worker"] \in InFlight
      BY <1>2, DatabaseTasksAssumption DEF DbTypeOK, InFlight
    <3>2. QED BY <3>1, <1>1, <2>2, <2>3
  <2>6. /\ tasks' \in Seq(Query)
        /\ Placed' /\ Distinct(pushed)' /\ Distinct(executed)' /\ Settled'
    BY <1>1, <1>4, <2>1, <2>4, <2>5, PopStep
  <2>7. DbTypeOK'
    BY <1>1, <1>2, <2>1, <2>2, <2>3, <2>6, DatabaseTasksAssumption DEF DbTypeOK
  <2>8. NoLostDbWakeup' /\ Closing'
    BY <1>1, <1>2, <1>4, <2>1 DEF NoLostDbWakeup, Closing
  <2>9. QED BY <2>6, <2>7, <2>8 DEF DbInv
<1>5. QED BY <1>3, <1>4

LEMMA ExecutesKeep ==
  ASSUME DbInv, WorkerExecutes \/ FlushExecutes
  PROVE  DbInv'
<1>1. DbTypeOK /\ Closing /\ NoLostDbWakeup
  BY DEF DbInv
<1>2. UNCHANGED <<dbState, tasks, hand, signal, open, missed, pushed, answered>>
  BY DEF WorkerExecutes, FlushExecutes, Execute
<1>3. /\ executed' \in Seq(Query)
      /\ Placed' /\ Distinct(pushed)' /\ Distinct(executed)' /\ Settled'
  <2>1. CASE WorkerExecutes
    <3> DEFINE q == hand["worker"]
    <3>1. /\ dbWorker = "run" /\ dbWorker' = "answer" /\ flusher' = flusher
          /\ executed' = Append(executed, q)
      BY <2>1 DEF WorkerExecutes, Execute
    <3>2. q \in Query /\ q \in InFlight
      BY <1>1, <3>1, DatabaseTasksAssumption DEF DbTypeOK, InFlight
    <3>3. flusher = "run" => hand["flusher"] # q
      BY <3>1 DEF DbInv, Settled
    <3>4. InFlight' = InFlight \ {q}
      BY <1>2, <3>1, <3>3 DEF InFlight
    <3> HIDE DEF q
    <3>5. QED BY <1>2, <3>1, <3>2, <3>4, ExecuteStep
  <2>2. CASE FlushExecutes
    <3> DEFINE q == hand["flusher"]
    <3>1. /\ flusher = "run" /\ flusher' = "answer" /\ dbWorker' = dbWorker
          /\ executed' = Append(executed, q)
      BY <2>2 DEF FlushExecutes, Execute
    <3>2. q \in Query /\ q \in InFlight
      BY <1>1, <3>1, DatabaseTasksAssumption DEF DbTypeOK, InFlight
    <3>3. dbWorker = "run" => hand["worker"] # q
      BY <3>1 DEF DbInv, Settled
    <3>4. InFlight' = InFlight \ {q}
      BY <1>2, <3>1, <3>3 DEF InFlight
    <3> HIDE DEF q
    <3>5. QED BY <1>2, <3>1, <3>2, <3>4, ExecuteStep
  <2>3. QED BY <2>1, <2>2
<1>4. DbTypeOK'
  BY <1>1, <1>2, <1>3 DEF DbTypeOK, WorkerExecutes, FlushExecutes
<1>5. NoLostDbWakeup' /\ Closing'
  BY <1>1, <1>2 DEF NoLostDbWakeup, Closing, WorkerExecutes, FlushExecutes
<1>6. QED BY <1>3, <1>4, <1>5 DEF DbInv

LEMMA AnswersKeep ==
  ASSUME DbInv, WorkerAnswers \/ FlushAnswers
  PROVE  DbInv'
<1>1. DbTypeOK /\ Closing /\ NoLostDbWakeup
  BY DEF DbInv
<1>2. UNCHANGED <<dbState, tasks, signal, open, missed, pushed, executed>>
  BY DEF WorkerAnswers, FlushAnswers, Answer
<1>3. InFlight' = InFlight /\ ~(dbWorker' = "run" /\ flusher' = "run")
  BY <1>1 DEF DbTypeOK, InFlight, WorkerAnswers, FlushAnswers, Answer
<1>4. Placed' /\ Distinct(pushed)' /\ Distinct(executed)' /\ Settled'
  BY <1>2, <1>3, QuietQueryStep
<1>5. DbTypeOK'
  <2>1. CASE WorkerAnswers
    BY <2>1, <1>1, <1>2, DatabaseTasksAssumption DEF DbTypeOK, WorkerAnswers, Answer
  <2>2. CASE FlushAnswers
    BY <2>2, <1>1, <1>2, DatabaseTasksAssumption DEF DbTypeOK, FlushAnswers, Answer
  <2>3. QED BY <2>1, <2>2
<1>6. NoLostDbWakeup' /\ Closing'
  BY <1>1, <1>2 DEF NoLostDbWakeup, Closing, WorkerAnswers, FlushAnswers
<1>7. QED BY <1>4, <1>5, <1>6 DEF DbInv

-------------------------------------------------------------------------------
(* Safety *)

LEMMA InitDbInv == DbInit => DbInv
<1> SUFFICES ASSUME DbInit PROVE DbInv
  OBVIOUS
<1>1. DbTypeOK
  BY EmptySeq DEF DbInit, DbTypeOK
<1>2. Len(tasks) = 0 /\ Len(pushed) = 0 /\ Len(executed) = 0 /\ Elems(executed) = {} /\ InFlight = {}
  BY DEF DbInit, Elems, InFlight
<1>3. Taken = 0 /\ Placed /\ Distinct(pushed) /\ Distinct(executed)
  BY <1>2 DEF Taken, Placed, Distinct
<1>4. Settled /\ NoLostDbWakeup /\ Closing
  BY <1>2, <1>3 DEF DbInit, Settled, NoLostDbWakeup, Closing
<1>5. QED BY <1>1, <1>3, <1>4 DEF DbInv

LEMMA NextKeepsDbInv == DbInv /\ [DbNext]_dbVars => DbInv'
<1> SUFFICES ASSUME DbInv, [DbNext]_dbVars PROVE DbInv'
  OBVIOUS
<1>1. ASSUME NEW a \in Adder, NEW q \in Query, AddDbTask(a, q)
      PROVE  DbInv'
  BY <1>1, AddDbTaskKeeps
<1>2. CASE DbWorkerStep \/ FlusherStep
  BY <1>2, WorkerTakes, FlushTakeKeeps, ExecutesKeep, AnswersKeep, IdleSteps
     DEF DbWorkerStep, FlusherStep
<1>3. CASE \/ \E a \in Adder : DbNotify(a)
           \/ DbSpuriousWakeup \/ StartFlush \/ DbStop \/ Shutdown \/ DbTerminated
           \/ UNCHANGED dbVars
  BY <1>3, IdleSteps
<1>4. QED BY <1>1, <1>2, <1>3 DEF DbNext

\* DbInv, which says where every query is, holds in every reachable state.
THEOREM DbInvariance == DbSpec => []DbInv
<1>1. QED BY InitDbInv, NextKeepsDbInv, PTL DEF DbSpec

\* How often a query occurs in a sequence without repetitions.
LEMMA OccursOnce ==
  ASSUME NEW s \in Seq(Query), Distinct(s), NEW q
  PROVE  Occurs(q, s) = IF q \in Elems(s) THEN 1 ELSE 0
<1> DEFINE I == {i \in DOMAIN s : s[i] = q}
<1>1. DOMAIN s = 1..Len(s)
  OBVIOUS
<1>2. CASE q \in Elems(s)
  <2>1. PICK i \in DOMAIN s : s[i] = q
    BY <1>2 DEF Elems
  <2>2. I = {i}
    BY <2>1, <1>1 DEF Distinct
  <2>3. Cardinality(I) = 1
    BY <2>2, FS_Singleton
  <2>4. QED BY <2>3, <1>2 DEF Occurs
<1>3. CASE q \notin Elems(s)
  <2>1. I = {}
    BY <1>3 DEF Elems
  <2>2. Cardinality(I) = 0
    BY <2>1, FS_EmptySet
  <2>3. QED BY <2>2, <1>3 DEF Occurs
<1>4. QED BY <1>2, <1>3

\* Every query is in as many places as it was pushed: one or none.
LEMMA Conserved == DbInv => ExactlyOnce
<1> SUFFICES ASSUME DbInv, NEW q \in Query
             PROVE  Occurs(q, tasks) + Occurs(q, executed)
                      + (IF dbWorker = "run" /\ hand["worker"] = q THEN 1 ELSE 0)
                      + (IF flusher = "run" /\ hand["flusher"] = q THEN 1 ELSE 0)
                        = Occurs(q, pushed)
  BY DEF ExactlyOnce
<1>1. tasks \in Seq(Query) /\ executed \in Seq(Query) /\ pushed \in Seq(Query)
  BY DEF DbInv, DbTypeOK
<1>2. /\ Len(tasks) \in Nat /\ Len(pushed) \in Nat /\ Len(tasks) <= Len(pushed)
      /\ DOMAIN tasks = 1..Len(tasks) /\ DOMAIN pushed = 1..Len(pushed)
      /\ Taken \in Nat /\ Len(pushed) = Taken + Len(tasks)
      /\ \A i \in 1..Len(tasks) : tasks[i] = pushed[Taken + i]
  BY Lengths DEF DbInv, Placed, Taken
<1>3. /\ \A i \in 1..Taken : pushed[i] \in Elems(executed) \cup InFlight
      /\ \A e \in Elems(executed) \cup InFlight : \E i \in 1..Taken : pushed[i] = e
      /\ Elems(executed) \cap InFlight = {}
      /\ dbWorker = "run" /\ flusher = "run" => hand["worker"] # hand["flusher"]
  BY DEF DbInv, Settled
<1>4. \A i, j \in 1..Len(pushed) : pushed[i] = pushed[j] => i = j
  BY DEF DbInv, Distinct
<1>5. \A i \in 1..Len(tasks) : Taken + i \in 1..Len(pushed)
  BY <1>2
<1>6. Distinct(tasks)
  <2>1. ASSUME NEW i \in 1..Len(tasks), NEW j \in 1..Len(tasks), tasks[i] = tasks[j]
        PROVE  i = j
    <3>1. Taken + i = Taken + j
      BY <2>1, <1>2, <1>4, <1>5
    <3>2. QED BY <3>1, <1>2
  <2>2. QED BY <2>1 DEF Distinct
<1>7. Occurs(q, tasks) = (IF q \in Elems(tasks) THEN 1 ELSE 0)
  BY <1>1, <1>6, OccursOnce
<1>8. Occurs(q, executed) = (IF q \in Elems(executed) THEN 1 ELSE 0)
  BY <1>1, OccursOnce DEF DbInv
<1>9. Occurs(q, pushed) = (IF q \in Elems(pushed) THEN 1 ELSE 0)
  BY <1>1, OccursOnce DEF DbInv
<1>10. q \in Elems(pushed) <=> q \in Elems(tasks) \/ q \in Elems(executed) \cup InFlight
  <2>1. q \in Elems(tasks) => q \in Elems(pushed)
    BY <1>2, <1>5 DEF Elems
  <2>2. q \in Elems(executed) \cup InFlight => q \in Elems(pushed)
    <3>1. \A i \in 1..Taken : i \in DOMAIN pushed
      BY <1>2
    <3>2. QED BY <3>1, <1>3 DEF Elems
  <2>3. ASSUME q \in Elems(pushed)
        PROVE  q \in Elems(tasks) \/ q \in Elems(executed) \cup InFlight
    <3>1. PICK i \in 1..Len(pushed) : pushed[i] = q
      BY <2>3, <1>2 DEF Elems
    <3>2. CASE i \in 1..Taken
      BY <3>1, <3>2, <1>3
    <3>3. CASE i - Taken \in 1..Len(tasks)
      <4>1. tasks[i - Taken] = q
        BY <3>1, <3>3, <1>2
      <4>2. QED BY <4>1, <3>3, <1>2 DEF Elems
    <3>4. i \in 1..Taken \/ i - Taken \in 1..Len(tasks)
      BY <1>2
    <3>5. QED BY <3>2, <3>3, <3>4
  <2>4. QED BY <2>1, <2>2, <2>3
<1>11. ~(q \in Elems(tasks) /\ q \in Elems(executed) \cup InFlight)
  <2> SUFFICES ASSUME q \in Elems(tasks), q \in Elems(executed) \cup InFlight
               PROVE  FALSE
    OBVIOUS
  <2>1. PICK i \in 1..Len(tasks) : tasks[i] = q
    BY <1>2 DEF Elems
  <2>2. PICK j \in 1..Taken : pushed[j] = q
    BY <1>3
  <2>3. pushed[Taken + i] = q /\ Taken + i \in 1..Len(pushed) /\ j \in 1..Len(pushed) /\ Taken + i # j
    BY <2>1, <2>2, <1>2, <1>5
  <2>4. QED BY <2>2, <2>3, <1>4
<1>12. q \in InFlight <=> (dbWorker = "run" /\ hand["worker"] = q) \/ (flusher = "run" /\ hand["flusher"] = q)
  BY DEF InFlight
<1>13. QED BY <1>3, <1>7, <1>8, <1>9, <1>10, <1>11, <1>12

LEMMA Overtaking == DbInv => OnlyInFlightOvertaken
<1> SUFFICES ASSUME DbInv, NEW i \in DOMAIN pushed, NEW j \in DOMAIN pushed, i < j,
                    pushed[j] \in Elems(executed), pushed[i] \notin Elems(executed)
             PROVE  pushed[i] \in InFlight
  BY DEF OnlyInFlightOvertaken
<1>1. /\ Len(pushed) \in Nat /\ DOMAIN pushed = 1..Len(pushed)
      /\ Len(tasks) \in Nat /\ Taken \in Nat /\ Taken <= Len(pushed)
  BY Lengths DEF DbInv, Placed, Taken
<1>2. PICK k \in 1..Taken : pushed[k] = pushed[j]
  BY DEF DbInv, Settled
<1>3. k = j
  BY <1>1, <1>2 DEF DbInv, Distinct
<1>4. i \in 1..Taken
  BY <1>1, <1>3
<1>5. QED BY <1>4 DEF DbInv, Settled

LEMMA AllExecuted == DbInv => ShutdownExecutesAll
<1> SUFFICES ASSUME DbInv, dbWorker = "exit", flusher = "done"
             PROVE  Elems(executed) = Elems(pushed)
  BY DEF ShutdownExecutesAll
<1>1. tasks = <<>> /\ InFlight = {}
  BY DEF DbInv, Closing, InFlight
<1>2. Len(pushed) \in Nat /\ DOMAIN pushed = 1..Len(pushed) /\ Taken = Len(pushed)
  BY <1>1, Lengths DEF DbInv, Taken
<1>3. /\ \A i \in 1..Taken : pushed[i] \in Elems(executed)
      /\ \A q \in Elems(executed) : \E i \in 1..Taken : pushed[i] = q
  BY <1>1 DEF DbInv, Settled
<1>4. QED BY <1>2, <1>3 DEF Elems

\* Whatever the number of queries and of threads that push them, none is lost
\* or run twice, only one that is in a hand can be overtaken, the worker does
\* not sleep on a list nobody will wake it for, and a shutdown executes all
\* that was accepted (databasetasks.cpp:17-89).
THEOREM QueriesAreSound == DbSpec => []QueriesSound
<1>1. DbInv => QueriesSound
  BY Conserved, Overtaking, AllExecuted DEF QueriesSound, QueriesConserved, DbInv
<1>2. QED BY <1>1, DbInvariance, PTL
===============================================================================
