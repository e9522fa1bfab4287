---------------------------- MODULE SchedulerProofs ----------------------------
(***************************************************************************)
(* Safety of the scheduler for every set of tasks and every width of the   *)
(* event ids, and the proof that it implements EventService.               *)
(*                                                                         *)
(* IInv is the inductive invariant.  That a cancelled wait is excused      *)
(* (AbortedMayDrop) is where the parts meet: a timer is cancelled by a     *)
(* stop, which was asked for while the task was pending (StopsCovered), or *)
(* by another task of its id, which it has then met (SameIdMayDrop).  What *)
(* a caller reads of its task after handing it over is in IdsKept.         *)
(***************************************************************************)
EXTENDS Scheduler, TLAPS, SequenceTheorems, FiniteSetTheorems

-------------------------------------------------------------------------------
(* The inductive invariant *)

\* OneOwner without cardinalities.
Owned ==
  \A t \in Task :
    /\ \A i, j \in Holding(t) : i = j
    /\ t \in armed => Holding(t) = {}
    /\ phase[t] = "added" <=> t \in armed \/ Holding(t) # {}

\* A timer has at most one pending wait.
OneWait == \A t, u \in armed : eventId[t] = eventId[u] => t = u

\* A task whose wait was cancelled is held by that wait's completion, if at all.
CancelledAborted ==
  \A t \in cancelled :
    /\ t \notin armed
    /\ phase[t] \in {"added", "deleted"}
    /\ \A i \in Holding(t) : ready[i].op = "wait" /\ ready[i].aborted

\* Two pending events of one id have met.
SameIdMayDrop ==
  \A t, u \in Task :
    t # u /\ phase[t] = "added" /\ phase[u] = "added" /\ eventId[t] = eventId[u]
      => t \in mayDrop

AbortedMayDrop ==
  \A i \in DOMAIN ready :
    ready[i].op = "wait" /\ ready[i].aborted => ready[i].task \in mayDrop

\* A stop cancels the timers of its id that are set when it runs: they were
\* pending when it was asked for.
StopsCovered ==
  \A i \in DOMAIN ready, t \in Task :
    /\ ready[i].op = "stop" /\ ready[i].id = eventId[t]
    /\ t \in armed \/ \E j \in Holding(t) : j < i /\ ready[j].op = "add"
    => t \in mayDrop

\* The ids that callers read and keep; an id is given once, before it is kept.
IdsKept ==
  /\ IdReadFromLiveTask /\ KeptIdsOwn
  /\ \A t \in Task : phase[t] = "new" => kept[t] = 0
  /\ \A w \in Thread : caller[w] # NoTask => phase[caller[w]] # "new"

IInv ==
  /\ TypeOK /\ Owned /\ TimerTable /\ OneWait /\ CancelledAborted
  /\ SameIdMayDrop /\ AbortedMayDrop /\ StopsCovered /\ IdsKept

-------------------------------------------------------------------------------
(* The queue of handlers *)

AbortedWait(t) == [op |-> "wait", task |-> t, aborted |-> TRUE]

\* What handlers are made of.
LEMMA Handlers ==
  /\ \A t \in Task : [op |-> "add", task |-> t] \in Handler
  /\ \A n \in EventId : [op |-> "stop", id |-> n] \in Handler
  /\ \A t \in Task, b \in BOOLEAN : [op |-> "wait", task |-> t, aborted |-> b] \in Handler
  /\ \A t \in Task : AbortedWait(t) \in Handler
  /\ [op |-> "halt"] \in Handler
  /\ \A h \in Handler :
       /\ h.op \in {"add", "stop", "wait", "halt"}
       /\ h.op \in {"add", "wait"} => h.task \in Task
       /\ h.op = "wait" => h.aborted \in BOOLEAN
       /\ h.op = "stop" => h.id \in EventId
BY DEF Handler, AbortedWait

\* A call queues its handler behind the others (io_context::post).
Queues(e) ==
  /\ ready' \in Seq(Handler)
  /\ Len(ready) \in Nat
  /\ DOMAIN ready = 1..Len(ready)
  /\ DOMAIN ready' = 1..(Len(ready) + 1)
  /\ \A i \in 1..Len(ready) : ready'[i] = ready[i]
  /\ ready'[Len(ready) + 1] = e

LEMMA Queued ==
  ASSUME TypeOK, NEW e \in Handler, ready' = Append(ready, e)
  PROVE  Queues(e)
BY DEF TypeOK, Queues

\* Running the first handler moves the others up by one place; behind them
\* comes the completion of the wait it cancels, if there is one.
Advances(n) ==
  /\ ready' \in Seq(Handler)
  /\ Len(ready) \in Nat \ {0}
  /\ DOMAIN ready = 1..Len(ready)
  /\ \A i \in 1..(Len(ready) - 1) : ready'[i] = ready[i + 1]
  /\ \/ Waiting(n) = {} /\ DOMAIN ready' = 1..(Len(ready) - 1)
     \/ /\ DOMAIN ready' = 1..Len(ready)
        /\ \E u \in Waiting(n) : ready'[Len(ready)] = AbortedWait(u)

LEMMA HeadRuns ==
  ASSUME TypeOK, ready # <<>>, NEW n, ready' = Tail(ready) \o Aborts(n)
  PROVE  Advances(n) /\ Head(ready) = ready[1] /\ Head(ready) \in Handler
<1>1. /\ ready \in Seq(Handler)
      /\ Len(ready) \in Nat \ {0}
      /\ DOMAIN ready = 1..Len(ready)
      /\ Head(ready) = ready[1] /\ Head(ready) \in Handler
  BY DEF TypeOK
<1>2. /\ Tail(ready) \in Seq(Handler)
      /\ Len(Tail(ready)) = Len(ready) - 1
      /\ \A i \in 1..(Len(ready) - 1) : Tail(ready)[i] = ready[i + 1]
  BY <1>1, HeadTailProperties
<1>3. CASE Waiting(n) = {}
  <2>1. ready' = Tail(ready)
    BY <1>2, <1>3, ConcatEmptySeq DEF Aborts
  <2>2. DOMAIN ready' = 1..(Len(ready) - 1)
    BY <2>1, <1>2, LenProperties
  <2>3. QED BY <1>1, <1>2, <1>3, <2>1, <2>2 DEF Advances
<1>4. CASE Waiting(n) # {}
  <2> DEFINE u == CHOOSE t \in Waiting(n) : TRUE
  <2>1. u \in Waiting(n) /\ u \in Task
    BY <1>4 DEF Waiting, TypeOK
  <2>2. Aborts(n) = <<AbortedWait(u)>>
    BY <1>4 DEF Aborts, AbortedWait
  <2> HIDE DEF u
  <2>3. AbortedWait(u) \in Handler
    BY <2>1, Handlers
  <2>4. ready' = Tail(ready) \o <<AbortedWait(u)>> /\ <<AbortedWait(u)>> \in Seq(Handler)
    BY <2>2, <2>3
  <2> DEFINE s == Tail(ready)  a == <<AbortedWait(u)>>
  <2>5. s \in Seq(Handler) /\ a \in Seq(Handler) /\ Len(a) = 1 /\ a[1] = AbortedWait(u)
    BY <2>4, <1>2
  <2>6. Len(s) = Len(ready) - 1
    BY <1>2
  <2>7. ready' = s \o a /\ \A i \in 1..(Len(ready) - 1) : s[i] = ready[i + 1]
    BY <2>4, <1>2
  <2> HIDE DEF s, a
  <2>8. /\ s \o a \in Seq(Handler)
        /\ Len(s \o a) = Len(s) + Len(a)
        /\ \A i \in 1..(Len(s) + Len(a)) : (s \o a)[i] = IF i <= Len(s) THEN s[i] ELSE a[i - Len(s)]
    BY <2>5, ConcatProperties
  <2>9. Len(s) \in Nat /\ Len(s) + Len(a) = Len(ready)
    BY <2>5, <2>6, <1>1
  <2>10. ready' \in Seq(Handler) /\ Len(ready') = Len(ready)
    BY <2>9, <2>8, <2>7
  <2>11. \A i \in 1..(Len(ready) - 1) : ready'[i] = ready[i + 1]
    BY <2>6, <2>9, <2>8, <2>7, <1>1
  <2>12. ready'[Len(ready)] = AbortedWait(u)
    <3>1. Len(ready) \in 1..(Len(s) + Len(a)) /\ Len(ready) - Len(s) = 1 /\ ~(Len(ready) <= Len(s))
      BY <2>5, <2>6, <2>9, <1>1
    <3>2. QED BY <3>1, <2>5, <2>8, <2>7
  <2>13. DOMAIN ready' = 1..Len(ready)
    BY <2>10, LenProperties
  <2>14. QED BY <1>1, <2>1, <2>10, <2>11, <2>12, <2>13 DEF Advances
<1>5. QED BY <1>3, <1>4

-------------------------------------------------------------------------------
(* The ids *)

\* Steps that neither enter nor leave addEvent, give no id and let nobody keep
\* one, and under which the task the dispatcher is adding stays.
LEMMA IdsStayKept ==
  ASSUME IInv,
         UNCHANGED <<caller, eventId>>,
         open' => open, threadState = "TERMINATED" => threadState' = "TERMINATED",
         mayDrop \subseteq mayDrop',
         \A t \in Task : kept'[t] \in {0, kept[t]},
         \A t \in Task : phase'[t] = "new" <=> phase[t] = "new",
         LET t == caller["dispatcher"]
         IN  t # NoTask /\ open /\ threadState = "RUNNING" /\ t \notin mayDrop /\ Alive(t)
               => phase'[t] \in {"added", "queued"}
  PROVE  IdsKept'
<1>1. IdReadFromLiveTask'
  <2>1. threadState' = "RUNNING" => threadState = "RUNNING"
    BY DEF IInv, TypeOK
  <2>2. QED BY <2>1 DEF IInv, IdsKept, IdReadFromLiveTask, Alive
<1>2. KeptIdsOwn'
  <2> SUFFICES ASSUME NEW t \in Task, open', threadState' # "TERMINATED", t \notin mayDrop'
               PROVE  kept'[t] \in {0, eventId[t]}
    BY DEF KeptIdsOwn
  <2>1. open /\ threadState # "TERMINATED" /\ t \notin mayDrop
    OBVIOUS
  <2>2. kept[t] \in {0, eventId[t]}
    BY <2>1 DEF IInv, IdsKept, KeptIdsOwn
  <2>3. QED BY <2>2
<1>3. \A t \in Task : phase'[t] = "new" => kept'[t] = 0
  BY DEF IInv, IdsKept
<1>4. \A w \in Thread : caller'[w] # NoTask => phase'[caller'[w]] # "new"
  <2>1. \A w \in Thread : caller[w] # NoTask => caller[w] \in Task
    BY DEF IInv, TypeOK
  <2>2. QED BY <2>1 DEF IInv, IdsKept
<1>5. QED BY <1>1, <1>2, <1>3, <1>4 DEF IdsKept

-------------------------------------------------------------------------------
(* The steps, one lemma each *)

LEMMA AddEventKeeps ==
  ASSUME IInv, NEW w \in Thread, NEW t \in Task, AddEvent(w, t)
  PROVE  IInv'
<1> DEFINE e == [op |-> "add", task |-> t]  L == Len(ready)
<1>1. NextId \in EventId
  BY SchedulerAssumption DEF NextId, EventId, IInv, TypeOK
<1>2. TypeOK /\ e \in Handler /\ ready' = Append(ready, e)
  BY Handlers DEF IInv, AddEvent
<1>3. /\ ready' \in Seq(Handler) /\ L \in Nat
      /\ DOMAIN ready = 1..L /\ DOMAIN ready' = 1..(L + 1)
      /\ \A i \in 1..L : ready'[i] = ready[i]
      /\ ready'[L + 1] = e
  BY <1>2, Queued DEF Queues
<1>4. \A i \in 1..L : ready[i] \in Handler
  BY <1>2 DEF TypeOK
<1> HIDE DEF L
<1>5. TypeOK'
  BY <1>1, <1>2, <1>3 DEF AddEvent, TypeOK, Pending
<1>6. phase[t] = "new" /\ t \notin armed /\ Holding(t) = {}
  BY DEF AddEvent, IInv, Owned
<1>7. Holding(t)' = {L + 1} /\ \A u \in Task : u # t => Holding(u)' = Holding(u)
  BY <1>3, <1>6 DEF Holding
<1>8. Owned'
  <2> SUFFICES ASSUME NEW u \in Task
               PROVE  /\ \A i, j \in Holding(u)' : i = j
                      /\ u \in armed' => Holding(u)' = {}
                      /\ phase'[u] = "added" <=> u \in armed' \/ Holding(u)' # {}
    BY DEF Owned
  <2>1. CASE u = t
    BY <2>1, <1>2, <1>6, <1>7 DEF AddEvent, TypeOK
  <2>2. CASE u # t
    <3>1. phase'[u] = phase[u] /\ armed' = armed /\ Holding(u)' = Holding(u)
      BY <2>2, <1>2, <1>7 DEF AddEvent, TypeOK
    <3>2. QED BY <3>1 DEF IInv, Owned
  <2>3. QED BY <2>1, <2>2
<1>9. TimerTable'
  <2>1. /\ UNCHANGED <<keys, armed>> /\ eventId'[t] = NextId
        /\ \A u \in Task : u # t => eventId'[u] = eventId[u]
    BY <1>2 DEF AddEvent, TypeOK
  <2>2. \A u \in armed : eventId'[u] \in keys
    BY <1>2, <1>6, <2>1 DEF IInv, TimerTable, TypeOK
  <2>3. ASSUME NEW n \in keys
        PROVE  \E u \in Task : /\ eventId'[u] = n
                               /\ u \in armed \/ \E i \in Holding(u)' : ready'[i].op = "wait"
    <3>1. PICK u \in Task : /\ eventId[u] = n
                            /\ u \in armed \/ \E i \in Holding(u) : ready[i].op = "wait"
      BY DEF IInv, TimerTable
    <3>2. u # t
      BY <3>1, <1>6
    <3>3. Holding(u)' = Holding(u) /\ \A i \in Holding(u) : ready'[i] = ready[i]
      BY <3>2, <1>3, <1>7 DEF Holding
    <3>4. QED BY <3>1, <3>2, <3>3, <2>1
  <2>4. QED BY <2>1, <2>2, <2>3 DEF TimerTable
<1>10. OneWait'
  BY <1>2, <1>6 DEF IInv, OneWait, AddEvent, TypeOK
<1>11. CancelledAborted'
  BY <1>2, <1>3, <1>6, <1>7 DEF IInv, CancelledAborted, AddEvent, TypeOK, Holding
<1>12. SameIdMayDrop'
  BY <1>2, <1>1, <1>6 DEF IInv, SameIdMayDrop, AddEvent, TypeOK, Pending
<1>13. AbortedMayDrop'
  BY <1>2, <1>3 DEF IInv, AbortedMayDrop, AddEvent
<1>14. StopsCovered'
  BY <1>2, <1>3, <1>6, <1>7 DEF IInv, StopsCovered, AddEvent, TypeOK, Holding
<1>15. IdsKept'
  <2>1. /\ phase' = [phase EXCEPT ![t] = "added"]
        /\ eventId' = [eventId EXCEPT ![t] = NextId]
        /\ caller' = [caller EXCEPT ![w] = t]
        /\ mayDrop \subseteq mayDrop'
        /\ UNCHANGED <<threadState, open, kept>>
    BY DEF AddEvent
  <2>2. phase'[t] = "added" /\ \A u \in Task : u # t => phase'[u] = phase[u] /\ eventId'[u] = eventId[u]
    BY <1>2, <2>1 DEF TypeOK
  <2>3. /\ caller'[w] = t /\ \A v \in Thread : v # w => caller'[v] = caller[v]
        /\ \A v \in Thread : caller[v] # NoTask => caller[v] \in Task
        /\ "dispatcher" \in Thread
    BY <1>2, <2>1 DEF TypeOK, Thread
  <2>4. IdReadFromLiveTask'
    <3> SUFFICES ASSUME caller'["dispatcher"] # NoTask, open, threadState = "RUNNING",
                        caller'["dispatcher"] \notin mayDrop'
                 PROVE  phase'[caller'["dispatcher"]] \in {"added", "queued"}
      BY <2>1 DEF IdReadFromLiveTask, Alive
    <3>1. CASE caller'["dispatcher"] = t
      BY <3>1, <2>2
    <3>2. CASE caller'["dispatcher"] # t
      <4>1. caller["dispatcher"] = caller'["dispatcher"]
        BY <3>2, <2>3
      <4>2. phase[caller["dispatcher"]] \in {"added", "queued"}
        BY <4>1, <2>1 DEF IInv, IdsKept, IdReadFromLiveTask, Alive
      <4>3. QED BY <4>1, <4>2, <3>2, <2>2, <2>3
    <3>3. QED BY <3>1, <3>2
  <2>5. kept[t] = 0
    BY <1>6 DEF IInv, IdsKept
  <2>6. KeptIdsOwn'
    <3>1. \A u \in Task : \/ kept[u] \in {0, eventId[u]} \/ ~open
                           \/ threadState = "TERMINATED" \/ u \in mayDrop
      BY DEF IInv, IdsKept, KeptIdsOwn
    <3>2. QED BY <3>1, <2>1, <2>2, <2>5 DEF KeptIdsOwn
  <2>7. \A u \in Task : phase'[u] = "new" => kept'[u] = 0
    <3>1. \A u \in Task : phase[u] = "new" => kept[u] = 0
      BY DEF IInv, IdsKept
    <3>2. QED BY <3>1, <2>1, <2>2
  <2>8. \A v \in Thread : caller'[v] # NoTask => phase'[caller'[v]] # "new"
    <3>1. \A v \in Thread : caller[v] # NoTask => phase[caller[v]] # "new"
      BY DEF IInv, IdsKept
    <3>2. QED BY <3>1, <2>2, <2>3
  <2>9. QED BY <2>4, <2>6, <2>7, <2>8 DEF IdsKept
<1>16. QED BY <1>5, <1>8, <1>9, <1>10, <1>11, <1>12, <1>13, <1>14, <1>15 DEF IInv

\* Steps that leave the queue, the timers and the pending events alone.
LEMMA QuietStep ==
  ASSUME IInv, UNCHANGED <<eventId, ready, keys, armed, mayDrop, cancelled>>,
         \A t \in Task : phase'[t] = "added" <=> phase[t] = "added",
         \A t \in cancelled : phase'[t] = phase[t]
  PROVE  /\ Owned' /\ TimerTable' /\ OneWait' /\ CancelledAborted'
         /\ SameIdMayDrop' /\ AbortedMayDrop' /\ StopsCovered'
<1>1. \A t : Holding(t)' = Holding(t)
  BY DEF Holding
<1>2. Owned'
  BY <1>1 DEF IInv, Owned
<1>3. TimerTable' /\ OneWait'
  BY <1>1 DEF IInv, TimerTable, OneWait
<1>4. CancelledAborted'
  BY <1>1 DEF IInv, CancelledAborted, TypeOK
<1>5. SameIdMayDrop' /\ AbortedMayDrop'
  BY DEF IInv, SameIdMayDrop, AbortedMayDrop
<1>6. StopsCovered'
  BY <1>1 DEF IInv, StopsCovered
<1>7. QED BY <1>2, <1>3, <1>4, <1>5, <1>6

LEMMA ReturnIdKeeps ==
  ASSUME IInv, NEW w \in Thread, ReturnId(w)
  PROVE  IInv'
<1> SUFFICES ASSUME NEW t, t = caller[w]
             PROVE  IInv'
  OBVIOUS
<1>1. PICK n \in IdRead(t) : kept' = IF KeepsId(w) THEN [kept EXCEPT ![t] = n] ELSE kept
  BY DEF ReturnId
<1>2. /\ t # NoTask /\ t \in Task /\ w \in Thread
      /\ caller' = [caller EXCEPT ![w] = NoTask]
      /\ UNCHANGED <<threadState, open, lastEventId, eventId, ready, keys, armed,
                     halted, phase, mayDrop, cancelled>>
  BY DEF ReturnId, IInv, TypeOK
<1>3. n \in EventId
  BY <1>2 DEF IdRead, IInv, TypeOK
<1>4. kept' \in [Task -> EventId]
  BY <1>1, <1>2, <1>3 DEF IInv, TypeOK
<1>5. /\ caller' \in [Thread -> Task \cup {NoTask}] /\ caller'[w] = NoTask
      /\ \A v \in Thread : v # w => caller'[v] = caller[v]
  BY <1>2 DEF IInv, TypeOK
<1>6. TypeOK'
  BY <1>2, <1>4, <1>5 DEF IInv, TypeOK
<1>7. IdReadFromLiveTask'
  <2>1. "dispatcher" \in Thread
    BY DEF Thread
  <2>2. CASE w = "dispatcher"
    BY <2>2, <1>5 DEF IdReadFromLiveTask
  <2>3. CASE w # "dispatcher"
    <3>1. caller'["dispatcher"] = caller["dispatcher"]
      BY <2>1, <2>3, <1>5
    <3>2. QED BY <3>1, <1>2 DEF IInv, IdsKept, IdReadFromLiveTask, Alive
  <2>4. QED BY <2>2, <2>3
<1>8. \A u \in Task : u # t => kept'[u] = kept[u]
  BY <1>1, <1>2 DEF IInv, TypeOK
<1>9. KeepsId(w) => w = "dispatcher" /\ kept'[t] = n
  BY <1>1, <1>2 DEF KeepsId, IInv, TypeOK
<1>10. ~KeepsId(w) => kept'[t] = kept[t]
  BY <1>1
<1>11. KeptIdsOwn'
  <2> SUFFICES ASSUME NEW u \in Task, open, threadState # "TERMINATED", u \notin mayDrop
               PROVE  kept'[u] \in {0, eventId[u]}
    BY <1>2 DEF KeptIdsOwn
  <2>1. kept[u] \in {0, eventId[u]}
    BY DEF IInv, IdsKept, KeptIdsOwn
  <2>2. CASE u = t /\ KeepsId(w)
    <3>1. threadState = "RUNNING" /\ w = "dispatcher" /\ t = caller["dispatcher"]
      BY <2>2, <1>9 DEF IInv, TypeOK
    <3>2. Alive(t)
      BY <3>1, <2>2, <1>2 DEF IInv, IdsKept, IdReadFromLiveTask
    <3>3. n = eventId[t]
      BY <3>2 DEF IdRead
    <3>4. QED BY <3>3, <2>2, <1>9
  <2>3. CASE ~(u = t /\ KeepsId(w))
    BY <2>1, <2>3, <1>8, <1>10
  <2>4. QED BY <2>2, <2>3
<1>12. \A u \in Task : phase'[u] = "new" => kept'[u] = 0
  <2>1. phase[t] # "new"
    BY <1>2 DEF IInv, IdsKept
  <2>2. \A u \in Task : phase[u] = "new" => kept[u] = 0
    BY DEF IInv, IdsKept
  <2>3. QED BY <2>1, <2>2, <1>2, <1>8
<1>13. \A v \in Thread : caller'[v] # NoTask => phase'[caller'[v]] # "new"
  BY <1>2, <1>5 DEF IInv, IdsKept
<1>14. IdsKept'
  BY <1>7, <1>11, <1>12, <1>13 DEF IdsKept
<1>15. QED BY <1>2, <1>6, <1>14, QuietStep DEF IInv

\* The dispatcher is inside no addEvent when it runs a task.
LEMMA RunTaskKeeps ==
  ASSUME IInv, NEW t \in Task, RunTask(t)
  PROVE  IInv'
<1>1. TypeOK'
  BY DEF IInv, TypeOK, RunTask
<1>2. /\ \A u \in Task : phase'[u] = "added" <=> phase[u] = "added"
      /\ \A u \in cancelled : phase'[u] = phase[u]
  BY DEF IInv, TypeOK, CancelledAborted, RunTask
<1>3. IdsKept'
  <2>1. /\ caller["dispatcher"] = NoTask /\ phase[t] = "queued" /\ phase' = [phase EXCEPT ![t] = "ran"]
        /\ UNCHANGED <<caller, eventId, open, threadState, mayDrop, kept>>
    BY DEF RunTask, NotInside
  <2>2. \A u \in Task : phase'[u] = "new" <=> phase[u] = "new"
    BY <2>1 DEF IInv, TypeOK
  <2>3. QED BY <2>1, <2>2, IdsStayKept
<1>4. QED BY <1>1, <1>2, <1>3, QuietStep DEF IInv, RunTask

LEMMA CloseDispatcherKeeps ==
  ASSUME IInv, CloseDispatcher
  PROVE  IInv'
<1>1. TypeOK'
  BY DEF IInv, TypeOK, CloseDispatcher
<1>2. IdsKept'
  <2>1. UNCHANGED <<caller, eventId, threadState, mayDrop, kept, phase>> /\ ~open'
    BY DEF CloseDispatcher
  <2>2. QED BY <2>1, IdsStayKept DEF Alive
<1>3. QED BY <1>1, <1>2, QuietStep DEF IInv, CloseDispatcher

\* Calls that queue a handler which owns no task.
LEMMA QueueOther ==
  ASSUME IInv, NEW e \in Handler, e.op \in {"stop", "halt"},
         Queues(e),
         UNCHANGED <<eventId, keys, armed, phase, cancelled>>,
         mayDrop \subseteq mayDrop',
         e.op = "stop" => \A t \in Task : phase[t] = "added" /\ eventId[t] = e.id => t \in mayDrop'
  PROVE  /\ ready' \in Seq(Handler)
         /\ Owned' /\ TimerTable' /\ OneWait' /\ CancelledAborted'
         /\ SameIdMayDrop' /\ AbortedMayDrop' /\ StopsCovered'
<1> DEFINE L == Len(ready)
<1>1. TypeOK
  BY DEF IInv
<1>2. /\ ready' \in Seq(Handler) /\ L \in Nat
      /\ DOMAIN ready = 1..L /\ DOMAIN ready' = 1..(L + 1)
      /\ \A i \in 1..L : ready'[i] = ready[i]
      /\ ready'[L + 1] = e
  BY DEF Queues
<1> HIDE DEF L
<1>3. \A t \in Task : Holding(t)' = Holding(t)
  BY <1>2 DEF Holding
<1>4. \A t \in Task : \A i \in Holding(t) : ready'[i] = ready[i]
  BY <1>2 DEF Holding
<1>5. Owned'
  BY <1>3 DEF IInv, Owned
<1>6. TimerTable'
  BY <1>2, <1>3, <1>4 DEF IInv, TimerTable
<1>7. OneWait' /\ CancelledAborted'
  <2>1. OneWait'
    BY DEF IInv, OneWait
  <2>2. ASSUME NEW t \in cancelled
        PROVE  /\ t \notin armed /\ phase[t] \in {"added", "deleted"}
               /\ \A i \in Holding(t)' : ready'[i].op = "wait" /\ ready'[i].aborted
    <3>1. t \in Task
      BY <1>1 DEF TypeOK
    <3>2. QED BY <3>1, <1>3, <1>4 DEF IInv, CancelledAborted
  <2>3. QED BY <2>1, <2>2 DEF CancelledAborted
<1>8. SameIdMayDrop' /\ AbortedMayDrop'
  BY <1>2 DEF IInv, SameIdMayDrop, AbortedMayDrop
<1>9. StopsCovered'
  <2> SUFFICES ASSUME NEW i \in DOMAIN ready', NEW t \in Task,
                      ready'[i].op = "stop", ready'[i].id = eventId[t],
                      t \in armed \/ \E j \in Holding(t) : j < i /\ ready'[j].op = "add"
               PROVE  t \in mayDrop'
    BY <1>3 DEF StopsCovered
  <2>1. phase[t] = "added"
    BY DEF IInv, Owned
  <2>2. CASE i \in 1..L
    BY <2>2, <1>2, <1>4 DEF IInv, StopsCovered
  <2>3. CASE i = L + 1
    BY <2>1, <2>3, <1>2
  <2>4. QED BY <2>2, <2>3, <1>2
<1>10. QED BY <1>2, <1>5, <1>6, <1>7, <1>8, <1>9

LEMMA ShutdownKeeps ==
  ASSUME IInv, Shutdown
  PROVE  IInv'
<1> DEFINE e == [op |-> "halt"]
<1>1. e \in Handler /\ e.op = "halt"
  BY Handlers
<1>2. /\ ready' \in Seq(Handler)
      /\ Owned' /\ TimerTable' /\ OneWait' /\ CancelledAborted'
      /\ SameIdMayDrop' /\ AbortedMayDrop' /\ StopsCovered'
  BY <1>1, Queued, QueueOther DEF IInv, Shutdown
<1>3. TypeOK'
  BY <1>2 DEF IInv, TypeOK, Shutdown
<1>4. IdsKept'
  <2>1. UNCHANGED <<caller, eventId, open, mayDrop, kept, phase>> /\ threadState' = "TERMINATED"
    BY DEF Shutdown
  <2>2. QED BY <2>1, IdsStayKept DEF Alive
<1>5. QED BY <1>2, <1>3, <1>4 DEF IInv

\* What is pending with the id when a stop is asked for may be dropped.
LEMMA StopEventKeeps ==
  ASSUME IInv, NEW t \in Task, StopEvent(t)
  PROVE  IInv'
<1> DEFINE e == [op |-> "stop", id |-> kept[t]]
<1>1. e \in Handler /\ e.op = "stop" /\ e.id = kept[t]
  BY Handlers DEF IInv, TypeOK
<1>2. mayDrop' = mayDrop \cup Pending(kept[t])
  BY DEF StopEvent
<1>3. /\ ready' \in Seq(Handler)
      /\ Owned' /\ TimerTable' /\ OneWait' /\ CancelledAborted'
      /\ SameIdMayDrop' /\ AbortedMayDrop' /\ StopsCovered'
  <2>1. ready' = Append(ready, e)
    BY DEF StopEvent
  <2>2. \A u \in Task : phase[u] = "added" /\ eventId[u] = e.id => u \in mayDrop'
    BY <1>1, <1>2 DEF Pending
  <2>3. UNCHANGED <<eventId, keys, armed, phase, cancelled>>
    BY DEF StopEvent
  <2>4. QED BY <1>1, <1>2, <2>1, <2>2, <2>3, Queued, QueueOther DEF IInv
<1>4. kept' = [kept EXCEPT ![t] = 0] /\ 0 \in EventId
  BY SchedulerAssumption DEF StopEvent, EventId
<1>5. kept' \in [Task -> EventId] /\ \A u \in Task : kept'[u] \in {0, kept[u]}
  BY <1>4 DEF IInv, TypeOK
<1>6. TypeOK'
  BY <1>3, <1>5 DEF IInv, TypeOK, StopEvent, Pending
<1>7. IdsKept'
  <2>1. UNCHANGED <<caller, eventId, open, threadState, phase>> /\ mayDrop \subseteq mayDrop'
    BY DEF StopEvent
  <2>2. QED BY <2>1, <1>5, IdsStayKept DEF Alive
<1>8. QED BY <1>3, <1>6, <1>7 DEF IInv

\* A wait that completes takes its task into the queue.
LEMMA ExpireKeeps ==
  ASSUME IInv, NEW t \in Task, Expire(t)
  PROVE  IInv'
<1> DEFINE e == [op |-> "wait", task |-> t, aborted |-> FALSE]  L == Len(ready)
<1>1. TypeOK /\ e \in Handler /\ ready' = Append(ready, e)
  BY Handlers DEF IInv, Expire
<1>2. /\ ready' \in Seq(Handler) /\ L \in Nat
      /\ DOMAIN ready = 1..L /\ DOMAIN ready' = 1..(L + 1)
      /\ \A i \in 1..L : ready'[i] = ready[i]
      /\ ready'[L + 1] = e
  BY <1>1, Queued DEF Queues
<1> HIDE DEF L
<1>3. /\ t \in armed /\ armed' = armed \ {t}
      /\ UNCHANGED <<threadState, open, lastEventId, eventId, caller, kept, keys, halted,
                     phase, mayDrop, cancelled>>
  BY DEF Expire
<1>4. phase[t] = "added" /\ Holding(t) = {} /\ t \notin cancelled
  BY <1>3 DEF IInv, Owned, CancelledAborted
<1>5. Holding(t)' = {L + 1} /\ \A u \in Task : u # t => Holding(u)' = Holding(u)
  BY <1>2, <1>4 DEF Holding
<1>6. \A u \in Task : \A i \in Holding(u) : ready'[i] = ready[i]
  BY <1>2 DEF Holding
<1>7. TypeOK'
  BY <1>1, <1>2, <1>3 DEF TypeOK
<1>8. Owned'
  BY <1>3, <1>4, <1>5 DEF IInv, Owned
<1>9. TimerTable'
  BY <1>2, <1>3, <1>5, <1>6 DEF IInv, TimerTable
<1>10. OneWait'
  BY <1>3 DEF IInv, OneWait
<1>11. CancelledAborted'
  <2> SUFFICES ASSUME NEW u \in cancelled
               PROVE  /\ u \notin armed' /\ phase[u] \in {"added", "deleted"}
                      /\ \A i \in Holding(u)' : ready'[i].op = "wait" /\ ready'[i].aborted
    BY <1>3 DEF CancelledAborted
  <2>1. u \in Task /\ u # t
    BY <1>1, <1>4 DEF TypeOK
  <2>2. /\ u \notin armed /\ phase[u] \in {"added", "deleted"}
        /\ \A i \in Holding(u) : ready[i].op = "wait" /\ ready[i].aborted
    BY DEF IInv, CancelledAborted
  <2>3. QED BY <2>1, <2>2, <1>3, <1>5, <1>6
<1>12. SameIdMayDrop' /\ AbortedMayDrop'
  BY <1>2, <1>3 DEF IInv, SameIdMayDrop, AbortedMayDrop
<1>13. StopsCovered'
  BY <1>2, <1>3, <1>5, <1>6 DEF IInv, StopsCovered
<1>14. IdsKept'
  BY <1>3, IdsStayKept DEF Alive
<1>15. QED BY <1>7, <1>8, <1>9, <1>10, <1>11, <1>12, <1>13, <1>14 DEF IInv

\* Where the handlers of a task are after the first one has run.
LEMMA Moved ==
  ASSUME IInv, NEW n, Advances(n)
  PROVE  /\ \A t \in Waiting(n) :
              /\ t \in Task /\ t \in armed /\ phase[t] = "added"
              /\ Holding(t)' = {Len(ready)} /\ ready'[Len(ready)] = AbortedWait(t)
         /\ \A t \in Task : t \notin Waiting(n) =>
              \A i : i \in Holding(t)' <=> i \in 1..(Len(ready) - 1) /\ i + 1 \in Holding(t)
         /\ \A i \in DOMAIN ready' :
              \/ i \in 1..(Len(ready) - 1)
              \/ i = Len(ready) /\ \E u \in Waiting(n) : ready'[i] = AbortedWait(u)
         /\ \A t \in Task : t \notin Waiting(n) /\ 1 \notin Holding(t) =>
              (Holding(t)' = {} <=> Holding(t) = {})
         /\ \A t \in Task : 1 \in Holding(t) => t \notin Waiting(n) /\ Holding(t)' = {}
<1> DEFINE L == Len(ready)
<1>1. /\ L \in Nat \ {0} /\ DOMAIN ready = 1..L
      /\ \A i \in 1..(L - 1) : ready'[i] = ready[i + 1]
      /\ \/ Waiting(n) = {} /\ DOMAIN ready' = 1..(L - 1)
         \/ /\ DOMAIN ready' = 1..L
            /\ \E u \in Waiting(n) : ready'[L] = AbortedWait(u)
  BY DEF Advances
<1> HIDE DEF L
<1>2. \A t, u \in Waiting(n) : t = u /\ t \in Task /\ t \in armed
  BY DEF Waiting, IInv, OneWait, TypeOK
<1>3. \A t \in Waiting(n) : phase[t] = "added" /\ Holding(t) = {}
  BY <1>2 DEF IInv, Owned
<1>4. \A t \in Waiting(n) : ready'[L] = AbortedWait(t) /\ DOMAIN ready' = 1..L
  BY <1>1, <1>2
<1>5. \A i \in 1..(L - 1) : i + 1 \in 1..L /\ i \in 1..L /\ i # L
  BY <1>1
<1>6. ASSUME NEW t \in Waiting(n)
      PROVE  Holding(t)' = {L}
  <2>1. DOMAIN ready' = 1..L /\ L \in 1..L /\ ready'[L] = AbortedWait(t)
    BY <1>1, <1>4, <1>6
  <2>2. L \in Holding(t)'
    BY <2>1 DEF Holding, AbortedWait
  <2>3. ASSUME NEW i \in Holding(t)', i # L
        PROVE  FALSE
    <3>1. i \in 1..(L - 1) /\ ready'[i].op \in {"add", "wait"} /\ ready'[i].task = t
      BY <2>1, <2>3, <1>1 DEF Holding
    <3>2. i + 1 \in Holding(t)
      BY <3>1, <1>1, <1>5 DEF Holding
    <3>3. QED BY <3>2, <1>3, <1>6
  <2>4. QED BY <2>2, <2>3
<1>7. \A i \in DOMAIN ready' :
        \/ i \in 1..(L - 1)
        \/ i = L /\ \E u \in Waiting(n) : ready'[i] = AbortedWait(u)
  <2>1. \A i \in 1..L : i = L \/ i \in 1..(L - 1)
    BY <1>1
  <2>2. QED BY <2>1, <1>1
<1>8. \A i \in 1..(L - 1) : i \in DOMAIN ready'
  BY <1>1, <1>5
<1>9. ASSUME NEW t \in Task, t \notin Waiting(n), NEW i
      PROVE  i \in Holding(t)' <=> i \in 1..(L - 1) /\ i + 1 \in Holding(t)
  <2>1. ASSUME i \in Holding(t)'
        PROVE  i \in 1..(L - 1)
    <3>1. i \in DOMAIN ready' /\ ready'[i].task = t
      BY <2>1 DEF Holding
    <3>2. QED BY <3>1, <1>7, <1>9 DEF AbortedWait
  <2>2. ASSUME i \in 1..(L - 1)
        PROVE  i \in Holding(t)' <=> i + 1 \in Holding(t)
    BY <2>2, <1>1, <1>5, <1>8 DEF Holding
  <2>3. QED BY <2>1, <2>2
<1>10. ASSUME NEW t \in Task, t \notin Waiting(n), 1 \notin Holding(t)
      PROVE  Holding(t)' = {} <=> Holding(t) = {}
  <2>1. \A i \in Holding(t) : i - 1 \in 1..(L - 1) /\ (i - 1) + 1 = i
    BY <1>1, <1>10 DEF Holding
  <2>2. QED BY <2>1, <1>9, <1>10
<1>11. ASSUME NEW t \in Task, 1 \in Holding(t)
      PROVE  t \notin Waiting(n) /\ Holding(t)' = {}
  <2>1. t \notin Waiting(n)
    BY <1>3, <1>11
  <2>2. \A i \in Holding(t) : i = 1
    BY <1>11 DEF IInv, Owned
  <2>3. QED BY <2>1, <2>2, <1>9
<1>12. QED BY <1>2, <1>3, <1>4, <1>6, <1>7, <1>9, <1>10, <1>11 DEF L

\* What running the first handler does when it cancels the wait of id n, arms
\* the timers of N (none, or that of the task it owns) and otherwise settles
\* the task it owns.
LEMMA Advance ==
  ASSUME IInv, NEW n, Advances(n), NEW N \in SUBSET Task,
         armed' = (armed \ Waiting(n)) \cup N,
         cancelled' = cancelled \cup Waiting(n),
         UNCHANGED <<eventId, mayDrop>>,
         Waiting(n) \subseteq mayDrop,
         \A t \in N : 1 \in Holding(t) /\ ready[1].op = "add" /\ eventId[t] = n,
         \A t \in Task : 1 \notin Holding(t) \/ t \in N => phase'[t] = phase[t],
         \A t \in Task : 1 \in Holding(t) /\ t \notin N =>
           /\ ready[1].op = "wait"
           /\ phase'[t] \in {"queued", "deleted"}
           /\ ready[1].aborted => phase'[t] = "deleted"
  PROVE  /\ Owned' /\ OneWait' /\ CancelledAborted'
         /\ SameIdMayDrop' /\ AbortedMayDrop' /\ StopsCovered'
<1> DEFINE L == Len(ready)
<1>1. /\ \A t \in Waiting(n) :
           /\ t \in Task /\ t \in armed /\ phase[t] = "added"
           /\ Holding(t)' = {L} /\ ready'[L] = AbortedWait(t)
      /\ \A t \in Task : t \notin Waiting(n) =>
           \A i : i \in Holding(t)' <=> i \in 1..(L - 1) /\ i + 1 \in Holding(t)
      /\ \A i \in DOMAIN ready' :
           \/ i \in 1..(L - 1)
           \/ i = L /\ \E u \in Waiting(n) : ready'[i] = AbortedWait(u)
      /\ \A t \in Task : t \notin Waiting(n) /\ 1 \notin Holding(t) =>
           (Holding(t)' = {} <=> Holding(t) = {})
      /\ \A t \in Task : 1 \in Holding(t) => t \notin Waiting(n) /\ Holding(t)' = {}
  BY Moved
<1>2. /\ L \in Nat \ {0} /\ DOMAIN ready = 1..L
      /\ \A i \in 1..(L - 1) : ready'[i] = ready[i + 1]
      /\ \A i \in 1..(L - 1) : i + 1 \in 1..L /\ i \in Nat
  BY DEF Advances
<1> HIDE DEF L
<1>3. \A t \in Task : 1 \in Holding(t) => t \notin armed /\ phase[t] = "added"
  BY DEF IInv, Owned
<1>4. Owned'
  <2> SUFFICES ASSUME NEW t \in Task
               PROVE  /\ \A i, j \in Holding(t)' : i = j
                      /\ t \in armed' => Holding(t)' = {}
                      /\ phase'[t] = "added" <=> t \in armed' \/ Holding(t)' # {}
    BY DEF Owned
  <2>1. CASE t \in Waiting(n)
    BY <2>1, <1>1
  <2>2. CASE t \notin Waiting(n) /\ 1 \notin Holding(t)
    <3>1. /\ \A i, j \in Holding(t) : i = j
          /\ t \in armed => Holding(t) = {}
          /\ phase[t] = "added" <=> t \in armed \/ Holding(t) # {}
      BY DEF IInv, Owned
    <3>2. phase'[t] = phase[t] /\ (t \in armed' <=> t \in armed)
      BY <2>2
    <3>3. \A i, j \in Holding(t)' : i = j
      <4>1. \A i, j \in Holding(t)' :
              /\ i \in 1..(L - 1) /\ i + 1 \in Holding(t)
              /\ j \in 1..(L - 1) /\ j + 1 \in Holding(t)
        BY <2>2, <1>1
      <4>2. QED BY <4>1, <3>1, <1>2
    <3>4. Holding(t)' = {} <=> Holding(t) = {}
      BY <2>2, <1>1
    <3>5. QED BY <3>1, <3>2, <3>3, <3>4
  <2>3. CASE 1 \in Holding(t)
    BY <2>3, <1>1, <1>3
  <2>4. QED BY <2>1, <2>2, <2>3
<1>5. OneWait'
  <2>1. \A t, u \in N : t = u
    BY DEF Holding
  <2>2. \A t \in N, u \in armed \ Waiting(n) : eventId[t] # eventId[u]
    BY DEF Waiting
  <2>3. QED BY <2>1, <2>2 DEF IInv, OneWait
<1>6. CancelledAborted'
  <2> SUFFICES ASSUME NEW t \in cancelled'
               PROVE  /\ t \notin armed' /\ phase'[t] \in {"added", "deleted"}
                      /\ \A i \in Holding(t)' : ready'[i].op = "wait" /\ ready'[i].aborted
    BY DEF CancelledAborted
  <2>1. CASE t \in Waiting(n)
    <3>1. t \in Task /\ 1 \notin Holding(t) /\ t \notin N /\ phase'[t] = "added"
      BY <2>1, <1>1
    <3>2. \A i \in Holding(t)' : ready'[i] = AbortedWait(t)
      BY <2>1, <1>1
    <3>3. QED BY <2>1, <3>1, <3>2 DEF AbortedWait
  <2>2. CASE t \in cancelled /\ t \notin Waiting(n)
    <3>1. /\ t \in Task /\ t \notin armed /\ phase[t] \in {"added", "deleted"}
          /\ \A i \in Holding(t) : ready[i].op = "wait" /\ ready[i].aborted
      BY <2>2 DEF IInv, TypeOK, CancelledAborted
    <3>2. t \notin N
      BY <3>1
    <3>3. phase'[t] \in {"added", "deleted"}
      BY <3>1, <3>2
    <3>4. \A i \in Holding(t)' : ready'[i].op = "wait" /\ ready'[i].aborted
      BY <3>1, <2>2, <1>1, <1>2
    <3>5. QED BY <3>1, <3>2, <3>3, <3>4
  <2>3. QED BY <2>1, <2>2
<1>7. SameIdMayDrop'
  <2>1. \A t \in Task : phase'[t] = "added" => phase[t] = "added"
    OBVIOUS
  <2>2. QED BY <2>1 DEF IInv, SameIdMayDrop
<1>8. AbortedMayDrop'
  <2> SUFFICES ASSUME NEW i \in DOMAIN ready', ready'[i].op = "wait", ready'[i].aborted
               PROVE  ready'[i].task \in mayDrop
    BY DEF AbortedMayDrop
  <2>1. CASE i \in 1..(L - 1)
    BY <2>1, <1>2 DEF IInv, AbortedMayDrop
  <2>2. CASE \E u \in Waiting(n) : ready'[i] = AbortedWait(u)
    BY <2>2 DEF AbortedWait
  <2>3. QED BY <2>1, <2>2, <1>1
<1>9. StopsCovered'
  <2> SUFFICES ASSUME NEW i \in DOMAIN ready', NEW t \in Task,
                      ready'[i].op = "stop", ready'[i].id = eventId[t],
                      t \in armed' \/ \E j \in Holding(t)' : j < i /\ ready'[j].op = "add"
               PROVE  t \in mayDrop
    BY DEF StopsCovered
  <2>1. i \in 1..(L - 1) /\ i + 1 \in DOMAIN ready /\ ready'[i] = ready[i + 1]
    BY <1>1, <1>2 DEF AbortedWait
  <2>2. CASE t \in Waiting(n)
    BY <2>2
  <2>3. CASE t \in armed
    BY <2>1, <2>3 DEF IInv, StopsCovered
  <2>4. CASE t \in N
    <3>1. 1 < i + 1
      BY <2>1, <1>2
    <3>2. QED BY <3>1, <2>1, <2>4 DEF IInv, StopsCovered
  <2>5. CASE t \notin Waiting(n) /\ \E j \in Holding(t)' : j < i /\ ready'[j].op = "add"
    <3>1. PICK j \in 1..(L - 1) : j < i /\ j + 1 \in Holding(t) /\ ready[j + 1].op = "add"
      BY <2>5, <1>1, <1>2
    <3>2. j + 1 < i + 1
      BY <3>1, <2>1
    <3>3. QED BY <3>1, <3>2, <2>1 DEF IInv, StopsCovered
  <2>6. QED BY <2>2, <2>3, <2>4, <2>5
<1>10. QED BY <1>4, <1>5, <1>6, <1>7, <1>8, <1>9

\* The timer table keeps the ids whose timers are not those of the task that
\* has run.
LEMMA KeptWitness ==
  ASSUME IInv, NEW n, Advances(n), NEW k \in keys,
         armed \ Waiting(n) \subseteq armed',
         \A t \in Task : 1 \in Holding(t) => ready[1].op = "add" \/ eventId[t] # k
  PROVE  \E t \in Task : /\ eventId[t] = k
                         /\ t \in armed' \/ \E i \in Holding(t)' : ready'[i].op = "wait"
<1> DEFINE L == Len(ready)
<1>1. PICK t \in Task : /\ eventId[t] = k
                        /\ t \in armed \/ \E i \in Holding(t) : ready[i].op = "wait"
  BY DEF IInv, TimerTable
<1>2. /\ L \in Nat \ {0} /\ DOMAIN ready = 1..L
      /\ \A i \in 1..(L - 1) : ready'[i] = ready[i + 1]
  BY DEF Advances
<1>3. /\ \A u \in Waiting(n) : Holding(u)' = {L} /\ ready'[L] = AbortedWait(u)
      /\ \A u \in Task : u \notin Waiting(n) =>
           \A i : i \in Holding(u)' <=> i \in 1..(L - 1) /\ i + 1 \in Holding(u)
  BY Moved
<1> HIDE DEF L
<1>4. CASE t \in Waiting(n)
  <2>1. \A u \in Waiting(n) : L \in Holding(u)'
    BY <1>3
  <2>2. ready'[L] = AbortedWait(t)
    BY <1>3, <1>4
  <2>3. ready'[L].op = "wait"
    BY <2>2 DEF AbortedWait
  <2>4. QED BY <1>1, <1>4, <2>1, <2>3
<1>5. CASE t \in armed /\ t \notin Waiting(n)
  BY <1>1, <1>5
<1>6. CASE t \notin Waiting(n) /\ \E i \in Holding(t) : ready[i].op = "wait"
  <2>1. PICK i \in Holding(t) : ready[i].op = "wait"
    BY <1>6
  <2>2. i \in 1..L /\ i # 1
    BY <2>1, <1>1, <1>2 DEF Holding
  <2>3. i - 1 \in 1..(L - 1) /\ (i - 1) + 1 = i
    BY <2>2, <1>2
  <2>4. i - 1 \in Holding(t)' /\ ready'[i - 1].op = "wait"
    BY <2>1, <2>3, <1>2, <1>3, <1>6
  <2>5. QED BY <1>1, <2>4
<1>7. QED BY <1>1, <1>4, <1>5, <1>6

LEMMA RunAddKeeps ==
  ASSUME IInv, RunAdd
  PROVE  IInv'
<1> SUFFICES ASSUME NEW t, NEW n, t = Head(ready).task, n = eventId[t]
             PROVE  IInv'
  OBVIOUS
<1>1. TypeOK /\ ready # <<>> /\ Head(ready).op = "add" /\ ready' = Tail(ready) \o Aborts(n)
  BY DEF IInv, RunAdd, Running
<1>2. Advances(n) /\ Head(ready) = ready[1] /\ Head(ready) \in Handler
  BY <1>1, HeadRuns
<1>3. /\ keys' = keys \cup {n}
      /\ armed' = (armed \ Waiting(n)) \cup {t}
      /\ cancelled' = cancelled \cup Waiting(n)
      /\ UNCHANGED <<threadState, open, lastEventId, eventId, caller, kept, halted, phase, mayDrop>>
  BY DEF RunAdd
<1>4. /\ t \in Task /\ 1 \in Holding(t) /\ ready[1].op = "add" /\ n \in EventId
      /\ \A u \in Task : 1 \in Holding(u) => u = t
  <2>1. t \in Task /\ n \in EventId /\ ready[1].op = "add"
    BY <1>1, <1>2, Handlers DEF TypeOK
  <2>2. 1 \in DOMAIN ready
    BY <1>2 DEF Advances
  <2>3. 1 \in Holding(t)
    BY <2>1, <2>2, <1>2 DEF Holding
  <2>4. QED BY <2>1, <2>3, <1>2 DEF Holding
<1>5. phase[t] = "added" /\ t \notin armed
  BY <1>4 DEF IInv, Owned
<1>6. Waiting(n) \subseteq mayDrop
  <2>1. \A u \in Waiting(n) : /\ u \in Task /\ u # t /\ phase[u] = "added"
                              /\ eventId[u] = eventId[t]
    BY <1>5 DEF Waiting, IInv, TypeOK, Owned
  <2>2. QED BY <2>1, <1>4, <1>5 DEF IInv, SameIdMayDrop
<1>7. /\ Owned' /\ OneWait' /\ CancelledAborted'
      /\ SameIdMayDrop' /\ AbortedMayDrop' /\ StopsCovered'
  <2>1. /\ {t} \in SUBSET Task
        /\ armed' = (armed \ Waiting(n)) \cup {t}
        /\ cancelled' = cancelled \cup Waiting(n)
        /\ UNCHANGED <<eventId, mayDrop>>
    BY <1>3, <1>4
  <2>2. \A u \in {t} : 1 \in Holding(u) /\ ready[1].op = "add" /\ eventId[u] = n
    BY <1>4
  <2>3. \A u \in Task : 1 \notin Holding(u) \/ u \in {t} => phase'[u] = phase[u]
    BY <1>3
  <2>4. \A u \in Task : 1 \in Holding(u) /\ u \notin {t} =>
          /\ ready[1].op = "wait"
          /\ phase'[u] \in {"queued", "deleted"}
          /\ ready[1].aborted => phase'[u] = "deleted"
    BY <1>4
  <2>5. QED BY <2>1, <2>2, <2>3, <2>4, <1>2, <1>6, Advance
<1>8. TypeOK'
  BY <1>1, <1>2, <1>3, <1>4 DEF TypeOK, Advances, Waiting
<1>9. TimerTable'
  <2>1. \A u \in armed' : eventId'[u] \in keys'
    BY <1>3 DEF IInv, TimerTable
  <2>2. ASSUME NEW k \in keys'
        PROVE  \E u \in Task : /\ eventId[u] = k
                               /\ u \in armed' \/ \E i \in Holding(u)' : ready'[i].op = "wait"
    <3>1. CASE k = n
      BY <3>1, <1>3, <1>4
    <3>2. CASE k # n /\ k \in keys
      BY <3>2, <1>2, <1>3, <1>4, KeptWitness
    <3>3. QED BY <3>1, <3>2, <1>3
  <2>3. QED BY <2>1, <2>2, <1>3 DEF TimerTable
<1>10. IdsKept'
  BY <1>3, IdsStayKept DEF Alive
<1>11. QED BY <1>7, <1>8, <1>9, <1>10 DEF IInv

LEMMA RunStopKeeps ==
  ASSUME IInv, RunStop
  PROVE  IInv'
<1> SUFFICES ASSUME NEW n, n = Head(ready).id
             PROVE  IInv'
  OBVIOUS
<1>1. TypeOK /\ ready # <<>> /\ Head(ready).op = "stop" /\ ready' = Tail(ready) \o Aborts(n)
  BY DEF IInv, RunStop, Running, Cancel, StoppedId
<1>2. Advances(n) /\ Head(ready) = ready[1] /\ Head(ready) \in Handler
  BY <1>1, HeadRuns
<1>3. /\ armed' = armed \ Waiting(n)
      /\ cancelled' = cancelled \cup Waiting(n)
      /\ UNCHANGED <<threadState, open, lastEventId, eventId, caller, kept, keys, halted, phase, mayDrop>>
  BY DEF RunStop, Cancel, StoppedId
<1>4. 1 \in DOMAIN ready /\ ready[1].op = "stop" /\ \A u \in Task : 1 \notin Holding(u)
  <2>1. 1 \in DOMAIN ready
    BY <1>2 DEF Advances
  <2>2. ready[1].op = "stop"
    BY <1>1, <1>2
  <2>3. QED BY <2>1, <2>2 DEF Holding
<1>5. Waiting(n) \subseteq mayDrop
  BY <1>2, <1>4 DEF Waiting, IInv, TypeOK, StopsCovered
<1>6. /\ Owned' /\ OneWait' /\ CancelledAborted'
      /\ SameIdMayDrop' /\ AbortedMayDrop' /\ StopsCovered'
  <2>1. {} \in SUBSET Task /\ armed' = (armed \ Waiting(n)) \cup {}
    BY <1>3
  <2>2. \A u \in {} : 1 \in Holding(u) /\ ready[1].op = "add" /\ eventId[u] = n
    OBVIOUS
  <2>3. \A u \in Task : 1 \notin Holding(u) \/ u \in {} => phase'[u] = phase[u]
    BY <1>3
  <2>4. \A u \in Task : 1 \in Holding(u) /\ u \notin {} =>
          /\ ready[1].op = "wait"
          /\ phase'[u] \in {"queued", "deleted"}
          /\ ready[1].aborted => phase'[u] = "deleted"
    BY <1>4
  <2>5. cancelled' = cancelled \cup Waiting(n) /\ UNCHANGED <<eventId, mayDrop>>
    BY <1>3
  <2>6. QED BY <2>1, <2>2, <2>3, <2>4, <2>5, <1>2, <1>5, Advance
<1>7. TypeOK'
  BY <1>1, <1>2, <1>3 DEF TypeOK, Advances, Waiting
<1>8. TimerTable'
  <2>1. \A u \in armed' : eventId'[u] \in keys'
    BY <1>3 DEF IInv, TimerTable
  <2>2. ASSUME NEW k \in keys
        PROVE  \E u \in Task : /\ eventId[u] = k
                               /\ u \in armed' \/ \E i \in Holding(u)' : ready'[i].op = "wait"
    BY <1>2, <1>3, <1>4, KeptWitness
  <2>3. QED BY <2>1, <2>2, <1>3 DEF TimerTable
<1>9. IdsKept'
  BY <1>3, IdsStayKept DEF Alive
<1>10. QED BY <1>6, <1>7, <1>8, <1>9 DEF IInv

\* What the completion of a wait knows of its task.
LEMMA WaitHead ==
  ASSUME IInv, RunWait
  PROVE  /\ ready # <<>> /\ Head(ready) = ready[1] /\ Head(ready) \in Handler
         /\ 1 \in DOMAIN ready /\ ready[1].op = "wait" /\ ready[1].aborted \in BOOLEAN
         /\ ready[1].task \in Task
         /\ 1 \in Holding(ready[1].task)
         /\ \A u \in Task : 1 \in Holding(u) => u = ready[1].task
         /\ phase[ready[1].task] = "added" /\ ready[1].task \notin armed
         /\ ready[1].aborted => ready[1].task \in mayDrop
<1>1. TypeOK /\ ready # <<>> /\ Head(ready).op = "wait"
  BY DEF IInv, RunWait, Running
<1>2. Head(ready) = ready[1] /\ Head(ready) \in Handler /\ 1 \in DOMAIN ready
  BY <1>1 DEF TypeOK
<1>3. ready[1].op = "wait" /\ ready[1].aborted \in BOOLEAN /\ ready[1].task \in Task
  BY <1>1, <1>2, Handlers
<1>4. 1 \in Holding(ready[1].task)
  BY <1>2, <1>3 DEF Holding
<1>5. phase[ready[1].task] = "added" /\ ready[1].task \notin armed
  BY <1>3, <1>4 DEF IInv, Owned
<1>6. ready[1].aborted => ready[1].task \in mayDrop
  BY <1>2, <1>3 DEF IInv, AbortedMayDrop
<1>7. QED BY <1>1, <1>2, <1>3, <1>4, <1>5, <1>6 DEF Holding

LEMMA RunWaitKeeps ==
  ASSUME IInv, RunWait
  PROVE  IInv'
<1> SUFFICES ASSUME NEW w, NEW t, NEW n, w = Head(ready), t = w.task, n = eventId[t]
             PROVE  IInv'
  OBVIOUS
<1>1. /\ TypeOK /\ ready # <<>> /\ w = ready[1] /\ w.op = "wait" /\ w.aborted \in BOOLEAN
      /\ t \in Task /\ 1 \in Holding(t) /\ phase[t] = "added" /\ t \notin armed
      /\ \A u \in Task : 1 \in Holding(u) => u = t
      /\ w.aborted => t \in mayDrop
  BY WaitHead DEF IInv
<1>2. /\ ready' = Tail(ready) \o Aborts(n)
      /\ armed' = armed \ Waiting(n)
      /\ cancelled' = cancelled \cup Waiting(n)
      /\ keys' = keys \ {n}
      /\ phase' = [phase EXCEPT ![t] = Dispatch(w)]
      /\ UNCHANGED <<threadState, open, lastEventId, eventId, caller, kept, halted, mayDrop>>
  BY DEF RunWait, Cancel, Erased
<1>3. Advances(n)
  BY <1>1, <1>2, HeadRuns
<1>4. phase'[t] = Dispatch(w) /\ \A u \in Task : u # t => phase'[u] = phase[u]
  BY <1>1, <1>2 DEF TypeOK
<1>5. Dispatch(w) \in {"queued", "deleted"} /\ (w.aborted => Dispatch(w) = "deleted")
  BY DEF Dispatch
<1>6. Waiting(n) \subseteq mayDrop
  <2>1. \A u \in Waiting(n) : /\ u \in Task /\ u # t /\ phase[u] = "added"
                              /\ eventId[u] = eventId[t]
    BY <1>1 DEF Waiting, IInv, TypeOK, Owned
  <2>2. QED BY <2>1, <1>1 DEF IInv, SameIdMayDrop
<1>7. /\ Owned' /\ OneWait' /\ CancelledAborted'
      /\ SameIdMayDrop' /\ AbortedMayDrop' /\ StopsCovered'
  <2>1. {} \in SUBSET Task /\ armed' = (armed \ Waiting(n)) \cup {}
    BY <1>2
  <2>2. \A u \in {} : 1 \in Holding(u) /\ ready[1].op = "add" /\ eventId[u] = n
    OBVIOUS
  <2>3. \A u \in Task : 1 \notin Holding(u) \/ u \in {} => phase'[u] = phase[u]
    BY <1>1, <1>4
  <2>4. \A u \in Task : 1 \in Holding(u) /\ u \notin {} =>
          /\ ready[1].op = "wait"
          /\ phase'[u] \in {"queued", "deleted"}
          /\ ready[1].aborted => phase'[u] = "deleted"
    BY <1>1, <1>4, <1>5
  <2>5. cancelled' = cancelled \cup Waiting(n) /\ UNCHANGED <<eventId, mayDrop>>
    BY <1>2
  <2>6. QED BY <2>1, <2>2, <2>3, <2>4, <2>5, <1>3, <1>6, Advance
<1>8. TypeOK'
  BY <1>1, <1>2, <1>3, <1>5 DEF TypeOK, Advances, Waiting
<1>9. TimerTable'
  <2>1. \A u \in armed' : eventId'[u] \in keys'
    BY <1>2 DEF IInv, TimerTable, Waiting
  <2>2. ASSUME NEW k \in keys'
        PROVE  \E u \in Task : /\ eventId[u] = k
                               /\ u \in armed' \/ \E i \in Holding(u)' : ready'[i].op = "wait"
    <3>1. /\ k \in keys /\ armed \ Waiting(n) \subseteq armed'
          /\ \A u \in Task : 1 \in Holding(u) => eventId[u] # k
      BY <1>1, <1>2
    <3>2. QED BY <3>1, <1>3, KeptWitness
  <2>3. UNCHANGED eventId
    BY <1>2
  <2>4. QED BY <2>1, <2>2, <2>3 DEF TimerTable
<1>10. IdsKept'
  <2>1. /\ UNCHANGED <<caller, eventId, open, threadState, mayDrop, kept>>
        /\ \A u \in Task : phase'[u] = "new" <=> phase[u] = "new"
    BY <1>1, <1>2, <1>4, <1>5
  <2>2. ASSUME NEW u, u = caller["dispatcher"], u # NoTask, open, threadState = "RUNNING",
               u \notin mayDrop, phase[u] \in {"added", "queued"}
        PROVE  phase'[u] \in {"added", "queued"}
    <3>1. u \in Task
      BY <1>1, <2>2 DEF TypeOK, Thread
    <3>2. CASE u = t
      BY <2>2, <3>2, <1>1, <1>4 DEF Dispatch
    <3>3. CASE u # t
      BY <2>2, <3>1, <3>3, <1>4
    <3>4. QED BY <3>2, <3>3
  <2>3. QED BY <2>1, <2>2, IdsStayKept DEF Alive
<1>11. QED BY <1>7, <1>8, <1>9, <1>10 DEF IInv

LEMMA RunHaltKeeps ==
  ASSUME IInv, RunHalt
  PROVE  IInv'
<1> SUFFICES ASSUME NEW n, n = MaxId + 1
             PROVE  IInv'
  OBVIOUS
<1>1. TypeOK /\ ready # <<>> /\ Head(ready).op = "halt" /\ ready' = Tail(ready)
  BY DEF IInv, RunHalt, Running
<1>2. Waiting(n) = {}
  BY <1>1, SchedulerAssumption DEF TypeOK, EventId, Waiting
<1>3. Tail(ready) \in Seq(Handler)
  BY <1>1, HeadTailProperties DEF TypeOK
<1>4. ready' = Tail(ready) \o Aborts(n)
  BY <1>1, <1>2, <1>3, ConcatEmptySeq DEF Aborts
<1>5. Advances(n) /\ Head(ready) = ready[1] /\ Head(ready) \in Handler
  BY <1>1, <1>4, HeadRuns
<1>6. UNCHANGED <<threadState, open, lastEventId, eventId, caller, kept, keys, armed,
                  phase, mayDrop, cancelled>> /\ halted' \in BOOLEAN
  BY DEF RunHalt
<1>7. 1 \in DOMAIN ready /\ ready[1].op = "halt" /\ \A u \in Task : 1 \notin Holding(u)
  <2>1. 1 \in DOMAIN ready
    BY <1>5 DEF Advances
  <2>2. ready[1].op = "halt"
    BY <1>1, <1>5
  <2>3. QED BY <2>1, <2>2 DEF Holding
<1>8. /\ Owned' /\ OneWait' /\ CancelledAborted'
      /\ SameIdMayDrop' /\ AbortedMayDrop' /\ StopsCovered'
  <2>1. /\ {} \in SUBSET Task /\ armed' = (armed \ Waiting(n)) \cup {}
        /\ cancelled' = cancelled \cup Waiting(n) /\ Waiting(n) \subseteq mayDrop
        /\ UNCHANGED <<eventId, mayDrop>>
    BY <1>2, <1>6
  <2>2. \A u \in {} : 1 \in Holding(u) /\ ready[1].op = "add" /\ eventId[u] = n
    OBVIOUS
  <2>3. \A u \in Task : 1 \notin Holding(u) \/ u \in {} => phase'[u] = phase[u]
    BY <1>6
  <2>4. \A u \in Task : 1 \in Holding(u) /\ u \notin {} =>
          /\ ready[1].op = "wait"
          /\ phase'[u] \in {"queued", "deleted"}
          /\ ready[1].aborted => phase'[u] = "deleted"
    BY <1>7
  <2>5. QED BY <2>1, <2>2, <2>3, <2>4, <1>5, Advance
<1>9. TypeOK'
  BY <1>1, <1>5, <1>6 DEF TypeOK, Advances
<1>10. TimerTable'
  <2>1. \A u \in armed' : eventId'[u] \in keys'
    BY <1>6 DEF IInv, TimerTable
  <2>2. ASSUME NEW k \in keys
        PROVE  \E u \in Task : /\ eventId[u] = k
                               /\ u \in armed' \/ \E i \in Holding(u)' : ready'[i].op = "wait"
    BY <1>5, <1>6, <1>7, KeptWitness
  <2>3. QED BY <2>1, <2>2, <1>6 DEF TimerTable
<1>11. IdsKept'
  BY <1>6, IdsStayKept DEF Alive
<1>12. QED BY <1>8, <1>9, <1>10, <1>11 DEF IInv

-------------------------------------------------------------------------------
(* Safety *)

LEMMA InitIInv == Init => IInv
<1> SUFFICES ASSUME Init PROVE IInv
  OBVIOUS
<1>1. TypeOK
  <2>1. 0 \in EventId /\ <<>> \in Seq(Handler)
    BY SchedulerAssumption, EmptySeq DEF EventId
  <2>2. QED BY <2>1 DEF Init, TypeOK
<1>2. DOMAIN ready = {} /\ \A t : Holding(t) = {}
  BY DEF Init, Holding
<1>3. Owned
  BY <1>2 DEF Init, Owned
<1>4. TimerTable /\ OneWait /\ CancelledAborted /\ SameIdMayDrop
  BY DEF Init, TimerTable, OneWait, CancelledAborted, SameIdMayDrop
<1>5. AbortedMayDrop /\ StopsCovered
  BY <1>2 DEF AbortedMayDrop, StopsCovered
<1>6. IdsKept
  BY DEF Init, IdsKept, IdReadFromLiveTask, KeptIdsOwn, Thread
<1>7. QED BY <1>1, <1>3, <1>4, <1>5, <1>6 DEF IInv

LEMMA StutterKeeps ==
  ASSUME IInv, UNCHANGED vars
  PROVE  IInv'
<1>1. \A t : Holding(t)' = Holding(t)
  BY DEF vars, Holding
<1>2. TypeOK' /\ OneWait' /\ SameIdMayDrop' /\ AbortedMayDrop'
  BY DEF IInv, vars, TypeOK, OneWait, SameIdMayDrop, AbortedMayDrop
<1>3. Owned' /\ TimerTable' /\ CancelledAborted' /\ StopsCovered'
  BY <1>1 DEF IInv, vars, Owned, TimerTable, CancelledAborted, StopsCovered
<1>4. IdsKept'
  BY DEF IInv, vars, IdsKept, IdReadFromLiveTask, Alive, KeptIdsOwn
<1>5. QED BY <1>2, <1>3, <1>4 DEF IInv

LEMMA NextKeepsIInv == IInv /\ [Next]_vars => IInv'
<1> SUFFICES ASSUME IInv, [Next]_vars PROVE IInv'
  OBVIOUS
<1>1. ASSUME NEW t \in Task, StopEvent(t) \/ RunTask(t) \/ Expire(t)
      PROVE  IInv'
  BY <1>1, StopEventKeeps, RunTaskKeeps, ExpireKeeps
<1>2. CASE CloseDispatcher \/ Shutdown
  BY <1>2, CloseDispatcherKeeps, ShutdownKeeps
<1>3. CASE RunHandler
  BY <1>3, RunAddKeeps, RunStopKeeps, RunWaitKeeps, RunHaltKeeps DEF RunHandler
<1>4. CASE Terminated \/ UNCHANGED vars
  BY <1>4, StutterKeeps DEF Terminated
<1>5. ASSUME NEW w \in Thread, ReturnId(w) \/ \E t \in Task : AddEvent(w, t)
      PROVE  IInv'
  BY <1>5, AddEventKeeps, ReturnIdKeeps
<1>6. QED BY <1>1, <1>2, <1>3, <1>4, <1>5 DEF Next

\* IInv, with what makes it inductive, holds in every reachable state.
THEOREM Invariance == Spec => []IInv
<1>1. QED BY InitIInv, NextKeepsIInv, PTL DEF Spec

\* One owner each, counted: the handlers that own a task are none or one.
LEMMA OwnedOnce == IInv => OneOwner
<1> SUFFICES ASSUME IInv, NEW t \in Task
             PROVE  Cardinality(Holding(t)) + (IF t \in armed THEN 1 ELSE 0)
                      = IF phase[t] = "added" THEN 1 ELSE 0
  BY DEF OneOwner
<1>1. /\ \A i, j \in Holding(t) : i = j
      /\ t \in armed => Holding(t) = {}
      /\ phase[t] = "added" <=> t \in armed \/ Holding(t) # {}
  BY DEF IInv, Owned
<1>2. CASE Holding(t) = {}
  <2>1. Cardinality(Holding(t)) = 0
    BY <1>2, FS_EmptySet
  <2>2. QED BY <2>1, <1>1, <1>2
<1>3. CASE Holding(t) # {}
  <2>1. PICK i : i \in Holding(t)
    BY <1>3
  <2>2. Holding(t) = {i}
    BY <2>1, <1>1
  <2>3. Cardinality(Holding(t)) = 1
    BY <2>2, FS_Singleton
  <2>4. QED BY <2>3, <1>1, <1>3
<1>4. QED BY <1>2, <1>3

\* The timers and the tasks they own agree with the ids, what was cancelled in
\* time never runs, and who keeps the id of an event has its own, although the
\* network thread may read it from a deleted task (scheduler.cpp:8-63).
THEOREM TimersAreSound == Spec => []TimersSound
<1>1. IInv => TimersSound
  <2> SUFFICES ASSUME IInv PROVE TimersSound
    OBVIOUS
  <2>1. OneOwner
    BY OwnedOnce
  <2>2. CancelledNeverRuns
    BY DEF IInv, CancelledAborted, CancelledNeverRuns
  <2>3. IdReadFromLiveTask /\ KeptIdsOwn
    BY DEF IInv, IdsKept
  <2>4. QED BY <2>1, <2>2, <2>3 DEF IInv, TimersSound, TablesConsistent
<1>2. QED BY <1>1, Invariance, PTL

-------------------------------------------------------------------------------
(* The scheduler implements EventService *)

\* What a step that settles or adds one task does to the abstract status.
LEMMA StatusMoves ==
  ASSUME TypeOK, NEW t \in Task, NEW p, phase' = [phase EXCEPT ![t] = p]
  PROVE  Status' = [Status EXCEPT ![t] = StatusOf(p)]
<1>1. \A u \in Task : phase'[u] = IF u = t THEN p ELSE phase[u]
  BY DEF TypeOK
<1>2. Status' = [u \in Task |-> StatusOf(IF u = t THEN p ELSE phase[u])]
  BY <1>1 DEF Status
<1>3. [Status EXCEPT ![t] = StatusOf(p)] = [u \in Task |-> IF u = t THEN StatusOf(p) ELSE StatusOf(phase[u])]
  BY DEF Status
<1>4. QED BY <1>2, <1>3

LEMMA SamePending ==
  ASSUME TypeOK, NEW n
  PROVE  Service!Pending(n) = Pending(n)
BY DEF TypeOK, Service!Pending, Pending, Status, StatusOf

LEMMA InitImplements == Init => Service!Init
<1> SUFFICES ASSUME Init PROVE Service!Init
  OBVIOUS
<1>1. 0 \in EventId
  BY SchedulerAssumption DEF EventId
<1>2. QED BY <1>1 DEF Init, Service!Init, Status, StatusOf, Closed

LEMMA AddEventImplements ==
  ASSUME TypeOK, NEW w \in Thread, NEW t \in Task, AddEvent(w, t)
  PROVE  Service!Add(t, NextId) /\ NextId \in EventId
<1>1. NextId \in EventId
  BY SchedulerAssumption DEF NextId, EventId, TypeOK
<1>2. phase[t] = "new" /\ phase' = [phase EXCEPT ![t] = "added"]
  BY DEF AddEvent
<1>3. Status[t] = "new" /\ Status' = [Status EXCEPT ![t] = "pending"]
  BY <1>2, StatusMoves DEF Status, StatusOf
<1>4. UNCHANGED Closed
  BY DEF AddEvent, Closed
<1>5. Service!Pending(NextId) = Pending(NextId)
  BY SamePending
<1>6. /\ eventId' = [eventId EXCEPT ![t] = NextId]
      /\ mayDrop' = mayDrop \cup Pending(NextId)
                     \cup (IF Pending(NextId) = {} THEN {} ELSE {t})
  BY DEF AddEvent
<1>7. QED BY <1>1, <1>3, <1>4, <1>5, <1>6 DEF Service!Add

LEMMA StopEventImplements ==
  ASSUME TypeOK, NEW t \in Task, StopEvent(t)
  PROVE  Service!AskStop(kept[t]) /\ kept[t] \in EventId
<1>1. kept[t] \in EventId
  BY DEF TypeOK
<1>2. UNCHANGED <<Status, eventId, Closed>>
  BY DEF StopEvent, Status, Closed
<1>3. mayDrop' = mayDrop \cup Pending(kept[t]) /\ Service!Pending(kept[t]) = Pending(kept[t])
  BY SamePending DEF StopEvent
<1>4. QED BY <1>1, <1>2, <1>3 DEF Service!AskStop

\* The dispatcher runs what was handed to it: nothing that the service promises.
LEMMA RunTaskImplements ==
  ASSUME TypeOK, NEW t \in Task, RunTask(t)
  PROVE  UNCHANGED <<Status, eventId, mayDrop, Closed>>
<1>1. phase[t] = "queued" /\ phase' = [phase EXCEPT ![t] = "ran"]
  BY DEF RunTask
<1>2. Status' = [Status EXCEPT ![t] = "handed"] /\ Status[t] = "handed"
  BY <1>1, StatusMoves DEF Status, StatusOf
<1>3. Status' = Status
  BY <1>2 DEF Status
<1>4. QED BY <1>3 DEF RunTask, Closed

LEMMA RunWaitImplements ==
  ASSUME IInv, RunWait
  PROVE  \E t \in Task : Service!Hand(t) \/ Service!Drop(t)
<1> SUFFICES ASSUME NEW w, NEW t, w = Head(ready), t = w.task
             PROVE  \E u \in Task : Service!Hand(u) \/ Service!Drop(u)
  OBVIOUS
<1>1. TypeOK /\ t \in Task /\ phase[t] = "added" /\ (w.aborted => t \in mayDrop)
  BY WaitHead DEF IInv
<1>2. /\ phase' = [phase EXCEPT ![t] = Dispatch(w)]
      /\ UNCHANGED <<eventId, mayDrop, threadState, open>>
  BY DEF RunWait
<1>3. Status' = [Status EXCEPT ![t] = StatusOf(Dispatch(w))] /\ Status[t] = "pending"
  BY <1>1, <1>2, StatusMoves DEF Status, StatusOf
<1>4. UNCHANGED Closed
  BY <1>2 DEF Closed
<1>5. CASE Dispatch(w) = "queued"
  <2>1. ~Closed
    BY <1>5 DEF Dispatch, Closed
  <2>2. Service!Hand(t)
    BY <1>2, <1>3, <1>4, <1>5, <2>1 DEF StatusOf, Service!Hand
  <2>3. QED BY <1>1, <2>2
<1>6. CASE Dispatch(w) = "deleted"
  <2>1. t \in mayDrop \/ Closed
    BY <1>1, <1>6 DEF Dispatch, Closed
  <2>2. Service!Drop(t)
    BY <1>2, <1>3, <1>4, <1>6, <2>1 DEF StatusOf, Service!Drop
  <2>3. QED BY <1>1, <2>2
<1>7. QED BY <1>5, <1>6 DEF Dispatch

LEMMA NextImplements ==
  ASSUME IInv, [Next]_vars
  PROVE  [Service!Next]_(Service!vars)
<1>1. TypeOK
  BY DEF IInv
<1>2. ASSUME NEW w \in Thread, NEW t \in Task, AddEvent(w, t) PROVE Service!Next
  BY <1>1, <1>2, AddEventImplements DEF Service!Next
<1>3. ASSUME NEW t \in Task, StopEvent(t) PROVE Service!Next
  BY <1>1, <1>3, StopEventImplements DEF Service!Next
<1>4. ASSUME NEW t \in Task, RunTask(t) PROVE UNCHANGED Service!vars
  BY <1>1, <1>4, RunTaskImplements DEF Service!vars
<1>5. CASE RunWait
  BY <1>5, RunWaitImplements DEF Service!Next
<1>6. CASE CloseDispatcher \/ Shutdown
  <2>1. Closed' /\ UNCHANGED <<Status, eventId, mayDrop>>
    BY <1>6 DEF CloseDispatcher, Shutdown, Status, Closed
  <2>2. QED BY <2>1 DEF Service!Next, Service!Close
<1>7. CASE (\E t \in Task : Expire(t)) \/ (\E w \in Thread : ReturnId(w)) \/ RunAdd \/ RunStop \/ RunHalt
             \/ Terminated \/ UNCHANGED vars
  <2>1. UNCHANGED <<phase, eventId, mayDrop, open, threadState>>
    BY <1>7 DEF Expire, ReturnId, RunAdd, RunStop, RunHalt, Terminated, vars
  <2>2. QED BY <2>1 DEF Service!vars, Status, Closed
<1>8. QED BY <1>2, <1>3, <1>4, <1>5, <1>6, <1>7 DEF Next, RunHandler

\* For every set of events and every width of the ids, an event is handed over
\* at most once, and is dropped only if it was stopped, has met another of its
\* id or came up while the server was closing (scheduler.cpp:8-63).
THEOREM SchedulerImplements == Spec => ImplementsEventService
<1>1. QED
  BY InitImplements, NextImplements, Invariance, PTL
     DEF Spec, ImplementsEventService, Service!Spec
===============================================================================
