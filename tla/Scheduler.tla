------------------------------- MODULE Scheduler -------------------------------
(***************************************************************************)
(* The scheduler: one thread running an io_context whose timers hand tasks *)
(* to the dispatcher.  src/src/scheduler.cpp, scheduler.h.                 *)
(*                                                                         *)
(* addEvent, stopEvent and shutdown only post a handler; the handlers, and *)
(* the completions of the timers' waits, run one after the other on the    *)
(* scheduler thread, in the order in which they were queued.  Cancelling a *)
(* timer queues the completion of its wait with an error; a completion     *)
(* that is already queued keeps the result it has.  Destroying a timer     *)
(* cancels it.                                                             *)
(*                                                                         *)
(* Events are added on the dispatcher thread, and on the network thread by *)
(* a port whose accept fails (ServicePort::onAccept, server.cpp:113); the  *)
(* network thread is main, which calls shutdown after a failed startup.    *)
(* Of the dispatcher only this much is here: whether addTask still accepts *)
(* (it deletes the task otherwise), and that it runs no task while one of  *)
(* its tasks is inside addEvent.  It does run tasks while the network      *)
(* thread is inside: that the delay of 15 s is longer than the call is no  *)
(* assumption here, and a deleted task may be read, with any outcome.      *)
(***************************************************************************)
EXTENDS Naturals, Sequences, FiniteSets

CONSTANTS
  Task,    \* SchedulerTask objects
  NoTask,
  MaxId    \* the largest event id: 2^32 - 1 in the code

ASSUME SchedulerAssumption ==
  /\ NoTask \notin Task
  /\ MaxId \in Nat \ {0}

EventId == 0..MaxId
Thread == {"dispatcher", "network"}

VARIABLES
  threadState, \* of the scheduler: CLOSING makes no difference to it
  open,        \* the dispatcher is RUNNING
  lastEventId,
  eventId,     \* SchedulerTask::eventId
  caller,      \* of each thread: the task whose addEvent has posted but not yet returned
  kept,        \* for each task, the id its caller keeps to stop it with, or 0
  ready,       \* the handlers waiting to run on the scheduler thread
  keys,        \* the ids in eventIdTimerMap
  armed,       \* the tasks whose timer has a pending wait
  halted,      \* io_context.stop() has been called
  phase,       \* history: what has become of every task
  mayDrop,     \* history: the events stopped, or met by another of their id
  cancelled    \* history: the tasks whose wait was cancelled

vars == <<threadState, open, lastEventId, eventId, caller, kept, ready, keys, armed,
          halted, phase, mayDrop, cancelled>>

Handler ==
  [op : {"add"}, task : Task] \cup [op : {"stop"}, id : EventId]
    \cup [op : {"wait"}, task : Task, aborted : BOOLEAN] \cup [op : {"halt"}]

Init ==
  /\ threadState = "RUNNING"
  /\ open = TRUE
  /\ lastEventId = 0
  /\ eventId = [t \in Task |-> 0]
  /\ caller = [w \in Thread |-> NoTask]
  /\ kept = [t \in Task |-> 0]
  /\ ready = <<>>
  /\ keys = {}
  /\ armed = {}
  /\ halted = FALSE
  /\ phase = [t \in Task |-> "new"]
  /\ mayDrop = {}
  /\ cancelled = {}

(***************************************************************************)
(* Calls                                                                   *)
(***************************************************************************)
NextId == (lastEventId + 1) % (MaxId + 1)

\* The events of id n that are neither handed over nor deleted.
Pending(n) == {t \in Task : phase[t] = "added" /\ eventId[t] = n}

\* addEvent up to the post: ids are handed out modulo the width of the
\* counter, which is atomic, 0 included.  Taking an id and posting are one step:
\* handlers of different ids may run in either order anyway.
AddEvent(w, t) ==
  /\ caller[w] = NoTask /\ phase[t] = "new"
  /\ lastEventId' = NextId
  /\ eventId' = [eventId EXCEPT ![t] = NextId]
  /\ ready' = Append(ready, [op |-> "add", task |-> t])
  /\ phase' = [phase EXCEPT ![t] = "added"]
  /\ caller' = [caller EXCEPT ![w] = t]
  /\ mayDrop' = mayDrop \cup Pending(NextId)
                 \cup (IF Pending(NextId) = {} THEN {} ELSE {t})
  /\ UNCHANGED <<threadState, open, kept, keys, armed, halted, cancelled>>

\* The task exists, and has its id: it is neither run nor deleted.
Alive(t) == phase[t] \in {"added", "queued"}

\* What task->getEventId() may give: anything, once the task is deleted.
IdRead(t) == IF Alive(t) THEN {eventId[t]} ELSE EventId

\* Mutant: the port keeps the id of its event.
EveryoneKeeps(w) == TRUE

\* The caller on the network thread drops the id (server.cpp:113).
KeepsId(w) == w = "dispatcher"

\* ... return task->getEventId(): the task is read after it was handed over.
ReturnId(w) ==
  /\ caller[w] # NoTask
  /\ caller' = [caller EXCEPT ![w] = NoTask]
  /\ \E n \in IdRead(caller[w]) :
       kept' = IF KeepsId(w) THEN [kept EXCEPT ![caller[w]] = n] ELSE kept
  /\ UNCHANGED <<threadState, open, lastEventId, eventId, ready, keys, armed,
                 halted, phase, mayDrop, cancelled>>

\* The dispatcher thread is not inside addEvent.
NotInside == caller["dispatcher"] = NoTask

\* stopEvent with the id that was kept for t, maybe long after the event has
\* run; whoever stops an event forgets its id.
StopEvent(t) ==
  /\ NotInside /\ kept[t] # 0
  /\ kept' = [kept EXCEPT ![t] = 0]
  /\ mayDrop' = mayDrop \cup Pending(kept[t])
  /\ ready' = Append(ready, [op |-> "stop", id |-> kept[t]])
  /\ UNCHANGED <<threadState, open, lastEventId, eventId, caller, keys, armed,
                 halted, phase, cancelled>>

\* The dispatcher runs a task and deletes it.
RunTask(t) ==
  /\ NotInside /\ phase[t] = "queued"
  /\ phase' = [phase EXCEPT ![t] = "ran"]
  /\ UNCHANGED <<threadState, open, lastEventId, eventId, caller, kept, ready, keys,
                 armed, halted, mayDrop, cancelled>>

\* Game::setGameState(SHUTDOWN), on the dispatcher thread, closes the
\* dispatcher; tasks of the batch it is in still run after it.
CloseDispatcher ==
  /\ NotInside /\ open
  /\ open' = FALSE
  /\ UNCHANGED <<threadState, lastEventId, eventId, caller, kept, ready, keys, armed,
                 halted, phase, mayDrop, cancelled>>

\* shutdown(): by Game::shutdown on the dispatcher thread once the dispatcher
\* is closed, or by main() while it is still open.
Shutdown ==
  /\ threadState = "RUNNING"
  /\ caller[IF open THEN "network" ELSE "dispatcher"] = NoTask
  /\ threadState' = "TERMINATED"
  /\ ready' = Append(ready, [op |-> "halt"])
  /\ UNCHANGED <<open, lastEventId, eventId, caller, kept, keys, armed, halted, phase,
                 mayDrop, cancelled>>

(***************************************************************************)
(* Handlers, on the scheduler thread                                       *)
(***************************************************************************)
Waiting(n) == {t \in armed : eventId[t] = n}

\* The completions that cancelling or destroying the timer of id n queues: a
\* timer has at most one pending wait.
Aborts(n) ==
  IF Waiting(n) = {} THEN <<>>
  ELSE <<[op |-> "wait", task |-> CHOOSE t \in Waiting(n) : TRUE, aborted |-> TRUE]>>

Running(op) == ~halted /\ ready # <<>> /\ Head(ready).op = op

\* emplace leaves a timer with that id in place; setting its expiry cancels
\* the wait it may have.
RunAdd ==
  /\ Running("add")
  /\ LET t == Head(ready).task
         n == eventId[t]
     IN  /\ ready' = Tail(ready) \o Aborts(n)
         /\ keys' = keys \cup {n}
         /\ armed' = (armed \ Waiting(n)) \cup {t}
         /\ cancelled' = cancelled \cup Waiting(n)
  /\ UNCHANGED <<threadState, open, lastEventId, eventId, caller, kept, halted, phase, mayDrop>>

\* Mutant: the completion of the cancelled wait is not called.
CancelQuietly(n) ==
  /\ ready' = Tail(ready)
  /\ armed' = armed \ Waiting(n)
  /\ cancelled' = cancelled \cup Waiting(n)

Cancel(n) ==
  /\ ready' = Tail(ready) \o Aborts(n)
  /\ armed' = armed \ Waiting(n)
  /\ cancelled' = cancelled \cup Waiting(n)

\* Mutant: whatever timer is found first is cancelled.
AnyId == IF keys = {} THEN Head(ready).id ELSE CHOOSE k \in keys : TRUE

StoppedId == Head(ready).id

\* The timer is cancelled, not erased: its completion will do that.
RunStop ==
  /\ Running("stop")
  /\ Cancel(StoppedId)
  /\ UNCHANGED <<threadState, open, lastEventId, eventId, caller, kept, keys, halted, phase, mayDrop>>

\* Time passes: the wait of an armed timer completes.
Expire(t) ==
  /\ ~halted /\ t \in armed
  /\ armed' = armed \ {t}
  /\ ready' = Append(ready, [op |-> "wait", task |-> t, aborted |-> FALSE])
  /\ UNCHANGED <<threadState, open, lastEventId, eventId, caller, kept, keys, halted,
                 phase, mayDrop, cancelled>>

\* What the completion does with the task: delete it, or g_dispatcher.addTask,
\* which deletes it when the dispatcher is closed.
Dispatch(w) ==
  IF w.aborted \/ threadState = "TERMINATED" \/ ~open THEN "deleted" ELSE "queued"

Erased(w) == {eventId[w.task]}

\* The completion of a wait erases the timer of the task's id, whoever waits
\* on it by now.
RunWait ==
  /\ Running("wait")
  /\ LET w == Head(ready)
     IN  /\ Cancel(eventId[w.task])
         /\ keys' = keys \ Erased(w)
         /\ phase' = [phase EXCEPT ![w.task] = Dispatch(w)]
  /\ UNCHANGED <<threadState, open, lastEventId, eventId, caller, kept, halted, mayDrop>>

\* shutdown's handler: the completions of the timers it cancels are queued
\* behind io_context.stop() and never run.
RunHalt ==
  /\ Running("halt")
  /\ ready' = Tail(ready)
  /\ halted' = TRUE
  /\ UNCHANGED <<threadState, open, lastEventId, eventId, caller, kept, keys, armed,
                 phase, mayDrop, cancelled>>

RunHandler == RunAdd \/ RunStop \/ RunWait \/ RunHalt

\* Nothing more need be called once shutdown has been; that the scheduler
\* thread does end is ShutdownHalts.
Terminated == threadState = "TERMINATED" /\ UNCHANGED vars

Next ==
  \/ \E w \in Thread : ReturnId(w) \/ \E t \in Task : AddEvent(w, t)
  \/ \E t \in Task : StopEvent(t) \/ RunTask(t) \/ Expire(t)
  \/ CloseDispatcher \/ Shutdown
  \/ RunHandler
  \/ Terminated

\* The scheduler thread runs what is queued, time passes, calls return.
Fairness ==
  /\ WF_vars(RunHandler)
  /\ \A t \in Task : WF_vars(Expire(t))
  /\ \A w \in Thread : WF_vars(ReturnId(w))

Spec == Init /\ [][Next]_vars /\ Fairness

-------------------------------------------------------------------------------
TypeOK ==
  /\ threadState \in {"RUNNING", "TERMINATED"}
  /\ open \in BOOLEAN
  /\ lastEventId \in EventId
  /\ eventId \in [Task -> EventId]
  /\ caller \in [Thread -> Task \cup {NoTask}]
  /\ kept \in [Task -> EventId]
  /\ ready \in Seq(Handler)
  /\ keys \in SUBSET EventId
  /\ armed \in SUBSET Task
  /\ halted \in BOOLEAN
  /\ phase \in [Task -> {"new", "added", "queued", "ran", "deleted"}]
  /\ mayDrop \in SUBSET Task
  /\ cancelled \in SUBSET Task

\* The positions of ready at which a handler owns task t.
Holding(t) == {i \in DOMAIN ready : ready[i].op \in {"add", "wait"} /\ ready[i].task = t}

\* A task is owned by exactly one handler or timer from addEvent until it is
\* handed over or deleted, and by none after that: it is neither leaked, nor
\* deleted twice, nor handed over and deleted (scheduler.cpp passes a raw
\* pointer through two lambdas).  Holds even when ids collide.
OneOwner ==
  \A t \in Task :
    Cardinality(Holding(t)) + (IF t \in armed THEN 1 ELSE 0)
      = IF phase[t] = "added" THEN 1 ELSE 0

\* A timer that waits can be found by its id, and a timer in the table either
\* waits or has a completion queued that will erase it.
TimerTable ==
  /\ \A t \in armed : eventId[t] \in keys
  /\ \A n \in keys : \E t \in Task :
       /\ eventId[t] = n
       /\ t \in armed \/ \E i \in Holding(t) : ready[i].op = "wait"

\* A stop that finds the timer waiting is final: the task never reaches the
\* dispatcher.
CancelledNeverRuns == \A t \in cancelled : phase[t] \in {"added", "deleted"}

\* On the dispatcher thread addEvent reads the id out of a task that still
\* exists, as long as the server is not closing and no other pending event has
\* its id: the dispatcher cannot run and delete the task before the task that
\* added it returns.  On the network thread nothing but the length of the delay
\* keeps the task alive (scheduler.cpp:34).
IdReadFromLiveTask ==
  LET t == caller["dispatcher"]
  IN  t # NoTask /\ open /\ threadState = "RUNNING" /\ t \notin mayDrop => Alive(t)

\* So the ids that somebody keeps are those of their events: what the network
\* thread may read out of a deleted task is never used to stop anything.
KeptIdsOwn ==
  \A t \in Task :
    kept[t] \in {0, eventId[t]} \/ ~open \/ threadState = "TERMINATED" \/ t \in mayDrop

\* The ownership of tasks and the timer table (scheduler.cpp:15-31) stay
\* consistent through every order of adding, stopping and expiring, wrapped
\* ids included.
TablesConsistent == TypeOK /\ OneOwner /\ TimerTable

\* Only the events that somebody asked to stop, that have met another of their
\* id, or that come up when the server is closing are dropped; every other one
\* is handed over, once (addEvent and stopEvent, scheduler.cpp:8-50).
StatusOf(p) ==
  CASE p = "new" -> "new"
    [] p = "added" -> "pending"
    [] p = "deleted" -> "dropped"
    [] OTHER -> "handed"

Status == [t \in Task |-> StatusOf(phase[t])]
Closed == ~open \/ threadState = "TERMINATED"

Service == INSTANCE EventService WITH status <- Status, id <- eventId, closed <- Closed

ImplementsEventService == Service!Spec

\* While the scheduler runs no event is forgotten, even when ids collide
\* (every path of the completion, scheduler.cpp:21-31, disposes of the task).
AddedIsSettled == \A t \in Task : phase[t] = "added" ~> (phase[t] # "added" \/ halted)

\* shutdown (scheduler.cpp:52-63) ends the scheduler thread, whatever is queued
\* before it.
ShutdownHalts == threadState = "TERMINATED" ~> halted

\* What the clients of the scheduler rely on: their events are settled and
\* shutdown ends.
EventsSettle == AddedIsSettled /\ ShutdownHalts

\* Timers and ids agree, what was cancelled in time does not run, and whoever
\* keeps the id of an event has its own, with events added on two threads.
TimersSound == TablesConsistent /\ CancelledNeverRuns /\ IdReadFromLiveTask /\ KeptIdsOwn
===============================================================================
