----------------------------- MODULE DatabaseTasks -----------------------------
(***************************************************************************)
(* The asynchronous database queries: a worker thread executes queued      *)
(* queries, and the dispatcher thread, on a save and on shutdown, flushes  *)
(* the same queue at the same time.  src/src/databasetasks.cpp.            *)
(*                                                                         *)
(* taskLock makes each push and each pop atomic; a query is executed       *)
(* outside it, under the database's own lock, by whoever popped it, and    *)
(* its callback is then posted to the dispatcher, which drops it when it   *)
(* is closing.  Each stretch between two of these locks is one step.       *)
(***************************************************************************)
EXTENDS Naturals, Sequences, FiniteSets

CONSTANTS
  Query,
  NoQuery,
  Network,   \* threads other than the dispatcher's that call addTask
  DispatcherThread \* the thread that calls addTask, flush and shutdown

ASSUME DatabaseTasksAssumption ==
  NoQuery \notin Query /\ DispatcherThread \notin Network

Adder == Network \cup {DispatcherThread}

VARIABLES
  dbState,    \* the state of the database thread
  tasks,      \* DatabaseTasks::tasks
  dbWorker,   \* where threadMain stands
  flusher,    \* where the dispatcher thread stands in flush and shutdown
  hand,       \* the query popped and not yet done with, of "worker", "flusher"
  signal,     \* the threads that have pushed to an empty list, not yet notified
  open,       \* the dispatcher accepts callbacks
  missed,     \* history: shutdown's notification found the worker about to lock
  pushed,     \* history: every query pushed, in order
  executed,   \* history: every query executed, in order
  answered    \* history: the queries whose callback the dispatcher accepted

dbVars == <<dbState, tasks, dbWorker, flusher, hand, signal, open, missed,
          pushed, executed, answered>>

Elems(s) == {s[i] : i \in DOMAIN s}

DbInit ==
  /\ dbState = "RUNNING"
  /\ tasks = <<>>
  /\ dbWorker = "check"
  /\ flusher = "idle"
  /\ hand = [x \in {"worker", "flusher"} |-> NoQuery]
  /\ signal = {}
  /\ open = TRUE
  /\ missed = FALSE
  /\ pushed = <<>>
  /\ executed = <<>>
  /\ answered = {}

(***************************************************************************)
(* addTask                                                                 *)
(***************************************************************************)
DbDoSignal == tasks = <<>>

\* A query that comes when the thread is not RUNNING is forgotten.
AddDbTask(a, q) ==
  /\ a \notin signal /\ (a = DispatcherThread => flusher = "idle")
  /\ dbState = "RUNNING" /\ q \notin Elems(pushed)
  /\ tasks' = Append(tasks, q)
  /\ pushed' = Append(pushed, q)
  /\ signal' = IF DbDoSignal THEN signal \cup {a} ELSE signal
  /\ UNCHANGED <<dbState, dbWorker, flusher, hand, open, missed, executed, answered>>

\* Mutant: nobody is woken.
LetSleep == UNCHANGED dbWorker

Wake == dbWorker' = IF dbWorker = "wait" THEN "woken" ELSE dbWorker

DbNotify(a) ==
  /\ a \in signal
  /\ signal' = signal \ {a}
  /\ Wake
  /\ UNCHANGED <<dbState, tasks, flusher, hand, open, missed, pushed, executed, answered>>

(***************************************************************************)
(* Popping and running a query                                             *)
(***************************************************************************)
\* Mutant: the query is read under the lock and popped by nobody.
Peek(x) ==
  /\ hand' = [hand EXCEPT ![x] = Head(tasks)]
  /\ tasks' = tasks

Pop(x) ==
  /\ hand' = [hand EXCEPT ![x] = Head(tasks)]
  /\ tasks' = Tail(tasks)

\* runTask up to the query's result ...
Execute(x) ==
  /\ executed' = Append(executed, hand[x])
  /\ UNCHANGED <<dbState, tasks, hand, signal, open, missed, pushed, answered>>

\* ... and the post of its callback.
Answer(x) ==
  /\ answered' = IF open THEN answered \cup {hand[x]} ELSE answered
  /\ hand' = [hand EXCEPT ![x] = NoQuery]
  /\ UNCHANGED <<dbState, tasks, signal, open, missed, pushed, executed>>

(***************************************************************************)
(* threadMain                                                              *)
(***************************************************************************)
DbCheckState ==
  /\ dbWorker = "check"
  /\ dbWorker' = IF dbState = "TERMINATED" THEN "exit" ELSE "lock"
  /\ UNCHANGED <<dbState, tasks, flusher, hand, signal, open, missed,
                 pushed, executed, answered>>

\* The state is not tested again under the lock.
LockAndTake ==
  /\ dbWorker = "lock"
  /\ IF tasks = <<>>
     THEN dbWorker' = "wait" /\ UNCHANGED <<tasks, hand>>
     ELSE dbWorker' = "run" /\ Pop("worker")
  /\ UNCHANGED <<dbState, flusher, signal, open, missed, pushed, executed, answered>>

DbTakeAfterWait ==
  /\ dbWorker = "woken"
  /\ IF tasks = <<>>
     THEN dbWorker' = "check" /\ UNCHANGED <<tasks, hand>>
     ELSE dbWorker' = "run" /\ Pop("worker")
  /\ UNCHANGED <<dbState, flusher, signal, open, missed, pushed, executed, answered>>

DbSpuriousWakeup ==
  /\ dbWorker = "wait"
  /\ dbWorker' = "woken"
  /\ UNCHANGED <<dbState, tasks, flusher, hand, signal, open, missed,
                 pushed, executed, answered>>

WorkerExecutes ==
  /\ dbWorker = "run"
  /\ dbWorker' = "answer"
  /\ Execute("worker")
  /\ UNCHANGED flusher

WorkerAnswers ==
  /\ dbWorker = "answer"
  /\ dbWorker' = "check"
  /\ Answer("worker")
  /\ UNCHANGED flusher

(***************************************************************************)
(* The dispatcher thread: flush, stop, shutdown                            *)
(***************************************************************************)
\* Game::saveGameState.
StartFlush ==
  /\ flusher = "idle" /\ DispatcherThread \notin signal
  /\ flusher' = "flush"
  /\ UNCHANGED <<dbState, tasks, dbWorker, hand, signal, open, missed,
                 pushed, executed, answered>>

\* flush, with the lock held: pop a query or return; in shutdown the return
\* leads to the notification.
FlushTake ==
  /\ flusher = "flush"
  /\ IF tasks # <<>>
     THEN flusher' = "run" /\ Pop("flusher")
     ELSE /\ flusher' = IF dbState = "TERMINATED" THEN "notify" ELSE "idle"
          /\ UNCHANGED <<tasks, hand>>
  /\ UNCHANGED <<dbState, dbWorker, signal, open, missed, pushed, executed, answered>>

FlushExecutes ==
  /\ flusher = "run"
  /\ flusher' = "answer"
  /\ Execute("flusher")
  /\ UNCHANGED dbWorker

FlushAnswers ==
  /\ flusher = "answer"
  /\ flusher' = "flush"
  /\ Answer("flusher")
  /\ UNCHANGED dbWorker

\* Game::setGameState(SHUTDOWN): g_databaseTasks.stop(), g_dispatcher.stop().
DbStop ==
  /\ flusher = "idle" /\ DispatcherThread \notin signal
  /\ dbState = "RUNNING"
  /\ dbState' = "CLOSING"
  /\ open' = FALSE
  /\ UNCHANGED <<tasks, dbWorker, flusher, hand, signal, missed, pushed, executed, answered>>

\* Game::shutdown: the state changes under the lock, then the queue is flushed.
Shutdown ==
  /\ flusher = "idle" /\ dbState = "CLOSING"
  /\ dbState' = "TERMINATED"
  /\ flusher' = "flush"
  /\ UNCHANGED <<tasks, dbWorker, hand, signal, open, missed, pushed, executed, answered>>

\* notify_one without the lock: a worker that has tested the state and not yet
\* locked does not hear it.
NotifyShutdown ==
  /\ flusher = "notify"
  /\ flusher' = "done"
  /\ Wake
  /\ missed' = (dbWorker = "lock")
  /\ UNCHANGED <<dbState, tasks, hand, signal, open, pushed, executed, answered>>

DbWorkerStep ==
  DbCheckState \/ LockAndTake \/ DbTakeAfterWait \/ WorkerExecutes \/ WorkerAnswers

FlusherStep == FlushTake \/ FlushExecutes \/ FlushAnswers \/ NotifyShutdown

DbTerminated == flusher = "done" /\ UNCHANGED dbVars

DbNext ==
  \/ \E a \in Adder, q \in Query : AddDbTask(a, q)
  \/ \E a \in Adder : DbNotify(a)
  \/ DbWorkerStep \/ DbSpuriousWakeup
  \/ StartFlush \/ FlusherStep
  \/ DbStop \/ Shutdown
  \/ DbTerminated

\* Threads that can run do, and the database answers every query.
DbFairness ==
  /\ WF_dbVars(DbWorkerStep)
  /\ WF_dbVars(FlusherStep)
  /\ \A a \in Adder : WF_dbVars(DbNotify(a))

DbSpec == DbInit /\ [][DbNext]_dbVars /\ DbFairness

-------------------------------------------------------------------------------
DbTypeOK ==
  /\ dbState \in {"RUNNING", "CLOSING", "TERMINATED"}
  /\ tasks \in Seq(Query)
  /\ dbWorker \in {"check", "lock", "wait", "woken", "run", "answer", "exit"}
  /\ flusher \in {"idle", "flush", "run", "answer", "notify", "done"}
  /\ hand \in [{"worker", "flusher"} -> Query \cup {NoQuery}]
  /\ hand["worker"] = NoQuery <=> dbWorker \notin {"run", "answer"}
  /\ hand["flusher"] = NoQuery <=> flusher \notin {"run", "answer"}
  /\ signal \in SUBSET Adder
  /\ open \in BOOLEAN
  /\ missed \in BOOLEAN
  /\ pushed \in Seq(Query)
  /\ executed \in Seq(Query)
  /\ answered \in SUBSET Query

\* Popped and not yet executed.
InFlight ==
  {q \in Query : \/ dbWorker = "run" /\ q = hand["worker"]
                 \/ flusher = "run" /\ q = hand["flusher"]}

Occurs(q, s) == Cardinality({i \in DOMAIN s : s[i] = q})

\* Every query accepted is in one place: in the list, in flight, or executed,
\* and executed once, although two threads drain the list.
ExactlyOnce ==
  \A q \in Query :
    Occurs(q, tasks) + Occurs(q, executed)
      + (IF dbWorker = "run" /\ hand["worker"] = q THEN 1 ELSE 0)
      + (IF flusher = "run" /\ hand["flusher"] = q THEN 1 ELSE 0)
        = Occurs(q, pushed)

\* The queue and the two hands that take from it: well typed, no query lost,
\* none run twice.
QueriesConserved == DbTypeOK /\ ExactlyOnce

\* Queries run in the order of addTask but for one thing: a query one thread
\* has popped can be overtaken by those the other thread pops after it.
OnlyInFlightOvertaken ==
  \A i, j \in DOMAIN pushed :
    i < j /\ pushed[j] \in Elems(executed) /\ pushed[i] \notin Elems(executed)
      => pushed[i] \in InFlight

\* The worker never sleeps on queries in the list unless the thread that must
\* wake it is on its way.
NoLostDbWakeup == dbWorker = "wait" /\ tasks # <<>> => signal # {}

\* shutdown gives up no query: when the worker has ended and shutdown has
\* returned, everything accepted has been executed.
ShutdownExecutesAll ==
  dbWorker = "exit" /\ flusher = "done" => Elems(executed) = Elems(pushed)

\* Every query accepted is eventually executed, before and during shutdown,
\* and its callback posted unless the dispatcher has closed by then.
AcceptedIsAnswered ==
  \A q \in Query : q \in Elems(pushed) ~>
    (q \in Elems(executed) /\ (q \in answered \/ ~open))

\* The worker ends after shutdown, except in the one window the code leaves
\* open: the notification comes between the worker's test of the state and
\* its lock.
OnlyMissedNotificationHangs == dbState = "TERMINATED" ~> (dbWorker = "exit" \/ missed)

\* Queries come to an end, and so does the worker.
QueriesSettle == AcceptedIsAnswered /\ OnlyMissedNotificationHangs

\* All of this: queries are neither lost nor doubled, keep their order, find the
\* worker awake, and are executed by the shutdown.
QueriesSound == QueriesConserved /\ OnlyInFlightOvertaken /\ NoLostDbWakeup /\ ShutdownExecutesAll
===============================================================================
