------------------------------ MODULE Dispatcher ------------------------------
(***************************************************************************)
(* The game dispatcher: the one thread that runs all game logic, and the   *)
(* task list through which every other thread reaches it.                  *)
(*                                                                         *)
(*   src/src/tasks.cpp, tasks.h          Dispatcher, Task                  *)
(*   src/src/thread_holder_base.h        start / stop / the thread state   *)
(*   src/src/game.cpp, otserv.cpp        the two ways the thread is ended  *)
(*                                                                         *)
(* Granularity.  taskLock makes the body of addTask and the test-and-swap  *)
(* of threadMain atomic; everything outside the lock (the notification     *)
(* after unlock, the test of the thread state, the run of each task) is a  *)
(* step of its own.  A condition variable may wake its waiter spuriously.  *)
(*                                                                         *)
(* Data.  A task is only an identity; what its body does is left out, but  *)
(* the bodies that concern the dispatcher itself are here: posting further *)
(* tasks, Game::setGameState(SHUTDOWN) and Game::shutdown.                 *)
(***************************************************************************)
EXTENDS Naturals, Sequences, FiniteSets

CONSTANTS
  Task,      \* the tasks game code, the network and the timers may create
  Expiring,  \* those created with createTask(ms, f): dropped when run late
  Poster,    \* threads other than the dispatcher's that call addTask
  GameShutdown, \* the task that runs Game::shutdown
  Terminator    \* the task Dispatcher::shutdown pushes

ASSUME DispatcherAssumption ==
  /\ Expiring \subseteq Task
  /\ GameShutdown \notin Task
  /\ Terminator \notin Task
  /\ GameShutdown # Terminator

VARIABLES
  threadState, \* ThreadHolder::threadState of the dispatcher
  taskList,    \* Dispatcher::taskList, the tasks waiting to be taken
  batch,       \* what is left of threadMain's tmpTaskList, current task first
  worker,      \* where threadMain stands
  poster,      \* "signal": has pushed to an empty list and not yet notified
  aborted,     \* main() has called shutdown() because no service came up
  accepted,    \* history: every task pushed, in order
  finished,    \* history: every task threadMain has deleted, in order
  expired      \* history: those of finished that were dropped unrun

vars == <<threadState, taskList, batch, worker, poster, aborted,
          accepted, finished, expired>>

AnyTask == Task \cup {GameShutdown, Terminator}

Elements(s) == {s[i] : i \in DOMAIN s}

\* A Task object is created once, pushed or deleted by addTask, and never
\* pushed again.  Tasks refused by addTask are deleted and leave no trace.
Fresh(t) == t \notin Elements(accepted)

Init ==
  /\ threadState = "RUNNING"
  /\ taskList = <<>>
  /\ batch = <<>>
  /\ worker = "check"
  /\ poster = [p \in Poster |-> "idle"]
  /\ aborted = FALSE
  /\ accepted = <<>>
  /\ finished = <<>>
  /\ expired = {}

Push(t) ==
  /\ taskList' = Append(taskList, t)
  /\ accepted' = Append(accepted, t)

(***************************************************************************)
(* addTask                                                                 *)
(***************************************************************************)
\* Mutant: the state is not tested.
AcceptsAlways == TRUE

Accepts == threadState = "RUNNING"

\* Mutant: do_signal is computed after the push.
DoSignalLate == taskList' = <<>>

DoSignal == taskList = <<>>

\* The locked part of addTask, called by another thread.  A task that comes
\* when the dispatcher is no longer RUNNING is deleted.
AddTask(p, t) ==
  /\ poster[p] = "idle"
  /\ t \in Task /\ Fresh(t)
  /\ Accepts
  /\ Push(t)
  /\ poster' = [poster EXCEPT ![p] = IF DoSignal THEN "signal" ELSE "idle"]
  /\ UNCHANGED <<threadState, batch, worker, aborted, finished, expired>>

\* taskSignal.notify_one() after the unlock.
Notify(p) ==
  /\ poster[p] = "signal"
  /\ poster' = [poster EXCEPT ![p] = "idle"]
  /\ worker' = IF worker = "wait" THEN "woken" ELSE worker
  /\ UNCHANGED <<threadState, taskList, batch, aborted, accepted, finished, expired>>

\* addTask called by the task that is running: its notification finds nobody
\* waiting, the only waiter there ever is being the caller.
AddTaskFromTask(t) ==
  /\ worker = "exec" /\ Head(batch) \in Task
  /\ t \in Task /\ Fresh(t)
  /\ Accepts
  /\ Push(t)
  /\ UNCHANGED <<threadState, batch, worker, poster, aborted, finished, expired>>

(***************************************************************************)
(* threadMain                                                              *)
(***************************************************************************)
\* while (getState() != THREAD_STATE_TERMINATED)
CheckState ==
  /\ worker = "check"
  /\ worker' = IF threadState = "TERMINATED" THEN "exit" ELSE "lock"
  /\ UNCHANGED <<threadState, taskList, batch, poster, aborted, accepted, finished, expired>>

\* Mutant: the list is copied and not emptied.
Copy ==
  /\ batch' = taskList
  /\ taskList' = taskList
  /\ worker' = "run"

Swap ==
  /\ batch' = taskList
  /\ taskList' = <<>>
  /\ worker' = "run"

\* Under taskLock: wait on an empty list, otherwise take all of it.
TakeTasks ==
  /\ worker = "lock"
  /\ IF taskList = <<>>
     THEN worker' = "wait" /\ UNCHANGED <<taskList, batch>>
     ELSE Swap
  /\ UNCHANGED <<threadState, poster, aborted, accepted, finished, expired>>

\* wait() has returned with the lock held; there is no second test.
TakeAfterWait ==
  /\ worker = "woken"
  /\ Swap
  /\ UNCHANGED <<threadState, poster, aborted, accepted, finished, expired>>

SpuriousWakeup ==
  /\ worker = "wait"
  /\ worker' = "woken"
  /\ UNCHANGED <<threadState, taskList, batch, poster, aborted, accepted, finished, expired>>

Finish ==
  /\ batch' = Tail(batch)
  /\ finished' = Append(finished, Head(batch))

\* hasExpired() is only ever true of a task created with an expiration.
DropExpired ==
  /\ worker = "run" /\ batch # <<>>
  /\ Head(batch) \in Expiring
  /\ Finish
  /\ expired' = expired \cup {Head(batch)}
  /\ UNCHANGED <<threadState, taskList, worker, poster, aborted, accepted>>

BeginTask ==
  /\ worker = "run" /\ batch # <<>>
  /\ worker' = "exec"
  /\ UNCHANGED <<threadState, taskList, batch, poster, aborted, accepted, finished, expired>>

\* The body returns and the task is deleted.
EndTask ==
  /\ worker = "exec" /\ Head(batch) \in Task
  /\ Finish
  /\ worker' = "run"
  /\ UNCHANGED <<threadState, taskList, poster, aborted, accepted, expired>>

\* tmpTaskList is used up: clear() it and go back to the loop's test.
EndBatch ==
  /\ worker = "run" /\ batch = <<>>
  /\ worker' = "check"
  /\ UNCHANGED <<threadState, taskList, batch, poster, aborted, accepted, finished, expired>>

(***************************************************************************)
(* Ending the thread                                                       *)
(***************************************************************************)
\* Game::setGameState(GAME_STATE_SHUTDOWN), run by a task, at most once
\* ("this cannot be stopped"): post Game::shutdown ...
RequestShutdown ==
  /\ worker = "exec" /\ Head(batch) \in Task
  /\ Fresh(GameShutdown) /\ ~aborted
  /\ Push(GameShutdown)
  /\ worker' = "stopping"
  /\ UNCHANGED <<threadState, batch, poster, aborted, finished, expired>>

\* ... then g_dispatcher.stop(), which closes the list to addTask.
Stop ==
  /\ worker = "stopping"
  /\ threadState' = "CLOSING"
  /\ worker' = "exec"
  /\ UNCHANGED <<taskList, batch, poster, aborted, accepted, finished, expired>>

\* Game::shutdown calls Dispatcher::shutdown, which pushes the terminating
\* task whatever the thread state is, and notifies with the lock held.
RunGameShutdown ==
  /\ worker = "exec" /\ Head(batch) = GameShutdown
  /\ taskList' = Append(taskList, Terminator)
  /\ accepted' = Append(accepted, Terminator)
  /\ Finish
  /\ worker' = "run"
  /\ UNCHANGED <<threadState, poster, aborted, expired>>

\* Mutant: the terminating task leaves the thread state alone.
RunIdleTerminator ==
  /\ worker = "exec" /\ Head(batch) = Terminator
  /\ Finish
  /\ worker' = "run"
  /\ UNCHANGED <<threadState, taskList, poster, aborted, accepted, expired>>

\* The terminating task.  The loop's state is tested only when the batch it
\* came in is used up.
RunTerminator ==
  /\ worker = "exec" /\ Head(batch) = Terminator
  /\ threadState' = "TERMINATED"
  /\ Finish
  /\ worker' = "run"
  /\ UNCHANGED <<taskList, poster, aborted, accepted, expired>>

\* main() when no service is running after mainLoader: the list is still open
\* when the terminating task is pushed.
AbortStartup ==
  /\ ~aborted /\ Fresh(GameShutdown)
  /\ aborted' = TRUE
  /\ Push(Terminator)
  /\ worker' = IF worker = "wait" THEN "woken" ELSE worker
  /\ UNCHANGED <<threadState, batch, poster, finished, expired>>

WorkerStep ==
  \/ CheckState \/ TakeTasks \/ TakeAfterWait
  \/ DropExpired \/ BeginTask \/ EndTask \/ EndBatch
  \/ Stop \/ RunGameShutdown \/ RunTerminator

\* The process is over when threadMain has returned and every notification
\* has been made.
Terminated ==
  /\ worker = "exit"
  /\ \A p \in Poster : poster[p] = "idle"
  /\ UNCHANGED vars

Next ==
  \/ \E p \in Poster, t \in Task : AddTask(p, t)
  \/ \E p \in Poster : Notify(p)
  \/ \E t \in Task : AddTaskFromTask(t)
  \/ WorkerStep
  \/ SpuriousWakeup
  \/ RequestShutdown
  \/ AbortStartup
  \/ Terminated

\* Threads that are able to run do run, and every task body returns.  Nothing
\* says that a spurious wake-up or another task ever comes.
Fairness ==
  /\ WF_vars(WorkerStep)
  /\ \A p \in Poster : WF_vars(Notify(p))

Spec == Init /\ [][Next]_vars /\ Fairness

-------------------------------------------------------------------------------
TypeOK ==
  /\ threadState \in {"RUNNING", "CLOSING", "TERMINATED"}
  /\ taskList \in Seq(AnyTask)
  /\ batch \in Seq(AnyTask)
  /\ worker \in {"check", "lock", "wait", "woken", "run", "exec", "stopping", "exit"}
  /\ poster \in [Poster -> {"idle", "signal"}]
  /\ aborted \in BOOLEAN
  /\ accepted \in Seq(AnyTask)
  /\ finished \in Seq(AnyTask)
  /\ expired \in SUBSET Expiring

\* No task is lost, duplicated or reordered between the posting threads, the
\* list and the batch: what was accepted is what was finished, then what is
\* left of the batch, then what waits in the list (addTask and threadMain's
\* swap, tasks.cpp).
InOrder == accepted = finished \o batch \o taskList

\* The dispatcher never sleeps on a list with tasks in it unless the poster
\* that must wake it is on its way: addTask notifies after unlocking and only
\* when the list was empty.
NoLostWakeup ==
  worker = "wait" /\ taskList # <<>> => \E p \in Poster : poster[p] = "signal"

\* An ordered shutdown (Game::setGameState, then Game::shutdown) drops no task
\* that addTask accepted: the terminating task is the last one ever accepted.
DrainedAtExit ==
  worker = "exit" /\ ~aborted => taskList = <<>> /\ batch = <<>>

\* While the server runs, a task that is accepted is eventually run or dropped
\* as expired, however posts, swaps and notifications interleave.
AcceptedIsFinished ==
  \A t \in Task : t \in Elements(accepted) ~> (t \in Elements(finished) \/ aborted)

\* Once the shutdown has been posted the dispatcher thread ends.
ShutdownEndsThread ==
  (~Fresh(GameShutdown) \/ ~Fresh(Terminator)) ~> worker = "exit"

\* What the rest of the server relies on: its tasks are run, and shutdown ends.
WorkEnds == AcceptedIsFinished /\ ShutdownEndsThread
===============================================================================
