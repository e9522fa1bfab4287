------------------------------ MODULE MCThreads ------------------------------
(***************************************************************************)
(* Small instances of Dispatcher and DatabaseTasks in one state space.     *)
(* They share no state, so which says whose behaviour this is, and the     *)
(* other stays as it begins.                                               *)
(***************************************************************************)
EXTENDS Dispatcher, DatabaseTasks

CONSTANTS t1, t2, t3, p1, p2, q1, q2, q3, n1

VARIABLE which

\* Three tasks, one of which expires, and two posting threads.
MCTask == {t1, t2, t3}
MCExpiring == {t1}
MCPoster == {p1, p2}

\* Three queries, pushed by the dispatcher and one other thread.
MCQuery == {q1, q2, q3}
MCNetwork == {n1}

ThreadsInit == which \in {"dispatcher", "database"} /\ Init /\ DbInit

ThreadsNext ==
  \/ which = "dispatcher" /\ Next /\ UNCHANGED <<which, dbVars>>
  \/ which = "database" /\ DbNext /\ UNCHANGED <<which, vars>>

ThreadsSpec ==
  /\ ThreadsInit /\ [][ThreadsNext]_<<which, vars, dbVars>>
  /\ WF_vars(which = "dispatcher" /\ WorkerStep)
  /\ \A p \in Poster : WF_vars(which = "dispatcher" /\ Notify(p))
  /\ WF_dbVars(which = "database" /\ DbWorkerStep)
  /\ WF_dbVars(which = "database" /\ FlusherStep)
  /\ \A a \in Adder : WF_dbVars(which = "database" /\ DbNotify(a))
==============================================================================
