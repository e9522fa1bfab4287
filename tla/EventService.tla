----------------------------- MODULE EventService -----------------------------
(***************************************************************************)
(* What the rest of the server may expect of the scheduler: an event that  *)
(* was added is handed to the dispatcher at most once.  It is dropped only *)
(* when somebody asked to stop an event with its id while it was pending,  *)
(* when it was pending together with another event of the same id, or when *)
(* the server is closing.  A stop that comes too late has no effect:       *)
(* asking is not a guarantee.                                              *)
(***************************************************************************)
CONSTANTS Task, EventId

VARIABLES
  status,   \* of every task
  id,       \* the id an event was given
  mayDrop,  \* the events that were stopped or have met another of their id
  closed    \* the scheduler or the dispatcher takes no more events

vars == <<status, id, mayDrop, closed>>

\* The pending events with id n.
Pending(n) == {t \in Task : status[t] = "pending" /\ id[t] = n}

Init ==
  /\ status = [t \in Task |-> "new"]
  /\ id \in [Task -> EventId]
  /\ mayDrop = {}
  /\ closed = FALSE

Add(t, n) ==
  /\ status[t] = "new"
  /\ status' = [status EXCEPT ![t] = "pending"]
  /\ id' = [id EXCEPT ![t] = n]
  /\ mayDrop' = mayDrop \cup Pending(n) \cup (IF Pending(n) = {} THEN {} ELSE {t})
  /\ UNCHANGED closed

AskStop(n) ==
  /\ mayDrop' = mayDrop \cup Pending(n)
  /\ UNCHANGED <<status, id, closed>>

Hand(t) ==
  /\ status[t] = "pending" /\ ~closed
  /\ status' = [status EXCEPT ![t] = "handed"]
  /\ UNCHANGED <<id, mayDrop, closed>>

Drop(t) ==
  /\ status[t] = "pending"
  /\ t \in mayDrop \/ closed
  /\ status' = [status EXCEPT ![t] = "dropped"]
  /\ UNCHANGED <<id, mayDrop, closed>>

Close ==
  /\ closed' = TRUE
  /\ UNCHANGED <<status, id, mayDrop>>

Next ==
  \/ \E t \in Task : Hand(t) \/ Drop(t) \/ \E n \in EventId : Add(t, n)
  \/ \E n \in EventId : AskStop(n)
  \/ Close

Spec == Init /\ [][Next]_vars
===============================================================================
