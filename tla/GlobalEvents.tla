----------------------------- MODULE GlobalEvents -----------------------------
(***************************************************************************)
(* Global events that come at a time of the day ("timer") or at an         *)
(* interval ("think"), from globalevent.cpp.  For each of the two kinds    *)
(* one event of the scheduler runs what is due and schedules itself again; *)
(* registering an event starts it when no id is remembered.  Clearing      *)
(* forgets the events of the scripts or those of the xml file, never both. *)
(*                                                                         *)
(* What is due is a choice.  Startup, shutdown and record events are only  *)
(* looked up and are left out.                                             *)
(***************************************************************************)
EXTENDS Integers, FiniteSets

CONSTANTS
  Timer, Think,  \* global events of the two kinds
  FromLua,       \* those that scripts register
  MaxClears      \* bound: how often events are cleared

EventKind == {"timer", "think"}
OfKind(k) == IF k = "timer" THEN Timer ELSE Think

VARIABLES
  map,        \* the registered events: timerMap and thinkMap
  eventIds,    \* timerEventId and thinkEventId
  scheduled,  \* their events in the scheduler or the dispatcher: [kind, id]
  clears,
  late,       \* history: for each kind, how many stops were too late
  left        \* history: the kinds whose events were left without a scheduled one

globalVars == <<map, eventIds, scheduled, clears, late, left>>

ScheduledOf(k, s) == {e \in s : e.kind = k}

\* An id that no event of the kind has and that is not remembered either.
FreshRoundId(k, s) ==
  LET taken == {e.id : e \in ScheduledOf(k, s)} \cup {0, eventIds[k]}
  IN  CHOOSE n \in 1 .. Cardinality(taken) : n \notin taken

GlobalInit ==
  /\ map = {} /\ scheduled = {} /\ clears = 0 /\ left = {}
  /\ eventIds = [k \in EventKind |-> 0] /\ late = [k \in EventKind |-> 0]

\* Mutant: an id that is remembered is not looked at.
StartingAlways(new, ids) == {k \in EventKind : new \cap OfKind(k) # {}}

\* The kinds that registering the events new starts, when ids are remembered.
Starting(new, ids) == {k \in EventKind : ids[k] = 0 /\ new \cap OfKind(k) # {}}

\* registerEvent for each of new, when s is scheduled and ids are remembered.
Register(new, s, ids) ==
  LET starting == Starting(new, ids)
  IN
  /\ scheduled' = s \cup {[kind |-> k, id |-> FreshRoundId(k, s)] : k \in starting}
  /\ eventIds' = [k \in EventKind |-> IF k \in starting THEN FreshRoundId(k, s) ELSE ids[k]]

\* A script registers an event while the server runs.
RegisterEvent(e) ==
  /\ e \notin map
  /\ map' = map \cup {e}
  /\ Register({e}, scheduled, eventIds)
  /\ left' = left \cup {k \in EventKind : e \in OfKind(k) /\ eventIds[k] # 0 /\ ScheduledOf(k, scheduled) = {}}
  /\ UNCHANGED <<clears, late>>

\* timer() and think(): timers whose script fails are erased, and when an
\* event is left the next round is scheduled.  The id is not reset.
Round(e) ==
  \E failed \in SUBSET (map \cap OfKind(e.kind)) :
    LET rest == scheduled \ {e}
        more == (map \ failed) \cap OfKind(e.kind) # {}
        id == FreshRoundId(e.kind, scheduled)
    IN
    /\ e.kind = "think" => failed = {}
    /\ map' = map \ failed
    /\ scheduled' = IF more THEN rest \cup {[kind |-> e.kind, id |-> id]} ELSE rest
    /\ eventIds' = IF more THEN [eventIds EXCEPT ![e.kind] = id] ELSE eventIds
    /\ UNCHANGED <<clears, late, left>>

\* The pending events that clear stops; those in tooLate run all the same.
Stopped == {e \in scheduled : e.id = eventIds[e.kind]}

\* clear(fromLua) and then the events that are found in the files.
ReloadEvents(fromLua, found, tooLate) ==
  LET origin == IF fromLua THEN FromLua ELSE (Timer \cup Think) \ FromLua
      rest == scheduled \ (Stopped \ tooLate)
  IN
  /\ clears < MaxClears /\ clears' = clears + 1
  /\ found \subseteq origin
  /\ map' = (map \ origin) \cup found
  /\ Register(found, rest, [k \in EventKind |-> 0])
  /\ late' = [k \in EventKind |-> late[k] + Cardinality(ScheduledOf(k, tooLate))]
  /\ left' = {k \in EventKind : (map \ origin) \cap OfKind(k) # {} /\ found \cap OfKind(k) = {}}

GlobalNext ==
  \/ \E e \in Timer \cup Think : RegisterEvent(e)
  \/ \E e \in scheduled : Round(e)
  \/ \E fromLua \in BOOLEAN, found \in SUBSET (Timer \cup Think), tooLate \in SUBSET Stopped :
       ReloadEvents(fromLua, found, tooLate)

GlobalSpec == GlobalInit /\ [][GlobalNext]_globalVars

----------------------------------------------------------------------------
(* Properties *)

GlobalTypeOK ==
  /\ map \subseteq Timer \cup Think
  /\ scheduled \subseteq [kind : EventKind, id : Nat \ {0}]
  /\ eventIds \in [EventKind -> Nat]
  /\ left \subseteq EventKind

\* Events of a kind run in one chain of rounds: registering them one after
\* the other, rounds that erase some and reloads start another one only when
\* a stop was too late.
OneChain == \A k \in EventKind : Cardinality(ScheduledOf(k, scheduled)) <= 1 + late[k]

\* Registered events are waited for, but for two cases: a clear that took the
\* others of the kind away and brought none back, and a registration after
\* the last event had been erased, when the old id is still remembered.
Waited ==
  \A k \in EventKind \ left : map \cap OfKind(k) # {} => ScheduledOf(k, scheduled) # {}

\* Each kind of global event has one chain of rounds, one more for each stop
\* that came too late, and a kind with events is without only when a clear
\* left it so, or a registration after its last event had been erased.
EventsSound == GlobalTypeOK /\ OneChain /\ Waited

\* What globalevents.xml says of its timer: it comes every day at that time.
TimersCome == map \cap Timer # {} => ScheduledOf("timer", scheduled) # {}
==============================================================================
