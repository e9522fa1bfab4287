-------------------------------- MODULE Raids --------------------------------
(***************************************************************************)
(* The raids (raids.cpp).  A check that puts itself into the scheduler     *)
(* again and again starts at most one raid at a time; a raid is a list of  *)
(* events of which each schedules the next one.  Everything here runs in   *)
(* the dispatcher, but an event that was handed to the dispatcher can no   *)
(* longer be stopped, and a reload deletes the raids that are in the list. *)
(*                                                                         *)
(* A raid object is a name and the load it came with.  How long events     *)
(* wait, the margin after a raid and the roll of the dice are choices.     *)
(***************************************************************************)
EXTENDS Integers, FiniteSets

CONSTANTS
  Raid,      \* the raids of raids.xml
  Steps,     \* how many events each has
  Repeated,  \* those that may start again
  MaxLoads   \* bound: how often the raids are loaded

ASSUME RaidsAssumption == Steps \in [Raid -> Nat] /\ MaxLoads \in Nat

NoRaid == <<"none", 0>>
Check == <<"check", 0>>
RaidObject == Raid \X (1 .. MaxLoads)
Owner == RaidObject \cup {Check}

VARIABLES
  events,     \* that will run, each with its id, owner and step
  eventId,    \* checkRaidsEvent, and nextEventEvent of every raid
  loads,      \* how often the raids were loaded
  raidList,
  raiding,    \* Raids::running
  started,
  nextEvent,  \* of every raid
  deleted,    \* the raid objects that are no more
  broken,     \* an event ran for a raid that was deleted: nothing after that has a meaning
  missed,     \* history: how many checks were stopped too late
  stray       \* history: the raids with an event that outlived a clear

raidVars == <<events, eventId, loads, raidList, raiding, started, nextEvent,
              deleted, broken, missed, stray>>

RaidEvents(o) == {e \in events : e.of = o}

\* What g_scheduler.addEvent adds; no living or remembered event of o has the id.
NewEvent(o, s) ==
  LET taken == {e.id : e \in RaidEvents(o)} \cup {eventId[o]}
      fresh == CHOOSE n \in 1 .. Cardinality(taken) + 1 : n \notin taken
  IN  [id |-> fresh, of |-> o, step |-> s]

\* The events stopEvent is asked to take away.
Asked == {e \in events : e.of \in raidList \cup {Check} /\ e.id = eventId[e.of]}

RaidsInit ==
  /\ events = {} /\ eventId = [o \in Owner |-> 0]
  /\ loads = 0 /\ raidList = {} /\ raiding = NoRaid /\ started = FALSE
  /\ nextEvent = [r \in RaidObject |-> 1]
  /\ deleted = {} /\ broken = FALSE /\ missed = 0 /\ stray = {}

\* What startRaid schedules.
FirstEvent(r) == IF nextEvent[r] <= Steps[r[1]] THEN {NewEvent(r, nextEvent[r])} ELSE {}

Ids(added, o) == IF \E e \in added : e.of = o
                   THEN (CHOOSE e \in added : e.of = o).id
                   ELSE eventId[o]

Schedule(remaining, added) ==
  /\ events' = remaining \cup added
  /\ eventId' = [o \in Owner |-> Ids(added, o)]

\* Mutant: while a raid runs the check does not come again.
CheckOnlyIdle(e) ==
  /\ e.of = Check
  /\ Schedule(events \ {e}, IF raiding = NoRaid THEN {NewEvent(Check, 0)} ELSE {})
  /\ UNCHANGED <<loads, raidList, raiding, started, nextEvent, deleted, broken, missed, stray>>

\* The check starts a raid, or none, and comes again.
CheckRaids(e) ==
  /\ e.of = Check
  /\ \/ /\ Schedule(events \ {e}, {NewEvent(Check, 0)})
        /\ UNCHANGED <<raidList, raiding>>
     \/ /\ raiding = NoRaid
        /\ \E r \in raidList :
             /\ raiding' = r
             /\ Schedule(events \ {e}, {NewEvent(Check, 0)} \cup FirstEvent(r))
             /\ raidList' = IF r[1] \in Repeated THEN raidList ELSE raidList \ {r}
  /\ UNCHANGED <<loads, started, nextEvent, deleted, broken, missed, stray>>

\* A script starts a raid of the list.
StartRaid(r) ==
  /\ r \in raidList /\ raiding = NoRaid
  /\ raiding' = r
  /\ Schedule(events, FirstEvent(r))
  /\ UNCHANGED <<loads, raidList, started, nextEvent, deleted, broken, missed, stray>>

\* Mutant: a raid of which an event fails is not reset.
ExecuteForgets(e) ==
  LET r == e.of
      next == nextEvent[r] + 1
  IN
  /\ r \in RaidObject \ deleted
  /\ \/ /\ next <= Steps[r[1]]
        /\ nextEvent' = [nextEvent EXCEPT ![r] = next]
        /\ Schedule(events \ {e}, {NewEvent(r, next)})
        /\ UNCHANGED raiding
     \/ /\ Schedule(events \ {e}, {})
        /\ UNCHANGED <<nextEvent, raiding>>
  /\ UNCHANGED <<loads, raidList, started, deleted, broken, missed, stray>>

\* An event of a raid succeeds and schedules the next, or the raid is over.
ExecuteRaidEvent(e) ==
  LET r == e.of
      next == nextEvent[r] + 1
  IN
  /\ r \in RaidObject \ deleted
  /\ \/ /\ next <= Steps[r[1]]
        /\ nextEvent' = [nextEvent EXCEPT ![r] = next]
        /\ Schedule(events \ {e}, {NewEvent(r, next)})
        /\ UNCHANGED raiding
     \/ /\ nextEvent' = [nextEvent EXCEPT ![r] = 1]
        /\ Schedule(events \ {e}, {})
        /\ raiding' = NoRaid
  /\ UNCHANGED <<loads, raidList, started, deleted, broken, missed, stray>>

\* An event whose raid is no more.
TouchDeleted(e) ==
  /\ e.of \in deleted
  /\ broken' = TRUE
  /\ events' = events \ {e}
  /\ UNCHANGED <<eventId, loads, raidList, raiding, started, nextEvent, deleted, missed, stray>>

\* Raids::clear and loadFromXml, which may find no file, and then startup.
\* tooLate are the events that the dispatcher has already: they come next.
ReloadRaids(found, tooLate) ==
  LET kept == events \ (Asked \ tooLate)
      new == IF found THEN {NewEvent(Check, 0)} ELSE {}
  IN
  /\ loads < MaxLoads
  /\ loads' = loads + 1
  /\ raiding' = NoRaid
  /\ deleted' = deleted \cup raidList
  /\ raidList' = IF found THEN Raid \X {loads + 1} ELSE {}
  /\ started' = found
  /\ events' = kept \cup new
  /\ eventId' = [eventId EXCEPT ![Check] = IF found THEN NewEvent(Check, 0).id ELSE 0]
  /\ broken' = \E e \in tooLate : e.of # Check
  /\ missed' = missed + Cardinality({e \in tooLate : e.of = Check})
  /\ stray' = stray \cup ({e.of : e \in kept} \ {Check})
  /\ UNCHANGED nextEvent

RaidsNext ==
  /\ ~broken
  /\ \/ \E e \in events : CheckRaids(e) \/ ExecuteRaidEvent(e) \/ TouchDeleted(e)
     \/ \E r \in raidList : StartRaid(r)
     \/ \E found \in BOOLEAN, tooLate \in SUBSET Asked : ReloadRaids(found, tooLate)

\* Events run when their time has come.
RaidsFairness ==
  \A o \in Owner : WF_raidVars(~broken /\ \E e \in RaidEvents(o) : CheckRaids(e) \/ ExecuteRaidEvent(e))

RaidsSpec == RaidsInit /\ [][RaidsNext]_raidVars /\ RaidsFairness

----------------------------------------------------------------------------
(* Properties *)

RaidsTypeOK ==
  /\ events \subseteq [id : Nat \ {0}, of : Owner, step : Nat]
  /\ eventId \in [Owner -> Nat]
  /\ raidList \subseteq RaidObject \ deleted
  /\ raiding \in RaidObject \cup {NoRaid}
  /\ nextEvent \in [RaidObject -> Nat]

\* Once started, the check that checkRaidsEvent names is in the scheduler or
\* the dispatcher; there is a second chain of checks only for a stop that came
\* too late, and each such stop leaves one more at most.
CheckedForEver ==
  /\ started => \E e \in RaidEvents(Check) : e.id = eventId[Check]
  /\ Cardinality(RaidEvents(Check)) <= missed + (IF started THEN 1 ELSE 0)

\* As long as no event of a raid outlived a clear, there is at most one
\* event of raids, it is the next one of the raid that is running, and that
\* raid still exists: no deleted raid is touched and two raids never overlap.
OneRaid ==
  stray = {} =>
    \A e \in events : e.of # Check =>
      /\ e.of = raiding /\ e.step = nextEvent[raiding] /\ e.of \notin deleted
      /\ e.id = eventId[raiding]
      /\ \A f \in events : f.of # Check => f = e

\* The check of the raids goes on for ever, and what runs is the next event of
\* the raid that is running.
RaidsSound == RaidsTypeOK /\ CheckedForEver /\ OneRaid

\* A raid that is running and has events comes to its end.
RaidEnds ==
  (raiding # NoRaid /\ \E r \in Raid : raiding[1] = r /\ Steps[r] > 0) ~> (raiding = NoRaid \/ broken)
==============================================================================
