--------------------------------- MODULE Walk ---------------------------------
(***************************************************************************)
(* A player who walks (creature.cpp, player.cpp): the list of directions,  *)
(* the event of the scheduler that takes one step and adds the next one,   *)
(* and the actions that wait for the end of the walk (walkTask) or until   *)
(* the player may act again.  An event that has expired is queued for the  *)
(* dispatcher and can no longer be stopped.                                *)
(*                                                                         *)
(* Where the player is does not matter: a path is a number of steps, what  *)
(* an action finds and how a step ends are choices.  The state is one      *)
(* record, so that the functions of the code, which call each other, are   *)
(* operators from records to sets of records.                              *)
(***************************************************************************)
EXTENDS Integers, FiniteSets

CONSTANTS
  MaxPath,  \* bound: the steps of a path
  MaxActs   \* bound: what the client and scripts ask for, and actions that are far away again

ASSUME WalkAssumption == MaxPath \in Nat \ {0}

Kind == {"walk", "walkTask", "action"}
NoRequest == 0

VARIABLES
  w,       \* the player
  posted,  \* playerAutoWalk tasks of actions, in the dispatcher
  acts

walkVars == <<w, posted, acts>>

\* id: eventWalk, walkTaskEvent and actionTaskEvent, 0 if there is none.
\* late and teleported are history: the walk events stopped too late, and
\* whether a teleport has stopped the walk.
WalkInit ==
  /\ w = [list |-> 0, id |-> [k \in Kind |-> 0], events |-> {}, cancelNextWalk |-> FALSE,
          speed |-> TRUE, resting |-> FALSE, busy |-> FALSE, movementBlocked |-> FALSE,
          walkTask |-> NoRequest, late |-> 0, teleported |-> FALSE]
  /\ posted = 0 /\ acts = 0

----------------------------------------------------------------------------
(* The scheduler *)

EventsOf(s, k) == {e \in s.events : e.kind = k}

FreshId(s, k) ==
  LET taken == {e.id : e \in EventsOf(s, k)} \cup {0, s.id[k]}
  IN  CHOOSE n \in 1 .. Cardinality(taken) : n \notin taken

AddEvent(s, k, r) ==
  [s EXCEPT !.events = @ \cup {[kind |-> k, id |-> FreshId(s, k), request |-> r, queued |-> FALSE]},
            !.id[k] = FreshId(s, k)]

\* stopEvent, if there is an event, and the id is forgotten.
StopEvent(s, k) ==
  LET asked == {e \in EventsOf(s, k) : e.id = s.id[k]}
  IN  [s EXCEPT !.events = @ \ {e \in asked : ~e.queued},
                !.id[k] = 0,
                !.late = IF k = "walk" /\ \E e \in asked : e.queued THEN @ + 1 ELSE @]

----------------------------------------------------------------------------
(* The functions of the player *)

SetNextWalkActionTask(s, r) == [StopEvent(s, "walkTask") EXCEPT !.walkTask = r]

SetNextActionTask(s, r) ==
  LET t == StopEvent(s, "action")
  IN  IF r = NoRequest THEN t ELSE AddEvent(t, "action", r)

OnWalkComplete(s) ==
  IF s.walkTask = NoRequest THEN s
  ELSE [AddEvent(s, "walkTask", s.walkTask) EXCEPT !.walkTask = NoRequest]

\* What becomes of a step: it is made or refused, ends in a teleport, or on a
\* field whose script paralyses the player.
Step(s) ==
  LET t == [SetNextActionTask(s, NoRequest) EXCEPT !.list = @ - 1, !.busy = TRUE]
      moved == [t EXCEPT !.resting = TRUE]
  IN  {t, moved,
       [StopEvent(moved, "walk") EXCEPT !.teleported = TRUE],
       [StopEvent(moved, "walk") EXCEPT !.speed = FALSE, !.cancelNextWalk = TRUE]}

\* The first two thirds of onWalk.
Walked(s) ==
  LET stepped == IF s.resting THEN {s}
                 ELSE IF s.list > 0 THEN Step(s)
                 ELSE {OnWalkComplete(StopEvent(s, "walk"))}
      aborted(t) == [SetNextWalkActionTask(t, NoRequest) EXCEPT !.list = 0, !.cancelNextWalk = FALSE]
  IN  {IF t.cancelNextWalk THEN aborted(t) ELSE t : t \in stepped}

\* The first step of a walk is made at once.
AddEventWalk(s, firstStep) ==
  LET t == [s EXCEPT !.cancelNextWalk = FALSE]
  IN  IF ~t.speed \/ t.id["walk"] # 0 THEN {t}
      ELSE {AddEvent(u, "walk", NoRequest) :
              u \in IF firstStep /\ ~t.resting THEN Walked(t) ELSE {t}}

\* Mutant: the event that runs is still remembered when the next is asked for.
OnWalkKeepingId(s) ==
  UNION {IF t.id["walk"] # 0 THEN AddEventWalk(t, FALSE) ELSE {t} : t \in Walked(s)}

OnWalk(s) ==
  UNION {IF t.id["walk"] # 0 THEN AddEventWalk([t EXCEPT !.id["walk"] = 0], FALSE) ELSE {t} :
           t \in Walked(s)}

StartAutoWalk(s, n) ==
  IF s.movementBlocked THEN {s}
  ELSE AddEventWalk([s EXCEPT !.list = n, !.teleported = FALSE], n = 1)

SetSpeed(s, speed) ==
  LET t == [s EXCEPT !.speed = speed]
  IN  IF ~speed THEN {[StopEvent(t, "walk") EXCEPT !.cancelNextWalk = TRUE]}
      ELSE IF ~s.speed /\ t.list > 0 THEN AddEventWalk(t, FALSE)
      ELSE {t}

----------------------------------------------------------------------------
(* Actions *)

Ask == acts < MaxActs /\ acts' = acts + 1

PlayerMove ==
  /\ Ask /\ ~w.movementBlocked
  /\ w' \in StartAutoWalk(SetNextWalkActionTask(w, NoRequest), 1)
  /\ UNCHANGED posted

\* playerAutoWalk, for the client or for an action.
PlayerAutoWalk ==
  /\ \/ Ask /\ UNCHANGED posted
     \/ posted > 0 /\ posted' = posted - 1 /\ UNCHANGED acts
  /\ \E n \in 1 .. MaxPath : w' \in StartAutoWalk(w, n)

PlayerStopAutoWalk ==
  /\ Ask
  /\ w' = [w EXCEPT !.cancelNextWalk = TRUE]
  /\ UNCHANGED posted

\* playerUseItem of a thing that is far away, or near; the other actions
\* that take time have the same shape.
Use(s, r, far) ==
  IF far THEN w' = SetNextWalkActionTask(s, r) /\ posted' = posted + 1
  ELSE w' = SetNextActionTask(s, IF s.busy THEN r ELSE NoRequest) /\ UNCHANGED posted

PlayerUseItem ==
  /\ Ask
  /\ \E far \in BOOLEAN : Use(w, acts', far)

ChangeSpeed ==
  /\ Ask
  /\ w' \in SetSpeed(w, ~w.speed)
  /\ UNCHANGED posted

SetMovementBlocked ==
  /\ Ask
  /\ w' = [w EXCEPT !.movementBlocked = ~@, !.cancelNextWalk = TRUE]
  /\ UNCHANGED posted

\* A script puts the player elsewhere.
Teleport ==
  /\ Ask
  /\ w' = [StopEvent(w, "walk") EXCEPT !.teleported = TRUE, !.resting = TRUE]
  /\ UNCHANGED posted

Expire(e) ==
  /\ ~e.queued
  /\ w' = [w EXCEPT !.events = (@ \ {e}) \cup {[e EXCEPT !.queued = TRUE]}]
  /\ UNCHANGED <<posted, acts>>

RunEvent(e) ==
  LET s == [w EXCEPT !.events = @ \ {e}]
  IN
  /\ e.queued
  /\ \/ e.kind = "walk" /\ w' \in OnWalk(s) /\ UNCHANGED <<posted, acts>>
     \/ e.kind # "walk" /\ Use(s, e.request, FALSE) /\ UNCHANGED acts
     \/ e.kind # "walk" /\ Use(s, e.request, TRUE) /\ Ask

\* getWalkDelay and getNextActionTime come to zero.
Rested == w.resting /\ w' = [w EXCEPT !.resting = FALSE] /\ UNCHANGED <<posted, acts>>
CanDoAction == w.busy /\ w' = [w EXCEPT !.busy = FALSE] /\ UNCHANGED <<posted, acts>>

WalkNext ==
  \/ PlayerMove \/ PlayerAutoWalk \/ PlayerStopAutoWalk \/ PlayerUseItem
  \/ ChangeSpeed \/ SetMovementBlocked \/ Teleport
  \/ \E e \in w.events : Expire(e) \/ RunEvent(e)
  \/ Rested \/ CanDoAction

WalkFairness ==
  /\ WF_walkVars(Rested)
  /\ WF_walkVars(\E e \in EventsOf(w, "walk") : Expire(e))
  /\ WF_walkVars(\E e \in EventsOf(w, "walk") : RunEvent(e))
  /\ WF_walkVars(\E e \in w.events \ EventsOf(w, "walk") : Expire(e) \/ RunEvent(e))
  /\ WF_walkVars(posted > 0 /\ PlayerAutoWalk)

WalkSpec == WalkInit /\ [][WalkNext]_walkVars /\ WalkFairness

----------------------------------------------------------------------------
(* Properties *)

WalkTypeOK ==
  /\ w.list \in 0 .. MaxPath /\ w.id \in [Kind -> Nat]
  /\ \A e \in w.events : e.kind \in Kind /\ e.id \in Nat \ {0} /\ e.queued \in BOOLEAN

\* A player with steps to go, who can move and was not teleported since the
\* walk began, has a walk event: stops that come too late, first steps that
\* are made at once and paralysis never leave the walk without one.  The
\* event that eventWalk remembers does exist.
StillWalking ==
  /\ w.list > 0 /\ w.speed /\ ~w.teleported => EventsOf(w, "walk") # {}
  /\ w.id["walk"] # 0 => \E e \in EventsOf(w, "walk") : e.id = w.id["walk"]

\* There is one chain of walk events, and another one for each stop of an
\* event that the dispatcher already had: such an event adds a next one when
\* the player walks again.
WalkChains == Cardinality(EventsOf(w, "walk")) <= 1 + w.late

\* The player intends one thing: an action waits for the end of the walk or
\* was scheduled at its end, never both, and one action waits at most for
\* the time when the player may act again.
OneIntention ==
  LET waiting(k) == {e \in EventsOf(w, k) : ~e.queued}
  IN
  /\ Cardinality(waiting("walkTask")) + (IF w.walkTask = NoRequest THEN 0 ELSE 1) <= 1
  /\ Cardinality(waiting("action")) <= 1

\* A walk with steps goes on, in one chain of events, and what was asked for
\* at its end is kept once.
WalkSound == WalkTypeOK /\ StillWalking /\ WalkChains /\ OneIntention

\* A walk comes to its end unless something stops it.
WalkEnds == w.list > 0 ~> (w.list = 0 \/ ~w.speed \/ w.teleported)
==============================================================================
