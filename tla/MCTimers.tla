------------------------------- MODULE MCTimers -------------------------------
(***************************************************************************)
(* Small instances of five components that live on timers, in one state    *)
(* space: Raids, Walk, Services, Spawns and GlobalEvents.  They share no   *)
(* state, so a behaviour of all of them is an interleaving of independent  *)
(* ones: which says whose behaviour this is, and the others stay as they   *)
(* begin.                                                                  *)
(***************************************************************************)
EXTENDS Raids, Walk, Services, Spawns, GlobalEvents, TLC

CONSTANTS rats, dragon

VARIABLE which

vars == <<which, raidVars, walkVars, serviceVars, spawnVars, globalVars>>

RaidSteps == (rats :> 2) @@ (dragon :> 1)
Intervals == <<5, 6>>

Init ==
  /\ which \in {"raids", "walk", "services", "spawn", "events"}
  /\ RaidsInit /\ WalkInit /\ ServicesInit /\ SpawnsInit /\ GlobalInit

Next ==
  \/ which = "raids" /\ RaidsNext /\ UNCHANGED <<which, walkVars, serviceVars, spawnVars, globalVars>>
  \/ which = "walk" /\ WalkNext /\ UNCHANGED <<which, raidVars, serviceVars, spawnVars, globalVars>>
  \/ which = "services" /\ ServicesNext /\ UNCHANGED <<which, raidVars, walkVars, spawnVars, globalVars>>
  \/ which = "spawn" /\ SpawnsNext /\ UNCHANGED <<which, raidVars, walkVars, serviceVars, globalVars>>
  \/ which = "events" /\ GlobalNext /\ UNCHANGED <<which, raidVars, walkVars, serviceVars, spawnVars>>

\* The fairness of the components, each for its own behaviours.
Fairness ==
  /\ \A o \in Owner :
       WF_raidVars(which = "raids" /\ ~broken
                     /\ \E e \in RaidEvents(o) : CheckRaids(e) \/ ExecuteRaidEvent(e))
  /\ WF_walkVars(which = "walk" /\ Rested)
  /\ WF_walkVars(which = "walk" /\ \E e \in EventsOf(w, "walk") : Expire(e))
  /\ WF_walkVars(which = "walk" /\ \E e \in EventsOf(w, "walk") : RunEvent(e))
  /\ WF_walkVars(which = "walk" /\ \E e \in w.events \ EventsOf(w, "walk") : Expire(e) \/ RunEvent(e))
  /\ WF_walkVars(which = "walk" /\ posted > 0 /\ PlayerAutoWalk)
  /\ WF_serviceVars(which = "services" /\ MainWaits)
  /\ WF_serviceVars(which = "services" /\ MainLooks)
  /\ WF_serviceVars(which = "services" /\ MainRuns)
  /\ WF_serviceVars(which = "services" /\ Die)
  /\ WF_serviceVars(which = "services" /\ MainJoins)
  /\ WF_serviceVars(which = "services" /\ LoaderStep)
  /\ WF_serviceVars(which = "services" /\ DispatcherStep)
  /\ \A p \in Port : WF_serviceVars(which = "services" /\ RetryExpires(p))

Spec == Init /\ [][Next]_vars /\ Fairness

----------------------------------------------------------------------------
(* What is checked: RaidsSound, WalkSound, PortsSound, SpawnsSound and       *)
(* EventsSound as the components have them.                                 *)

\* What begins comes to its end: raids, walks, and the process when it is told to.
AllEnd == RaidEnds /\ WalkEnds /\ ProcessEnds
===============================================================================
