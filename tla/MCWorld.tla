------------------------------- MODULE MCWorld -------------------------------
(***************************************************************************)
(* Small instances of three components of the world, in one state space:   *)
(* Decay, Party and Creatures.  They share no state, so a behaviour of all *)
(* of them is an interleaving of independent ones: which says whose        *)
(* behaviour this is, and the others stay as they begin.                   *)
(***************************************************************************)
EXTENDS Decay, Party, TLC

CONSTANTS
  lit, burnt, idle,                     \* Decay
  hero, rat, wolf, Acts, nobody         \* Creatures

VARIABLES
  which,
  world, dying, acts

creatureVars == <<world, dying, acts>>

\* A light that burns down in two stages and can be put out.  Its times are no
\* whole rounds, so that it changes from bucket to bucket.
Times == (lit :> 1400) @@ (burnt :> 400) @@ (idle :> 0)
NextKind == (lit :> burnt) @@ (burnt :> Gone) @@ (idle :> Never)
AsWorn == (lit :> idle) @@ (burnt :> burnt) @@ (idle :> lit)

AtStartup == rat :> 0

C == INSTANCE Creatures WITH Player <- {hero}, Monster <- {rat, wolf}, Place <- {0, 1, 2, 5},
                             Startup <- AtStartup, Chase <- TRUE, Fickle <- {rat}, None <- nobody

ASSUME WorldAssumption == C!CreatureAssumption

\* The two items may be exchanged.
Exchanges == Permutations(Item)

worldVars == <<which, decayVars, vars, creatureVars>>

WorldInit ==
  /\ which \in {"items", "parties", "creatures"}
  /\ DecayInit /\ Init /\ C!CreaturesInit

WorldNext ==
  \/ which = "items" /\ DecayNext /\ UNCHANGED <<which, vars, creatureVars>>
  \/ which = "parties" /\ Next /\ UNCHANGED <<which, decayVars, creatureVars>>
  \/ which = "creatures" /\ C!CreaturesNext /\ UNCHANGED <<which, decayVars, vars>>

WorldSpec == WorldInit /\ [][WorldNext]_worldVars

----------------------------------------------------------------------------
(* What is checked, of the part that moves: the others stay as they begin.  *)
(* DecaySound and PartiesSound are as Decay and Party have them.            *)

\* Creatures: references are exact and no pointer is left to one that is
\* gone; monsters are awake while they have targets, and these are in sight.
CreaturesSound ==
  which = "creatures" => C!ReferencesExact /\ C!PointersLive /\ C!AwakeWithTargets /\ C!TargetsInSight
=============================================================================
