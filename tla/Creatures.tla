----------------------------- MODULE Creatures -----------------------------
(***************************************************************************)
(* What creatures remember of each other (creature.cpp, monster.cpp and    *)
(* game.cpp): the creature each attacks and follows, the targets and the   *)
(* friends of a monster, its master and its summons, and the lists of      *)
(* checkCreatures.                                                         *)
(*                                                                         *)
(* attackedCreature and followCreature are plain pointers; targets,        *)
(* friends, summons and the check lists hold a reference.  Both are kept   *)
(* right by notifications alone: a creature that appears, moves or is      *)
(* removed is reported to the spectators around it, and each takes it up   *)
(* or forgets it by its own rules, which depend on who is whose summon.    *)
(*                                                                         *)
(* Positions are points of a line: spectators are within Near, sight is    *)
(* Sight, a summon further than Far from its master is given up.  A monster*)
(* with a master summons nothing, so chains of masters have at most three  *)
(* members.                                                                *)
(***************************************************************************)
EXTENDS Integers, FiniteSetsExt

CONSTANTS
    Player, Monster,    \* objects of the two classes
    Place,              \* positions
    Startup,            \* [monsters placed by the spawns at startup -> Place]
    Chase,              \* chaseMode of the players
    Fickle,             \* the monsters of a type with a changeTargetChance
    Acts,               \* bound: what players, scripts and monsters do
    None

Creature == Player \cup Monster

Sight == 2      \* canSee: 9 tiles
Near  == 3      \* spectators: 11 tiles
Far   == 4      \* classic summons: 30 tiles

CreatureAssumption ==
    /\ Player \cap Monster = {}
    /\ None \notin Creature
    /\ Place \subseteq Nat
    /\ Chase \in BOOLEAN /\ Fickle \subseteq Monster
    /\ DOMAIN Startup \subseteq Monster /\ \A m \in DOMAIN Startup : Startup[m] \in Place
    /\ Acts \in Nat

VARIABLES world, dying, acts

\* world[c], a creature:
\*   on                  "out" not made yet, "in" placed, "removed" setRemoved,
\*                       "gone" deleted: an object is not made again
\*   dead                its health is 0
\*   master, attacked, follow, targets, friends
\*   check, listed       creatureCheck, inCheckCreaturesVector
\*   refs, release       referenceCounter, entries in ToReleaseCreatures
\*   served              history: the players that were its master
\* dying                 creatures with an executeDeath task in the dispatcher

creatureVars == <<world, dying, acts>>

Unborn == [on |-> "out", pos |-> 0, dead |-> FALSE, master |-> None,
           attacked |-> None, follow |-> None, targets |-> {}, friends |-> {},
           check |-> FALSE, listed |-> FALSE, refs |-> 0, release |-> 0,
           served |-> {}]

-----------------------------------------------------------------------------
(* References and lists.  An object whose count falls to zero is deleted   *)
(* by Delete, before anything else happens.                                *)

Ref(w, c)   == [w EXCEPT ![c].refs = @ + 1]
Unref(w, c) == [w EXCEPT ![c].refs = @ - 1]
UnrefAll(w, set) == FoldSet(LAMBDA c, v : Unref(v, c), w, set)

AddFriend(w, m, c) ==
    IF c \in w[m].friends THEN w ELSE Ref([w EXCEPT ![m].friends = @ \cup {c}], c)
RemoveFriend(w, m, c) ==
    IF c \in w[m].friends THEN Unref([w EXCEPT ![m].friends = @ \ {c}], c) ELSE w
AddTarget(w, m, c) ==
    IF c \in w[m].targets THEN w ELSE Ref([w EXCEPT ![m].targets = @ \cup {c}], c)
\* Mutant: the reference is not given back.
RemoveTargetOnly(w, m, c) == [w EXCEPT ![m].targets = @ \ {c}]

RemoveTarget(w, m, c) ==
    IF c \in w[m].targets THEN Unref([w EXCEPT ![m].targets = @ \ {c}], c) ELSE w
ClearLists(w, m) ==
    UnrefAll(UnrefAll([w EXCEPT ![m].targets = {}, ![m].friends = {}], w[m].targets),
             w[m].friends)

Summons(w, c)  == {s \in Creature : w[s].master = c}
IsSummon(w, c) == w[c].master # None
OfPlayer(w, c) == w[c].master \in Player

Distance(a, b) == IF a < b THEN b - a ELSE a - b
SeesPlace(w, c, place) == Distance(w[c].pos, place) <= Sight
Sees(w, c, other) == SeesPlace(w, c, w[other].pos)
Spectators(w, place) == {c \in Creature : w[c].on = "in" /\ Distance(w[c].pos, place) <= Near}

IsFriend(w, m, c) ==
    IF OfPlayer(w, m) THEN w[m].master \in {c, w[c].master}
    ELSE c \in Monster /\ ~IsSummon(w, c)

IsOpponent(w, m, c) ==
    IF OfPlayer(w, m) THEN c # w[m].master
    ELSE c \in Player \/ OfPlayer(w, c)

-----------------------------------------------------------------------------
(* Being checked and being idle                                            *)

AddCreatureCheck(w, c) ==
    IF w[c].listed THEN [w EXCEPT ![c].check = TRUE]
    ELSE Ref([w EXCEPT ![c].check = TRUE, ![c].listed = TRUE], c)

RemoveCreatureCheck(w, c) ==
    IF w[c].listed THEN [w EXCEPT ![c].check = FALSE] ELSE w

SetIdle(w, m, idle) ==
    CASE w[m].on = "removed" \/ w[m].dead -> w
      [] w[m].on # "removed" /\ ~w[m].dead /\ idle  -> RemoveCreatureCheck(ClearLists(w, m), m)
      [] OTHER -> AddCreatureCheck(w, m)

UpdateIdleStatus(w, m) == SetIdle(w, m, ~IsSummon(w, m) /\ w[m].targets = {})

-----------------------------------------------------------------------------
(* Attacking and following                                                 *)

\* Creature::setAttackedCreature: a creature that sees its new target, or is to
\* have none, takes it and tells its summons, which do the same; one that does
\* not see it attacks nobody from now on, and tells nobody.
Takes(w, c, t) == t = None \/ Sees(w, c, t)
Heirs(w, c, t) == IF Takes(w, c, t) THEN Summons(w, c) ELSE {}
Told(w, c, t)  == {c} \cup Heirs(w, c, t) \cup UNION {Heirs(w, s, t) : s \in Heirs(w, c, t)}

Redirect(w, c, t) ==
    [s \in Creature |->
        IF s \in Told(w, c, t)
        THEN [w[s] EXCEPT !.attacked = IF Takes(w, s, t) THEN t ELSE None]
        ELSE w[s]]

\* Creature::setFollowCreature
CanFollow(w, c, t) == t = w[c].follow \/ Takes(w, c, t)
FollowOrStand(w, c, t) == [w EXCEPT ![c].follow = IF CanFollow(w, c, t) THEN t ELSE None]

\* The same of a player, who attacks nobody any more when there is no way.
SetFollow(w, c, t) ==
    IF c \in Player /\ ~CanFollow(w, c, t) THEN Redirect(FollowOrStand(w, c, t), c, None)
    ELSE FollowOrStand(w, c, t)

\* Creature::setAttackedCreature and, of a player, who it follows then
FollowToo(w, c, t, chase) ==
    CASE c \in Monster \/ (t # None /\ ~Sees(w, c, t)) -> w
      [] c \in Player /\ chase /\ t # None /\ Sees(w, c, t) -> SetFollow(w, c, t)
      [] OTHER -> [w EXCEPT ![c].follow = None]

SetAttacked(w, c, t, chase) == FollowToo(Redirect(w, c, t), c, t, chase)
StopAttack(w, c) == SetAttacked(w, c, None, FALSE)

Attackable(w, m, t) == w[t].on = "in" /\ t \in w[m].targets

SelectTarget(w, m, t) ==
    IF Attackable(w, m, t) THEN SetFollow(SetAttacked(w, m, t, FALSE), m, t) ELSE w

\* onCreatureDisappear
Unfollow(w, c, t) == IF w[c].follow = t THEN SetFollow(w, c, None) ELSE w
Forget(w, c, t)   == Unfollow(IF w[c].attacked = t THEN StopAttack(w, c) ELSE w, c, t)

-----------------------------------------------------------------------------
(* What a monster takes up and drops                                       *)

WithFriend(w, m, c)   == IF IsFriend(w, m, c) THEN AddFriend(w, m, c) ELSE w
WithOpponent(w, m, c) == IF IsOpponent(w, m, c) THEN AddTarget(w, m, c) ELSE w

OnCreatureFound(w, m, c) ==
    IF Sees(w, m, c)
    THEN UpdateIdleStatus(WithOpponent(WithFriend(w, m, c), m, c), m) ELSE w

OpponentLeaves(w, m, c) ==
    IF IsOpponent(w, m, c) THEN UpdateIdleStatus(RemoveTarget(w, m, c), m) ELSE w
OnCreatureLeave(w, m, c) ==
    OpponentLeaves(IF IsFriend(w, m, c) THEN RemoveFriend(w, m, c) ELSE w, m, c)

FindAround(w, m) ==
    FoldSet(LAMBDA c, u : OnCreatureFound(u, m, c), w, Spectators(w, w[m].pos) \ {m})

UpdateTargetList(w, m) ==
    LET lost(set) == {c \in set : w[c].dead \/ ~Sees(w, m, c)}
        kept == [w EXCEPT ![m].targets = @ \ lost(@), ![m].friends = @ \ lost(@)]
    IN  FindAround(UnrefAll(UnrefAll(kept, lost(w[m].friends)), lost(w[m].targets)), m)

-----------------------------------------------------------------------------
(* Masters and removal                                                     *)

SetMaster(w, c, new) ==
    LET counted == w[c].refs + (IF new # None THEN 1 ELSE 0)
                             - (IF w[c].master # None THEN 1 ELSE 0)
    IN  [w EXCEPT ![c].master = new, ![c].refs = counted,
                  ![c].served = @ \cup ({new} \cap Player)]

Bereft(w, s, c) ==
    CASE s \in Player -> w
      [] s \in Monster /\ s = c -> SetIdle(w, s, TRUE)
      [] OTHER -> OnCreatureLeave(w, s, c)
OnRemoveCreature(w, s, c) == Bereft(Forget(w, s, c), s, c)

\* The spectators know: c leaves its master, unless that is removed already.
LeaveMaster(w, c, master) ==
    IF master # None /\ w[master].on # "removed" THEN SetMaster(w, c, None) ELSE w
SetRemoved(w, c) ==
    RemoveCreatureCheck(
        [LeaveMaster(w, c, w[c].master) EXCEPT ![c].on = "removed", ![c].release = @ + 1], c)

\* removeCreature without the summons
RemoveAlone(w, c) ==
    IF w[c].on = "removed" THEN w
    ELSE SetRemoved(
            FoldSet(LAMBDA s, v : OnRemoveCreature(v, s, c), w, Spectators(w, w[c].pos)), c)

\* With them: they keep their master, who is removed already.
RemoveSummons(w, c)     == FoldSet(LAMBDA s, v : RemoveAlone(v, s), w, Summons(w, c))
RemoveWithSummons(w, c) == RemoveSummons(RemoveAlone(w, c), c)
RemoveAllSummons(w, c)  == FoldSet(LAMBDA s, v : RemoveWithSummons(v, s), w, Summons(w, c))
RemoveCreature(w, c) ==
    IF w[c].on = "removed" THEN w ELSE RemoveAllSummons(RemoveAlone(w, c), c)

-----------------------------------------------------------------------------
(* Notifications of a creature that appears or moves                       *)

OnCreatureAppear(w, s, c) ==
    CASE s \in Player -> w
      [] s \in Monster /\ s = c -> UpdateIdleStatus(UpdateTargetList(w, s), s)
      [] OTHER -> OnCreatureFound(w, s, c)

TellSpectators(w, c) ==
    FoldSet(LAMBDA s, v : OnCreatureAppear(v, s, c), w, Spectators(w, w[c].pos))
PlaceCreature(w, c, place) ==
    AddCreatureCheck(
        TellSpectators(Ref([w EXCEPT ![c] = [Unborn EXCEPT !.on = "in", !.pos = place]], c), c),
        c)

\* Summons that stay too far behind are given up.
GiveUpSummons(w, c) ==
    FoldSet(LAMBDA s, v : RemoveCreature(v, s), w,
            {s \in Summons(w, c) : Distance(w[s].pos, w[c].pos) > Far})

ForgetUnseen(w, s, t) == IF t # None /\ ~Sees(w, s, t) THEN Forget(w, s, t) ELSE w
LoseAttacked(w, s, c) == IF c \in {s, w[s].attacked} THEN ForgetUnseen(w, s, w[s].attacked) ELSE w
LoseFollowed(w, s, c) == IF c \in {s, w[s].follow} THEN ForgetUnseen(w, s, w[s].follow) ELSE w

\* Creature::onCreatureMove: c moved, s looks after who it follows and attacks
LoseSight(w, s, c) == LoseAttacked(LoseFollowed(w, s, c), s, c)

\* A wild monster with nothing to follow takes up an opponent that moves.
TakeUp(w, m, c) == IF IsOpponent(w, m, c) THEN SelectTarget(w, m, c) ELSE w

\* One that follows somebody out of its reach turns to an opponent who stands on
\* its next step there.
InTheWay(w, m) ==
    LET p    == w[m].pos
        to   == w[w[m].follow].pos
        next == IF p < to THEN p + 1 ELSE p - 1
    IN  {c \in Creature \ {w[m].follow} :
            w[c].on = "in" /\ w[c].pos = next /\ Distance(p, to) > 1 /\ IsOpponent(w, m, c)}

TurnTo(w, m, c) ==
    CASE IsSummon(w, m) -> w
      [] ~IsSummon(w, m) /\ w[m].follow = None -> TakeUp(w, m, c)
      [] ~IsSummon(w, m) /\ w[m].follow # None /\ m \in Fickle /\ InTheWay(w, m) # {} ->
            SelectTarget(w, m, CHOOSE t \in InTheWay(w, m) : TRUE)
      [] OTHER -> w

SeeMove(w, m, c, old) ==
    CASE Sees(w, m, c) /\ ~SeesPlace(w, m, old) -> OnCreatureFound(w, m, c)
      [] ~Sees(w, m, c) /\ SeesPlace(w, m, old) -> OnCreatureLeave(w, m, c)
      [] OTHER -> w

OnMonsterMove(w, s, c, old) ==
    CASE s \in Player -> w
      [] s \in Monster /\ s = c -> UpdateIdleStatus(UpdateTargetList(w, s), s)
      [] OTHER -> TurnTo(UpdateIdleStatus(SeeMove(w, s, c, old), s), s, c)

OnCreatureMove(w, s, c, old) ==
    OnMonsterMove(LoseSight(IF s = c THEN GiveUpSummons(w, c) ELSE w, s, c), s, c, old)

TellMove(w, c, old) ==
    FoldSet(LAMBDA s, v : OnCreatureMove(v, s, c, old), w,
            Spectators(w, old) \cup Spectators(w, w[c].pos))
MoveCreature(w, c, place) == TellMove([w EXCEPT ![c].pos = place], c, w[c].pos)

-----------------------------------------------------------------------------
\* At startup monsters are placed without any notification, unchecked.
CreaturesInit ==
    /\ world = [c \in Creature |->
                  IF c \in DOMAIN Startup
                  THEN [Unborn EXCEPT !.on = "in", !.pos = Startup[c], !.refs = 1]
                  ELSE Unborn]
    /\ dying = {}
    /\ acts = 0

\* Everything runs on the dispatcher thread; an object without references is
\* deleted at once.
Settled == \A c \in Creature : world[c].on \in {"in", "removed"} => world[c].refs > 0

Become(w) == Settled /\ world' = w /\ UNCHANGED <<dying, acts>>
Act(w)    == /\ Settled /\ acts < Acts
             /\ world' = w /\ acts' = acts + 1 /\ UNCHANGED dying
In(c) == world[c].on = "in"

\* ~Creature and ~Monster
Delete(c) ==
    /\ world[c].on \in {"in", "removed"} /\ world[c].refs = 0
    /\ \E w \in {ClearLists(world, c)} :
          world' = [FoldSet(LAMBDA s, v : [Unref(v, s) EXCEPT ![s].attacked = None,
                                                              ![s].master = None],
                            w, Summons(w, c))
                    EXCEPT ![c] = [Unborn EXCEPT !.on = "gone"]]
    /\ UNCHANGED <<dying, acts>>

\* A player logs in, a monster is spawned.
Appear(c, place) ==
    /\ world[c].on = "out"
    /\ Act(PlaceCreature(world, c, place))

\* A monster, or the spell of a player, summons another: it appears wild and is
\* made a summon then.
Summon(c, m) ==
    /\ In(c) /\ ~world[c].dead /\ world[m].on = "out"
    /\ c \in Monster => ~IsSummon(world, c)
    /\ \E w \in {PlaceCreature(world, m, world[c].pos)} :
          Act(SetMaster(IF c \in Player THEN SetFollow(StopAttack(w, m), m, None) ELSE w,
                        m, c))

\* addSummon (data/lib/core/creature.lua), called by spells.  Nothing calls
\* removeSummon.
Convince(p, m) ==
    /\ In(p) /\ In(m) /\ world[m].master # p
    /\ Act(SetMaster(SetFollow(StopAttack(world, m), m, None), m, p))

Move(c, place) ==
    /\ In(c) /\ place # world[c].pos
    /\ Act(MoveCreature(world, c, place))

\* A logout, a kick, a script or a monster too far from its spawn
Remove(c) ==
    /\ In(c)
    /\ Act(RemoveCreature(world, c))

\* playerSetAttackedCreature
Attack(p, c) ==
    /\ In(p)
    /\ c \in {None} \cup {t \in Creature \ {p} : In(t)}
    /\ Act(SetAttacked(world, p, c, Chase))

\* playerFollowCreature
Follow(p, c) ==
    /\ In(p)
    /\ c \in {None} \cup {t \in Creature \ {p} : In(t)}
    /\ Act(SetFollow(StopAttack(world, p), p, c))

\* changeHealth that leaves nothing: the death is a task for the dispatcher.
Hurt(w, c) ==
    LET v == IF c \in Monster THEN SetIdle(w, c, FALSE) ELSE w
    IN  [v EXCEPT ![c].dead = TRUE]

Kill(c) ==
    /\ Settled /\ In(c) /\ ~world[c].dead
    /\ acts < Acts /\ acts' = acts + 1
    /\ world' = Hurt(world, c)
    /\ dying' = dying \cup {c}

\* It is healed before that task runs.
Heal(c) ==
    /\ In(c) /\ world[c].dead
    /\ Act([world EXCEPT ![c].dead = FALSE])

\* Monster::death
Orphan(w, m) == FoldSet(LAMBDA s, v : Unref(Hurt([v EXCEPT ![s].master = None], s), s),
                        w, Summons(w, m))
MonsterDeath(w, m) == ClearLists(Orphan(StopAttack(w, m), m), m)

\* executeDeath: whatever health it has by now
ExecuteDeath(c) ==
    /\ Settled /\ c \in dying
    /\ \E w \in {IF c \in Monster THEN MonsterDeath(world, c) ELSE world} :
          world' = IF In(c)
                   THEN RemoveCreature(IF IsSummon(w, c) THEN SetMaster(w, c, None) ELSE w, c)
                   ELSE world
    /\ dying' = (dying \ {c})
                  \cup (IF In(c) /\ c \in Monster THEN Summons(world, c) ELSE {})
    /\ UNCHANGED acts

\* Monster::onThink, after the path to follow was looked for, with t a target
\* that it may search
ThinkOfTarget(w, m, t, lead) ==
    CASE IsSummon(w, m) /\ w[m].attacked = None /\ lead # None -> SelectTarget(w, m, lead)
      [] IsSummon(w, m) /\ w[m].attacked = None /\ lead = None ->
            SetFollow(w, m, w[m].master)
      [] IsSummon(w, m) /\ w[m].attacked # None ->
            SetFollow(w, m, IF w[m].attacked = m THEN None ELSE w[m].attacked)
      [] ~IsSummon(w, m) /\ t # w[m].follow -> SelectTarget(w, m, t)
      [] OTHER -> w
ThinkFurther(w, m, t) ==
    ThinkOfTarget(w, m, t, IF IsSummon(w, m) THEN w[w[m].master].attacked ELSE None)

\* onFollowCreatureComplete: a summon drops the target it finds no path to.
Think(w, m, t, path) ==
    LET f == w[m].follow
        v == IF f # None /\ ~path /\ IsSummon(w, m) THEN RemoveTarget(w, m, f) ELSE w
    IN  ThinkFurther(UpdateIdleStatus(v, m), m, t)

\* checkCreatures, for one creature of a list
CheckCreature(c, t, path) ==
    /\ Settled /\ world[c].listed
    /\ t \in world[c].targets \/ (t = c /\ world[c].targets = {})
    /\ IF world[c].check
       THEN /\ c \in Monster /\ ~world[c].dead
            /\ Act(Think(world, c, t, path))
       ELSE Become([world EXCEPT ![c].listed = FALSE, ![c].release = @ + 1])

Cleanup ==
    /\ \E c \in Creature : world[c].release > 0
    /\ Become([c \in Creature |->
                  [world[c] EXCEPT !.refs = @ - world[c].release, !.release = 0]])

CreaturesNext ==
    \/ \E c \in Creature : Delete(c) \/ Remove(c) \/ Kill(c) \/ Heal(c) \/ ExecuteDeath(c)
    \/ \E c \in Creature, place \in Place : Appear(c, place) \/ Move(c, place)
    \/ \E c \in Creature, m \in Monster : Summon(c, m)
    \/ \E p \in Player, m \in Monster : Convince(p, m)
    \/ \E p \in Player, c \in Creature \cup {None} :
          Follow(p, c) \/ Attack(p, c)
    \/ \E c, t \in Creature, path \in BOOLEAN : CheckCreature(c, t, path)
    \/ Cleanup

CreaturesSpec == CreaturesInit /\ [][CreaturesNext]_creatureVars

-----------------------------------------------------------------------------
(* Properties *)

\* A creature is referenced once by its place in the game, or by its release,
\* by the check lists, by its master and by each list of a monster it is in.
ReferencesExact ==
    \A c \in Creature : world[c].on \in {"in", "removed"} =>
        world[c].refs =
            (IF In(c) THEN 1 ELSE 0) + world[c].release
              + (IF world[c].listed THEN 1 ELSE 0)
              + (IF world[c].master # None THEN 1 ELSE 0)
              + Cardinality({m \in Monster : c \in world[m].targets})
              + Cardinality({m \in Monster : c \in world[m].friends})

\* No creature in the game attacks or follows one that is not, or that it does
\* not see: the pointers are plain, and the object may be gone.
PointersLive ==
    \A c \in Creature, t \in Creature :
        In(c) /\ t \in {world[c].attacked, world[c].follow} => In(t) /\ Sees(world, c, t)

\* A living monster with a target in its list is checked: otherwise it would
\* stand still beside its enemy.
AwakeWithTargets ==
    \A m \in Monster :
        In(m) /\ ~world[m].dead /\ world[m].targets # {} => world[m].check /\ world[m].listed

\* A monster's targets are in the game and in its sight, with two exceptions,
\* since onCreatureLeave asks who is an opponent when a creature leaves and not
\* when it came: masters (a summon appears wild and takes its master for a
\* target), and creatures that have ceased to be a player's summon (onDeath takes
\* the master away before it removes the creature).
Turned(c) == world[c].served # {} /\ ~OfPlayer(world, c)

TargetsInSight ==
    \A m \in Monster : In(m) /\ ~Turned(m) =>
        \A t \in world[m].targets \ world[m].served :
            ~Turned(t) => In(t) /\ Sees(world, m, t)
=============================================================================
