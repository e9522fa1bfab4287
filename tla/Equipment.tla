------------------------------ MODULE Equipment ------------------------------
(***************************************************************************)
(* What a player wears and what it gives (movement.cpp: EquipItem and       *)
(* DeEquipItem; player.cpp: the notifications about slots).                 *)
(*                                                                         *)
(* Every change of a slot notifies the events of the kind that is in it: a  *)
(* flag of the slot (inventoryAbilities) says that the bonuses have been    *)
(* given.  Some kinds become another one when they are put on, and are      *)
(* transformed back when they are taken off; and transformItem itself takes *)
(* a thing off and puts it on again.                                        *)
(***************************************************************************)
EXTENDS Integers, FiniteSets, FiniteSetsExt

CONSTANTS
  Slot,
  Kind,      \* item types
  fits,      \* [Kind -> SUBSET Slot]
  events,    \* [Kind -> SUBSET Slot]: the slots it has an equip and a deequip event for
  onto,      \* [Kind -> Kind \cup {None}]: transformEquipTo
  off,       \* [Kind -> Kind \cup {None}]: transformDeEquipTo
  turns,     \* [Kind -> Kind \cup {None, Gone}]: decayTo
  Timed,     \* kinds with a duration
  Charged,   \* kinds with charges
  Heap,      \* stackable kinds
  level,     \* [Kind -> Nat]: the level it requires
  speed,     \* [Kind -> Nat]
  effects,   \* [Kind -> SUBSET Effect]: invisible, manaShield, regeneration
  immune,    \* [Kind -> SUBSET Effect]: conditionSuppressions
  Part,      \* kinds whose stat modifier is a part of what the player has by itself
  MaxLevel,  \* bound
  MaxSpeed,  \* bound: how far bonuses that were not taken back may add up
  None, Gone

VARIABLES
  p,     \* the player
  odd    \* history: what happened to it

equipmentVars == <<p, odd>>

\* p:
\*   inventory, charges (of the thing in a slot)
\*   on           inventoryAbilities
\*   speed        the bonus so far
\*   conditions   <<effect, slot>>
\*   immune       conditionSuppressions
\*   stat         varStats, and `level`, which stands for what the stat is by itself, too
\* odd:
\*   stuck        slots whose thing became one without events while the flag was set
\*   uneven       bonuses were given and taken unequally often, when a thing that is transformed
\*                back ran out while worn, or one was taken out of a stuck slot
\*   shared       two things gave the same immunity, and one was taken off
\*   drifted      the level changed while a part of it was given

Worn(w) == {s \in Slot : w.inventory[s] # None}

-----------------------------------------------------------------------------
(* The events *)

Gives(w, k, s) ==
  [w EXCEPT !.speed = @ + speed[k],
            !.conditions = @ \cup (effects[k] \X {s}),
            !.immune = @ \cup immune[k],
            !.stat = @ + IF k \in Part THEN w.level ELSE 0]

Takes(w, k, s) ==
  [w EXCEPT !.speed = @ - speed[k],
            !.conditions = @ \ (effects[k] \X {s}),
            !.immune = @ \ immune[k],
            !.stat = @ - IF k \in Part THEN w.level ELSE 0]

Put(w, s, k) == [w EXCEPT !.inventory[s] = k]

RECURSIVE Equip(_, _, _), DeEquip(_, _, _, _), Transform(_, _, _)

\* Mutant: the flag is set for the kind that is put on, too.
EquipTwice(w, k, s) ==
  IF s \notin events[k] \/ w.level < level[k] \/ w.on[s] THEN w
  ELSE LET v == [w EXCEPT !.on[s] = TRUE]
       IN  Gives(IF onto[k] # None THEN Put(v, s, onto[k]) ELSE v, k, s)

\* MoveEvent::EquipItem of a thing of kind k in slot s
Equip(w, k, s) ==
  IF s \notin events[k] \/ w.level < level[k] \/ w.on[s] THEN w
  ELSE Gives(IF onto[k] # None THEN Transform(w, s, onto[k]) ELSE [w EXCEPT !.on[s] = TRUE], k, s)

\* MoveEvent::DeEquipItem of a thing of kind k that was in slot s and is now at
\* the slot `at`, or is not worn
DeEquip(w, k, s, at) ==
  IF s \notin events[k] \/ ~w.on[s] THEN w
  ELSE LET v == [w EXCEPT !.on[s] = FALSE]
       IN  Takes(IF off[k] # None /\ at # None THEN Transform(v, at, off[k]) ELSE v, k, s)

\* updateThing between the notifications: what they made of the thing is
\* forgotten, what they did to the player is not.
Renewed(w, s, k) ==
  LET v == Put(DeEquip(w, w.inventory[s], s, s), s, k) IN Equip(v, k, s)

\* Game::transformItem to another kind of the same class
Transform(w, s, k) == IF w.inventory[s] = k THEN w ELSE Renewed(w, s, k)

\* removeThing, then the notification
Removed(w, s) == DeEquip([Put(w, s, None) EXCEPT !.charges[s] = 0], w.inventory[s], s, None)

\* replaceThing: the new one is announced before the old one is.
Replaced(w, s, k) ==
  DeEquip(Equip([Put(w, s, k) EXCEPT !.charges[s] = 0], k, s), w.inventory[s], s, None)

-----------------------------------------------------------------------------
(* Steps *)

Bounded(w) == w.speed \in -MaxSpeed..MaxSpeed /\ w.stat \in -MaxSpeed..MaxSpeed

HasBonus(k) == k # None /\ (speed[k] > 0 \/ effects[k] # {} \/ immune[k] # {} \/ k \in Part)
Immunity(w, i) == {s \in Worn(w) : w.on[s] /\ i \in immune[w.inventory[s]]}
Becomes(v, unevenly) ==
  /\ Bounded(v)
  /\ p' = v
  /\ odd' = [odd EXCEPT
       !.stuck = {s \in Slot : v.on[s] /\ (s \in @ \/ (s \in Worn(v) /\ s \notin events[v.inventory[s]]))},
       !.uneven = @ \/ unevenly \/ \E s \in odd.stuck : HasBonus(p.inventory[s]) /\ v.inventory[s] # p.inventory[s],
       !.shared = @ \/ \E i \in UNION {immune[k] : k \in Kind} :
                         /\ Cardinality(Immunity(p, i)) > 1
                         /\ \E s \in Immunity(p, i) : v.inventory[s] # p.inventory[s]]

\* Player::queryAdd asks for the level, and no slot takes a second thing; the
\* thing is looked at again when it is in the slot.
PutOn(s, k) ==
  /\ p.inventory[s] = None /\ s \in fits[k]
  /\ s \in events[k] => p.level >= level[k]
  /\ Becomes(Equip([Put(p, s, k) EXCEPT !.charges[s] = IF k \in Charged THEN 2 ELSE 0], k, s), FALSE)

TakeOff(s) == s \in Worn(p) /\ Becomes(Removed(p, s), FALSE)

\* From one slot to another: it is there already when it leaves the first.
MoveOver(s, t) ==
  /\ s \in Worn(p) /\ p.inventory[t] = None
  /\ LET k == p.inventory[s]
         w == [Put(Put(p, s, None), t, k) EXCEPT !.charges[t] = p.charges[s], !.charges[s] = 0]
         v == DeEquip(w, k, s, t)
     IN  /\ t \in fits[k] /\ (t \in events[k] => p.level >= level[k])
         /\ Becomes(Equip(v, v.inventory[t], t), FALSE)

\* Game::internalDecayItem.  A thing that is transformed back when it is taken
\* off is put on again by that, before it becomes what it decays to.
Decay(s) ==
  /\ s \in Worn(p) /\ p.inventory[s] \in Timed
  /\ LET k == p.inventory[s]
     IN  IF turns[k] = Gone THEN Becomes(Removed(p, s), FALSE)
         ELSE Becomes(Transform(p, s, turns[k]),
                      /\ p.on[s] /\ off[k] \notin {None, turns[k]}
                      /\ speed[k] > 0 \/ k \in Part \/ HasBonus(turns[k]))

\* Player::consumeCharge and Weapon::onUsedWeapon.  The last charge takes the
\* thing away, or puts another one in its place.
ConsumeCharge(s) ==
  /\ s \in Worn(p) /\ p.charges[s] > 0
  /\ LET k == p.inventory[s]
     IN  CASE p.charges[s] > 1 -> Becomes(Renewed([p EXCEPT !.charges[s] = @ - 1], s, k), FALSE)
           [] turns[k] = None  -> Becomes(Removed(p, s), FALSE)
           [] OTHER            -> Becomes(Replaced(p, s, turns[k]), FALSE)

\* A part of a stack is taken, or put to it.
TakePart(s) ==
  /\ s \in Worn(p) /\ p.inventory[s] \in Heap
  /\ Becomes(DeEquip(p, p.inventory[s], s, s), FALSE)
PutPart(s) ==
  /\ s \in Worn(p) /\ p.inventory[s] \in Heap
  /\ Becomes(Equip(p, p.inventory[s], s), FALSE)

ChangeLevel ==
  /\ \E n \in 1..MaxLevel : n # p.level /\ p' = [p EXCEPT !.level = n]
  /\ odd' = [odd EXCEPT !.drifted = @ \/ \E s \in Worn(p) : p.on[s] /\ p.inventory[s] \in Part]

\* The player comes back as a new object: Player::onCreatureAppear.
Bare == [p EXCEPT !.on = [s \in Slot |-> FALSE], !.speed = 0, !.conditions = {}, !.immune = {}, !.stat = 0]
NothingOdd == [stuck |-> {}, uneven |-> FALSE, shared |-> FALSE, drifted |-> FALSE]
Relogin ==
  /\ p' = FoldSet(LAMBDA s, w : Equip(w, w.inventory[s], s), Bare, Worn(p))
  /\ odd' = NothingOdd

EquipmentInit ==
  /\ \E n \in 1..MaxLevel :
       p = [inventory |-> [s \in Slot |-> None], charges |-> [s \in Slot |-> 0],
            on |-> [s \in Slot |-> FALSE], speed |-> 0, conditions |-> {}, immune |-> {},
            stat |-> 0, level |-> n]
  /\ odd = NothingOdd

EquipmentNext ==
  \/ \E s \in Slot :
       \/ TakeOff(s) \/ Decay(s) \/ ConsumeCharge(s) \/ TakePart(s) \/ PutPart(s)
       \/ \E k \in Kind : PutOn(s, k)
       \/ \E t \in Slot \ {s} : MoveOver(s, t)
  \/ ChangeLevel \/ Relogin

EquipmentSpec == EquipmentInit /\ [][EquipmentNext]_equipmentVars

-----------------------------------------------------------------------------
(* What is checked *)

Giving == {s \in Worn(p) : p.on[s] /\ s \in events[p.inventory[s]] /\ s \notin odd.stuck}

\* A flag is of a thing that is worn and has events, unless the thing became
\* one without: then the flag stays when it is taken off, and what is put there
\* next gives nothing.
FlagsOfWorn == \A s \in Slot : p.on[s] => s \in Giving \/ s \in odd.stuck

\* The bonuses of a player are those of what it wears, whatever became of the
\* things while they were worn.
BonusesExact ==
  ~odd.uneven =>
    /\ p.speed = MapThenSumSet(LAMBDA s : speed[p.inventory[s]], Giving)
    /\ p.conditions = UNION {effects[p.inventory[s]] \X {s} : s \in Giving}
    /\ ~odd.shared => p.immune = UNION {immune[p.inventory[s]] : s \in Giving}
    /\ ~odd.drifted => p.stat = p.level * Cardinality({s \in Giving : p.inventory[s] \in Part})

\* What is worn has become what it is while worn.
WornAsWorn ==
  \A s \in Giving : onto[p.inventory[s]] = None

EquipmentSound == FlagsOfWorn /\ BonusesExact /\ WornAsWorn
===============================================================================
