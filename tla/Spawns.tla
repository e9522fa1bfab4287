-------------------------------- MODULE Spawns --------------------------------
(***************************************************************************)
(* One spawn of the map (spawn.cpp): blocks that each keep one monster     *)
(* alive inside the zone of the spawn.  Spawn::checkSpawn runs in the      *)
(* dispatcher, is asked for by the removal of one of the monsters and      *)
(* comes again as long as monsters are missing.  A block that is blocked   *)
(* warns twice, two seconds apart, before it spawns by force: the delayed  *)
(* calls carry a copy of the block and do not look whether it was filled   *)
(* meanwhile.                                                              *)
(*                                                                         *)
(* Time is counted in warnings, two seconds.  The dispatcher keeps up: an  *)
(* event runs before the time at which it is due has passed.               *)
(***************************************************************************)
EXTENDS Integers, FiniteSetsExt

CONSTANTS
  Block,       \* the keys of spawnMap, 1, 2, ...
  BlockInterval,    \* of every block
  Forcing,     \* the blocks that spawn while a player is near, after warnings
  RateSpawn,   \* how many monsters one check spawns
  Monster      \* bound: the monsters of the spawn at one time

\* The files of the map give no block less than ten seconds.
MinInterval == 5

ASSUME SpawnsAssumption ==
  /\ Block \subseteq Nat \ {0} /\ Block # {} /\ IsFiniteSet(Block)
  /\ BlockInterval \in [Block -> Nat] /\ \A b \in Block : BlockInterval[b] >= MinInterval
  /\ RateSpawn \in Nat \ {0} /\ IsFiniteSet(Monster)

NotAtAll == -1
Warnings == 2

\* The interval of a spawn without blocks, a minute.
EmptyInterval == 30

\* Spawn::getInterval, that of the check.
CheckInterval == Min({EmptyInterval} \cup {BlockInterval[b] : b \in Block})

VARIABLES
  startedUp,  \* Spawn::startup has run
  key,      \* under which key spawnedMap has a monster, NotAtAll if it has not
  place,    \* of every monster: in the "zone", "away" from it, or "removed"
  checkIn,  \* when checkSpawn comes, NotAtAll if checkSpawnEvent is 0
  age,      \* of every block, since lastSpawn, up to its interval
  delayed,  \* the delayed calls of spawnMonster: [block, tries, in]
  woken     \* history: a monster of the spawn was removed

spawnVars == <<startedUp, key, place, checkIn, age, delayed, woken>>

\* The monsters spawnedMap counts, when it is k, and the blocks without one.
Spawned(k) == {m \in Monster : k[m] # NotAtAll}
Vacant(k) == {b \in Block : \A m \in Monster : k[m] # b}

\* spawnedMap k with a new monster for every block of bs.
Insert(k, bs) ==
  LET free == Monster \ Spawned(k)
      new == CHOOSE f \in [bs -> free] : \A b, c \in bs : f[b] = f[c] => b = c
  IN  [m \in Monster |-> IF \E b \in bs : new[b] = m THEN CHOOSE b \in bs : new[b] = m ELSE k[m]]

Fits(k, bs) == Cardinality(bs) <= Cardinality(Monster \ Spawned(k))

Placed(k) == [m \in Monster |-> IF key[m] = NotAtAll /\ k[m] # NotAtAll THEN "zone"
                                ELSE IF k[m] = NotAtAll THEN "removed" ELSE place[m]]

\* Mutant: the second warning comes six seconds after the first.
WarnLate(b, tries) == [block |-> b, tries |-> tries, in |-> IF tries = 1 THEN 1 ELSE 4]

Warn(b, tries) == [block |-> b, tries |-> tries, in |-> 1]

SpawnsInit ==
  /\ startedUp = FALSE
  /\ key = [m \in Monster |-> NotAtAll] /\ place = [m \in Monster |-> "removed"]
  /\ checkIn = NotAtAll /\ delayed = {} /\ woken = FALSE
  /\ age = BlockInterval

\* What spawnMonster makes of the blocks bs: it fills some and warns at some.
\* Only blocks that do not force give up at once.
Attempts(k, bs) ==
  {o \in [placed : SUBSET bs, warned : SUBSET bs] :
     /\ o.placed \cap o.warned = {} /\ Fits(k, o.placed)
     /\ bs \cap Forcing \subseteq o.placed \cup o.warned}

SpawnStartup ==
  /\ ~startedUp /\ startedUp' = TRUE
  /\ \E o \in Attempts(key, Block) :
       /\ o.placed \cup o.warned = Block
       /\ key' = Insert(key, o.placed)
       /\ place' = Placed(key')
       /\ age' = [b \in Block |-> IF b \in o.placed THEN 0 ELSE age[b]]
       /\ delayed' = {Warn(b, 1) : b \in o.warned}
  /\ UNCHANGED <<checkIn, woken>>

\* Spawn::cleanup.
CleanedUp ==
  [m \in Monster |-> IF place[m] = "removed" THEN NotAtAll
                     ELSE IF place[m] = "away" THEN 0 ELSE key[m]]

\* The blocks are visited in order until RateSpawn monsters were placed.
CheckSpawn ==
  LET due == {b \in Vacant(CleanedUp) : age[b] = BlockInterval[b]}
      reached(placed) == {b \in due : Cardinality({c \in placed : c < b}) < RateSpawn}
  IN
  /\ checkIn = 0
  /\ \E bs \in SUBSET due : \E o \in Attempts(CleanedUp, bs) :
       /\ bs = reached(o.placed)
       /\ key' = Insert(CleanedUp, o.placed)
       /\ place' = [m \in Monster |-> IF key'[m] = NotAtAll THEN "removed"
                                      ELSE IF CleanedUp[m] = NotAtAll THEN "zone" ELSE place[m]]
       /\ age' = [b \in Block |-> IF b \in bs THEN 0 ELSE age[b]]
       /\ delayed' = delayed \cup {Warn(b, 1) : b \in o.warned}
  /\ checkIn' = IF Cardinality(Spawned(key')) < Cardinality(Block) THEN CheckInterval ELSE NotAtAll
  /\ UNCHANGED <<startedUp, woken>>

\* A delayed call of spawnMonster.  The third one forces.
SpawnMonster(d) ==
  /\ d.in = 0
  /\ \/ /\ Fits(key, {d.block})
        /\ key' = Insert(key, {d.block}) /\ place' = Placed(key')
        /\ age' = [age EXCEPT ![d.block] = 0]
        /\ delayed' = delayed \ {d}
     \/ /\ d.tries < Warnings
        /\ delayed' = (delayed \ {d}) \cup {Warn(d.block, d.tries + 1)}
        /\ UNCHANGED <<key, place, age>>
     \/ /\ d.tries = Warnings \/ d.block \notin Forcing
        /\ delayed' = delayed \ {d}
        /\ UNCHANGED <<key, place, age>>
  /\ UNCHANGED <<startedUp, checkIn, woken>>

\* Monster::onRemoveCreature asks for a check.
RemoveMonster(m) ==
  /\ key[m] # NotAtAll /\ place[m] # "removed"
  /\ place' = [place EXCEPT ![m] = "removed"]
  /\ checkIn' = IF checkIn = NotAtAll THEN CheckInterval ELSE checkIn
  /\ woken' = TRUE
  /\ UNCHANGED <<startedUp, key, age, delayed>>

\* A monster leaves the zone, or comes back.
Wander(m) ==
  /\ key[m] # NotAtAll /\ place[m] # "removed"
  /\ place' = [place EXCEPT ![m] = IF @ = "zone" THEN "away" ELSE "zone"]
  /\ UNCHANGED <<startedUp, key, checkIn, age, delayed, woken>>

SpawnTick ==
  /\ startedUp /\ checkIn # 0 /\ \A d \in delayed : d.in # 0
  /\ checkIn' = IF checkIn = NotAtAll THEN NotAtAll ELSE checkIn - 1
  /\ age' = [b \in Block |-> Min({age[b] + 1, BlockInterval[b]})]
  /\ delayed' = {[d EXCEPT !.in = @ - 1] : d \in delayed}
  /\ UNCHANGED <<startedUp, key, place, woken>>

SpawnsNext ==
  \/ SpawnStartup \/ CheckSpawn \/ SpawnTick
  \/ \E d \in delayed : SpawnMonster(d)
  \/ \E m \in Monster : RemoveMonster(m) \/ Wander(m)

SpawnsSpec == SpawnsInit /\ [][SpawnsNext]_spawnVars /\ WF_spawnVars(CheckSpawn) /\ WF_spawnVars(SpawnTick)
                /\ WF_spawnVars(\E d \in delayed : SpawnMonster(d))

----------------------------------------------------------------------------
(* Properties *)

SpawnsTypeOK ==
  /\ key \in [Monster -> Block \cup {0, NotAtAll}]
  /\ place \in [Monster -> {"zone", "away", "removed"}]
  /\ checkIn \in -1 .. CheckInterval
  /\ age \in [Block -> Nat]

\* No block has two monsters, although nobody looks whether a block was
\* filled while it was warning: the warnings end before the next check.
OneEach == \A m, n \in Monster : key[m] = key[n] /\ key[m] \in Block => m = n

\* checkSpawn looks at how many monsters spawnedMap has, not at which blocks are
\* vacant.  A removed monster that is still counted has a check coming; and once
\* one was removed, a check comes while there are fewer monsters than blocks.
CheckPending ==
  \/ checkIn # NotAtAll
  \/ /\ \A m \in Spawned(key) : place[m] # "removed"
     /\ woken => Cardinality(Spawned(key)) >= Cardinality(Block)

\* What that count leaves forgotten: a block may stay vacant with no check to come
\* only before the first removal, or when a monster that has left the zone stands
\* for it, one for each such block.
StraysStandIn ==
  checkIn = NotAtAll /\ woken =>
    Cardinality(Vacant(key)) <= Cardinality({m \in Monster : key[m] = 0})

\* A block of a spawn has one monster at most, the removal of a monster is never
\* overlooked, and no more blocks are left without a check than monsters strayed.
\* Before the first removal nothing is claimed of vacant blocks: the startup of
\* the spawn asks for no check.
SpawnsSound == SpawnsTypeOK /\ OneEach /\ CheckPending /\ StraysStandIn
=============================================================================
