------------------------------- MODULE MCTrade -------------------------------
(***************************************************************************)
(* Small instances of Trade and Equipment in one state space.  They share  *)
(* no state, so which says whose behaviour this is, and the other stays as *)
(* it begins.                                                              *)
(***************************************************************************)
EXTENDS Trade, TLC

CONSTANTS
  ann, ben, cid, helmet, bag, pouch, gold1, gold2, head, back, left,                 \* Trade
  neck, right, ringOff, ringOn, bareRing, charmOff, charmOn, charm, helmOn, helm,    \* Equipment
  sword, blade, mace, spears, MaxLevel, MaxSpeed, Gone

VARIABLES which, wearer, odd

\* A helmet for the head, a bag for the back, a pouch for the hand that fits
\* into the bag and holds it too, and two stacks of gold, which no slot takes.
TwoPlayers == {ann, ben}
ThreePlayers == {ann, ben, cid}
Items == {helmet, bag, pouch, gold1, gold2}
Containers == {bag, pouch}
Gold == {gold1, gold2}
Slots == {head, back, left}
MCFits == [s \in Slot |-> CASE s = head -> {helmet} [] s = back -> {bag} [] OTHER -> {pouch}]
MCSlotType == [i \in Item |-> IF i = helmet THEN head ELSE left]
PlayerSymmetry == Permutations(Player)

----------------------------------------------------------------------------
\* A ring that becomes one without events, a charm and a helmet that are
\* transformed back and run out into something else, a sword with charges that
\* becomes a blade, a mace for the second level, and a stack of spears.
Jewels == {ringOff, ringOn, bareRing, charmOff, charmOn, charm, helmOn, helm}
Kinds == Jewels \cup {sword, blade, mace, spears}
Places == [k \in Kinds |->
  CASE k \in Jewels -> {neck} [] k \in {sword, blade} -> {left, right} [] OTHER -> {left}]

Events == [Places EXCEPT ![bareRing] = {}]
Onto == [k \in Kinds |-> CASE k = ringOff -> ringOn [] k = charmOff -> charmOn [] OTHER -> None]
Off == [k \in Kinds |->
  CASE k = ringOn -> ringOff [] k = charmOn -> charmOff [] k = helmOn -> helm [] OTHER -> None]
Turns == [k \in Kinds |->
  CASE k = ringOn -> bareRing [] k = charmOn -> charm [] k = helmOn -> helm
    [] k = sword -> blade [] k = helm -> Gone [] OTHER -> None]
Levels == [k \in Kinds |-> IF k = mace THEN 2 ELSE 0]
Speeds == [k \in Kinds |-> CASE k \in {charmOn, blade} -> 1 [] k = helmOn -> 2 [] OTHER -> 0]
Effects == [k \in Kinds |-> IF k \in {ringOn, sword} THEN {"regeneration"} ELSE {}]
Immunities == [k \in Kinds |-> IF k \in {helmOn, mace} THEN {"drunk"} ELSE {}]
TimedKinds == {ringOn, charmOn, helmOn, helm}
WornSlots == {neck, left, right}

E == INSTANCE Equipment WITH
  p <- wearer, Slot <- WornSlots, Kind <- Kinds, fits <- Places, events <- Events, onto <- Onto,
  off <- Off, turns <- Turns, Timed <- TimedKinds, Charged <- {sword}, Heap <- {spears},
  level <- Levels, speed <- Speeds, effects <- Effects, immune <- Immunities, Part <- {mace}

----------------------------------------------------------------------------
GoodsInit == which \in {"trade", "equipment"} /\ Init /\ E!EquipmentInit

GoodsNext ==
  \/ which = "trade" /\ Next /\ UNCHANGED <<which, wearer, odd>>
  \/ which = "equipment" /\ E!EquipmentNext /\ UNCHANGED <<which, vars>>

GoodsSpec == GoodsInit /\ [][GoodsNext]_<<which, vars, wearer, odd>>

\* What is checked, next to TradesSound and FailedTradeMovesNothing: a player
\* has the bonuses of what it wears, and no others.
EquipmentSound == E!EquipmentSound
===============================================================================
