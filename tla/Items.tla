-------------------------------- MODULE Items --------------------------------
(***************************************************************************)
(* Moving, adding and removing items, and money (game.cpp, container.cpp,    *)
(* the item parts of player.cpp and tile.cpp).  A player has two slots: the  *)
(* back, which takes a bag, and the ammunition slot, which takes anything    *)
(* (classicEquipmentSlots); at the feet lies a tile that is never full.      *)
(* Bags hold bags and stacks of coins, up to Capacity.  Every operation asks *)
(* the cylinders first (queryDestination, queryAdd, queryMaxCount) and then  *)
(* changes them thing by thing; nothing is undone.                           *)
(*                                                                          *)
(* A thing is [kind, n]: a bag, of which there is one of each kind, or n     *)
(* pieces.  A list has its newest thing first, as push_front leaves it.  Left *)
(* out: locked, paginated and store containers, two-handed weapons, houses,  *)
(* reach, scripts that veto a move, and the trade itself (module Trade): the *)
(* trade only marks one bag here.                                            *)
(***************************************************************************)
EXTENDS Integers, Sequences, FiniteSets, SequencesExt

CONSTANTS
    Bag,        \* containers
    Stackable,  \* kinds of coins, and of other things that stack
    worth,      \* ItemType::worth of each: 0 if it is no money
    currency,   \* Item::items.currencyItems: the kinds, most valuable first
    Stack,      \* pieces in a full stack: 100 in the code
    Capacity,   \* things in a full bag
    Load,       \* what the player can carry
    Begin,      \* the lists at the beginning
    None

ItemsAssumption ==
    /\ {Stack, Capacity, Load} \subseteq Nat \ {0}
    /\ worth \in [Stackable -> Nat]

VARIABLES
    inside,     \* the things in every cylinder
    weight,     \* Container::totalWeight
    traded,     \* Player::tradeItem, None without a trade
    bank,       \* money given away by removeMoney, to come back by addMoney
    lost        \* history: money that an operation dropped

itemVars == <<inside, weight, traded, bank, lost>>

Slot == {"back", "ammo"}
Cylinder == Bag \cup Slot \cup {"tile"}
Thing == [kind : Bag, n : {1}] \cup [kind : Stackable, n : 1..Stack]

\* What the queries and steps of an operation see and change.
Now == [inside |-> inside, weight |-> weight, traded |-> traded, lost |-> 0]

Becomes(s) ==
    /\ inside' = s.inside /\ weight' = s.weight /\ traded' = s.traded
    /\ lost' = lost + s.lost

-----------------------------------------------------------------------------
(* Where things are *)

IsBag(t) == t.kind \in Bag

\* Item::getParent of a bag; every bag is in one list.
Holder(s, b) ==
    CHOOSE c \in Cylinder : \E i \in DOMAIN s.inside[c] : s.inside[c][i].kind = b

\* c and the cylinders around it.
Up(s, c) ==
    LET up[i \in 0..Cardinality(Bag)] ==
            IF i = 0 THEN {c}
                     ELSE up[i - 1] \cup {Holder(s, b) : b \in up[i - 1] \cap Bag}
    IN  up[Cardinality(Bag)]

\* getTopParent() = the player
Carried(s, c) == c # None /\ Up(s, c) \cap Slot # {}

Weight(s, t) == IF IsBag(t) THEN 1 + s.weight[t.kind] ELSE t.n

SumWeight(s, list) == FoldSeq(LAMBDA t, sum : sum + Weight(s, t), 0, list)

\* Player::inventoryWeight
InventoryWeight(s) == SumWeight(s, s.inside["back"]) + SumWeight(s, s.inside["ammo"])

-----------------------------------------------------------------------------
(* Steps *)

\* The container c and all that hold it.
UpdateItemWeight(s, c, diff) ==
    [s EXCEPT !.weight = [b \in Bag |-> IF b \in Up(s, c) THEN @[b] + diff ELSE @[b]]]

\* Player::checkTradeState for a thing of that kind in c
CheckTradeState(s, c, kind) ==
    IF s.traded # None /\ (kind = s.traded \/ s.traded \in Up(s, c))
    THEN [s EXCEPT !.traded = None] ELSE s

\* onRemoveContainerItem, onRemoveInventoryItem, onRemoveTileItem
CheckRemoved(s, c, kind) ==
    IF /\ s.traded # None
       /\ \/ c \in Bag /\ c # Holder(s, s.traded) /\ c \in Up(s, s.traded)
          \/ c \notin Bag /\ kind \in Bag /\ kind \in Up(s, s.traded)
    THEN [s EXCEPT !.traded = None] ELSE CheckTradeState(s, c, kind)

\* A thing comes in front; a slot has room for one.
AddThing(s, c, t) ==
    LET put == [s EXCEPT !.inside[c] = IF c \in Slot THEN <<t>> ELSE <<t>> \o @]
        wgt == UpdateItemWeight(put, c, Weight(s, t))
    IN  IF c \in Bag THEN CheckTradeState(wgt, c, t.kind) ELSE wgt

\* The stack at i gets n coins.
UpdateThing(s, c, i, n) ==
    LET set == [s EXCEPT !.inside[c][i].n = @ + n]
        wgt == UpdateItemWeight(set, c, n)
    IN  IF c = "tile" THEN wgt ELSE CheckTradeState(wgt, c, s.inside[c][i].kind)

\* Takes n off the thing at i, all of it unless it is a larger stack.
RemoveThing(s, c, i, n) ==
    LET t == s.inside[c][i]
    IN  IF ~IsBag(t) /\ n # t.n
        THEN UpdateThing(s, c, i, -n)
        ELSE LET told == CheckRemoved(UpdateItemWeight(s, c, -Weight(s, t)), c, t.kind)
             IN  [told EXCEPT !.inside[c] = RemoveAt(@, i)]

-----------------------------------------------------------------------------
(* Queries.  A thing t asks, from its place "from", or from New.  An index   *)
(* is a place in a bag counted from 1, a slot, or one of:                    *)

Wherever == 0
MoveUp == -1

New == [c |-> None, i |-> 0]

HasCapacity(s, t, from) ==
    Carried(s, from.c) \/ Weight(s, t) <= Load - InventoryWeight(s)

\* An equal stack that has room.
Mergeable(t, u) == t.kind = u.kind /\ ~IsBag(t) /\ u.n < Stack

\* t holds c, or is it.
Encloses(s, t, c) == t.kind \in Up(s, c)

\* May t be added, at that index?  "swap" is RETURNVALUE_NEEDEXCHANGE.
QueryAdd(s, c, index, t, from) ==
    CASE c = "tile" -> "ok"
      [] c \in Bag ->
            IF Encloses(s, t, c) THEN "no"
            ELSE IF index = Wherever /\ Len(s.inside[c]) >= Capacity THEN "no"
            ELSE IF Carried(s, c) /\ ~HasCapacity(s, t, from) THEN "no" ELSE "ok"
      [] c \in Slot ->
            IF (c = "back" /\ ~IsBag(t)) \/ ~HasCapacity(s, t, from) THEN "no"
            ELSE IF s.inside[c] = <<>> THEN "ok"
            ELSE IF ~IsBag(s.inside[c][1]) /\ s.inside[c][1].kind = t.kind THEN "ok"
            ELSE IF Carried(s, from.c) THEN "swap" ELSE "no"
      [] OTHER -> "no"      \* the player, when no place was found

Room(list, t) ==
    FoldSeq(LAMBDA u, sum : sum + (IF Mergeable(t, u) THEN Stack - u.n ELSE 0), 0, list)

Free(s, c) == IF Len(s.inside[c]) > Capacity THEN 0 ELSE Capacity - Len(s.inside[c])

\* Container::queryMaxCount; any place will do for the question of the limits.
MaxInBag(s, c, index, t, from) ==
    LET list == IF index = Wherever THEN s.inside[c]
                ELSE IF index \in DOMAIN s.inside[c] THEN <<s.inside[c][index]>>
                ELSE <<>>
        room == IF QueryAdd(s, c, 1, t, from) = "ok" THEN Room(list, t) ELSE 0
    IN  IF IsBag(t) THEN Free(s, c) ELSE Free(s, c) * Stack + room

\* Player::queryMaxCount for one slot
MaxInSlot(s, c, t, from) ==
    IF s.inside[c] # <<>> THEN Room(s.inside[c], t)
    ELSE IF QueryAdd(s, c, c, t, from) # "ok" THEN 0
    ELSE IF IsBag(t) THEN 1 ELSE Stack

QueryMaxCount(s, c, index, t, from) ==
    CASE c = "tile" -> t.n
      [] c \in Bag -> MaxInBag(s, c, index, t, from)
      [] c \in Slot -> MaxInSlot(s, c, t, from)

\* The bags in the slots without "top", and what they hold without "nested",
\* breadth first.
Containers(s, top, nested) ==
    LET bags(list, skip) ==
            LET found == SelectSeq(list, LAMBDA u : u.kind \in Bag \ skip)
            IN  [i \in DOMAIN found |-> found[i].kind]
        level[i \in 0..Cardinality(Bag)] ==
            IF i = 0 THEN bags(s.inside["back"] \o s.inside["ammo"], top)
            ELSE FlattenSeq([j \in DOMAIN level[i - 1] |->
                                bags(s.inside[level[i - 1][j]], nested)])
    IN  FlattenSeq([i \in 1..Cardinality(Bag) |-> level[i - 1]])

\* Player::queryMaxCount anywhere: the slots and every container.
MaxAnywhere(s, t, from) ==
    LET slot(c) ==
            IF s.inside[c] = <<>> THEN MaxInSlot(s, c, t, from)
            ELSE LET room == Room(s.inside[c], t)
                 IN  IF room > 0 /\ QueryAdd(s, c, c, [t EXCEPT !.n = room], from) = "ok"
                     THEN room ELSE 0
    IN  FoldSeq(LAMBDA b, sum : sum + MaxInBag(s, b, Wherever, t, from),
                slot("back") + slot("ammo"), Containers(s, {}, {}))

-----------------------------------------------------------------------------
(* Destinations: a cylinder, an index, and the place of the thing found      *)
(* there (toItem), 0 if there is none.                                       *)

Place(c, index, at) == [c |-> c, index |-> index, at |-> at]

\* Container::queryDestination when the index does not name a bag
InBag(s, b, index, t, from) ==
    LET list == s.inside[b]
        at == IF index \in DOMAIN list THEN index ELSE 0
        other == SelectInSeq(list, LAMBDA u : Mergeable(t, u))
    IN  IF IsBag(t) \/ from.c = b \/ other = 0 \/ (at # 0 /\ Mergeable(t, list[at]))
        THEN Place(b, index, at)
        ELSE Place(b, other, other)

\* Container::queryDestination and, while it names another one, again.
FromBag(s, b, index, t, from) ==
    LET list == s.inside[b]
    IN  CASE index = MoveUp ->
                IF Holder(s, b) \in Bag
                THEN InBag(s, Holder(s, b), Wherever, t, from)
                ELSE Place(b, Wherever, 0)
          [] index \in DOMAIN list /\ IsBag(list[index]) ->
                InBag(s, list[index].kind, Wherever, t, from)
          [] OTHER -> InBag(s, b, IF index > Capacity THEN Wherever ELSE index, t, from)

FirstOr(list, Of(_), else) == IF list = <<>> THEN else ELSE Of(Head(list))

\* Player::queryDestination, for a thing that may go anywhere.  The traded bag and
\* the thing itself are passed over, and their places are not counted.
FindPlace(s, t, from) ==
    LET free(c) == s.inside[c] = <<>> /\ QueryAdd(s, c, c, t, from) = "ok"
        merges(c) == /\ s.inside[c] # <<>> /\ from.c # c
                     /\ Mergeable(t, s.inside[c][1])
                     /\ QueryAdd(s, c, c, t, from) = "ok"
        slots == SelectSeq(<<"back", "ammo">>, LAMBDA c : free(c) \/ merges(c))
        bags == IF IsBag(t) THEN Containers(s, {s.traded, t.kind}, {})
                            ELSE Containers(s, {s.traded}, {s.traded})
        seen(b) == SelectSeq([i \in DOMAIN s.inside[b] |-> i],
                             LAMBDA i : s.inside[b][i].kind # s.traded /\ <<b, i>> # <<from.c, from.i>>)
        stack(b) == SelectInSeq(seen(b), LAMBDA i : Mergeable(t, s.inside[b][i]))
        last(b) == IF IsBag(t) THEN Len(s.inside[b]) ELSE Len(seen(b))
        fits(b) == \/ stack(b) # 0
                   \/ last(b) < Capacity /\ QueryAdd(s, b, 1, t, from) = "ok"
        In(first) == IF stack(first) # 0 THEN Place(first, stack(first), seen(first)[stack(first)])
                     ELSE Place(first, last(first) + 1, 0)
    IN  IF slots # <<>> THEN Place(Head(slots), Head(slots), Len(s.inside[Head(slots)]))
        ELSE FirstOr(SelectSeq(bags, fits), In, Place("player", Wherever, 0))

\* A place that names a bag is asked for a place in turn.
Further(s, p, t, from) ==
    IF p.c \in Bag THEN FromBag(s, p.c, p.index, t, from) ELSE p

QueryDestination(s, to, index, t, from) ==
    CASE to = "tile" -> Place(to, Wherever, IF s.inside[to] = <<>> THEN 0 ELSE 1)
      [] to \in Slot ->
            IF s.inside[to] # <<>> /\ IsBag(s.inside[to][1])
            THEN InBag(s, s.inside[to][1].kind, Wherever, t, from)
            ELSE Place(to, to, Len(s.inside[to]))
      [] to \in Bag -> FromBag(s, to, index, t, from)
      [] to = "player" -> Further(s, FindPlace(s, t, from), t, from)

-----------------------------------------------------------------------------
(* Operations *)

\* What of a thing that is taken goes to where it was sent: into the stack found
\* there, and the rest on its own.
Arrive(s, d, t) ==
    LET at == IF d.at = 0 \/ IsBag(t) THEN FALSE ELSE s.inside[d.c][d.at].kind = t.kind
        k == IF ~at THEN 0
             ELSE IF t.n < Stack - s.inside[d.c][d.at].n THEN t.n
             ELSE Stack - s.inside[d.c][d.at].n
        merged == IF at THEN UpdateThing(s, d.c, d.at, k) ELSE s
    IN  IF k = t.n THEN merged ELSE AddThing(merged, d.c, [t EXCEPT !.n = @ - k])

\* Moves a thing in "from" that has been accepted, as much as has room.
Transfer(s, from, n, d) ==
    LET t == [s.inside[from.c][from.i] EXCEPT !.n = n]
        max == QueryMaxCount(s, d.c, d.index, t, from)
        m == IF IsBag(t) \/ n < max THEN n ELSE max
        whole == m = s.inside[from.c][from.i].n
        moved == IF whole /\ from.c = d.c /\ from.i < d.at THEN d.at - 1 ELSE d.at
    IN  IF max = 0 THEN s
        ELSE Arrive(RemoveThing(s, from.c, from.i, m), [d EXCEPT !.at = moved],
                    [t EXCEPT !.n = m])

\* The thing in the slot goes where the other one comes from, in front.
Swap(s, from, slot) ==
    AddThing(RemoveThing(s, slot, 1, s.inside[slot][1].n), from.c, s.inside[slot][1])

\* After the exchange, of which nothing is taken back: the thing asks again.
AfterSwap(swapped, from, n, d, t) ==
    LET behind == [from EXCEPT !.i = @ + 1]
    IN  IF QueryAdd(swapped, d.c, d.index, t, behind) = "ok"
        THEN Transfer(swapped, behind, n, [d EXCEPT !.at = 0]) ELSE swapped

\* The thing in the way may go to where the other comes from.
MayReturn(s, from, other, home) ==
    /\ from.c \in Bag
    /\ QueryAdd(s, from.c, from.i, other, home) = "ok"
    /\ MaxInBag(s, from.c, Wherever, other, home) > 0

\* Game::internalMoveItem, when the destination is found
MoveTo(s, from, n, d) ==
    LET t == [s.inside[from.c][from.i] EXCEPT !.n = n]
        query == QueryAdd(s, d.c, d.index, t, from)
    IN  CASE d.c = from.c /\ d.at = from.i -> s
          [] query = "ok" -> Transfer(s, from, n, d)
          [] query = "swap" /\ MayReturn(s, from, s.inside[d.c][d.at], [c |-> d.c, i |-> d.at]) ->
                AfterSwap(Swap(s, from, d.c), from, n, d, t)
          [] OTHER -> s

InternalMoveItem(s, from, n, to, index) ==
    MoveTo(s, from, n, QueryDestination(s, to, index, s.inside[from.c][from.i], from))

\* Game::internalAddItem to the tile at the player's feet
AddToTile(s, t) ==
    Arrive(s, Place("tile", Wherever, IF s.inside["tile"] = <<>> THEN 0 ELSE 1), t)

\* One attempt of it at the place d: add what goes there, or fail.
TryToAdd(was, rest, d) ==
    LET fits == /\ QueryAdd(was.s, d.c, d.index, rest, New) = "ok"
                /\ MaxAnywhere(was.s, rest, New) >= was.left
        k == IF d.at = 0 THEN was.left
             ELSE IF was.left < Stack - was.s.inside[d.c][d.at].n THEN was.left
             ELSE Stack - was.s.inside[d.c][d.at].n
    IN  IF was.failed \/ was.left = 0 THEN was
        ELSE IF ~fits THEN [was EXCEPT !.failed = TRUE]
        ELSE [s |-> Arrive(was.s, d, [rest EXCEPT !.n = k]),
              left |-> was.left - k, try |-> was.try + 1, failed |-> FALSE]

AddMore(was, rest) == TryToAdd(was, rest, FindPlace(was.s, rest, New))

\* Game::internalAddItem to the player.  What did not fit into the stack found
\* is added again: try says how many times that had been done when it failed.
InternalAddItem(s, t) ==
    LET add[i \in 0..Stack] ==
            IF i = 0 THEN [s |-> s, left |-> t.n, try |-> 0, failed |-> FALSE]
            ELSE AddMore(add[i - 1], [t EXCEPT !.n = add[i - 1].left])
    IN  add[Stack]

Drop(s, t, n) == [s EXCEPT !.lost = @ + worth[t.kind] * n]

\* Game::internalPlayerAddItem: what cannot be added goes to the tile, and so does
\* a rest that the first call reports.
AfterAdding(done, t) ==
    IF done.left = 0 THEN done.s
    ELSE IF done.try <= 1 THEN AddToTile(done.s, [t EXCEPT !.n = done.left])
    ELSE Drop(done.s, t, done.left)

InternalPlayerAddItem(s, t) == AfterAdding(InternalAddItem(s, t), t)

\* One item of Game::addMoney, which asks for no rest.
AfterAddingCoins(done, t) ==
    IF done.left = 0 THEN done.s
    ELSE IF done.try = 0 THEN AddToTile(done.s, t)
    ELSE Drop(done.s, t, done.left)

AddCoins(s, t) == AfterAddingCoins(InternalAddItem(s, t), t)

\* Game::addMoney: full stacks, then the rest, of each kind.
AddMoney(s, sum) ==
    LET coins(kind, n) ==
            LET full == n \div Stack
            IN  [i \in 1..full |-> [kind |-> kind, n |-> Stack]] \o
                (IF n % Stack = 0 THEN <<>> ELSE <<[kind |-> kind, n |-> n % Stack]>>)
        left[i \in 0..Len(currency)] ==
            IF i = 0 THEN sum ELSE left[i - 1] % worth[currency[i]]
        list == FlattenSeq([i \in DOMAIN currency |->
                    coins(currency[i], left[i - 1] \div worth[currency[i]])])
    IN  FoldLeft(AddCoins, s, list)

\* The stacks of coins the player has, in the order removeMoney finds them.
Coins(s) ==
    LET places(c) == [i \in DOMAIN s.inside[c] |-> [c |-> c, i |-> i]]
        all == FlattenSeq([j \in DOMAIN Containers(s, {}, {}) |->
                              places(Containers(s, {}, {})[j])])
    IN  SelectSeq(places("back") \o places("ammo") \o all,
                  LAMBDA p : ~IsBag(s.inside[p.c][p.i]) /\ worth[s.inside[p.c][p.i].kind] > 0)

WorthAt(s, p) == worth[s.inside[p.c][p.i].kind] * s.inside[p.c][p.i].n

Money(s) == FoldSeq(LAMBDA p, sum : sum + WorthAt(s, p), 0, Coins(s))

\* Mutant: the change is forgotten.
RemoveWithoutChange(s, p, sum) ==
    LET each == worth[s.inside[p.c][p.i].kind]
    IN  RemoveThing(s, p.c, p.i, (sum + each - 1) \div each)

\* Takes n coins of those that were at p; what came in front has moved them.
RemoveMoved(s, changed, p, n) ==
    RemoveThing(changed, p.c, p.i + Len(changed.inside[p.c]) - Len(s.inside[p.c]), n)

\* Takes what is missing off the coins at p: change first.
RemoveCoins(s, p, sum) ==
    LET each == worth[s.inside[p.c][p.i].kind]
        n == (sum + each - 1) \div each
    IN  RemoveMoved(s, AddMoney(s, each * n - sum), p, n)

\* Game::removeMoney, of a sum the player has: the least stack first.
RemoveMoney(s, sum) ==
    LET Least(u) ==
            LET list == Coins(u)
                least(p) == \A i \in DOMAIN list : WorthAt(u, p) <= WorthAt(u, list[i])
            IN  SelectSeq(list, least)[1]
        pay[i \in 0..Len(Coins(s))] ==
            IF i = 0 THEN [s |-> s, left |-> sum]
            ELSE LET was == pay[i - 1]
                     p == Least(was.s)
                     all == WorthAt(was.s, p)
                 IN  IF was.left = 0 THEN was
                     ELSE IF all <= was.left
                     THEN [s |-> RemoveThing(was.s, p.c, p.i, was.s.inside[p.c][p.i].n),
                           left |-> was.left - all]
                     ELSE [s |-> RemoveCoins(was.s, p, was.left), left |-> 0]
    IN  pay[Len(Coins(s))].s

-----------------------------------------------------------------------------

\* The player drags n of a thing to a cylinder, a slot or the capacity window.
PlayerMoveItem(from, n, to, index) ==
    /\ from.i \in DOMAIN inside[from.c]
    /\ n <= inside[from.c][from.i].n
    /\ Becomes(InternalMoveItem(Now, from, n, to, index))
    /\ UNCHANGED bank

\* A script gives coins to the player, or takes them: a bank, a shop.
Withdraw(sum) ==
    /\ sum <= bank /\ bank' = bank - sum
    /\ Becomes(AddMoney(Now, sum))

Give(t) ==
    /\ worth[t.kind] * t.n <= bank /\ bank' = bank - worth[t.kind] * t.n
    /\ Becomes(InternalPlayerAddItem(Now, t))

Deposit(sum) ==
    /\ sum <= Money(Now) /\ bank' = bank + sum
    /\ Becomes(RemoveMoney(Now, sum))

\* The trade opens for a bag, and ends.
StartTrade(b) ==
    /\ traded = None /\ traded' = b
    /\ UNCHANGED <<inside, weight, bank, lost>>

CloseTrade ==
    /\ traded # None /\ traded' = None
    /\ UNCHANGED <<inside, weight, bank, lost>>

Target == {<<b, i>> : b \in Bag, i \in MoveUp..Capacity} \cup
          {<<c, Wherever>> : c \in Slot \cup {"tile", "player"}}

Places == UNION {{[c |-> c, i |-> i] : i \in DOMAIN inside[c]} : c \in Cylinder}

ItemsInit ==
    /\ inside = Begin
    /\ weight = [b \in Bag |-> SumWeight([weight |-> [x \in Bag |-> 0]], Begin[b])]
    /\ traded = None /\ bank = 0 /\ lost = 0

ItemsNext ==
    \/ \E from \in Places, n \in 1..Stack, to \in Target :
          PlayerMoveItem(from, n, to[1], to[2])
    \/ \E sum \in 1..bank : Withdraw(sum)
    \/ \E k \in Range(currency), n \in 1..Stack : Give([kind |-> k, n |-> n])
    \/ \E sum \in 1..Money(Now) : Deposit(sum)
    \/ \E b \in Bag : StartTrade(b)
    \/ CloseTrade

ItemsSpec == ItemsInit /\ [][ItemsNext]_itemVars

-----------------------------------------------------------------------------

WorthOf(list) ==
    FoldSeq(LAMBDA t, sum : sum + (IF IsBag(t) THEN 0 ELSE worth[t.kind] * t.n), 0, list)

AllMoney(in) == FoldFunction(LAMBDA a, b : a + b, 0, [c \in Cylinder |-> WorthOf(in[c])])

(* No move, payment or change makes money or loses it, apart from what lost counts. *)
MoneyConserved == AllMoney(inside) + bank + lost = AllMoney(Begin)

(* A bag is in one place and never, however deep, within itself, however bags *)
(* are dragged into each other: queryAdd looks at every container around.      *)
BagsNested ==
    \A b \in Bag :
        /\ Cardinality({p \in Places : inside[p.c][p.i].kind = b}) = 1
        /\ b \notin Up(Now, Holder(Now, b))

(* The weight every container keeps, changed step by step all the way up, is   *)
(* the weight of what is in it, and the player never carries more than allowed. *)
WeightExact ==
    /\ \A b \in Bag : weight[b] = SumWeight(Now, inside[b])
    /\ InventoryWeight(Now) <= Load

(* Money is only lost while a trade is open: then the room within the traded bag *)
(* counts in queryMaxCount, and queryDestination does not use it.                *)
LostOnlyInTrade == [][lost' # lost => traded # None]_itemVars


\* Both, of the bags.
BagsSound == BagsNested /\ WeightExact
=============================================================================
