-------------------------------- MODULE Trade --------------------------------
(***************************************************************************)
(* Trades between players: playerRequestTrade, internalStartTrade,         *)
(* playerAcceptTrade and internalCloseTrade of src/src/game.cpp, and the   *)
(* notifications of src/src/player.cpp that close a trade when one of its  *)
(* items is touched or one of its players leaves.                          *)
(*                                                                         *)
(* All of it runs on the dispatcher thread, a step per call; what is hard  *)
(* is the order of the calls, several players offering, moving and nesting *)
(* the same items, and that a transfer is several moves, each of which may *)
(* fail.                                                                   *)
(*                                                                         *)
(* Data.  An item is an identity; a stack is never split, and two stacks   *)
(* always fit into one.  Weights are left out but for a refusal by either  *)
(* player's capacity.  A player stands with the others, or has walked away  *)
(* or logged out, which is the same here.                                   *)
(***************************************************************************)
EXTENDS Naturals, FiniteSets

CONSTANTS
  Player, Item,
  Container,  \* the items that hold others
  Capacity,   \* how many
  Stackable,  \* the items that stack with each other
  Slot,       \* inventory slots
  Fits,       \* the items that fit a slot
  SlotType,   \* getSlotType of an item
  Backpack,   \* the slot of the backpack
  None

ASSUME TradeAssumption ==
  /\ IsFiniteSet(Item)
  /\ Container \subseteq Item /\ Stackable \subseteq Item \ Container
  /\ Capacity \in Nat \ {0}
  /\ Fits \in [Slot -> SUBSET Item] /\ SlotType \in [Item -> Slot]
  /\ Backpack \in Slot
  /\ None \notin Player \cup Item

VARIABLES
  place,        \* where each item is
  near,         \* the players in the game, within reach of each other and the floor
  tradeState, tradePartner, tradeItem, \* fields of the players
  tradeItems,   \* Game::tradeItems, its keys
  crashed,      \* a null pointer has been dereferenced
  shown,        \* history: what an offered item held when it was offered
  traded        \* history: the transfer of the last step, who gave what, and whether it counts as done

fields == <<tradeState, tradePartner, tradeItem, tradeItems, shown>>
vars == <<place, near, fields, crashed, traded>>

Floor == <<"floor">>
InSlot(p, s) == <<"slot", p, s>>
In(c) == <<"in", c>>
Place == {Floor} \cup {InSlot(p, s) : p \in Player, s \in Slot} \cup {In(c) : c \in Container}

NoTrade == [by |-> None, with |-> None, gave |-> None, got |-> None, done |-> FALSE]

Init ==
  /\ place = [i \in Item |-> Floor]
  /\ near = Player
  /\ tradeState = [p \in Player |-> "none"]
  /\ tradePartner = [p \in Player |-> None]
  /\ tradeItem = [p \in Player |-> None]
  /\ tradeItems = {}
  /\ crashed = FALSE
  /\ shown = [i \in Item |-> {}]
  /\ traded = NoTrade

(***************************************************************************)
(* Where items are                                                         *)
(***************************************************************************)
Inside(at, c) == {i \in Item : at[i] = In(c)}

\* The containers around an item: those in every set that has, for the item and
\* for each container in the set, the container it is in.
Around(at, i) ==
  {c \in Container : \A S \in SUBSET Container :
     (\A j \in S \cup {i} : \A d \in Container : at[j] = In(d) => d \in S) => c \in S}

\* Container::isHoldingItem
Holds(at, c, i) == c \in Around(at, i)

\* The items in the inventory of p, and in the containers in it.
Owns(at, p, i) ==
  \E j \in {i} \cup Around(at, i) : \E s \in Slot : at[j] = InSlot(p, s)

Content(at, i) == {j \in Item : Holds(at, i, j)}

\* queryDestination for INDEX_WHEREEVER: an empty slot, else a container with
\* room.  What is offered is passed over, but not when it is inside another container.
EmptySlots(at, p, i) ==
  {InSlot(p, s) : s \in {t \in Slot : i \in Fits[t] /\ \A j \in Item : at[j] # InSlot(p, t)}}

RoomIn(at, p, i) ==
  {c \in Container :
     /\ Owns(at, p, c)
     /\ c # i /\ ~Holds(at, i, c)
     /\ Cardinality(Inside(at, c)) < Capacity
     /\ \A j \in {c} \cup Around(at, c) :
          j = tradeItem[p] => \A s \in Slot : at[j] # InSlot(p, s)}

Destination(at, p, i) ==
  IF EmptySlots(at, p, i) # {} THEN EmptySlots(at, p, i) ELSE {In(c) : c \in RoomIn(at, p, i)}

\* The test of internalAddItem, with stacking allowed.
CanAdd(at, p, i) ==
  \/ Destination(at, p, i) # {}
  \/ i \in Stackable /\ \E j \in Stackable \ {i, tradeItem[p]} : Owns(at, p, j)

(***************************************************************************)
(* Closing                                                                 *)
(***************************************************************************)
\* internalCloseTrade for each of P: they and their partners are out of it.
Closing(P) == P \cup {tradePartner[p] : p \in {q \in P : tradePartner[q] # None}}

\* Mutant: the items stay in Game::tradeItems.
CloseKeepingItems(P) ==
  LET out == Closing(P) IN
  /\ tradeState' = [p \in Player |-> IF p \in out THEN "none" ELSE tradeState[p]]
  /\ tradePartner' = [p \in Player |-> IF p \in out THEN None ELSE tradePartner[p]]
  /\ tradeItem' = [p \in Player |-> IF p \in out THEN None ELSE tradeItem[p]]
  /\ UNCHANGED <<tradeItems, shown>>

Close(P) ==
  LET out == Closing(P) IN
  /\ tradeState' = [p \in Player |-> IF p \in out THEN "none" ELSE tradeState[p]]
  /\ tradePartner' = [p \in Player |-> IF p \in out THEN None ELSE tradePartner[p]]
  /\ tradeItem' = [p \in Player |-> IF p \in out THEN None ELSE tradeItem[p]]
  /\ tradeItems' = tradeItems \ {tradeItem[p] : p \in out}
  /\ shown' = [i \in Item |-> IF i \in tradeItems' THEN shown[i] ELSE {}]

\* Those whose offer is disturbed when i leaves its place or comes to another:
\* i is offered, is or comes to be inside what is offered, or holds it.
Disturbed(at, i, to) ==
  {p \in Player : tradeItem[p] # None /\
     \/ tradeItem[p] = i
     \/ Holds(at, i, tradeItem[p]) \/ Holds(at, tradeItem[p], i)
     \/ Holds([at EXCEPT ![i] = to], tradeItem[p], i)}

(***************************************************************************)
(* Steps                                                                   *)
(***************************************************************************)
\* Container::queryAdd
Accepts(c, i) == c # i /\ ~Holds(place, i, c) /\ Cardinality(Inside(place, c)) < Capacity

\* A player who stands near moves an item that is not somebody else's.
MoveItem(p, i, to) ==
  /\ p \in near
  /\ to # place[i]
  /\ \/ to = Floor
     \/ to \in EmptySlots(place, p, i)
     \/ \E c \in Container :
          /\ to = In(c) /\ Accepts(c, i)
          /\ \A q \in Player \ {p} : ~Owns(place, q, c)
  /\ \A q \in Player \ {p} : ~Owns(place, q, i)
  /\ place' = [place EXCEPT ![i] = to]
  /\ Close(Disturbed(place, i, to))
  /\ UNCHANGED <<near, crashed>>
  /\ traded' = NoTrade

\* p can take no part in a trade any longer, and is out of the one there is.
Withdraw(p) ==
  /\ p \in near
  /\ near' = near \ {p}
  /\ IF tradePartner[p] # None THEN Close({p}) ELSE UNCHANGED fields
  /\ UNCHANGED <<place, crashed>>
  /\ traded' = NoTrade

\* onCreatureMove: out of reach.
WalkAway(p) == Withdraw(p)

\* onRemoveCreature; the player's items go too.
Logout(p) == Withdraw(p)

\* A step back, or a login.
ComeBack(p) ==
  /\ p \in Player \ near
  /\ near' = near \cup {p}
  /\ UNCHANGED <<place, fields, crashed>>
  /\ traded' = NoTrade

\* internalStartTrade's two refusals
MayTrade(p, q) ==
  /\ tradeState[p] = "none" \/ (tradeState[p] = "acknowledge" /\ tradePartner[p] = q)
  /\ tradeState[q] = "none" \/ tradePartner[q] = p

\* The item is not offered yet, on its own, inside an offered one, or around one.
NotOffered(i) == \A t \in tradeItems : t # i /\ ~Holds(place, t, i) /\ ~Holds(place, i, t)

\* playerRequestTrade and internalStartTrade: p offers i to q, or answers q's
\* offer with it.
RequestTrade(p, q, i) ==
  /\ p # q /\ {p, q} \subseteq near
  /\ MayTrade(p, q)
  /\ NotOffered(i)
  /\ \A r \in Player \ {p} : ~Owns(place, r, i)
  /\ tradeItem' = [tradeItem EXCEPT ![p] = i]
  /\ tradeItems' = tradeItems \cup {i}
  /\ shown' = [shown EXCEPT ![i] = Content(place, i)]
  /\ tradeState' = [tradeState EXCEPT ![p] = "initiated",
                                      ![q] = IF @ = "none" THEN "acknowledge" ELSE @]
  /\ tradePartner' = [tradePartner EXCEPT ![p] = q, ![q] = p]
  /\ UNCHANGED <<place, near, crashed>>
  /\ traded' = NoTrade

MayAccept(p) == p \in near /\ tradeState[p] \in {"acknowledge", "initiated"} /\ tradePartner[p] # None

\* playerAcceptTrade, the first of the two.
AcceptFirst(p) ==
  /\ MayAccept(p)
  /\ tradeState[tradePartner[p]] # "accept"
  /\ tradeState' = [tradeState EXCEPT ![p] = "accept"]
  /\ UNCHANGED <<place, near, tradePartner, tradeItem, tradeItems, shown, crashed>>
  /\ traded' = NoTrade

AcceptSecond(p) == MayAccept(p) /\ tradeState[tradePartner[p]] = "accept"

\* ... the second: something stands between them, or a script refuses.
AcceptRefused(p) ==
  /\ AcceptSecond(p)
  /\ Close({p})
  /\ UNCHANGED <<place, near, crashed>>
  /\ traded' = NoTrade

\* ... one of them has offered nothing: onTradeAccept, a script the data enables,
\* gets the item that is not there.
AcceptNothing(p) ==
  /\ AcceptSecond(p)
  /\ None \in {tradeItem[p], tradeItem[tradePartner[p]]}
  /\ crashed' = TRUE
  /\ UNCHANGED <<place, near, fields>>
  /\ traded' = NoTrade

\* Whoever offers the backpack worn needs the slot of what comes.
BackpackInTheWay(p, i, q, j) ==
  \/ place[j] = InSlot(q, Backpack) /\ \E k \in Item : place[k] = InSlot(q, SlotType[i])
  \/ place[i] = InSlot(p, Backpack) /\ \E k \in Item : place[k] = InSlot(p, SlotType[j])
  \/ place[i] = InSlot(p, Backpack) /\ place[j] = InSlot(q, Backpack)

Finish(p, q, done) ==
  /\ traded' = [by |-> p, with |-> q, gave |-> tradeItem[p], got |-> tradeItem[q], done |-> done]
  /\ tradeState' = [tradeState EXCEPT ![p] = "none", ![q] = "none"]
  /\ tradePartner' = [tradePartner EXCEPT ![p] = None, ![q] = None]
  /\ tradeItem' = [tradeItem EXCEPT ![p] = None, ![q] = None]
  /\ tradeItems' = tradeItems \ {tradeItem[p], tradeItem[q]}
  /\ shown' = [i \in Item |-> IF i \in tradeItems' THEN shown[i] ELSE {}]

\* What both of them have offered: the place there is for p's item with q, and
\* whether both can be added.
Transferable(p, q, i, j) ==
  /\ i # None /\ j # None
  /\ ~BackpackInTheWay(p, i, q, j)
  /\ CanAdd(place, q, i) /\ CanAdd(place, p, j)

\* Mutant: the place may be inside what q gives.
FirstMoveAnywhere(q, i, j) == Destination(place, q, i)

\* The first move, into a place that is not inside what q gives.
FirstMove(q, i, j) ==
  {to \in Destination(place, q, i) : \A c \in Container : to = In(c) => c # j /\ ~Holds(place, j, c)}

\* ... both have: the items change hands.  The result of the second move is not
\* looked at.
Transfer(p) ==
  LET q == tradePartner[p]
      i == tradeItem[p]
      j == tradeItem[q]
  IN /\ AcceptSecond(p)
     /\ Transferable(p, q, i, j)
     /\ \E to \in FirstMove(q, i, j) :
          LET moved == [place EXCEPT ![i] = to]
              return == Destination(moved, p, j)
          IN IF return = {}
             THEN place' = moved
             ELSE \E to2 \in return : place' = [moved EXCEPT ![j] = to2]
     /\ Finish(p, q, TRUE)
     /\ UNCHANGED <<near, crashed>>

\* ... there is no room, or one of them cannot carry it.
TransferFails(p) ==
  LET q == tradePartner[p] IN
  /\ AcceptSecond(p)
  /\ None \notin {tradeItem[p], tradeItem[q]}
  /\ Finish(p, q, FALSE)
  /\ UNCHANGED <<place, near, crashed>>

CloseTrade(p) ==
  /\ p \in near
  /\ tradePartner[p] # None
  /\ Close({p})
  /\ UNCHANGED <<place, near, crashed>>
  /\ traded' = NoTrade

Next ==
  /\ ~crashed
  /\ \E p \in Player :
       \/ \E i \in Item, to \in Place : MoveItem(p, i, to)
       \/ WalkAway(p) \/ Logout(p) \/ ComeBack(p)
       \/ \E q \in Player, i \in Item : RequestTrade(p, q, i)
       \/ AcceptFirst(p) \/ AcceptRefused(p) \/ AcceptNothing(p)
       \/ Transfer(p) \/ TransferFails(p) \/ CloseTrade(p)

Spec == Init /\ [][Next]_vars

-------------------------------------------------------------------------------
TypeOK ==
  /\ place \in [Item -> Place]
  /\ near \subseteq Player
  /\ tradeState \in [Player -> {"none", "initiated", "accept", "acknowledge"}]
  /\ tradePartner \in [Player -> Player \cup {None}]
  /\ tradeItem \in [Player -> Item \cup {None}]
  /\ tradeItems \subseteq Item
  /\ crashed \in BOOLEAN
  /\ shown \in [Item -> SUBSET Item]

\* A trade has two sides, both in the game and in reach, and no one else has part in it
\* (internalStartTrade and internalCloseTrade set the fields of both).
TwoSides ==
  \A p \in Player :
    /\ tradePartner[p] # None <=> tradeState[p] # "none"
    /\ tradePartner[p] # None => /\ tradePartner[tradePartner[p]] = p
                                 /\ {p, tradePartner[p]} \subseteq near
    /\ tradeState[p] = "none" => tradeItem[p] = None

\* Game::tradeItems holds just what is offered: an item forgotten there could
\* never be traded again, one that is missing could be traded twice.
TradeItemsExact ==
  tradeItems = {tradeItem[p] : p \in {q \in Player : tradeItem[q] # None}}

\* Nothing is offered twice, not even as a part of something else.
OfferedOnce ==
  \A p, q \in Player :
    p # q /\ tradeItem[p] # None /\ tradeItem[q] # None =>
      tradeItem[p] # tradeItem[q] /\ ~Holds(place, tradeItem[p], tradeItem[q])

\* What is offered holds what it held when it was shown to the other side, and
\* nobody but who offers it has it.
OfferUnchanged ==
  \A p \in Player : tradeItem[p] # None =>
    /\ Content(place, tradeItem[p]) = shown[tradeItem[p]]
    /\ \A q \in Player \ {p} : ~Owns(place, q, tradeItem[p])

\* No item is lost in itself or in a slot or container that is full.
Tree ==
  /\ \A i \in Item : i \notin Around(place, i)
  /\ \A c \in Container : Cardinality(Inside(place, c)) <= Capacity
  /\ \A i, j \in Item, p \in Player, s \in Slot :
       i # j => ~(place[i] = InSlot(p, s) /\ place[j] = InSlot(p, s))

TradesConsistent == TypeOK /\ TwoSides /\ TradeItemsExact /\ Tree

\* A trade that is not done moves nothing; a trade that is done moves the first item.
FailedTradeMovesNothing ==
  [][traded' # NoTrade =>
       IF traded'.done THEN Owns(place', traded'.with, traded'.gave) ELSE place' = place]_vars

\* A comment in internalAddItem says its test is whether the whole amount can be
\* added: so a trade that is done has given each side what the other offered.
BothReceive ==
  [][traded' # NoTrade /\ traded'.done =>
       Owns(place', traded'.with, traded'.gave) /\ Owns(place', traded'.by, traded'.got)]_vars

\* Both sides of a trade agree, and an item is in one trade at most.
TradesSound == TradesConsistent /\ OfferedOnce /\ OfferUnchanged
===============================================================================
