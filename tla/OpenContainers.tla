---------------------------- MODULE OpenContainers ----------------------------
(***************************************************************************)
(* The windows in which players look into containers, and the browse       *)
(* fields, which show the things on a tile as a container (player.cpp,      *)
(* game.cpp, container.cpp, tile.cpp).                                      *)
(*                                                                         *)
(* A window is a plain pointer to a container.  Whatever removes, moves or *)
(* hides the container has to close it.  A browse field is a container of  *)
(* its own: it lives as long as somebody counts on it, which is every      *)
(* window and a task of the scheduler, and until it is deleted it is kept  *)
(* equal to the tile.                                                      *)
(***************************************************************************)
EXTENDS Integers, FiniteSets, FiniteSetsExt, Functions

CONSTANTS
  Player, Item,
  Container,  \* the items that hold others
  Turning,    \* items that a transformation makes movable or not
  Tile,       \* positions on a line
  Limit,      \* windows, 32 or 254 in the code
  Casts,      \* bound: players and items, one choice of which a behaviour is about,
              \* and how many windows of browse fields are left open by a logout
  None

Field == [tile : Tile]      \* the browse field of a tile
Window == 0 .. Limit - 1
Near(t, u) == t - u \in -1 .. 1

ContainersAssumption ==
  /\ Container \subseteq Item /\ Turning \subseteq Item \ Container
  /\ Tile \subseteq Int /\ Limit \in Nat \ {0}
  /\ \A c \in Casts : c.players \subseteq Player /\ c.items \subseteq Item /\ c.left \in Nat
  /\ None \notin Item \cup Player \cup Tile

VARIABLES
  at,       \* the tile of each player, None when it is not in the game
  world,    \* items, browse fields and windows
  attribute, \* ITEM_ATTRIBUTE_OPENCONTAINER of the containers
  cast      \* the players and items of this behaviour

\* world:
\*   where    of an item: a tile, a container, a player, or None (it is gone)
\*   movable
\*   field    of a tile: None, or its browse field: list, refs, pending (the task)
\*   win      openContainers of each player
\*   client   the windows its client shows
\*   left     history: windows of the browse field of a tile whose player has logged out
\*   odd      history: items turned while the browse field there was open

containerVars == <<at, world, attribute, cast>>

-----------------------------------------------------------------------------
(* Where things are *)

OnTile(w, i) == w.where[i] \in Tile
Listed(w, i) == OnTile(w, i) /\ w.field[w.where[i]] # None /\ i \in w.field[w.where[i]].list

\* An item and what is around it, the browse field included.
Around(w, i) ==
  LET Outer(S) == S \cup {c \in Container : \E j \in S : w.where[j] = c}
      up[n \in 0 .. Cardinality(Container)] == IF n = 0 THEN {i} ELSE Outer(up[n - 1])
      all == up[Cardinality(Container)]
  IN  all \cup {[tile |-> w.where[j]] : j \in {x \in all : Listed(w, x)}}

Chain(w, x) == IF x \in Field THEN {x} ELSE Around(w, x)
\* Where its outermost container is.
Root(w, x) ==
  IF x \in Field THEN x.tile
  ELSE CHOOSE r \in {w.where[j] : j \in Around(w, x) \ Field} : r \notin Container
Removed(w, x) == Root(w, x) = None
Position(w, x) == IF Root(w, x) \in Player THEN at[Root(w, x)] ELSE Root(w, x)
HeldBy(w, x, p) == Root(w, x) = p
InReach(w, x, p) == Position(w, x) # None /\ at[p] # None /\ Near(Position(w, x), at[p])

-----------------------------------------------------------------------------
(* Windows *)

Shows(w, p, x) == {k \in Window : w.win[p][k] = x}

Increment(w, x) == IF x \in Field THEN [w EXCEPT !.field[x.tile].refs = @ + 1] ELSE w
\* The last reference deletes the browse field: its items are the tile's again.
Decrement(w, x) ==
  IF x \notin Field THEN w
  ELSE IF w.field[x.tile].refs = 1 THEN [w EXCEPT !.field[x.tile] = None]
  ELSE [w EXCEPT !.field[x.tile].refs = @ - 1]

\* addContainer
AddContainer(w, p, k, x) ==
  [Decrement(Increment(w, x), w.win[p][k]) EXCEPT !.win[p][k] = x]

CloseContainer(w, p, k) == Decrement([w EXCEPT !.win[p][k] = None], w.win[p][k])

\* onSendContainer, onCloseContainer: all windows that show it
SendContainer(w, p, x) ==
  [w EXCEPT !.client[p] = [k \in Window |-> IF k \in Shows(w, p, x) THEN x ELSE @[k]]]
SendClose(w, p, keys) ==
  [w EXCEPT !.client[p] = [k \in Window |-> IF k \in keys THEN None ELSE @[k]]]

Closed(w, p, keys) ==
  SendClose(FoldSet(LAMBDA k, e : CloseContainer(e, p, k), w, keys), p, keys)

\* autoCloseContainers: the container and all inside it
AutoClose(w, p, x) ==
  Closed(w, p, {k \in Window : /\ w.win[p][k] # None
                               /\ Removed(w, w.win[p][k]) \/ x \in Chain(w, w.win[p][k])})

\* Of several windows that show it only the first is closed.
Toggle(w, p, x, k) ==
  LET full == k = Limit - 1 /\ w.win[p][k] # None
      room == IF full THEN CloseContainer(SendClose(w, p, Shows(w, p, w.win[p][k])), p, k) ELSE w
  IN  IF Shows(w, p, x) # {}
      THEN CloseContainer(SendClose(w, p, Shows(w, p, x)), p, Min(Shows(w, p, x)))
      ELSE SendContainer(AddContainer(room, p, k, x), p, x)

\* getNextContainerIndex
NextWindow(w, p) ==
  LET free == Shows(w, p, None) IN IF free = {} THEN Limit - 1 ELSE Min(free)

-----------------------------------------------------------------------------
(* Opening *)

\* What a player may use or move: it lies near, is worn, or is in a window.
Reaches(p, i) ==
  \/ world.where[i] \in Tile /\ at[p] # None /\ Near(world.where[i], at[p])
  \/ world.where[i] = p
  \/ world.where[i] \in Container /\ Shows(world, p, world.where[i]) # {}

InGame(p) == at[p] # None
Becomes(w) == world' = w /\ UNCHANGED <<at, attribute, cast>>

\* openContainer, with a window of the client's choice
UseContainer(p, c, k) ==
  /\ InGame(p) /\ Reaches(p, c)
  /\ Becomes(Toggle(world, p, c, k))

\* The browse field of a tile, made of the movable things on it if there is
\* none; a task counts on it for 30 seconds.
WithField(w, t) ==
  IF w.field[t] # None THEN w
  ELSE [w EXCEPT !.field[t] = [list |-> {i \in Item : w.where[i] = t /\ i \in w.movable},
                               refs |-> 1, pending |-> TRUE]]

BrowseField(p, t) ==
  /\ InGame(p) /\ Near(t, at[p])
  /\ \E w \in {WithField(world, t)} : Becomes(Toggle(w, p, [tile |-> t], NextWindow(w, p)))

\* playerMoveUpContainer: to the container around it or else to the browse
\* field of the tile, under the feet of who carries it.
MoveUp(p, k) ==
  /\ InGame(p) /\ world.win[p][k] # None
  /\ LET c == world.win[p][k]
         t == Position(world, c)
         inner == c \notin Field /\ world.where[c] \in Container
         x == IF inner THEN world.where[c] ELSE [tile |-> t]
     IN  \E w \in {IF inner THEN world ELSE WithField(world, t)} :
           Becomes([AddContainer(w, p, k, x) EXCEPT !.client[p][k] = x])

PlayerClose(p, k) ==
  /\ InGame(p) /\ world.win[p][k] # None
  /\ Becomes([CloseContainer(world, p, k) EXCEPT !.client[p][k] = None])

\* decreaseBrowseFieldRef, by the task: whatever browse field is there by then
DecreaseBrowseFieldRef(t) ==
  /\ world.field[t] # None /\ world.field[t].pending
  /\ Becomes(Decrement([world EXCEPT !.field[t].pending = FALSE], [tile |-> t]))

-----------------------------------------------------------------------------
(* Items that move.  Tiles tell all players around, an inventory its owner. *)

Told(place) == IF place \in Player THEN {place} ELSE Player
ToldOf(w, place) == Told(IF place \in Container THEN Root(w, place) ELSE place)

\* postRemoveNotification of a player.  Another player's things are nothing to look at.
PostRemove(w, p, i) ==
  IF i \notin Container \/ ~InGame(p) THEN w
  ELSE IF Removed(w, i) \/ ~InReach(w, i, p) \/ Root(w, i) \in Player \ {p} THEN AutoClose(w, p, i)
  ELSE SendContainer(w, p, i)

PostAdd(w, p, i) == IF i \in Container /\ InGame(p) THEN SendContainer(w, p, i) ELSE w

\* onRemoveTileItem: only what is movable leaves the browse field.
TakeFromField(w, i, t) ==
  IF t \in Tile /\ w.field[t] # None /\ i \in w.movable
  THEN [w EXCEPT !.field[t].list = @ \ {i}] ELSE w
\* onAddTileItem
PutInField(w, i, t) ==
  IF t \in Tile /\ w.field[t] # None /\ i \in w.movable
  THEN [w EXCEPT !.field[t].list = @ \cup {i}] ELSE w

\* Mutant: an item that arrives is not shown.
PlaceOnly(w, i, to) == [TakeFromField(w, i, w.where[i]) EXCEPT !.where[i] = to]

Place(w, i, to) == PutInField([TakeFromField(w, i, w.where[i]) EXCEPT !.where[i] = to], i, to)

Notify(w, players, Of(_, _)) == FoldSet(LAMBDA p, e : Of(e, p), w, players)

\* internalMoveItem
Moved(w, i, to) ==
  LET left == Notify(Place(w, i, to), ToldOf(w, w.where[i]), LAMBDA e, p : PostRemove(e, p, i))
  IN  Notify(left, ToldOf(left, to), LAMBDA e, p : PostAdd(e, p, i))

MoveItem(p, i, to) ==
  /\ InGame(p) /\ Reaches(p, i) /\ i \in world.movable
  /\ to # world.where[i]
  /\ \/ to \in Tile
     \/ to = p
     \/ to \in Container /\ Reaches(p, to) /\ i \notin Around(world, to)
  /\ Becomes(Moved(world, i, to))

\* internalRemoveItem; what it holds goes with it.
RemoveItem(i) ==
  /\ world.where[i] # None
  /\ \E w \in {Notify(Place(world, i, None), ToldOf(world, world.where[i]),
                      LAMBDA e, p : PostRemove(e, p, i))} :
       Becomes([w EXCEPT !.where = [j \in Item |-> IF i \in Around(w, j) THEN None ELSE @[j]]])

\* transformItem to another kind of its type: the browse field is not told, so
\* that it may keep what is immovable now, even after that is released.
Turn(i) ==
  /\ i \in Turning /\ world.where[i] # None
  /\ Becomes([world EXCEPT
       !.movable = IF i \in @ THEN @ \ {i} ELSE @ \cup {i},
       !.odd = IF OnTile(world, i) /\ world.field[world.where[i]] # None THEN @ \cup {i} ELSE @])

-----------------------------------------------------------------------------
(* Players that move *)

\* A step or a teleport: each container that is out of reach is closed, with
\* what is inside it.
Walk(p, t) ==
  /\ InGame(p) /\ t # at[p]
  /\ at' = [at EXCEPT ![p] = t]
  /\ LET far == {world.win[p][k] : k \in {j \in Window :
                   /\ world.win[p][j] # None
                   /\ ~Near(IF HeldBy(world, world.win[p][j], p) THEN t ELSE Position(world, world.win[p][j]), t)}}
     IN  world' = FoldSet(LAMBDA x, e : AutoClose(e, p, x), world, far)
  /\ UNCHANGED <<attribute, cast>>

\* The player is saved, with the windows of what it carries, and goes.  Its
\* windows of browse fields keep their references.
Logout(p) ==
  /\ InGame(p)
  /\ LET fields(t) == Cardinality(Shows(world, p, [tile |-> t]))
         held == {c \in Container : HeldBy(world, c, p)}
     IN  /\ \A t \in Tile : fields(t) > 0 => world.left[t] + fields(t) <= cast.left
         /\ attribute' = [c \in Container |->
              IF c \notin held THEN attribute[c]
              ELSE IF Shows(world, p, c) = {} THEN None ELSE Min(Shows(world, p, c))]
         /\ world' = [world EXCEPT !.win[p] = [k \in Window |-> None],
                                   !.client[p] = [k \in Window |-> None],
                                   !.left = [t \in Tile |-> @[t] + fields(t)]]
  /\ at' = [at EXCEPT ![p] = None]
  /\ UNCHANGED cast

\* openSavedContainers: of two with the same number one is opened.
OpenSaved(w, p) ==
  LET saved == {c \in Container : HeldBy(w, c, p) /\ attribute[c] # None}
      keys == {attribute[c] : c \in saved}
  IN  {FoldSet(LAMBDA k, e : SendContainer(AddContainer(e, p, k, pick[k]), p, pick[k]), w, keys) :
         pick \in {f \in [keys -> saved] : \A k \in keys : attribute[f[k]] = k}}

Login(p, t) ==
  /\ ~InGame(p) /\ p \in cast.players
  /\ at' = [at EXCEPT ![p] = t]
  /\ world' \in OpenSaved(world, p)
  /\ UNCHANGED <<attribute, cast>>

\* Another client takes over, with no window open; those of the player stay.
Reconnect(p) ==
  /\ InGame(p)
  /\ \E w \in OpenSaved([world EXCEPT !.client[p] = [k \in Window |-> None]], p) : Becomes(w)

ContainersInit ==
  /\ cast \in Casts
  /\ at = [p \in Player |-> IF p \in cast.players THEN Min(Tile) ELSE None]
  /\ world = [where |-> [i \in Item |-> IF i \in cast.items THEN Min(Tile) ELSE None], movable |-> Item,
              field |-> [t \in Tile |-> None],
              win |-> [p \in Player |-> [k \in Window |-> None]],
              client |-> [p \in Player |-> [k \in Window |-> None]],
              left |-> [t \in Tile |-> 0], odd |-> {}]
  /\ attribute = [c \in Container |-> None]

ContainersNext ==
  \/ \E p \in Player, k \in Window :
       MoveUp(p, k) \/ PlayerClose(p, k) \/ \E c \in Container : UseContainer(p, c, k)
  \/ \E p \in Player, t \in Tile : BrowseField(p, t) \/ Walk(p, t) \/ Login(p, t)
  \/ \E p \in Player, i \in Item : \E to \in Tile \cup Container \cup {p} : MoveItem(p, i, to)
  \/ \E t \in Tile : DecreaseBrowseFieldRef(t)
  \/ \E i \in Item : RemoveItem(i) \/ Turn(i)
  \/ \E p \in Player : Logout(p) \/ Reconnect(p)

ContainersSpec == ContainersInit /\ [][ContainersNext]_containerVars

-----------------------------------------------------------------------------
(* Properties *)

Opened(p) == {world.win[p][k] : k \in {j \in Window : world.win[p][j] # None}}

\* A player looks into nothing that has been deleted, that is out of its reach
\* or in the hands of somebody else (the pointers in openContainers).
WindowsLive ==
  \A p \in Player : InGame(p) => \A x \in Opened(p) :
    /\ x \in Field => world.field[x.tile] # None
    /\ ~Removed(world, x)
    /\ InReach(world, x, p)
    /\ Root(world, x) \notin Player \ {p}

\* A browse field has one reference for every window, and one for its task;
\* but a player who logs out keeps those of its windows for ever.
FieldRefsExact ==
  \A t \in Tile : world.field[t] # None =>
    world.field[t].refs =
      (IF world.field[t].pending THEN 1 ELSE 0) + world.left[t]
        + MapThenSumSet(LAMBDA p : Cardinality(Shows(world, p, [tile |-> t])), Player)

\* It shows what is movable on its tile, but for what was turned in the meantime.
FieldsExact ==
  \A t \in Tile : world.field[t] # None =>
    world.field[t].list \ world.odd =
      {i \in Item : world.where[i] = t /\ i \in world.movable} \ world.odd

\* A client shows no window that the server does not fill.
ClientsExact ==
  \A p \in Player, k \in Window : world.client[p][k] \in {None, world.win[p][k]}

WindowsSound == WindowsLive /\ FieldRefsExact /\ FieldsExact /\ ClientsExact
=============================================================================
