------------------------------- MODULE TileView -------------------------------
(***************************************************************************)
(* A tile and what the clients that look at it show of it.  The server     *)
(* sends changes, each with an index it has counted (tile.cpp), and a      *)
(* client does what it is told: it keeps the first Limit things and knows  *)
(* nothing of the others.  A creature is described once and named by its   *)
(* id from then on, so the server keeps a set of the creatures that a      *)
(* client knows (protocolgame.cpp).                                        *)
(*                                                                         *)
(* The client is not part of the repository: Insert, Change and Drop say   *)
(* what the messages ask of it.                                            *)
(***************************************************************************)
EXTENDS Integers, Sequences, SequencesExt, FiniteSets

CONSTANTS
  Viewer,     \* the players who look on
  Staff,      \* those of them who see ghosts and what is invisible
  Ground, Top, Down,  \* the items, by where a tile keeps them
  Order,      \* alwaysOnTopOrder of the items in Top
  Splash,     \* those in Top that replace each other
  Field,      \* those in Down that are magic fields
  Fixed,      \* those that cannot be replaced
  Door,       \* items that block while they are closed
  Person,     \* creatures that a script makes ghosts
  Monster,    \* creatures that become invisible
  Limit,      \* the things a client shows, 10 in the code
  MaxKnown,   \* the creatures a client remembers, 1300 in the code
  None

Item == Ground \cup Top \cup Down
Creature == Person \cup Monster

TileViewAssumption ==
  /\ Staff \subseteq Viewer /\ Splash \subseteq Top /\ Fixed \subseteq Field /\ Field \subseteq Down
  /\ Door \subseteq Top \cup Down
  /\ Order \in [Top -> Nat]
  /\ Limit > 2 /\ MaxKnown > 0
  /\ None \notin Item \cup Creature

VARIABLES
  tile,  \* ground, tops, creatures, downs, who is hidden, which doors are open, two flags
  view   \* of each viewer: what it shows, whom it knows

tileVars == <<tile, view>>

----------------------------------------------------------------------------
(* Where things are *)

Grounds(t) == IF t.ground = None THEN <<>> ELSE <<t.ground>>
Items(t) == ToSet(Grounds(t) \o t.tops \o t.downs)
ThingCount(t) == Len(Grounds(t)) + Len(t.tops) + Len(t.creatures) + Len(t.downs)
Has(seq, x) == \E k \in 1 .. Len(seq) : seq[k] = x
IndexIn(seq, x) == CHOOSE k \in 1 .. Len(seq) : seq[k] = x

CanSee(t, v, c) == v \in Staff \/ c \notin t.hidden
\* Creatures are kept with the newest first and sent with the oldest first.
Visible(t, v) == SelectSeq(Reverse(t.creatures), LAMBDA c : CanSee(t, v, c))

\* A thing as it is sent: an item looks open or not.
Shown(t, x) == <<x, x \in t.open>>

First(seq) == SubSeq(seq, 1, IF Len(seq) < Limit THEN Len(seq) ELSE Limit)

\* GetTileDescription, and as far as a client keeps it.
AllThings(t, v) ==
  LET all == Grounds(t) \o t.tops \o Visible(t, v) \o t.downs
  IN  [k \in DOMAIN all |-> Shown(t, all[k])]
TileDescription(t, v) == First(AllThings(t, v))

\* -1 for an item that the client does not show.
StackposOfItem(t, v, i) ==
  LET n == IF i = t.ground THEN 0
           ELSE IF Has(t.tops, i) THEN Len(Grounds(t)) + IndexIn(t.tops, i) - 1
           ELSE Len(Grounds(t)) + Len(t.tops) + Cardinality({c \in ToSet(t.creatures) : CanSee(t, v, c)})
                  + IndexIn(t.downs, i) - 1
  IN  IF n < Limit THEN n ELSE -1

\* Mutant: counted as the tile keeps them.
IndexFromFront(t, v, c) ==
  Len(Grounds(t)) + Len(t.tops)
    + Cardinality({k \in 1 .. Len(t.creatures) :
                     k < IndexIn(t.creatures, c) /\ CanSee(t, v, t.creatures[k])})

\* The creatures that came later do not count, nor do those the viewer cannot see.
ClientIndexOfCreature(t, v, c) ==
  Len(Grounds(t)) + Len(t.tops)
    + Cardinality({k \in 1 .. Len(t.creatures) :
                     k > IndexIn(t.creatures, c) /\ CanSee(t, v, t.creatures[k])})

----------------------------------------------------------------------------
(* What a client does *)

Insert(s, n, x) ==
  First(IF n <= Len(s) THEN InsertAt(s, n + 1, x) ELSE Append(s, x))
Change(s, n, x) == IF n < Len(s) THEN ReplaceAt(s, n + 1, x) ELSE s
Drop(s, n) == IF n < Len(s) THEN RemoveAt(s, n + 1) ELSE s
DropCreature(s, c) == SelectSeq(s, LAMBDA x : x[1] # c)

----------------------------------------------------------------------------
(* What the server sends.  A world w is a tile and, for each viewer, the   *)
(* set of the views it may have: whom the server forgets is up to the      *)
(* order of a hash table.                                                  *)

World == [tile |-> tile, view |-> [v \in Viewer |-> {view[v]}]]
Becomes(w) ==
  /\ tile' = w.tile
  /\ view' \in {f \in [Viewer -> UNION {w.view[v] : v \in Viewer}] : \A v \in Viewer : f[v] \in w.view[v]}

\* Each viewer who can see the position gets the message Of(v, s).
Send(w, Of(_, _)) ==
  [w EXCEPT !.view = [v \in Viewer |-> UNION {IF s.sees THEN Of(v, s) ELSE {s} : s \in w.view[v]}]]

\* checkCreatureAsKnown and the description or the id that AddCreature sends:
\* the server forgets one that cannot be seen, if there is any.
CheckKnown(t, v, s, c) ==
  LET more == s.known \cup {c}
      unseen == {x \in more : ~(Has(t.creatures, x) /\ CanSee(t, v, x))}
      forgotten == IF Cardinality(more) <= MaxKnown THEN {None}
                   ELSE IF unseen # {} THEN unseen ELSE more \ {c}
  IN  IF c \in s.known THEN {s}
      ELSE {[s EXCEPT !.known = more \ {x}, !.remembered = (@ \ {x}) \cup {c}] : x \in forgotten}

\* sendUpdateTileCreature always describes the creature; if it was known the
\* id to forget has no value, and the client may forget any other.
CheckKnownAgain(t, v, s, c) ==
  IF c \notin s.known THEN CheckKnown(t, v, s, c)
  ELSE {[s EXCEPT !.remembered = (@ \ {x}) \cup {c}, !.garbled = @ \/ x \in s.remembered \ {c}] :
          x \in Creature \cup {None}}

\* The whole tile, with all creatures on it.
Described(t, v, s) ==
  {[r EXCEPT !.shown = TileDescription(t, v), !.blurred = FALSE] :
     r \in FoldLeft(LAMBDA rs, c : UNION {CheckKnown(t, v, r, c) : r \in rs}, {s}, Visible(t, v))}

SendUpdateTile(w) == Send(w, LAMBDA v, s : Described(w.tile, v, s))

SendAddTileItem(w, i) ==
  Send(w, LAMBDA v, s : LET n == StackposOfItem(w.tile, v, i)
                        IN  {IF n = -1 THEN s ELSE [s EXCEPT !.shown = Insert(@, n, Shown(w.tile, i))]})

SendUpdateTileItem(w, i) ==
  Send(w, LAMBDA v, s : LET n == StackposOfItem(w.tile, v, i)
                        IN  {IF n = -1 THEN s ELSE [s EXCEPT !.shown = Change(@, n, Shown(w.tile, i))]})

\* With the index that was counted before the item left.
SendRemoveTileThing(w, before, i) ==
  Send(w, LAMBDA v, s : LET n == StackposOfItem(before, v, i)
                        IN  {IF n = -1 THEN s ELSE [s EXCEPT !.shown = Drop(@, n)]})

\* sendAddCreature: a creature that is not among the first is shown by sending the tile.
AddCreature(t, v, s, c) ==
  LET n == ClientIndexOfCreature(t, v, c)
  IN  IF n >= Limit THEN Described(t, v, s)
      ELSE {[r EXCEPT !.shown = Insert(@, n, Shown(t, c))] : r \in CheckKnown(t, v, s, c)}

\* sendRemoveTileCreature: by index, or by id.
RemoveCreatureAt(s, n, c) ==
  [s EXCEPT !.shown = IF n < Limit THEN Drop(@, n) ELSE DropCreature(@, c)]

\* sendUpdateTileCreature
UpdateCreature(t, v, s, c) ==
  {[r EXCEPT !.shown = Change(@, ClientIndexOfCreature(t, v, c), Shown(t, c))] : r \in CheckKnownAgain(t, v, s, c)}

----------------------------------------------------------------------------
(* The flags of a tile *)

Blocks(t, i) == i \in Door /\ i \notin t.open
SetFlags(t, i) == [t EXCEPT !.solid = @ \/ Blocks(t, i), !.burning = @ \/ i \in Field]
\* A flag of the first kind stays while another item has the property (the
\* item is excluded: it may still be on the tile); the second is just reset.
ResetFlags(t, i) ==
  [t EXCEPT !.solid = @ /\ (Blocks(t, i) => \E j \in Items(t) \ {i} : Blocks(t, j)),
            !.burning = @ /\ i \notin Field]

----------------------------------------------------------------------------
(* Items: Tile::addThing, removeThing, updateThing, replaceThing *)

Without(seq, x) == SelectSeq(seq, LAMBDA y : y # x)
Leave(t, i) ==
  IF i = t.ground THEN [t EXCEPT !.ground = None]
  ELSE [t EXCEPT !.tops = Without(@, i), !.downs = Without(@, i)]

\* postRemoveNotification: clients that may miss the last of their things get all.
PostRemove(w) == IF ThingCount(w.tile) > Limit - 2 THEN SendUpdateTile(w) ELSE w

\* Removing the ground sends index 0, as StackposOfItem says.
RemoveThing(w, i) ==
  SendRemoveTileThing([w EXCEPT !.tile = ResetFlags(Leave(@, i), i)], w.tile, i)

OnAdd(w, t, i) == SendAddTileItem([w EXCEPT !.tile = SetFlags(t, i)], i)
OnReplace(w, t, old, i) ==
  PostRemove(SendUpdateTileItem([w EXCEPT !.tile = SetFlags(ResetFlags(t, old), i)], i))

AddGround(w, i) ==
  LET t == [w.tile EXCEPT !.ground = i]
  IN  IF w.tile.ground = None THEN OnAdd(w, t, i) ELSE OnReplace(w, t, w.tile.ground, i)

\* The first of the items already there that is of the class.
Former(seq, class) == SelectInSeq(seq, LAMBDA x : x \in class)

AddTop(w, i) ==
  LET n == Former(w.tile.tops, Splash)
      w1 == IF i \in Splash /\ n > 0 THEN PostRemove(RemoveThing(w, w.tile.tops[n])) ELSE w
      k == SelectInSeq(w1.tile.tops, LAMBDA j : Order[i] <= Order[j])
  IN  OnAdd(w1, [w1.tile EXCEPT !.tops = IF k > 0 THEN InsertAt(@, k, i) ELSE Append(@, i)], i)

AddDown(w, i) ==
  LET n == Former(w.tile.downs, Field)
      w1 == PostRemove(RemoveThing(w, w.tile.downs[n]))
      Add(x) == OnAdd(x, [x.tile EXCEPT !.downs = <<i>> \o @], i)
  IN  IF i \in Field /\ n > 0
      THEN IF w.tile.downs[n] \in Fixed THEN w ELSE Add(w1)
      ELSE Add(w)

AddThing(i) ==
  /\ i \notin Items(tile)
  /\ Becomes(CASE i \in Ground -> AddGround(World, i)
               [] i \in Top -> AddTop(World, i)
               [] i \in Down -> AddDown(World, i))

RemoveItem(i) ==
  /\ i \in Items(tile)
  /\ Becomes(PostRemove(RemoveThing(World, i)))

\* transformItem to another kind of the same type: notify, then update.
UpdateThing(i) ==
  /\ i \in Items(tile) \cap Door
  /\ LET w == PostRemove(World)
         t == ResetFlags(w.tile, i)
         turned == [t EXCEPT !.open = IF i \in @ THEN @ \ {i} ELSE @ \cup {i}]
     IN  Becomes(SendUpdateTileItem([w EXCEPT !.tile = SetFlags(turned, i)], i))

\* transformItem to another type: a new item in the place of the old one.
ReplaceThing(i, j) ==
  /\ i \in Items(tile) /\ j \notin Items(tile)
  /\ \E class \in {Ground, Top, Down} : {i, j} \subseteq class
  /\ LET Turned(x) == IF x = i THEN j ELSE x
         t == [tile EXCEPT !.ground = Turned(@),
                           !.tops = [k \in DOMAIN @ |-> Turned(@[k])],
                           !.downs = [k \in DOMAIN @ |-> Turned(@[k])]]
     IN  Becomes(OnReplace(World, t, i, j))

----------------------------------------------------------------------------
(* Creatures *)

AddThingCreature(w, c) == [w EXCEPT !.tile.creatures = <<c>> \o @]
RemoveThingCreature(w, c) == [w EXCEPT !.tile.creatures = Without(@, c)]

\* Game::placeCreature: everybody around is sent the creature.
PlaceCreature(c) ==
  /\ ~Has(tile.creatures, c) /\ c \notin tile.hidden
  /\ LET w == AddThingCreature(World, c)
     IN  Becomes(Send(w, LAMBDA v, s : AddCreature(w.tile, v, s, c)))

\* Game::removeCreature: one who cannot see the creature gets index -1, so
\* that it is told an id it may not know.
RemoveCreature(c) ==
  /\ Has(tile.creatures, c)
  /\ LET w == RemoveThingCreature(World, c)
         Index(v) == IF CanSee(tile, v, c) THEN ClientIndexOfCreature(tile, v, c) ELSE Limit
     IN  Becomes(PostRemove(Send(w, LAMBDA v, s : {RemoveCreatureAt(s, Index(v), c)})))

\* Map::moveCreature to the tile, for those who see the creature: from a
\* place the viewer sees (the client finds the index) or from another one,
\* by a step or by a teleport.
MoveIn(c) ==
  /\ ~Has(tile.creatures, c)
  /\ LET w == AddThingCreature(World, c)
     IN  \E from \in [Viewer -> {"seen", "unseen", "teleport"}] :
           Becomes(Send(w, LAMBDA v, s :
             LET n == ClientIndexOfCreature(w.tile, v, c)
             IN  IF ~CanSee(w.tile, v, c) THEN {s}
                 ELSE CASE from[v] = "seen" -> {[s EXCEPT !.shown = Insert(@, n, Shown(w.tile, c))]}
                        [] from[v] = "unseen" -> AddCreature(w.tile, v, s, c)
                        [] from[v] = "teleport" ->
                             UNION {UpdateCreature(w.tile, v, r, c) : r \in AddCreature(w.tile, v, s, c)}))

\* Map::moveCreature away from it: each of the messages takes it off the tile.
MoveOut(c) ==
  /\ Has(tile.creatures, c)
  /\ LET w == RemoveThingCreature(World, c)
     IN  Becomes(PostRemove(Send(w, LAMBDA v, s :
           IF CanSee(tile, v, c) THEN {RemoveCreatureAt(s, ClientIndexOfCreature(tile, v, c), c)} ELSE {s})))

Hide(w, c) == [w EXCEPT !.tile.hidden = @ \cup {c}]
Unhide(w, c) == [w EXCEPT !.tile.hidden = @ \ {c}]
\* A client that showed the first of more things is not told the next one,
\* and what it shows may fall into disorder after that.
Vanish(w, c) ==
  Send(Hide(w, c), LAMBDA v, s :
    IF v \in Staff THEN {s}
    ELSE {[RemoveCreatureAt(s, ClientIndexOfCreature(w.tile, v, c), c)
             EXCEPT !.blurred = @ \/ Len(AllThings(w.tile, v)) > Limit]})
Appear(w, c) ==
  Send(Unhide(w, c), LAMBDA v, s : IF v \in Staff THEN {s} ELSE AddCreature(Unhide(w, c).tile, v, s, c))

\* sendCreatureChangeVisible for a monster, setGhostMode for a player.
SetVisible(c) ==
  IF Has(tile.creatures, c)
  THEN Becomes(IF c \in tile.hidden THEN Appear(World, c) ELSE Vanish(World, c))
  ELSE Becomes(IF c \in tile.hidden THEN Unhide(World, c) ELSE Hide(World, c))

\* refreshInClient sends the creature to those who cannot see it as well:
\* it covers whatever is shown at its index.
RefreshInClient(c) ==
  /\ Has(tile.creatures, c)
  /\ Becomes(Send(World, LAMBDA v, s :
       {[r EXCEPT !.blurred = @ \/ ~CanSee(tile, v, c)] : r \in UpdateCreature(tile, v, s, c)}))

----------------------------------------------------------------------------
(* Viewers *)

\* A viewer comes near: GetMapDescription.  Far away it is told nothing.
Approach(v) ==
  /\ ~view[v].sees
  /\ \E s \in Described(tile, v, [view[v] EXCEPT !.sees = TRUE]) : view' = [view EXCEPT ![v] = s]
  /\ UNCHANGED tile

GoAway(v) ==
  /\ view[v].sees
  /\ view' = [view EXCEPT ![v] = [@ EXCEPT !.sees = FALSE, !.shown = <<>>, !.blurred = FALSE]]
  /\ UNCHANGED tile

\* ProtocolGame::fastRelog: the protocol starts again for another character
\* and forgets whom its client knows; the client keeps them.
FastRelog(v) ==
  /\ ~view[v].sees
  /\ view' = [view EXCEPT ![v].known = {}]
  /\ UNCHANGED tile

TileInit ==
  /\ tile = [ground |-> None, tops |-> <<>>, creatures |-> <<>>, downs |-> <<>>,
             hidden |-> {}, open |-> {}, solid |-> FALSE, burning |-> FALSE]
  /\ view = [v \in Viewer |-> [sees |-> TRUE, shown |-> <<>>, known |-> {}, remembered |-> {},
                               blurred |-> FALSE, garbled |-> FALSE]]

TileNext ==
  \/ \E i \in Item : AddThing(i) \/ RemoveItem(i) \/ UpdateThing(i)
  \/ \E i, j \in Item : ReplaceThing(i, j)
  \/ \E c \in Creature : \/ PlaceCreature(c) \/ RemoveCreature(c) \/ MoveIn(c) \/ MoveOut(c)
                         \/ SetVisible(c) \/ RefreshInClient(c)
  \/ \E v \in Viewer : Approach(v) \/ GoAway(v) \/ FastRelog(v)

TileSpec == TileInit /\ [][TileNext]_tileVars

----------------------------------------------------------------------------
(* What is checked *)

\* Every client shows the things that are on the tile, in their order, none
\* that has left and none in the place of another (the indexes of tile.cpp
\* and the messages of protocolgame.cpp).  A client is blurred, until it gets
\* the whole tile again, by a creature that vanishes while more things are
\* there than it shows, or that is refreshed for one who cannot see it.
PicturesExact ==
  \A v \in Viewer :
    view[v].sees /\ ~view[v].blurred => view[v].shown = TileDescription(tile, v)

\* Whom the server names by id only, the client remembers (checkCreatureAsKnown),
\* unless an id without a value made it forget.
KnownIsRemembered ==
  \A v \in Viewer : ~view[v].garbled => view[v].known \subseteq view[v].remembered

\* The flags say what is on the tile: solid exactly while something blocks,
\* burning only while a field is there (setTileFlags, resetTileFlags).
FlagsExact ==
  /\ tile.solid <=> \E i \in Items(tile) : Blocks(tile, i)
  /\ tile.burning => Items(tile) \cap Field # {}

ViewsSound == PicturesExact /\ KnownIsRemembered /\ FlagsExact
=============================================================================
