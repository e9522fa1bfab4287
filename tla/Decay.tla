------------------------------- MODULE Decay -------------------------------
(***************************************************************************)
(* Decaying items (game.cpp: startDecay, internalDecayItem, checkDecay and *)
(* cleanup; item.cpp: setID, canDecay, clone).                             *)
(*                                                                         *)
(* An item whose time runs is in a list: first in toDecayItems, after the  *)
(* next cleanup in one of four buckets.  Every 250 ms checkDecay visits    *)
(* one bucket and takes up to a second off each item it finds there.  An   *)
(* entry holds a reference on its item; the list does not say how often an *)
(* item is in it, and nothing takes an item out of it but a visit.         *)
(*                                                                         *)
(* Lists are bags here: `in[b]` counts the entries of an item in bucket b. *)
(* The order of the items within a bucket decides nothing, since a visit   *)
(* touches one item.  Times are in milliseconds.                           *)
(*                                                                         *)
(* The dispatcher runs checkDecay as one task; the visits of a round are   *)
(* steps of their own here, and no other action is taken until the round   *)
(* has ended.                                                              *)
(***************************************************************************)
EXTENDS Integers, FiniteSetsExt

CONSTANTS
    Item,       \* objects of class Item
    Kind,       \* item types
    Time,       \* [Kind -> Nat]: decayTime in ms, 0 for none
    To,         \* [Kind -> Kind \cup {Gone, Never}]: decayTo
    Stop,       \* kinds that keep their remaining time: stopTime
    Worn,       \* [Kind -> Kind]: transformEquipTo and transformDeEquipTo
    Gone,       \* decayTo = 0
    Never,      \* decayTo < 0
    Left,       \* remaining times a loaded item may have
    MaxRefs     \* bound: items there are, and references to them, before a script adds one

Interval == 250                     \* EVENT_DECAYINTERVAL
Bucket   == 0..3                    \* EVENT_DECAY_BUCKETS
Round    == Interval * 4
NoTime   == -1                      \* no attribute ITEM_ATTRIBUTE_DURATION

ASSUME KindAssumption ==
    /\ Time \in [Kind -> Nat]
    /\ To \in [Kind -> Kind \cup {Gone, Never}]
    /\ Worn \in [Kind -> Kind]
    /\ Stop \subseteq Kind
    /\ Left \subseteq Nat \ {0}
    /\ MaxRefs \in Nat
    /\ Gone \notin Kind /\ Never \notin Kind /\ Gone # Never

\* The item types of data/items/items.xml: one that keeps its time does not decay,
\* and nothing decays to it.
ASSUME DataAssumption ==
    /\ \A k \in Stop : To[k] = Never
    /\ \A k \in Kind : To[k] \notin Stop

VARIABLES
    item,       \* [Item -> record], see Free
    last,       \* lastBucket
    todo,       \* entries of the bucket checkDecay has still to visit, per item
    busy        \* checkDecay is running

decayVars == <<item, last, todo, busy>>

\* An object of the pool: not allocated.
\*   in, fresh   entries in the buckets and in toDecayItems
\*   release     entries in ToReleaseItems
\*   due         history: time until it should decay, since it was started or set
\*   twice       history: it was in a list when it was last listed
\*   stuck       history: it has decayed to a kind without a time since it was listed
Free == [kind |-> Never, placed |-> FALSE, left |-> NoTime, marked |-> FALSE,
         refs |-> 0, in |-> [b \in Bucket |-> 0], fresh |-> 0, release |-> 0,
         due |-> 0, twice |-> FALSE, stuck |-> FALSE]

Entries(i) == i.in[0] + i.in[1] + i.in[2] + i.in[3] + i.fresh

Duration(i) == IF i.left = NoTime THEN 0 ELSE i.left

CanDecay(i) ==
    /\ i.placed
    /\ To[i.kind] # Never
    /\ i.left # 0
    /\ i.left = NoTime => Time[i.kind] # 0

-----------------------------------------------------------------------------
(* What the functions do to one item.                                      *)

\* incrementReferenceCounter, setDecaying(DECAYING_TRUE), push_front
Listed(i) ==
    [i EXCEPT !.refs = @ + 1, !.marked = TRUE, !.fresh = @ + 1,
              !.due = i.left,
              !.twice = Entries(i) > 0, !.stuck = FALSE]

\* CreateItem: setDefaultDuration, and the reference of whoever holds it
Created(k) ==
    [Free EXCEPT !.kind = k, !.refs = 1, !.placed = TRUE,
                 !.left = IF Time[k] = 0 THEN NoTime ELSE Time[k]]

\* internalAddItem, internalMoveItem and transformItem, when an item is added
Tended(i) == IF Duration(i) > 0 /\ ~i.marked THEN Listed(i) ELSE i

\* Mutant: the new kind takes over that the old one was decaying.
SetIDMarked(i, k) ==
    [i EXCEPT !.kind = k, !.left = IF Time[k] > 0 THEN Time[k] ELSE @]

SetID(i, k) ==
    LET bare  == Time[k] = 0 /\ k \notin Stop /\ To[k] = Never
        fresh == Time[k] > 0 /\ (i.kind \notin Stop \/ i.left = NoTime)
    IN  [i EXCEPT !.kind = k,
                  !.marked = @ /\ ~bare /\ ~fresh,
                  !.left = IF bare THEN NoTime ELSE IF fresh THEN Time[k] ELSE @,
                  !.due = IF fresh THEN Time[k] ELSE @]

Released(i) == [i EXCEPT !.release = @ + 1]

\* internalRemoveItem: decayItems->remove is never reached, since an item that
\* is removed cannot decay
Removed(i) == Released([i EXCEPT !.placed = FALSE])

\* startDecay.  An item without time left would decay at once, but canDecay excludes
\* that: what has no time, of its own or of its kind, cannot decay.
StartDecay(i) ==
    CASE ~CanDecay(i) \/ i.marked -> i
      [] i.left > 0               -> Listed(i)
      [] OTHER                    -> i

\* A kind that should decay, and has no time to.
Timeless(k) == Time[k] = 0 /\ To[k] # Never

\* internalDecayItem: to a kind of the same class, or removed
Decayed(i) ==
    IF To[i.kind] = Gone THEN Removed(i)
    ELSE StartDecay([SetID(i, To[i.kind]) EXCEPT !.stuck = @ \/ Timeless(To[i.kind])])

\* cleanup, the part for one item
Cleaned(i, b) ==
    LET to == IF i.left >= Round THEN b ELSE (b + 1 + Duration(i) \div 1000) % 4
        j  == [i EXCEPT !.refs = @ - i.release, !.release = 0,
                        !.in[to] = @ + i.fresh, !.fresh = 0]
    IN  IF j.refs = 0 THEN Free ELSE j

-----------------------------------------------------------------------------
DecayInit ==
    /\ item = [i \in Item |-> Free]
    /\ last = 0
    /\ todo = [i \in Item |-> 0]
    /\ busy = FALSE

Change(i, new) ==
    /\ ~busy
    /\ item' = [item EXCEPT ![i] = new]
    /\ UNCHANGED <<last, todo, busy>>

Allocated(i) == item[i].kind \in Kind
Used == MapThenSumSet(LAMBDA i : IF Allocated(i) THEN item[i].refs + 1 ELSE 0, Item)
Quiet == Used < MaxRefs

\* An item is made and put somewhere.
Create(i, k) ==
    /\ ~Allocated(i) /\ Quiet
    /\ Change(i, Tended(Created(k)))

\* An item of a map, a house or a player: its decaying state was stored and is
\* read as DECAYING_PENDING, which only startDecaying makes run.
Load(i, k, d) ==
    /\ ~Allocated(i) /\ Quiet
    /\ Change(i, StartDecay([Created(k) EXCEPT !.left = d]))

\* It is moved as a whole, or added again.
Move(i) ==
    /\ item[i].placed
    /\ Change(i, Tended(item[i]))

\* A part of a stack is moved: clone copies the attributes and lists the copy.
Split(i, j) ==
    LET copy == [Created(item[i].kind) EXCEPT !.left = item[i].left, !.marked = item[i].marked,
                                              !.stuck = item[i].stuck]
    IN  /\ ~busy /\ item[i].placed /\ ~Allocated(j) /\ Quiet
        /\ item' = [item EXCEPT ![j] = IF Duration(copy) > 0 THEN Listed(copy) ELSE copy]
        /\ UNCHANGED <<last, todo, busy>>

\* A script transforms an item to a kind of the same class, and may let it decay.
Transform(i, k) ==
    /\ item[i].placed /\ item[i].kind # k
    /\ Used <= MaxRefs
    /\ Change(i, SetID(item[i], k)) \/ Change(i, StartDecay(SetID(item[i], k)))

\* MoveEvent::EquipItem and DeEquipItem
Equip(i) ==
    /\ item[i].placed /\ item[i].kind # Worn[item[i].kind]
    /\ Used <= MaxRefs
    /\ Change(i, StartDecay(SetID(item[i], Worn[item[i].kind])))

\* transformItem to a kind of another class: a new object takes its place.
Replace(i, j, k) ==
    /\ ~busy /\ item[i].placed /\ ~Allocated(j) /\ Quiet
    /\ item' = [item EXCEPT ![i] = Removed(@), ![j] = Tended(Created(k))]
    /\ UNCHANGED <<last, todo, busy>>

RemoveItem(i) ==
    /\ item[i].placed
    /\ Change(i, Removed(item[i]))

\* cleanup, called by checkCreatures and by the spawns as well
Cleanup ==
    /\ ~busy
    /\ item' = [i \in Item |-> Cleaned(item[i], last)]
    /\ UNCHANGED <<last, todo, busy>>

-----------------------------------------------------------------------------
(* checkDecay *)

Here == (last + 1) % 4

BeginRound ==
    /\ ~busy
    /\ busy' = TRUE
    /\ todo' = [i \in Item |-> item[i].in[Here]]
    /\ item' = [i \in Item |-> IF Allocated(i) /\ item[i].due > -Round
                               THEN [item[i] EXCEPT !.due = @ - Interval] ELSE item[i]]
    /\ UNCHANGED last

\* An entry of i in bucket b is visited: it is erased, moves to another bucket, or
\* stays for the next time.
Visited(i, b) ==
    LET left == IF Duration(i) < Round THEN 0 ELSE Duration(i) - Round
        less == [i EXCEPT !.left = left]
        off  == [less EXCEPT !.in[b] = @ - 1]
        next == (b + (left + Interval \div 2) \div 1000) % 4
    IN  CASE ~CanDecay(i) ->
               Released([i EXCEPT !.marked = FALSE, !.in[b] = @ - 1])
          [] CanDecay(i) /\ (left = 0 \/ (left < Round /\ next = b)) ->
               Released(Decayed(off))
          [] CanDecay(i) /\ left > 0 /\ left < Round /\ next # b ->
               [off EXCEPT !.in[next] = @ + 1]
          [] OTHER -> less

Visit(i) ==
    /\ busy /\ todo[i] > 0
    /\ todo' = [todo EXCEPT ![i] = @ - 1]
    /\ item' = [item EXCEPT ![i] = Visited(@, Here)]
    /\ UNCHANGED <<last, busy>>

EndRound ==
    /\ busy /\ \A i \in Item : todo[i] = 0
    /\ busy' = FALSE
    /\ last' = Here
    /\ item' = [i \in Item |-> Cleaned(item[i], Here)]
    /\ UNCHANGED todo

DecayNext ==
    \/ \E i \in Item, k \in Kind : Create(i, k) \/ Transform(i, k)
    \/ \E i \in Item, k \in Kind, d \in Left : Load(i, k, d)
    \/ \E i \in Item : Move(i) \/ Equip(i) \/ RemoveItem(i) \/ Visit(i)
    \/ \E i, j \in Item : Split(i, j)
    \/ \E i, j \in Item, k \in Kind : Replace(i, j, k)
    \/ Cleanup \/ BeginRound \/ EndRound

DecaySpec == DecayInit /\ [][DecayNext]_decayVars

-----------------------------------------------------------------------------
(* Properties *)

\* An item has one reference for its place and one for every entry in a list;
\* an object that was freed is in none (checkDecay would use it after free).
RefsExact ==
    \A i \in Item :
        item[i].refs = Entries(item[i]) + item[i].release + (IF item[i].placed THEN 1 ELSE 0)

\* An item marked as decaying is in a list: no function would list it again, and
\* it would keep its time for ever, as one that is stuck does.  While it is listed
\* once, it is never overdue by two intervals; the one in which it was listed
\* counts as a whole here.
MarkedIsTended ==
    \A i \in Item : item[i].placed /\ item[i].marked /\ ~item[i].stuck =>
        /\ Entries(item[i]) > 0
        /\ ~item[i].twice => item[i].due > -2 * Interval

\* Both: an item is freed when nothing refers to it, and not forgotten before.
DecaySound == RefsExact /\ MarkedIsTended
=============================================================================
