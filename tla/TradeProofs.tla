------------------------------ MODULE TradeProofs ------------------------------
(***************************************************************************)
(* What Trade and Market promise, proved for any number of players, items  *)
(* and offers.                                                             *)
(*                                                                         *)
(* In a trade two arguments meet.  The first is about the fields of the    *)
(* players: the two sides of a trade name each other, and Game::tradeItems *)
(* has just what they offer.  The second is about containers: an item      *)
(* moved from one place to another changes what is around the items inside *)
(* it, and around no others; so an offer that is not disturbed holds what  *)
(* it held.                                                                *)
(*                                                                         *)
(* The market is a matter of books: a sum is the number of pieces it is    *)
(* made of, so that what one step moves can be counted, and the rows that  *)
(* are worked off late are of offers that are the same but for what was    *)
(* accepted meanwhile.                                                     *)
(***************************************************************************)
EXTENDS Trade, Market, FiniteSetTheorems, WellFoundedInduction, TLAPS

-------------------------------------------------------------------------------
(* The containers around an item *)

\* Places of different kinds, or of different containers and slots, differ.
LEMMA Places ==
  ASSUME NEW c, NEW d, NEW p, NEW s, NEW q, NEW t
  PROVE  /\ In(c) # Floor /\ In(c) # InSlot(p, s) /\ Floor # InSlot(p, s)
         /\ In(c) = In(d) => c = d
         /\ InSlot(p, s) = InSlot(q, t) => p = q /\ s = t
BY DEF In, InSlot, Floor

\* Around is the least set with the parent of i and of each of its members.
LEMMA AroundLeast ==
  ASSUME NEW at, NEW i, NEW S \in SUBSET Container,
         \A j \in S \cup {i} : \A d \in Container : at[j] = In(d) => d \in S
  PROVE  Around(at, i) \subseteq S
BY DEF Around

LEMMA AroundContainers ==
  ASSUME NEW at, NEW i
  PROVE  Around(at, i) \subseteq Container
BY DEF Around

LEMMA AroundParent ==
  ASSUME NEW at, NEW i, NEW c \in Container, at[i] = In(c)
  PROVE  c \in Around(at, i)
BY DEF Around

LEMMA AroundUp ==
  ASSUME NEW at, NEW i, NEW d \in Around(at, i), NEW c \in Container, at[d] = In(c)
  PROVE  c \in Around(at, i)
<1> SUFFICES ASSUME NEW S \in SUBSET Container,
                    \A j \in S \cup {i} : \A e \in Container : at[j] = In(e) => e \in S
             PROVE  c \in S
  BY DEF Around
<1>1. d \in S
  BY AroundLeast
<1>2. QED BY <1>1

\* What is around a container around i is around i.
LEMMA AroundTransitive ==
  ASSUME NEW at, NEW i, NEW c \in Around(at, i)
  PROVE  Around(at, c) \subseteq Around(at, i)
<1>1. Around(at, i) \in SUBSET Container
  BY AroundContainers
<1>2. \A j \in Around(at, i) \cup {c} : \A d \in Container : at[j] = In(d) => d \in Around(at, i)
  BY AroundUp
<1>3. QED BY <1>1, <1>2, AroundLeast

\* The containers around what is in c: c and those around it.
LEMMA AroundInside ==
  ASSUME NEW at, NEW i, NEW c \in Container, at[i] = In(c)
  PROVE  Around(at, i) = {c} \cup Around(at, c)
<1> DEFINE S == {c} \cup Around(at, c)
<1>1. S \in SUBSET Container
  BY AroundContainers
<1>2. ASSUME NEW j \in S \cup {i}, NEW d \in Container, at[j] = In(d)
      PROVE  d \in S
  <2>1. CASE j \in Around(at, c)
    BY <2>1, <1>2, AroundUp
  <2>2. CASE j = c
    BY <2>2, <1>2, AroundParent
  <2>3. CASE j = i
    BY <2>3, <1>2, Places
  <2>4. QED BY <1>2, <2>1, <2>2, <2>3
<1>3. Around(at, i) \subseteq S
  BY <1>1, <1>2, AroundLeast
<1>4. c \in Around(at, i)
  BY AroundParent
<1>5. QED BY <1>3, <1>4, AroundTransitive

LEMMA AroundNothing ==
  ASSUME NEW at, NEW i, \A c \in Container : at[i] # In(c)
  PROVE  Around(at, i) = {}
<1>1. {} \in SUBSET Container
  OBVIOUS
<1>2. QED BY <1>1, AroundLeast

\* The containers around an item are in one another, one by one.
LEMMA AroundChain ==
  ASSUME NEW at, NEW i, NEW c \in Around(at, i), NEW d \in Around(at, i)
  PROVE  c = d \/ c \in Around(at, d) \/ d \in Around(at, c)
<1> DEFINE S == {e \in Around(at, i) : e = c \/ c \in Around(at, e) \/ e \in Around(at, c)}
<1>1. S \in SUBSET Container
  BY AroundContainers
<1>2. ASSUME NEW j \in S \cup {i}, NEW e \in Container, at[j] = In(e)
      PROVE  e \in S
  <2>1. e \in Around(at, i)
    BY <1>2, AroundUp, AroundParent
  <2>2. CASE j = c \/ j \in Around(at, c)
    <3>1. e \in Around(at, c)
      BY <2>2, <1>2, AroundUp, AroundParent
    <3>2. QED BY <2>1, <3>1
  <2>3. CASE c \in Around(at, j)
    <3>1. c \in {e} \cup Around(at, e)
      BY <1>2, <2>3, AroundInside
    <3>2. QED BY <2>1, <3>1
  <2>4. QED BY <1>2, <2>2, <2>3
<1>3. Around(at, i) \subseteq S
  BY <1>1, <1>2, AroundLeast
<1>4. QED BY <1>3

-------------------------------------------------------------------------------
(* Moves *)

\* Two arrangements that differ at most in where i is.
Differ(at, to, i) == \A k \in Item \ {i} : to[k] = at[k]

\* What is around an item that is neither i nor inside i stays.
LEMMA SameAround ==
  ASSUME NEW at, NEW at2, NEW i, Differ(at, at2, i),
         NEW j \in Item, j # i, i \notin Around(at, j)
  PROVE  Around(at2, j) = Around(at, j)
<1>1. Around(at, j) \in SUBSET Container /\ Around(at2, j) \in SUBSET Container /\ Container \subseteq Item
  BY AroundContainers, TradeAssumption
<1>2. ASSUME NEW k \in Around(at, j) \cup {j}
      PROVE  at2[k] = at[k]
  BY <1>1 DEF Differ
<1>3. \A k \in Around(at, j) \cup {j} : \A d \in Container : at2[k] = In(d) => d \in Around(at, j)
  BY <1>2, AroundUp, AroundParent
<1>4. Around(at2, j) \subseteq Around(at, j)
  BY <1>1, <1>3, AroundLeast
<1>5. \A k \in Around(at2, j) \cup {j} : \A d \in Container : at[k] = In(d) => d \in Around(at2, j)
  BY <1>2, <1>4, AroundUp, AroundParent
<1>6. Around(at, j) \subseteq Around(at2, j)
  <2> DEFINE S == Around(at, j) \cap Around(at2, j)
  <2>1. \A k \in S \cup {j} : \A d \in Container : at[k] = In(d) => d \in S
    BY <1>5, AroundUp, AroundParent
  <2>2. S \in SUBSET Container
    BY <1>1
  <2> HIDE DEF S
  <2>3. Around(at, j) \subseteq S
    BY <2>1, <2>2, AroundLeast
  <2>4. QED BY <2>3 DEF S
<1>7. QED BY <1>4, <1>6

\* What is around j after the move: what was, and what is around the new place.
LEMMA AroundGrows ==
  ASSUME NEW at, NEW at2, NEW i, Differ(at, at2, i),
         NEW T \in SUBSET Container,
         \A d \in Container : at2[i] = In(d) => d \in T,
         \A k \in T : \A d \in Container : at[k] = In(d) => d \in T,
         i \notin T,
         NEW j \in Item
  PROVE  Around(at2, j) \subseteq Around(at, j) \cup T
<1> DEFINE S == Around(at, j) \cup T
<1>1. S \in SUBSET Container
  BY AroundContainers
<1>2. Container \subseteq Item
  BY TradeAssumption
<1>3. ASSUME NEW k \in S \cup {j}, NEW d \in Container, at2[k] = In(d)
      PROVE  d \in S
  <2>1. CASE k = i
    BY <2>1, <1>3
  <2>2. CASE k # i /\ k \in T
    BY <2>2, <1>2, <1>3 DEF Differ
  <2>3. CASE k # i /\ k \in Around(at, j) \cup {j}
    <3>1. at[k] = In(d)
      BY <2>3, <1>1, <1>2, <1>3 DEF Differ
    <3>2. QED BY <2>3, <3>1, <1>3, AroundUp, AroundParent
  <2>4. QED BY <1>3, <2>1, <2>2, <2>3
<1> HIDE DEF S
<1>4. Around(at2, j) \subseteq S
  BY <1>1, <1>3, AroundLeast
<1>5. QED BY <1>4 DEF S

Acyclic(at) == \A i \in Item : i \notin Around(at, i)

\* A place that can take i: on the floor, a free slot, or a container with room
\* that is not in i.
Takes(at, i, to) ==
  \/ to = Floor
  \/ \E p \in Player, s \in Slot : to = InSlot(p, s) /\ \A j \in Item : at[j] # to
  \/ \E c \in Container : /\ to = In(c) /\ c # i /\ i \notin Around(at, c)
                          /\ Cardinality(Inside(at, c)) < Capacity

\* The containers around a place that can take i, i not among them.
LEMMA AroundPlace ==
  ASSUME NEW at, NEW i, NEW to, Takes(at, i, to)
  PROVE  \E T \in SUBSET Container :
           /\ i \notin T
           /\ \A d \in Container : to = In(d) => d \in T
           /\ \A k \in T : \A d \in Container : at[k] = In(d) => d \in T
<1>1. CASE \E c \in Container : to = In(c) /\ c # i /\ i \notin Around(at, c)
  <2>1. PICK c \in Container : to = In(c) /\ c # i /\ i \notin Around(at, c)
    BY <1>1
  <2> DEFINE T == {c} \cup Around(at, c)
  <2>2. T \in SUBSET Container /\ i \notin T
    BY <2>1, AroundContainers
  <2>3. \A d \in Container : to = In(d) => d = c
    BY <2>1, Places
  <2>4. \A k \in T : \A d \in Container : at[k] = In(d) => d \in T
    BY AroundUp, AroundParent
  <2>5. QED BY <2>2, <2>3, <2>4
<1>2. CASE \A c \in Container : to # In(c)
  <2>1. {} \in SUBSET Container /\ i \notin {}
    OBVIOUS
  <2>2. QED BY <1>2, <2>1
<1>3. QED BY <1>1, <1>2, Places DEF Takes

LEMMA MoveAcyclic ==
  ASSUME NEW at, NEW at2, NEW i \in Item, Differ(at, at2, i), Acyclic(at), Takes(at, i, at2[i])
  PROVE  Acyclic(at2)
<1> SUFFICES ASSUME NEW j \in Item PROVE j \notin Around(at2, j)
  BY DEF Acyclic
<1>1. PICK T \in SUBSET Container :
           /\ i \notin T
           /\ \A d \in Container : at2[i] = In(d) => d \in T
           /\ \A k \in T : \A d \in Container : at[k] = In(d) => d \in T
  BY AroundPlace
<1>2. CASE j # i /\ i \notin Around(at, j)
  BY <1>2, SameAround DEF Acyclic
<1>3. CASE j = i \/ i \in Around(at, j)
  <2>1. Around(at2, j) \subseteq Around(at, j) \cup T
    BY <1>1, AroundGrows
  <2>2. ASSUME j \in T PROVE FALSE
    <3>1. Around(at, j) \subseteq T
      BY <1>1, <2>2, AroundLeast
    <3>2. QED BY <1>1, <1>3, <2>2, <3>1
  <2>3. QED BY <2>1, <2>2 DEF Acyclic
<1>4. QED BY <1>2, <1>3

InRoom(at) == \A c \in Container : Cardinality(Inside(at, c)) <= Capacity

Alone(at) ==
  \A i, j \in Item, p \in Player, s \in Slot :
    i # j => ~(at[i] = InSlot(p, s) /\ at[j] = InSlot(p, s))

TreeOf(at) == Acyclic(at) /\ InRoom(at) /\ Alone(at)

\* A move to a place that can take the item keeps the tree a tree.
LEMMA MoveKeepsTree ==
  ASSUME NEW at, NEW at2, NEW i \in Item, Differ(at, at2, i), NEW to, at2[i] = to,
         TreeOf(at), Takes(at, i, to)
  PROVE  TreeOf(at2)
<1>1. at2[i] = to /\ Differ(at, at2, i)
  OBVIOUS
<1>2. Acyclic(at2)
  BY <1>1, MoveAcyclic DEF TreeOf
<1>3. ASSUME NEW c \in Container
      PROVE  Cardinality(Inside(at2, c)) <= Capacity
  <2>1. IsFiniteSet(Inside(at, c)) /\ IsFiniteSet(Inside(at2, c))
    BY TradeAssumption, FS_Subset DEF Inside
  <2>2. CASE to = In(c) /\ Cardinality(Inside(at, c)) < Capacity
    <3>1. Inside(at2, c) \subseteq Inside(at, c) \cup {i}
      BY <1>1 DEF Inside, Differ
    <3>2. /\ IsFiniteSet(Inside(at, c) \cup {i})
          /\ Cardinality(Inside(at, c) \cup {i}) <= Cardinality(Inside(at, c)) + 1
      <4> DEFINE S == Inside(at, c)
      <4>1. Cardinality(S) \in Nat
        BY <2>1, FS_CardinalityType
      <4>2. IsFiniteSet(S \cup {i})
        BY <2>1, FS_AddElement
      <4>3. CASE i \in S
        BY <4>1, <4>2, <4>3, S \cup {i} = S
      <4>4. CASE i \notin S
        BY <2>1, <4>1, <4>2, <4>4, FS_AddElement
      <4>5. QED BY <4>3, <4>4
    <3>3. Cardinality(Inside(at2, c)) <= Cardinality(Inside(at, c) \cup {i})
      BY <3>1, <3>2, FS_Subset
    <3>4. QED BY <2>1, <2>2, <3>2, <3>3, FS_CardinalityType, TradeAssumption
  <2>3. CASE to # In(c)
    <3>1. Inside(at2, c) \subseteq Inside(at, c)
      BY <1>1, <2>3 DEF Inside, Differ
    <3>2. Cardinality(Inside(at2, c)) <= Cardinality(Inside(at, c))
      BY <2>1, <3>1, FS_Subset
    <3>3. QED BY <2>1, <3>2, FS_CardinalityType, TradeAssumption DEF TreeOf, InRoom
  <2>4. QED BY <2>2, <2>3, Places DEF Takes
<1>4. Alone(at2)
  <2> SUFFICES ASSUME NEW j \in Item, NEW k \in Item, NEW p \in Player, NEW s \in Slot, j # k,
                      at2[j] = InSlot(p, s), at2[k] = InSlot(p, s)
               PROVE  FALSE
    BY DEF Alone
  <2>1. CASE j # i /\ k # i
    BY <1>1, <2>1 DEF TreeOf, Alone, Differ
  <2>2. CASE j = i \/ k = i
    <3>1. to = InSlot(p, s) /\ \E l \in Item \ {i} : at[l] = to
      BY <1>1, <2>2 DEF Differ
    <3>2. QED BY <3>1, Places DEF Takes
  <2>3. QED BY <2>1, <2>2
<1>5. QED BY <1>1, <1>2, <1>3, <1>4 DEF TreeOf, InRoom

\* i is neither t, nor inside t, nor around t, before and after its move.
Quiet(at, at2, i, t) ==
  /\ i # t /\ Differ(at, at2, i)
  /\ t \notin Around(at, i) /\ i \notin Around(at, t) /\ t \notin Around(at2, i)

\* A quiet move leaves alone what t holds and who has it.
LEMMA QuietMove ==
  ASSUME NEW at, NEW at2, NEW i \in Item, NEW t \in Item, Quiet(at, at2, i, t)
  PROVE  /\ Around(at2, t) = Around(at, t)
         /\ Content(at2, t) = Content(at, t)
         /\ \A p : Owns(at2, p, t) <=> Owns(at, p, t)
<1>1. Around(at2, t) = Around(at, t)
  BY SameAround DEF Quiet
<1>2. ASSUME NEW j \in Item
      PROVE  t \in Around(at2, j) <=> t \in Around(at, j)
  <2>1. CASE j = i
    BY <2>1 DEF Quiet
  <2>2. CASE j # i /\ i \notin Around(at, j)
    BY <2>2, SameAround DEF Quiet
  <2>3. CASE j # i /\ i \in Around(at, j)
    <3>1. t \notin Around(at, j)
      BY <2>3, AroundChain DEF Quiet
    <3>2. CASE i \in Around(at2, j)
      BY <1>1, <3>1, <3>2, AroundChain DEF Quiet
    <3>3. CASE i \notin Around(at2, j)
      <4>1. Differ(at2, at, i)
        BY DEF Quiet, Differ
      <4>2. QED BY <2>3, <3>1, <3>3, <4>1, SameAround
    <3>4. QED BY <3>2, <3>3
  <2>4. QED BY <2>1, <2>2, <2>3
<1>3. \A k \in {t} \cup Around(at, t) : at2[k] = at[k]
  BY AroundContainers, TradeAssumption DEF Quiet, Differ
<1>4. QED BY <1>1, <1>2, <1>3 DEF Content, Holds, Owns

\* Who has a container has what is in it, and the other way round.
LEMMA OwnsParent ==
  ASSUME NEW at, NEW i, NEW c \in Container, at[i] = In(c), NEW p
  PROVE  Owns(at, p, i) <=> Owns(at, p, c)
<1>1. Around(at, i) = {c} \cup Around(at, c)
  BY AroundInside
<1>2. \A q, s : at[i] # InSlot(q, s)
  BY Places
<1>3. QED BY <1>1, <1>2 DEF Owns

\* Who has what is inside a container has the container.
LEMMA OwnsAround ==
  ASSUME NEW at, NEW i, NEW t \in Around(at, i), NEW p, Owns(at, p, i)
  PROVE  Owns(at, p, t)
<1>1. PICK j \in {i} \cup Around(at, i) : \E s \in Slot : at[j] = InSlot(p, s)
  BY DEF Owns
<1>2. Around(at, j) = {}
  BY <1>1, AroundNothing, Places
<1>3. j \in {t} \cup Around(at, t)
  BY <1>1, <1>2, AroundChain
<1>4. QED BY <1>1, <1>3 DEF Owns

\* A destination with p takes the item, and p has what is put there.
LEMMA DestinationTakes ==
  ASSUME NEW at, NEW p \in Player, NEW i \in Item, NEW to \in Destination(at, p, i)
  PROVE  /\ to \in Place /\ Takes(at, i, to)
         /\ \/ \E s \in Slot : to = InSlot(p, s)
            \/ \E c \in Container : to = In(c) /\ Owns(at, p, c) /\ c # i /\ i \notin Around(at, c)
<1>1. CASE EmptySlots(at, p, i) # {}
  BY <1>1 DEF Destination, EmptySlots, Takes, Place
<1>2. CASE EmptySlots(at, p, i) = {}
  BY <1>2 DEF Destination, RoomIn, Takes, Place, Holds
<1>3. QED BY <1>1, <1>2

-------------------------------------------------------------------------------
(* The invariant, and what closing a trade keeps of it *)

\* Who has only been asked offers nothing.
Unanswered == \A p \in Player : tradeState[p] = "acknowledge" => tradeItem[p] = None

\* OfferedOnce and OfferUnchanged are what makes a move that disturbs no offer
\* harmless; TwoSides and Unanswered are what makes closing and finishing a
\* trade set the fields of all that have part in it.
TradeInv ==
  TypeOK /\ TwoSides /\ Unanswered /\ TradeItemsExact /\ Tree /\ OfferedOnce /\ OfferUnchanged

\* What a step may do to the places of items without touching the offer t.
Keeps(at, at2, t) ==
  /\ Around(at2, t) = Around(at, t)
  /\ Content(at2, t) = Content(at, t)
  /\ \A p : Owns(at2, p, t) <=> Owns(at, p, t)

LEMMA TreeIsTreeOf == Tree <=> TreeOf(place)
BY DEF Tree, TreeOf, Acyclic, InRoom, Alone

LEMMA TreeIsTreeOfNext == Tree' <=> TreeOf(place')
BY DEF Tree, TreeOf, Acyclic, InRoom, Alone, Around, Inside, In

\* Who is not in a trade that is closed has a partner who is not.
LEMMA ClosingBoth ==
  ASSUME TypeOK, TwoSides, NEW P \in SUBSET Player
  PROVE  /\ Closing(P) \in SUBSET Player
         /\ \A q \in Player \ Closing(P) :
              tradePartner[q] # None => tradePartner[q] \in Player \ Closing(P)
<1>1. Closing(P) \in SUBSET Player
  BY DEF Closing, TypeOK
<1>2. ASSUME NEW q \in Player \ Closing(P), tradePartner[q] # None
      PROVE  tradePartner[q] \in Player \ Closing(P)
  <2>1. tradePartner[q] \in Player /\ tradePartner[tradePartner[q]] = q
    BY <1>2 DEF TypeOK, TwoSides
  <2>2. tradePartner[q] \notin P
    BY <1>2, <2>1, TradeAssumption DEF Closing
  <2>3. ASSUME NEW r \in P, tradePartner[r] # None, tradePartner[r] = tradePartner[q]
        PROVE  FALSE
    <3>1. tradePartner[tradePartner[r]] = r
      BY <2>3 DEF TwoSides
    <3>2. QED BY <1>2, <2>1, <2>3, <3>1 DEF Closing
  <2>4. QED BY <2>1, <2>2, <2>3 DEF Closing
<1>3. QED BY <1>1, <1>2

\* Closing trades keeps the invariant, if the offers left are left alone and
\* those who make them stay.
LEMMA CloseKeeps ==
  ASSUME TradeInv, NEW P \in SUBSET Player, Close(P),
         place' \in [Item -> Place], TreeOf(place'), near' \subseteq Player, crashed' \in BOOLEAN,
         near \ Closing(P) \subseteq near',
         \A p \in Player \ Closing(P) : tradeItem[p] # None => Keeps(place, place', tradeItem[p])
  PROVE  TradeInv'
<1> DEFINE out == Closing(P)
<1>1. /\ out \in SUBSET Player
      /\ \A q \in Player \ out : tradePartner[q] # None => tradePartner[q] \in Player \ out
  BY ClosingBoth DEF TradeInv
<1>2. \A p \in Player : /\ tradeState'[p] = IF p \in out THEN "none" ELSE tradeState[p]
                        /\ tradePartner'[p] = IF p \in out THEN None ELSE tradePartner[p]
                        /\ tradeItem'[p] = IF p \in out THEN None ELSE tradeItem[p]
  BY DEF Close
<1>3. tradeItems' = tradeItems \ {tradeItem[p] : p \in out}
  BY DEF Close
<1>4. \A i \in tradeItems' : i \in Item /\ shown'[i] = shown[i]
  BY <1>3 DEF Close, TradeInv, TypeOK
<1>5. TypeOK'
  BY <1>1 DEF Close, TradeInv, TypeOK
<1> HIDE DEF out
<1>6. TwoSides' /\ Unanswered'
  <2> SUFFICES ASSUME NEW p \in Player
               PROVE  /\ tradePartner'[p] # None <=> tradeState'[p] # "none"
                      /\ tradePartner'[p] # None => /\ tradePartner'[tradePartner'[p]] = p
                                                    /\ {p, tradePartner'[p]} \subseteq near'
                      /\ tradeState'[p] = "none" => tradeItem'[p] = None
                      /\ tradeState'[p] = "acknowledge" => tradeItem'[p] = None
    BY DEF TwoSides, Unanswered
  <2>1. CASE p \in out
    BY <1>2, <2>1
  <2>2. CASE p \notin out
    <3>1. /\ tradePartner'[p] = tradePartner[p] /\ tradeState'[p] = tradeState[p]
          /\ tradeItem'[p] = tradeItem[p]
      BY <1>2, <2>2
    <3>2. tradePartner[p] # None =>
            tradePartner'[tradePartner[p]] = p /\ {p, tradePartner[p]} \subseteq near'
      <4> SUFFICES ASSUME tradePartner[p] # None
                   PROVE  tradePartner'[tradePartner[p]] = p /\ {p, tradePartner[p]} \subseteq near'
        OBVIOUS
      <4>1. tradePartner[p] \in Player \ out
        BY <1>1, <2>2
      <4>2. tradePartner[tradePartner[p]] = p /\ {p, tradePartner[p]} \subseteq near
        BY DEF TradeInv, TwoSides
      <4>3. QED BY <1>2, <2>2, <4>1, <4>2 DEF out
    <3>3. QED BY <3>1, <3>2 DEF TradeInv, TwoSides, Unanswered
  <2>3. QED BY <2>1, <2>2
<1>7. TradeItemsExact'
  <2>1. ASSUME NEW p \in Player, tradeItem'[p] # None
        PROVE  tradeItem'[p] \in tradeItems'
    <3>1. p \notin out /\ tradeItem'[p] = tradeItem[p]
      BY <1>2, <2>1
    <3>2. tradeItem[p] \in tradeItems
      BY <2>1, <3>1 DEF TradeInv, TradeItemsExact
    <3>3. \A q \in out : tradeItem[q] # tradeItem[p]
      BY <1>1, <2>1, <3>1 DEF TradeInv, OfferedOnce
    <3>4. QED BY <1>3, <3>1, <3>2, <3>3
  <2>2. ASSUME NEW i \in tradeItems'
        PROVE  \E p \in Player : tradeItem'[p] # None /\ i = tradeItem'[p]
    <3>1. PICK p \in Player : tradeItem[p] # None /\ i = tradeItem[p]
      BY <1>3 DEF TradeInv, TradeItemsExact
    <3>2. p \notin out
      BY <1>3, <3>1
    <3>3. QED BY <1>2, <3>1, <3>2
  <2>3. QED BY <2>1, <2>2 DEF TradeItemsExact
<1>8. Tree'
  BY TreeIsTreeOfNext
<1>9. ASSUME NEW p \in Player, tradeItem'[p] # None
      PROVE  /\ p \notin out /\ tradeItem'[p] = tradeItem[p] /\ tradeItem[p] # None
             /\ Keeps(place, place', tradeItem[p])
  BY <1>2, <1>9 DEF out
<1>10. OfferedOnce'
  <2> SUFFICES ASSUME NEW p \in Player, NEW q \in Player, p # q,
                      tradeItem'[p] # None, tradeItem'[q] # None
               PROVE  /\ tradeItem'[p] # tradeItem'[q]
                      /\ tradeItem'[p] \notin Around(place', tradeItem'[q])
    BY DEF OfferedOnce, Holds, Around, In
  <2>1. tradeItem[p] # tradeItem[q] /\ tradeItem[p] \notin Around(place, tradeItem[q])
    BY <1>9 DEF TradeInv, OfferedOnce, Holds
  <2>2. QED BY <1>9, <2>1 DEF Keeps
<1>11. OfferUnchanged'
  <2> SUFFICES ASSUME NEW p \in Player, tradeItem'[p] # None
               PROVE  /\ Content(place', tradeItem'[p]) = shown'[tradeItem'[p]]
                      /\ \A q \in Player \ {p} : ~Owns(place', q, tradeItem'[p])
    BY DEF OfferUnchanged, Content, Owns, Holds, Around, In, InSlot
  <2>1. /\ Content(place, tradeItem[p]) = shown[tradeItem[p]]
        /\ \A q \in Player \ {p} : ~Owns(place, q, tradeItem[p])
    BY <1>9 DEF TradeInv, OfferUnchanged
  <2>2. tradeItem'[p] \in tradeItems'
    BY <1>7 DEF TradeItemsExact
  <2>3. QED BY <1>4, <1>9, <2>1, <2>2 DEF Keeps
<1>12. QED BY <1>5, <1>6, <1>7, <1>8, <1>10, <1>11 DEF TradeInv

-------------------------------------------------------------------------------
(* The steps, one lemma each *)

\* Nothing moves: every offer is left alone.
LEMMA SamePlaces ==
  ASSUME TradeInv, place' = place
  PROVE  /\ place' \in [Item -> Place] /\ TreeOf(place')
         /\ \A t : Keeps(place, place', t)
<1>1. place \in [Item -> Place] /\ TreeOf(place)
  BY TreeIsTreeOf DEF TradeInv, TypeOK
<1>2. QED BY <1>1 DEF Keeps

LEMMA MoveItemKeeps ==
  ASSUME TradeInv, NEW p \in Player, NEW i \in Item, NEW to \in Place, MoveItem(p, i, to)
  PROVE  TradeInv'
<1>1. place \in [Item -> Place] /\ TreeOf(place)
  BY TreeIsTreeOf DEF TradeInv, TypeOK
<1>2. Takes(place, i, to)
  <2>1. CASE to \in EmptySlots(place, p, i)
    BY <2>1 DEF EmptySlots, Takes
  <2>2. CASE \E c \in Container : to = In(c) /\ Accepts(c, i)
    BY <2>2 DEF Accepts, Takes, Holds
  <2>3. QED BY <2>1, <2>2 DEF MoveItem, Takes
<1>3. place' = [place EXCEPT ![i] = to]
  BY DEF MoveItem
<1>4. place' \in [Item -> Place] /\ TreeOf(place')
  <2>1. place' \in [Item -> Place] /\ Differ(place, place', i) /\ place'[i] = to
    BY <1>1, <1>3 DEF Differ
  <2>2. QED BY <1>1, <1>2, <2>1, MoveKeepsTree
<1>5. Disturbed(place, i, to) \in SUBSET Player
  BY DEF Disturbed
<1>6. ASSUME NEW q \in Player \ Closing(Disturbed(place, i, to)), tradeItem[q] # None
      PROVE  Keeps(place, place', tradeItem[q])
  <2>1. tradeItem[q] \in Item
    BY <1>6 DEF TradeInv, TypeOK
  <2>2. q \notin Disturbed(place, i, to)
    BY DEF Closing
  <2>3. Quiet(place, place', i, tradeItem[q])
    <3>1. Differ(place, place', i)
      BY <1>1, <1>3 DEF Differ
    <3>2. QED BY <1>3, <1>6, <2>2, <3>1 DEF Disturbed, Holds, Quiet
  <2>4. QED BY <2>1, <2>3, QuietMove DEF Keeps
<1>7. /\ Close(Disturbed(place, i, to))
      /\ near' \subseteq Player /\ crashed' \in BOOLEAN /\ near \subseteq near'
  BY DEF MoveItem, TradeInv, TypeOK
<1>8. QED BY <1>4, <1>5, <1>6, <1>7, CloseKeeps

\* Steps that leave the trades and the places alone.
LEMMA BystandersKeep ==
  ASSUME TradeInv, UNCHANGED <<place, fields>>, near' \subseteq Player, crashed' \in BOOLEAN,
         \A p \in near : tradePartner[p] # None => p \in near'
  PROVE  TradeInv'
<1>1. Tree'
  BY TreeIsTreeOf, TreeIsTreeOfNext DEF TradeInv
<1>2. TypeOK' /\ TradeItemsExact' /\ Unanswered'
  BY DEF TradeInv, TypeOK, TradeItemsExact, Unanswered, fields
<1>3. TwoSides'
  <2> SUFFICES ASSUME NEW p \in Player
               PROVE  /\ tradePartner[p] # None <=> tradeState[p] # "none"
                      /\ tradePartner[p] # None => /\ tradePartner[tradePartner[p]] = p
                                                   /\ {p, tradePartner[p]} \subseteq near'
                      /\ tradeState[p] = "none" => tradeItem[p] = None
    BY DEF TwoSides, fields
  <2>1. tradePartner[p] # None =>
          tradePartner[tradePartner[p]] # None /\ {p, tradePartner[p]} \subseteq near
    BY TradeAssumption DEF TradeInv, TwoSides
  <2>2. QED BY <2>1 DEF TradeInv, TwoSides
<1>4. OfferedOnce'
  BY DEF TradeInv, OfferedOnce, Holds, Around, In, fields
<1>5. OfferUnchanged'
  <2> SUFFICES ASSUME NEW p \in Player, tradeItem'[p] # None
               PROVE  /\ Content(place', tradeItem'[p]) = shown'[tradeItem'[p]]
                      /\ \A q \in Player \ {p} : ~Owns(place', q, tradeItem'[p])
    BY DEF OfferUnchanged, Content, Owns, Holds, Around, In, InSlot
  <2>1. QED BY DEF TradeInv, OfferUnchanged, fields
<1>6. QED BY <1>1, <1>2, <1>3, <1>4, <1>5 DEF TradeInv

LEMMA WithdrawKeeps ==
  ASSUME TradeInv, NEW p \in Player, Withdraw(p)
  PROVE  TradeInv'
<1>1. near' = near \ {p} /\ near' \subseteq Player /\ crashed' \in BOOLEAN /\ place' = place
  BY DEF Withdraw, TradeInv, TypeOK
<1>2. CASE tradePartner[p] # None
  <2>1. Close({p}) /\ p \in Closing({p})
    BY <1>2 DEF Withdraw, Closing
  <2>2. QED BY <1>1, <2>1, SamePlaces, CloseKeeps
<1>3. CASE tradePartner[p] = None
  BY <1>1, <1>3, BystandersKeep DEF Withdraw
<1>4. QED BY <1>2, <1>3

LEMMA BystandersSteps ==
  ASSUME TradeInv, NEW p \in Player, ComeBack(p) \/ AcceptNothing(p) \/ UNCHANGED vars
  PROVE  TradeInv'
<1>1. CASE ComeBack(p)
  BY <1>1, BystandersKeep DEF ComeBack, TradeInv, TypeOK
<1>2. CASE AcceptNothing(p)
  BY <1>2, BystandersKeep DEF AcceptNothing, TradeInv, TypeOK
<1>3. CASE UNCHANGED vars
  BY <1>3, BystandersKeep DEF vars, TradeInv, TypeOK
<1>4. QED BY <1>1, <1>2, <1>3

LEMMA ClosingSteps ==
  ASSUME TradeInv, NEW p \in Player, AcceptRefused(p) \/ CloseTrade(p)
  PROVE  TradeInv'
<1>1. /\ Close({p}) /\ place' = place
      /\ near' \subseteq Player /\ crashed' \in BOOLEAN /\ near \subseteq near'
  BY DEF AcceptRefused, CloseTrade, TradeInv, TypeOK
<1>2. QED BY <1>1, SamePlaces, CloseKeeps

\* An offer: the two fields of the players before are those of a trade that has
\* only been asked, or of none, so the item is the first p offers.
LEMMA RequestTradeKeeps ==
  ASSUME TradeInv, NEW p \in Player, NEW q \in Player, NEW i \in Item, RequestTrade(p, q, i)
  PROVE  TradeInv'
<1>1. place' = place /\ near' = near /\ crashed' = crashed /\ p # q /\ p \in near /\ q \in near
  BY DEF RequestTrade
<1>2. TypeOK'
  BY DEF RequestTrade, TradeInv, TypeOK, Content
<1>3. Tree'
  BY <1>1, TreeIsTreeOf, TreeIsTreeOfNext DEF TradeInv
<1>4. /\ tradeItem[p] = None
      /\ \A r \in Player \ {p, q} : tradePartner[r] # p /\ tradePartner[r] # q
  <2>1. tradePartner[p] = None \/ tradePartner[p] = q
    BY DEF RequestTrade, MayTrade, TradeInv, TwoSides
  <2>2. tradePartner[q] = None \/ tradePartner[q] = p
    BY DEF RequestTrade, MayTrade, TradeInv, TwoSides
  <2>3. ASSUME NEW r \in Player \ {p, q}
        PROVE  tradePartner[r] # p /\ tradePartner[r] # q
    BY <2>1, <2>2, TradeAssumption DEF TradeInv, TwoSides
  <2>4. QED BY <2>3 DEF RequestTrade, MayTrade, TradeInv, TwoSides, Unanswered
<1>5. /\ \A r \in Player : /\ tradePartner'[r] = CASE r = p -> q [] r = q -> p
                                                   [] OTHER -> tradePartner[r]
                           /\ tradeItem'[r] = IF r = p THEN i ELSE tradeItem[r]
      /\ tradeState'[p] = "initiated" /\ tradeState'[q] # "none"
      /\ tradeState'[q] = "acknowledge" => tradeState[q] \in {"none", "acknowledge"}
      /\ \A r \in Player \ {p, q} : tradeState'[r] = tradeState[r]
  BY <1>1 DEF RequestTrade, TradeInv, TypeOK
<1>6. TwoSides' /\ Unanswered'
  <2> SUFFICES ASSUME NEW r \in Player
               PROVE  /\ tradePartner'[r] # None <=> tradeState'[r] # "none"
                      /\ tradePartner'[r] # None => /\ tradePartner'[tradePartner'[r]] = r
                                                    /\ {r, tradePartner'[r]} \subseteq near'
                      /\ tradeState'[r] = "none" => tradeItem'[r] = None
                      /\ tradeState'[r] = "acknowledge" => tradeItem'[r] = None
    BY DEF TwoSides, Unanswered
  <2>1. CASE r = p
    BY <1>1, <1>5, <2>1, TradeAssumption
  <2>2. CASE r = q
    <3>1. tradePartner'[r] = p /\ tradePartner'[p] = q /\ tradeItem'[r] = tradeItem[r]
      BY <1>1, <1>5, <2>2
    <3>2. tradeState[q] \in {"none", "acknowledge"} => tradeItem[q] = None
      BY DEF TradeInv, TwoSides, Unanswered
    <3>3. QED BY <1>1, <1>5, <2>2, <3>1, <3>2, TradeAssumption
  <2>3. CASE r \notin {p, q}
    <3>1. /\ tradePartner'[r] = tradePartner[r] /\ tradeState'[r] = tradeState[r]
          /\ tradeItem'[r] = tradeItem[r]
      BY <1>5, <2>3
    <3>2. tradePartner[r] # None =>
            tradePartner[r] \in Player \ {p, q} /\ tradePartner'[tradePartner[r]] = r
      <4>1. tradePartner[r] # None =>
              tradePartner[r] \in Player \ {p, q} /\ tradePartner[tradePartner[r]] = r
        BY <1>4, <2>3 DEF TradeInv, TwoSides, TypeOK
      <4>2. \A m \in Player \ {p, q} : tradePartner'[m] = tradePartner[m]
        BY <1>5
      <4>3. QED BY <4>1, <4>2
    <3>3. QED BY <1>1, <3>1, <3>2 DEF TradeInv, TwoSides, Unanswered
  <2>4. QED BY <2>1, <2>2, <2>3
<1>7. TradeItemsExact'
  <2>1. tradeItems' = tradeItems \cup {i}
    BY DEF RequestTrade
  <2>2. ASSUME NEW r \in Player, tradeItem'[r] # None
        PROVE  tradeItem'[r] \in tradeItems'
    BY <1>5, <2>1, <2>2 DEF TradeInv, TradeItemsExact
  <2>3. ASSUME NEW j \in tradeItems'
        PROVE  \E r \in Player : tradeItem'[r] # None /\ j = tradeItem'[r]
    <3>1. CASE j = i
      BY <1>5, <3>1, TradeAssumption
    <3>2. CASE j \in tradeItems
      BY <1>4, <1>5, <3>2 DEF TradeInv, TradeItemsExact
    <3>3. QED BY <2>1, <3>1, <3>2
  <2>4. QED BY <2>2, <2>3 DEF TradeItemsExact
<1>8. \A r \in Player \ {p} : tradeItem[r] # None =>
        /\ tradeItem[r] # i /\ tradeItem[r] \in Item
        /\ tradeItem[r] \notin Around(place, i) /\ i \notin Around(place, tradeItem[r])
  BY DEF RequestTrade, NotOffered, Holds, TradeInv, TradeItemsExact, TypeOK
<1>9. OfferedOnce'
  <2> SUFFICES ASSUME NEW r \in Player, NEW m \in Player, r # m,
                      tradeItem'[r] # None, tradeItem'[m] # None
               PROVE  /\ tradeItem'[r] # tradeItem'[m]
                      /\ tradeItem'[r] \notin Around(place', tradeItem'[m])
    BY DEF OfferedOnce, Holds, Around, In
  <2>1. CASE r = p
    BY <1>1, <1>5, <1>8, <2>1
  <2>2. CASE m = p
    BY <1>1, <1>5, <1>8, <2>2
  <2>3. CASE r # p /\ m # p
    BY <1>1, <1>5, <2>3 DEF TradeInv, OfferedOnce, Holds
  <2>4. QED BY <2>1, <2>2, <2>3
<1>10. OfferUnchanged'
  <2> SUFFICES ASSUME NEW r \in Player, tradeItem'[r] # None
               PROVE  /\ Content(place', tradeItem'[r]) = shown'[tradeItem'[r]]
                      /\ \A m \in Player \ {r} : ~Owns(place', m, tradeItem'[r])
    BY DEF OfferUnchanged, Content, Owns, Holds, Around, In, InSlot
  <2>1. shown' = [shown EXCEPT ![i] = Content(place, i)]
    BY DEF RequestTrade
  <2>2. CASE r = p
    BY <1>1, <1>5, <2>1, <2>2 DEF RequestTrade, TradeInv, TypeOK
  <2>3. CASE r # p
    <3>1. tradeItem'[r] = tradeItem[r] /\ shown'[tradeItem[r]] = shown[tradeItem[r]]
      BY <1>5, <1>8, <2>1, <2>3 DEF TradeInv, TypeOK
    <3>2. QED BY <1>1, <2>3, <3>1 DEF TradeInv, OfferUnchanged
  <2>4. QED BY <2>2, <2>3
<1>11. QED BY <1>2, <1>3, <1>6, <1>7, <1>9, <1>10 DEF TradeInv

LEMMA AcceptFirstKeeps ==
  ASSUME TradeInv, NEW p \in Player, AcceptFirst(p)
  PROVE  TradeInv'
<1>1. place' = place /\ UNCHANGED <<near, tradePartner, tradeItem, tradeItems, shown, crashed>>
  BY DEF AcceptFirst
<1>2. tradeState' = [tradeState EXCEPT ![p] = "accept"] /\ tradePartner[p] # None
  BY DEF AcceptFirst, MayAccept
<1>3. TypeOK' /\ TradeItemsExact'
  BY <1>1, <1>2 DEF TradeInv, TypeOK, TradeItemsExact
<1>4. Tree'
  BY <1>1, TreeIsTreeOf, TreeIsTreeOfNext DEF TradeInv
<1>5. TwoSides' /\ Unanswered'
  BY <1>1, <1>2 DEF TradeInv, TypeOK, TwoSides, Unanswered
<1>6. OfferedOnce'
  BY <1>1 DEF TradeInv, OfferedOnce, Holds, Around, In
<1>7. OfferUnchanged'
  <2> SUFFICES ASSUME NEW r \in Player, tradeItem'[r] # None
               PROVE  /\ Content(place', tradeItem'[r]) = shown'[tradeItem'[r]]
                      /\ \A m \in Player \ {r} : ~Owns(place', m, tradeItem'[r])
    BY DEF OfferUnchanged, Content, Owns, Holds, Around, In, InSlot
  <2>1. QED BY <1>1 DEF TradeInv, OfferUnchanged
<1>8. QED BY <1>3, <1>4, <1>5, <1>6, <1>7 DEF TradeInv

\* Finishing a trade closes it.
LEMMA FinishCloses ==
  ASSUME TradeInv, NEW p \in Player, NEW q \in Player, q = tradePartner[p],
         NEW done, Finish(p, q, done)
  PROVE  Close({p}) /\ Closing({p}) = {p, q}
<1>1. Closing({p}) = {p, q}
  BY TradeAssumption DEF Closing
<1>2. /\ tradeState' = [r \in Player |-> IF r \in {p, q} THEN "none" ELSE tradeState[r]]
      /\ tradePartner' = [r \in Player |-> IF r \in {p, q} THEN None ELSE tradePartner[r]]
      /\ tradeItem' = [r \in Player |-> IF r \in {p, q} THEN None ELSE tradeItem[r]]
  BY DEF Finish, TradeInv, TypeOK
<1>3. {tradeItem[r] : r \in {p, q}} = {tradeItem[p], tradeItem[q]}
  OBVIOUS
<1>4. QED BY <1>1, <1>2, <1>3 DEF Close, Finish

LEMMA TransferFailsKeeps ==
  ASSUME TradeInv, NEW p \in Player, TransferFails(p)
  PROVE  TradeInv'
<1>1. tradePartner[p] \in Player
  BY DEF TransferFails, AcceptSecond, MayAccept, TradeInv, TypeOK
<1>2. Finish(p, tradePartner[p], FALSE) /\ UNCHANGED <<place, near, crashed>>
  BY DEF TransferFails
<1>3. Close({p})
  BY <1>1, <1>2, FinishCloses
<1>4. near' \subseteq Player /\ crashed' \in BOOLEAN /\ near \subseteq near' /\ place' = place
  BY <1>2 DEF TradeInv, TypeOK
<1>5. QED BY <1>3, <1>4, SamePlaces, CloseKeeps

\* An item put where p has room is with p, and what p does not have is left alone.
LEMMA HandOver ==
  ASSUME NEW at, TreeOf(at), NEW at2, NEW p \in Player, NEW i \in Item, Differ(at, at2, i),
         NEW to \in Destination(at, p, i), at2[i] = to
  PROVE  /\ TreeOf(at2)
         /\ Owns(at2, p, i)
         /\ \/ Around(at2, i) = {}
            \/ \E c \in Container : to = In(c) /\ Around(at2, i) = {c} \cup Around(at, c)
         /\ \A t \in Item :
              t # i /\ t \notin Around(at, i) /\ i \notin Around(at, t) /\ ~Owns(at, p, t) =>
                Keeps(at, at2, t)
<1>1. Takes(at, i, to)
  BY DestinationTakes
<1>2. TreeOf(at2) /\ Differ(at, at2, i) /\ at2[i] = to
  BY <1>1, MoveKeepsTree
<1>3. CASE \E s \in Slot : to = InSlot(p, s)
  <2>1. Around(at2, i) = {}
    <3>1. \A c \in Container : at2[i] # In(c)
      BY <1>2, <1>3, Places
    <3>2. QED BY <3>1, AroundNothing
  <2>2. Owns(at2, p, i)
    BY <1>2, <1>3 DEF Owns
  <2>3. ASSUME NEW t \in Item, t # i, t \notin Around(at, i), i \notin Around(at, t)
        PROVE  Keeps(at, at2, t)
    <3>1. Quiet(at, at2, i, t)
      BY <1>2, <2>1, <2>3 DEF Quiet
    <3>2. QED BY <3>1, QuietMove DEF Keeps
  <2>4. QED BY <1>2, <2>1, <2>2, <2>3
<1>4. CASE \E c \in Container : to = In(c) /\ Owns(at, p, c) /\ c # i /\ i \notin Around(at, c)
  <2>1. PICK c \in Container : to = In(c) /\ Owns(at, p, c) /\ c # i /\ i \notin Around(at, c)
    BY <1>4
  <2>2. c \in Item
    BY TradeAssumption
  <2>3. Around(at2, c) = Around(at, c)
    BY <1>2, <2>1, <2>2, SameAround
  <2>4. Around(at2, i) = {c} \cup Around(at, c)
    <3>1. at2[i] = In(c)
      BY <1>2, <2>1
    <3>2. QED BY <2>3, <3>1, AroundInside
  <2>5. Owns(at2, p, i)
    <3>1. \A k \in {c} \cup Around(at, c) : at2[k] = at[k]
      BY <1>2, <2>1, <2>2, AroundContainers, TradeAssumption DEF Differ
    <3>2. Owns(at2, p, c)
      BY <2>1, <2>3, <3>1 DEF Owns
    <3>3. QED BY <1>2, <2>1, <3>2, OwnsParent
  <2>6. ASSUME NEW t \in Item, t # i, t \notin Around(at, i), i \notin Around(at, t),
               ~Owns(at, p, t)
        PROVE  Keeps(at, at2, t)
    <3>1. t \notin {c} \cup Around(at, c)
      BY <2>1, <2>6, OwnsAround
    <3>2. Quiet(at, at2, i, t)
      BY <1>2, <2>4, <2>6, <3>1 DEF Quiet
    <3>3. QED BY <3>2, QuietMove DEF Keeps
  <2>7. QED BY <1>2, <2>1, <2>4, <2>5, <2>6
<1>5. QED BY <1>3, <1>4, DestinationTakes

\* What the two sides of a trade that is transferred are, and what they give:
\* i goes to q's place to first.
Transferred(p, q, i, j, to, moved) ==
  /\ q = tradePartner[p] /\ i = tradeItem[p] /\ j = tradeItem[q]
  /\ q # p /\ i # j /\ i \notin Around(place, j)
  /\ near' = near /\ crashed' = crashed /\ Finish(p, q, TRUE)
  /\ to \in FirstMove(q, i, j)
  /\ moved = [place EXCEPT ![i] = to]
  /\ \/ place' = moved
     \/ \E to2 \in Destination(moved, p, j) : place' = [moved EXCEPT ![j] = to2]

LEMMA TransferSides ==
  ASSUME TradeInv, NEW p \in Player, Transfer(p)
  PROVE  \E q \in Player, i, j \in Item : \E to, moved : Transferred(p, q, i, j, to, moved)
<1>1. tradePartner[p] \in Player /\ tradePartner[p] # p
  BY DEF Transfer, AcceptSecond, MayAccept, TradeInv, TypeOK
<1>2. tradeItem[p] \in Item /\ tradeItem[tradePartner[p]] \in Item
  BY <1>1 DEF Transfer, Transferable, TradeInv, TypeOK
<1>3. /\ tradeItem[p] # tradeItem[tradePartner[p]]
      /\ tradeItem[p] \notin Around(place, tradeItem[tradePartner[p]])
  BY <1>1, <1>2, TradeAssumption DEF TradeInv, OfferedOnce, Holds
<1> DEFINE q == tradePartner[p]
           i == tradeItem[p]
           j == tradeItem[q]
<1>4. /\ near' = near /\ crashed' = crashed /\ Finish(p, q, TRUE)
      /\ \E to \in FirstMove(q, i, j) :
           LET moved == [place EXCEPT ![i] = to]
               return == Destination(moved, p, j)
           IN IF return = {} THEN place' = moved
              ELSE \E to2 \in return : place' = [moved EXCEPT ![j] = to2]
  BY DEF Transfer
<1>5. PICK to \in FirstMove(q, i, j) :
        \/ place' = [place EXCEPT ![i] = to]
        \/ \E to2 \in Destination([place EXCEPT ![i] = to], p, j) :
             place' = [[place EXCEPT ![i] = to] EXCEPT ![j] = to2]
  BY <1>4
<1>6. q \in Player /\ i \in Item /\ j \in Item
  BY <1>1, <1>2
<1> HIDE DEF q, i, j
<1>7. PICK moved : /\ moved = [place EXCEPT ![i] = to]
                   /\ \/ place' = moved
                      \/ \E to2 \in Destination(moved, p, j) :
                           place' = [moved EXCEPT ![j] = to2]
  BY <1>5
<1>8. /\ q = tradePartner[p] /\ i = tradeItem[p] /\ j = tradeItem[q]
      /\ q # p /\ i # j /\ i \notin Around(place, j)
  BY <1>1, <1>3 DEF q, i, j
<1>9. near' = near /\ crashed' = crashed /\ Finish(p, q, TRUE)
  BY <1>4
<1>10. Transferred(p, q, i, j, to, moved)
  BY <1>5, <1>7, <1>8, <1>9 DEF Transferred
<1>11. QED BY <1>6, <1>10

LEMMA TransferKeeps ==
  ASSUME TradeInv, NEW p \in Player, Transfer(p)
  PROVE  TradeInv'
<1>0. PICK q \in Player, i \in Item, j \in Item : \E to, moved : Transferred(p, q, i, j, to, moved)
  BY TransferSides
<1>1. PICK to, moved : Transferred(p, q, i, j, to, moved)
  BY <1>0
<1> USE <1>1 DEF Transferred
<1>2. near' \subseteq Player /\ crashed' \in BOOLEAN /\ near \subseteq near' /\ {p} \in SUBSET Player
  BY <1>1 DEF TradeInv, TypeOK
<1>3. to \in Destination(place, q, i)
  BY <1>1 DEF FirstMove
<1>4. place \in [Item -> Place] /\ TreeOf(place)
  BY TreeIsTreeOf DEF TradeInv, TypeOK
<1>5. /\ moved \in [Item -> Place] /\ TreeOf(moved)
      /\ Differ(place, moved, i) /\ moved[i] = to
  <2>1. Differ(place, moved, i) /\ moved[i] = to
    BY <1>1, <1>4 DEF Differ
  <2>2. to \in Place
    BY <1>3, DestinationTakes
  <2>3. moved \in [Item -> Place]
    BY <1>1, <1>4, <2>2
  <2>4. TreeOf(moved)
    BY <1>3, <1>4, <2>1, HandOver
  <2>5. QED BY <2>1, <2>3, <2>4
<1>6. Close({p}) /\ Closing({p}) = {p, q}
  BY <1>1, FinishCloses
<1>7. ASSUME NEW r \in Player \ {p, q}, NEW t, t = tradeItem[r], t # None
      PROVE  /\ t \in Item /\ t # i /\ t # j
             /\ t \notin Around(place, j) /\ j \notin Around(place, t)
             /\ ~Owns(place, p, t)
             /\ Keeps(place, moved, t)
  <2>1. /\ t \in Item /\ t # i /\ t # j
        /\ t \notin Around(place, i) /\ i \notin Around(place, t)
        /\ t \notin Around(place, j) /\ j \notin Around(place, t)
    BY <1>1, <1>7, TradeAssumption DEF TradeInv, TypeOK, OfferedOnce, Holds
  <2>2. ~Owns(place, p, t) /\ ~Owns(place, q, t)
    BY <1>1, <1>7 DEF TradeInv, OfferUnchanged
  <2>3. Keeps(place, moved, t)
    BY <1>3, <1>4, <1>5, <2>1, <2>2, HandOver
  <2>4. QED BY <2>1, <2>2, <2>3
<1>8. CASE place' = moved
  <2>1. \A r \in Player \ {p, q} : tradeItem[r] # None => Keeps(place, place', tradeItem[r])
    BY <1>7, <1>8
  <2>2. place' \in [Item -> Place] /\ TreeOf(place')
    BY <1>5, <1>8
  <2>3. QED BY <1>2, <1>6, <2>1, <2>2, CloseKeeps
<1>9. CASE \E to2 \in Destination(moved, p, j) : place' = [moved EXCEPT ![j] = to2]
  <2>1. PICK to2 \in Destination(moved, p, j) : place' = [moved EXCEPT ![j] = to2]
    BY <1>9
  <2>2. /\ place' \in [Item -> Place] /\ TreeOf(place')
        /\ Differ(moved, place', j) /\ place'[j] = to2
    <3>1. Differ(moved, place', j) /\ place'[j] = to2
      BY <1>5, <2>1 DEF Differ
    <3>2. to2 \in Place
      BY <2>1, DestinationTakes
    <3>3. place' \in [Item -> Place]
      BY <1>5, <2>1, <3>2
    <3>4. TreeOf(place')
      BY <1>5, <2>1, <3>1, HandOver
    <3>5. QED BY <3>1, <3>3, <3>4
  <2>3. ASSUME NEW r \in Player \ {p, q}, tradeItem[r] # None
        PROVE  Keeps(place, place', tradeItem[r])
    <3> SUFFICES ASSUME NEW t, t = tradeItem[r]
                 PROVE  Keeps(place, place', t)
      OBVIOUS
    <3>1. /\ t \in Item /\ t # j /\ ~Owns(place, p, t) /\ Keeps(place, moved, t)
          /\ t \notin Around(place, j) /\ j \notin Around(place, t)
      BY <1>7, <2>3
    <3>2. t \notin Around(moved, j) /\ j \notin Around(moved, t) /\ ~Owns(moved, p, t)
      BY <1>1, <3>1 DEF Keeps, Content, Holds
    <3>3. Keeps(moved, place', t)
      BY <1>5, <2>1, <2>2, <3>1, <3>2, HandOver
    <3>4. QED BY <3>1, <3>3 DEF Keeps
  <2>4. QED BY <1>2, <1>6, <2>2, <2>3, CloseKeeps
<1>10. QED BY <1>1, <1>8, <1>9

LEMMA InitTradeInv == Init => TradeInv
<1> SUFFICES ASSUME Init PROVE TradeInv
  OBVIOUS
<1>1. TypeOK
  <2>1. [i \in Item |-> Floor] \in [Item -> Place]
    BY DEF Place
  <2>2. [i \in Item |-> {}] \in [Item -> SUBSET Item]
    OBVIOUS
  <2>3. QED BY <2>1, <2>2 DEF Init, TypeOK
<1>2. TwoSides /\ Unanswered
  BY DEF Init, TwoSides, Unanswered
<1>3. OfferedOnce /\ OfferUnchanged
  BY DEF Init, OfferedOnce, OfferUnchanged
<1>4. TradeItemsExact
  BY DEF Init, TradeItemsExact
<1>5. Acyclic(place) /\ Alone(place)
  BY AroundNothing, Places DEF Init, Acyclic, Alone
<1>6. InRoom(place)
  <2>1. \A c \in Container : Inside(place, c) = {}
    BY Places DEF Init, Inside
  <2>2. Cardinality({}) = 0
    BY FS_EmptySet
  <2>3. 0 <= Capacity
    BY TradeAssumption
  <2>4. QED BY <2>1, <2>2, <2>3 DEF InRoom
<1>7. QED BY <1>1, <1>2, <1>3, <1>4, <1>5, <1>6, TreeIsTreeOf DEF TradeInv, TreeOf

LEMMA NextKeepsTradeInv == TradeInv /\ [Next]_vars => TradeInv'
<1> SUFFICES ASSUME TradeInv, [Next]_vars PROVE TradeInv'
  OBVIOUS
<1>1. CASE Next
  <2>1. PICK p \in Player :
          \/ \E i \in Item, to \in Place : MoveItem(p, i, to)
          \/ WalkAway(p) \/ Logout(p) \/ ComeBack(p)
          \/ \E q \in Player, i \in Item : RequestTrade(p, q, i)
          \/ AcceptFirst(p) \/ AcceptRefused(p) \/ AcceptNothing(p)
          \/ Transfer(p) \/ TransferFails(p) \/ CloseTrade(p)
    BY <1>1 DEF Next
  <2>2. CASE (\E i \in Item, to \in Place : MoveItem(p, i, to)) \/ WalkAway(p) \/ Logout(p)
    BY <2>2, MoveItemKeeps, WithdrawKeeps DEF WalkAway, Logout
  <2>3. CASE (\E q \in Player, i \in Item : RequestTrade(p, q, i)) \/ AcceptFirst(p)
    BY <2>3, RequestTradeKeeps, AcceptFirstKeeps
  <2>4. CASE ComeBack(p) \/ AcceptNothing(p) \/ AcceptRefused(p) \/ CloseTrade(p)
    BY <2>4, BystandersSteps, ClosingSteps
  <2>5. CASE Transfer(p) \/ TransferFails(p)
    BY <2>5, TransferKeeps, TransferFailsKeeps
  <2>6. QED BY <2>1, <2>2, <2>3, <2>4, <2>5
<1>2. CASE UNCHANGED vars
  <2>1. CASE Player # {}
    BY <1>2, <2>1, BystandersSteps
  <2>2. CASE Player = {}
    BY <1>2, BystandersKeep DEF vars, TradeInv, TypeOK
  <2>3. QED BY <2>1, <2>2
<1>3. QED BY <1>1, <1>2

\* TradeInv, with what makes it inductive, holds in every reachable state.
THEOREM TradeInvariance == Spec => []TradeInv
<1>1. QED BY InitTradeInv, NextKeepsTradeInv, PTL DEF Spec

\* At every moment the two sides of each trade name each other and stand near,
\* Game::tradeItems has what they offer and nothing else, no item is offered
\* twice or as part of another offer, each offer holds what the other side was
\* shown and only who offers it has it, and no item is lost in itself or in a
\* full place (internalStartTrade, internalCloseTrade and playerAcceptTrade of
\* game.cpp, and the notifications of player.cpp).
THEOREM TradesAreSound == Spec => []TradesSound
<1>1. TradeInv => TradesSound
  BY DEF TradeInv, TradesSound, TradesConsistent
<1>2. QED BY <1>1, TradeInvariance, PTL

-------------------------------------------------------------------------------
(* What a step may do *)

\* Who trades away i has given it to the other side when the trade is done.
LEMMA FirstIsGiven ==
  ASSUME TradeInv, NEW p \in Player, Transfer(p)
  PROVE  Owns(place', tradePartner[p], tradeItem[p])
<1>0. PICK q \in Player, i \in Item, j \in Item : \E to, moved : Transferred(p, q, i, j, to, moved)
  BY TransferSides
<1>1. PICK to, moved : Transferred(p, q, i, j, to, moved)
  BY <1>0
<1>2. place \in [Item -> Place] /\ TreeOf(place)
  BY TreeIsTreeOf DEF TradeInv, TypeOK
<1>3. Differ(place, moved, i) /\ moved[i] = to /\ moved \in [Item -> Place]
  <2>1. to \in Place
    BY <1>1, DestinationTakes DEF Transferred, FirstMove
  <2>2. QED BY <1>1, <1>2, <2>1 DEF Transferred, Differ
<1>4. to \in Destination(place, q, i) /\ \A c \in Container : to = In(c) => c # j /\ j \notin Around(place, c)
  BY <1>1 DEF Transferred, FirstMove, Holds
<1>5. /\ Owns(moved, q, i)
      /\ \/ Around(moved, i) = {}
         \/ \E c \in Container : to = In(c) /\ Around(moved, i) = {c} \cup Around(place, c)
  BY <1>2, <1>3, <1>4, HandOver
<1>6. j \notin Around(moved, i) /\ i # j
  BY <1>1, <1>4, <1>5 DEF Transferred
<1>7. ASSUME NEW to2, place' = [moved EXCEPT ![j] = to2]
      PROVE  Owns(place', q, i)
  <2>1. Differ(moved, place', j)
    BY <1>3, <1>7 DEF Differ
  <2>2. Around(place', i) = Around(moved, i)
    BY <1>6, <2>1, SameAround
  <2>3. \A k \in {i} \cup Around(moved, i) : place'[k] = moved[k]
    BY <1>6, <2>1, AroundContainers, TradeAssumption DEF Differ
  <2>4. QED BY <1>5, <2>2, <2>3 DEF Owns
<1>8. Owns(place', q, i)
  BY <1>1, <1>5, <1>7 DEF Transferred
<1>9. QED BY <1>1, <1>8 DEF Transferred

\* A trade that does not come to an end moves nothing, and one that does has
\* given the other side the item of who accepted last (playerAcceptTrade: the
\* result of the second move is not looked at, so nothing is said of it).
THEOREM FailedTradesMoveNothing == Spec => FailedTradeMovesNothing
<1>1. ASSUME TradeInv, [Next]_vars, ~UNCHANGED vars, traded' # NoTrade
      PROVE  IF traded'.done THEN Owns(place', traded'.with, traded'.gave) ELSE place' = place
  <2>1. PICK p \in Player :
          \/ \E i \in Item, to \in Place : MoveItem(p, i, to)
          \/ WalkAway(p) \/ Logout(p) \/ ComeBack(p)
          \/ \E q \in Player, i \in Item : RequestTrade(p, q, i)
          \/ AcceptFirst(p) \/ AcceptRefused(p) \/ AcceptNothing(p)
          \/ Transfer(p) \/ TransferFails(p) \/ CloseTrade(p)
    BY <1>1 DEF Next
  <2>2. Transfer(p) \/ TransferFails(p)
    BY <1>1, <2>1 DEF MoveItem, WalkAway, Logout, Withdraw, ComeBack, RequestTrade, AcceptFirst,
                      AcceptRefused, AcceptNothing, CloseTrade
  <2>3. CASE Transfer(p)
    <3>1. Finish(p, tradePartner[p], TRUE)
      BY <2>3 DEF Transfer
    <3>2. traded'.done /\ traded'.with = tradePartner[p] /\ traded'.gave = tradeItem[p]
      BY <3>1 DEF Finish
    <3>3. QED BY <1>1, <2>3, <3>2, FirstIsGiven
  <2>4. CASE TransferFails(p)
    BY <2>4 DEF TransferFails, Finish
  <2>5. QED BY <2>2, <2>3, <2>4
<1>2. TradeInv /\ [Next]_vars =>
        [traded' # NoTrade =>
           IF traded'.done THEN Owns(place', traded'.with, traded'.gave) ELSE place' = place]_vars
  BY <1>1
<1>3. QED BY <1>2, TradeInvariance, PTL DEF Spec, FailedTradeMovesNothing

-----------------------------------------------------------------------------
(* The market.  First sums: Total(f) counts the pieces of f, of which x has  *)
(* f[x].                                                                     *)

Pieces(f) == UNION {{x} \X (1 .. f[x]) : x \in DOMAIN f}

LEMMA PiecesOf ==
  ASSUME NEW D, NEW f \in [D -> Nat], NEW t
  PROVE  t \in Pieces(f) <=> \E x \in D : \E i \in 1 .. f[x] : t = <<x, i>>
BY DEF Pieces

LEMMA ColumnCounted ==
  ASSUME NEW x, NEW n \in Nat
  PROVE  IsFiniteSet({x} \X (1 .. n)) /\ Cardinality({x} \X (1 .. n)) = n
<1>1. IsFiniteSet(1 .. n) /\ Cardinality(1 .. n) = n
  BY FS_Interval
<1>2. IsFiniteSet({x}) /\ Cardinality({x}) = 1
  BY FS_Singleton
<1>3. /\ IsFiniteSet({x} \X (1 .. n))
      /\ Cardinality({x} \X (1 .. n)) = Cardinality({x}) * Cardinality(1 .. n)
  BY <1>1, <1>2, FS_Product
<1> QED BY <1>1, <1>2, <1>3

LEMMA TotalCounted ==
  ASSUME NEW D, IsFiniteSet(D), NEW f \in [D -> Nat]
  PROVE  /\ IsFiniteSet(Pieces(f)) /\ Total(f) = Cardinality(Pieces(f))
         /\ Total(f) \in Nat
<1>. DEFINE C == {{x} \X (1 .. f[x]) : x \in D}
            h == [x \in D |-> {x} \X (1 .. f[x])]
<1>1. h \in Surjection(D, C)
  BY DEF Surjection
<1>2. IsFiniteSet(C)
  BY <1>1, FS_Surjection
<1>3. \A T \in C : IsFiniteSet(T)
  <2>1. ASSUME NEW x \in D PROVE IsFiniteSet({x} \X (1 .. f[x]))
    <3>1. f[x] \in Nat
      OBVIOUS
    <3> QED BY <3>1, ColumnCounted
  <2> QED BY <2>1
<1>4. Pieces(f) = UNION C
  BY DEF Pieces
<1>5. IsFiniteSet(Pieces(f))
  <2>. HIDE DEF C
  <2> QED BY <1>2, <1>3, <1>4, FS_UNION
<1>6. Total(f) = Cardinality(Pieces(f))
  BY DEF Total, Pieces
<1> QED BY <1>5, <1>6, FS_CardinalityType

LEMMA TotalNothing ==
  ASSUME NEW D, NEW f \in [D -> Nat], \A x \in D : f[x] = 0
  PROVE  Total(f) = 0
<1>1. Pieces(f) = {}
  BY PiecesOf
<1>2. Total(f) = Cardinality(Pieces(f))
  BY DEF Total, Pieces
<1> QED BY <1>1, <1>2, FS_EmptySet

\* The sum over a set is that over a part and that over the rest.
LEMMA TotalSplit ==
  ASSUME NEW D, IsFiniteSet(D), NEW f \in [D -> Nat], NEW A \in SUBSET D
  PROVE  /\ Total([x \in A |-> f[x]]) \in Nat /\ Total([x \in D \ A |-> f[x]]) \in Nat
         /\ Total(f) = Total([x \in A |-> f[x]]) + Total([x \in D \ A |-> f[x]])
<1>. DEFINE g == [x \in A |-> f[x]]
            h == [x \in D \ A |-> f[x]]
<1>1. IsFiniteSet(A) /\ IsFiniteSet(D \ A)
  BY FS_Subset
<1>2. g \in [A -> Nat] /\ h \in [D \ A -> Nat]
  OBVIOUS
<1>3. /\ IsFiniteSet(Pieces(g)) /\ Total(g) = Cardinality(Pieces(g)) /\ Total(g) \in Nat
      /\ IsFiniteSet(Pieces(h)) /\ Total(h) = Cardinality(Pieces(h)) /\ Total(h) \in Nat
  <2>. HIDE DEF g, h
  <2> QED BY <1>1, <1>2, TotalCounted
<1>4. Total(f) = Cardinality(Pieces(f))
  BY TotalCounted
<1>5. Pieces(f) = Pieces(g) \cup Pieces(h)
  <2>1. ASSUME NEW t PROVE t \in Pieces(f) <=> t \in Pieces(g) \/ t \in Pieces(h)
    <3>1. t \in Pieces(g) <=> \E x \in A : \E i \in 1 .. f[x] : t = <<x, i>>
      BY <1>2, PiecesOf
    <3>2. t \in Pieces(h) <=> \E x \in D \ A : \E i \in 1 .. f[x] : t = <<x, i>>
      BY <1>2, PiecesOf
    <3>3. t \in Pieces(f) <=> \E x \in D : \E i \in 1 .. f[x] : t = <<x, i>>
      BY PiecesOf
    <3> QED BY <3>1, <3>2, <3>3
  <2> QED BY <2>1
<1>6. Pieces(g) \cap Pieces(h) = {}
  <2>1. ASSUME NEW t, t \in Pieces(g), t \in Pieces(h) PROVE FALSE
    <3>1. \E x \in A : \E i \in 1 .. f[x] : t = <<x, i>>
      BY <2>1, <1>2, PiecesOf
    <3>2. \E x \in D \ A : \E i \in 1 .. f[x] : t = <<x, i>>
      BY <2>1, <1>2, PiecesOf
    <3> QED BY <3>1, <3>2
  <2> QED BY <2>1
<1>7. Cardinality(Pieces(f)) = Cardinality(Pieces(g)) + Cardinality(Pieces(h))
  <2>. HIDE DEF g, h
  <2>1. Cardinality(Pieces(g) \cap Pieces(h)) = 0
    BY <1>6, FS_EmptySet
  <2>2. /\ Cardinality(Pieces(g) \cup Pieces(h))
            = Cardinality(Pieces(g)) + Cardinality(Pieces(h)) - Cardinality(Pieces(g) \cap Pieces(h))
        /\ Cardinality(Pieces(g)) \in Nat /\ Cardinality(Pieces(h)) \in Nat
    BY <1>3, FS_Union
  <2> QED BY <2>1, <2>2, <1>5
<1> QED BY <1>3, <1>4, <1>7

LEMMA TotalOfOne ==
  ASSUME NEW e, NEW f \in [{e} -> Nat]
  PROVE  Total(f) = f[e]
<1>1. Pieces(f) = {e} \X (1 .. f[e])
  BY DEF Pieces
<1>2. Total(f) = Cardinality(Pieces(f))
  BY DEF Total, Pieces
<1>3. f[e] \in Nat
  OBVIOUS
<1> QED BY <1>1, <1>2, <1>3, ColumnCounted

\* One point apart.
LEMMA TotalApart ==
  ASSUME NEW D, IsFiniteSet(D), NEW f \in [D -> Nat], NEW e \in D
  PROVE  /\ Total([x \in D \ {e} |-> f[x]]) \in Nat /\ Total(f) \in Nat
         /\ Total(f) = f[e] + Total([x \in D \ {e} |-> f[x]])
<1>. DEFINE g == [x \in {e} |-> f[x]]
<1>1. g \in [{e} -> Nat] /\ g[e] = f[e]
  OBVIOUS
<1>2. Total(g) = f[e]
  <2>. HIDE DEF g
  <2> QED BY <1>1, TotalOfOne
<1>3. {e} \in SUBSET D
  OBVIOUS
<1> QED BY <1>2, <1>3, TotalSplit, TotalCounted

\* What changes at one point changes the sum by as much.
LEMMA TotalChange ==
  ASSUME NEW D, IsFiniteSet(D), NEW f \in [D -> Nat], NEW g \in [D -> Nat], NEW e \in D,
         \A x \in D \ {e} : g[x] = f[x]
  PROVE  /\ Total(f) \in Nat /\ Total(g) \in Nat
         /\ Total(g) = Total(f) - f[e] + g[e]
<1>1. [x \in D \ {e} |-> g[x]] = [x \in D \ {e} |-> f[x]]
  OBVIOUS
<1>. DEFINE r == Total([x \in D \ {e} |-> f[x]])
<1>2. /\ r \in Nat /\ Total(f) \in Nat /\ Total(f) = f[e] + r
  BY TotalApart
<1>3. Total(g) \in Nat /\ Total(g) = g[e] + r
  <2>1. Total(g) \in Nat /\ Total(g) = g[e] + Total([x \in D \ {e} |-> g[x]])
    BY TotalApart
  <2>2. Total([x \in D \ {e} |-> g[x]]) = r
    BY <1>1
  <2> QED BY <2>1, <2>2
<1>4. f[e] \in Nat /\ g[e] \in Nat
  OBVIOUS
<1>. HIDE DEF r
<1> QED BY <1>2, <1>3, <1>4

\* Other names for the points do not change the sum.
LEMMA TotalRenamed ==
  ASSUME NEW D, IsFiniteSet(D), NEW f \in [D -> Nat], NEW R, NEW g \in [R -> Nat],
         NEW h \in Bijection(R, D), \A r \in R : g[r] = f[h[r]]
  PROVE  Total(g) = Total(f)
<1>. DEFINE k == [t \in Pieces(g) |-> <<h[t[1]], t[2]>>]
<1>0. h \in [R -> D] /\ (\A r, q \in R : h[r] = h[q] => r = q) /\ (\A x \in D : \E r \in R : h[r] = x)
  BY DEF Bijection, Injection, Surjection, IsInjective
<1>1. \A t \in Pieces(g) : \E r \in R : \E i \in 1 .. f[h[r]] : t = <<r, i>> /\ k[t] = <<h[r], i>>
  BY PiecesOf
<1>2. k \in [Pieces(g) -> Pieces(f)]
  <2>1. ASSUME NEW t \in Pieces(g) PROVE k[t] \in Pieces(f)
    <3>1. PICK r \in R : \E i \in 1 .. f[h[r]] : k[t] = <<h[r], i>>
      BY <1>1
    <3>2. h[r] \in D
      BY <1>0
    <3> QED BY <3>1, <3>2, PiecesOf
  <2> QED BY <2>1
<1>3. \A t, u \in Pieces(g) : k[t] = k[u] => t = u
  <2>. SUFFICES ASSUME NEW t \in Pieces(g), NEW u \in Pieces(g), k[t] = k[u] PROVE t = u
    OBVIOUS
  <2>1. PICK r \in R : \E i \in 1 .. f[h[r]] : t = <<r, i>> /\ k[t] = <<h[r], i>>
    BY <1>1
  <2>2. PICK q \in R : \E i \in 1 .. f[h[q]] : u = <<q, i>> /\ k[u] = <<h[q], i>>
    BY <1>1
  <2>. HIDE DEF k
  <2>3. h[r] = h[q]
    BY <2>1, <2>2
  <2>4. r = q
    BY <2>3, <1>0
  <2> QED BY <2>1, <2>2, <2>4
<1>4. \A u \in Pieces(f) : \E t \in Pieces(g) : k[t] = u
  <2>. SUFFICES ASSUME NEW u \in Pieces(f) PROVE \E t \in Pieces(g) : k[t] = u
    OBVIOUS
  <2>1. PICK x \in D : \E i \in 1 .. f[x] : u = <<x, i>>
    BY PiecesOf
  <2>2. PICK i \in 1 .. f[x] : u = <<x, i>>
    BY <2>1
  <2>3. PICK r \in R : h[r] = x
    BY <1>0
  <2>4. i \in 1 .. g[r]
    BY <2>3
  <2>5. <<r, i>> \in Pieces(g)
    BY <2>4, PiecesOf
  <2>6. k[<<r, i>>] = u
    BY <2>2, <2>3, <2>5
  <2> QED BY <2>5, <2>6
<1>5. IsFiniteSet(Pieces(f)) /\ Total(f) = Cardinality(Pieces(f))
  BY TotalCounted
<1>6. k \in Injection(Pieces(g), Pieces(f)) /\ k \in Surjection(Pieces(g), Pieces(f))
  <2>. HIDE DEF k
  <2> QED BY <1>2, <1>3, <1>4 DEF Injection, Surjection, IsInjective
<1>7. Cardinality(Pieces(g)) = Cardinality(Pieces(f))
  <2>. HIDE DEF k
  <2> QED BY <1>5, <1>6, FS_Injection
<1> QED BY <1>5, <1>7 DEF Total, Pieces

\* The sum of sums of two functions is the sum of both.
LEMMA TotalOfSums ==
  ASSUME NEW D, IsFiniteSet(D), NEW f \in [D -> Nat], NEW g \in [D -> Nat], NEW b \in [D -> Nat],
         \A x \in D : b[x] = f[x] + g[x]
  PROVE  /\ Total(f) \in Nat /\ Total(g) \in Nat
         /\ Total(b) = Total(f) + Total(g)
<1>. DEFINE V == {t \in Pieces(b) : t[2] > f[t[1]]}
            k == [t \in Pieces(g) |-> <<t[1], f[t[1]] + t[2]>>]
<1>1. /\ IsFiniteSet(Pieces(f)) /\ Total(f) = Cardinality(Pieces(f)) /\ Total(f) \in Nat
      /\ IsFiniteSet(Pieces(g)) /\ Total(g) = Cardinality(Pieces(g)) /\ Total(g) \in Nat
      /\ IsFiniteSet(Pieces(b)) /\ Total(b) = Cardinality(Pieces(b)) /\ Total(b) \in Nat
  BY TotalCounted
<1>2. \A t \in V : \E x \in D : \E i \in 1 .. g[x] : t = <<x, f[x] + i>>
  <2>. SUFFICES ASSUME NEW t \in V PROVE \E x \in D : \E i \in 1 .. g[x] : t = <<x, f[x] + i>>
    OBVIOUS
  <2>1. PICK x \in D : \E j \in 1 .. b[x] : t = <<x, j>>
    BY PiecesOf
  <2>2. PICK j \in 1 .. b[x] : t = <<x, j>>
    BY <2>1
  <2>3. j > f[x] /\ f[x] \in Nat /\ g[x] \in Nat /\ b[x] = f[x] + g[x] /\ j \in Nat
    BY <2>2
  <2>4. j - f[x] \in 1 .. g[x] /\ t = <<x, f[x] + (j - f[x])>>
    BY <2>2, <2>3
  <2> QED BY <2>4
<1>3. ASSUME NEW x \in D, NEW i \in 1 .. g[x] PROVE <<x, f[x] + i>> \in V
  <2>1. f[x] \in Nat /\ g[x] \in Nat /\ b[x] = f[x] + g[x]
    OBVIOUS
  <2>2. f[x] + i \in 1 .. b[x] /\ f[x] + i > f[x]
    BY <2>1
  <2>3. <<x, f[x] + i>> \in Pieces(b)
    BY <2>2, PiecesOf
  <2> QED BY <2>2, <2>3
<1>4. \A t \in Pieces(g) : \E x \in D : \E i \in 1 .. g[x] : t = <<x, i>> /\ k[t] = <<x, f[x] + i>>
  BY PiecesOf
<1>5. k \in [Pieces(g) -> V]
  <2>1. ASSUME NEW t \in Pieces(g) PROVE k[t] \in V
    <3>. HIDE DEF V, k
    <3>1. \E x \in D : \E i \in 1 .. g[x] : k[t] = <<x, f[x] + i>>
      BY <1>4
    <3> QED BY <3>1, <1>3
  <2>. HIDE DEF V
  <2> QED BY <2>1
<1>6. \A t, u \in Pieces(g) : k[t] = k[u] => t = u
  <2>. SUFFICES ASSUME NEW t \in Pieces(g), NEW u \in Pieces(g), k[t] = k[u] PROVE t = u
    OBVIOUS
  <2>1. PICK x \in D : \E i \in 1 .. g[x] : t = <<x, i>> /\ k[t] = <<x, f[x] + i>>
    BY <1>4
  <2>2. PICK y \in D : \E i \in 1 .. g[y] : u = <<y, i>> /\ k[u] = <<y, f[y] + i>>
    BY <1>4
  <2>. HIDE DEF k, V
  <2>3. x = y
    BY <2>1, <2>2
  <2>4. f[x] \in Nat /\ g[x] \in Nat
    OBVIOUS
  <2>5. PICK i \in 1 .. g[x] : t = <<x, i>> /\ k[t] = <<x, f[x] + i>>
    BY <2>1
  <2>6. PICK j \in 1 .. g[x] : u = <<x, j>> /\ k[u] = <<x, f[x] + j>>
    BY <2>2, <2>3
  <2>7. f[x] + i = f[x] + j
    BY <2>5, <2>6
  <2>8. i = j
    BY <2>4, <2>7
  <2> QED BY <2>5, <2>6, <2>8
<1>7. \A v \in V : \E t \in Pieces(g) : k[t] = v
  <2>. SUFFICES ASSUME NEW v \in V PROVE \E t \in Pieces(g) : k[t] = v
    OBVIOUS
  <2>1. PICK x \in D : \E i \in 1 .. g[x] : v = <<x, f[x] + i>>
    BY <1>2
  <2>2. PICK i \in 1 .. g[x] : v = <<x, f[x] + i>>
    BY <2>1
  <2>3. <<x, i>> \in Pieces(g)
    BY <2>2, PiecesOf
  <2> QED BY <2>2, <2>3
<1>8. IsFiniteSet(V) /\ Cardinality(V) = Cardinality(Pieces(g))
  <2>1. V \in SUBSET Pieces(b)
    OBVIOUS
  <2>2. IsFiniteSet(V)
    <3>. HIDE DEF V
    <3> QED BY <2>1, <1>1, FS_Subset
  <2>3. k \in Injection(Pieces(g), V) /\ k \in Surjection(Pieces(g), V)
    <3>. HIDE DEF k, V
    <3> QED BY <1>5, <1>6, <1>7 DEF Injection, Surjection, IsInjective
  <2>. HIDE DEF k, V
  <2> QED BY <2>2, <2>3, FS_Injection
<1>9. Pieces(b) = Pieces(f) \cup V /\ Pieces(f) \cap V = {}
  <2>1. ASSUME NEW t \in Pieces(f) PROVE t \in Pieces(b) /\ t \notin V
    <3>1. PICK x \in D : \E i \in 1 .. f[x] : t = <<x, i>>
      BY PiecesOf
    <3>2. PICK i \in 1 .. f[x] : t = <<x, i>>
      BY <3>1
    <3>3. f[x] \in Nat /\ g[x] \in Nat /\ b[x] = f[x] + g[x]
      OBVIOUS
    <3>4. i \in 1 .. b[x] /\ ~(i > f[x])
      BY <3>3
    <3>5. t \in Pieces(b)
      BY <3>2, <3>4, PiecesOf
    <3> QED BY <3>2, <3>4, <3>5
  <2>2. ASSUME NEW t \in Pieces(b), t \notin V PROVE t \in Pieces(f)
    <3>1. PICK x \in D : \E i \in 1 .. b[x] : t = <<x, i>>
      BY PiecesOf
    <3>2. PICK i \in 1 .. b[x] : t = <<x, i>>
      BY <3>1
    <3>3. f[x] \in Nat /\ b[x] \in Nat
      OBVIOUS
    <3>4. ~(i > f[x])
      BY <2>2, <3>2
    <3>5. i \in 1 .. f[x]
      BY <3>3, <3>4
    <3> QED BY <3>2, <3>5, PiecesOf
  <2> QED BY <2>1, <2>2
<1>10. Cardinality(Pieces(b)) = Cardinality(Pieces(f)) + Cardinality(V)
  <2>. HIDE DEF V
  <2>1. Cardinality(Pieces(f) \cap V) = 0
    BY <1>9, FS_EmptySet
  <2>2. /\ Cardinality(Pieces(f) \cup V) = Cardinality(Pieces(f)) + Cardinality(V) - Cardinality(Pieces(f) \cap V)
        /\ Cardinality(Pieces(f)) \in Nat /\ Cardinality(V) \in Nat
    BY <1>1, <1>8, FS_Union, FS_CardinalityType
  <2> QED BY <2>1, <2>2, <1>9
<1> QED BY <1>1, <1>8, <1>10

\* A set of numbers that is not empty has a least one.
LEMMA LeastOfNumbers ==
  ASSUME NEW T, T \subseteq Nat, T # {}
  PROVE  \E n \in T : \A m \in T : n <= m
<1>. DEFINE R == {ss \in Nat \X Nat : ss[1] < ss[2]}
<1>1. IsWellFoundedOn(R, Nat)
  BY NatLessThanWellFounded DEF OpToRel
<1>. HIDE DEF R
<1>2. PICK n \in T : \A m \in T : ~(<<m, n>> \in R)
  BY <1>1, WFMin
<1>3. \A m \in T : <<m, n>> \in R <=> m < n
  BY DEF R
<1>4. ASSUME NEW m \in T PROVE n <= m
  <2>1. n \in Nat /\ m \in Nat /\ ~(m < n)
    BY <1>2, <1>3
  <2> QED BY <2>1
<1> QED BY <1>4

\* The points of R are sorted into groups, h says which: the sum over the groups
\* of the sums of the groups is the whole sum.
Group(R, h, d) == {r \in R : h[r] = d}
SumOf(f, A) == Total([r \in A |-> f[r]])

LEMMA TotalOfGroups ==
  ASSUME NEW D, IsFiniteSet(D), NEW R, IsFiniteSet(R), NEW f \in [R -> Nat], NEW h \in [R -> D]
  PROVE  /\ \A d \in D : SumOf(f, Group(R, h, d)) \in Nat
         /\ Total([d \in D |-> SumOf(f, Group(R, h, d))]) = Total(f)
<1>. DEFINE Within(E) == {r \in R : h[r] \in E}
            Groups(E) == Total([d \in E |-> SumOf(f, Group(R, h, d))])
            Wrong(n) == \E E \in SUBSET D : Cardinality(E) = n /\ Groups(E) # SumOf(f, Within(E))
            T == {n \in Nat : Wrong(n)}
<1>1. \A A \in SUBSET R : SumOf(f, A) \in Nat
  <2>1. ASSUME NEW A \in SUBSET R PROVE SumOf(f, A) \in Nat
    <3>1. IsFiniteSet(A) /\ [r \in A |-> f[r]] \in [A -> Nat]
      BY FS_Subset
    <3> QED BY <3>1, TotalCounted DEF SumOf
  <2> QED BY <2>1
<1>2. \A d \in D : SumOf(f, Group(R, h, d)) \in Nat
  BY <1>1 DEF Group
<1>3. \A E \in SUBSET D : Groups(E) = SumOf(f, Within(E))
  <2>. SUFFICES ASSUME NEW E0 \in SUBSET D, Groups(E0) # SumOf(f, Within(E0)) PROVE FALSE
    OBVIOUS
  <2>1. Cardinality(E0) \in T
    <3>1. Cardinality(E0) \in Nat
      BY FS_Subset, FS_CardinalityType
    <3> QED BY <3>1
  <2>2. PICK n \in T : \A m \in T : n <= m
    <3>. HIDE DEF T
    <3>1. T \subseteq Nat
      BY DEF T
    <3> QED BY <2>1, <3>1, LeastOfNumbers
  <2>3. PICK E \in SUBSET D : Cardinality(E) = n /\ Groups(E) # SumOf(f, Within(E))
    OBVIOUS
  <2>4. IsFiniteSet(E)
    BY FS_Subset
  <2>5. CASE E = {}
    <3>1. Groups(E) = 0
      <4>1. [d \in E |-> SumOf(f, Group(R, h, d))] \in [{} -> Nat]
        BY <2>5
      <4> QED BY <4>1, TotalNothing
    <3>2. SumOf(f, Within(E)) = 0
      <4>1. Within(E) = {} /\ [r \in Within(E) |-> f[r]] \in [{} -> Nat]
        BY <2>5
      <4> QED BY <4>1, TotalNothing DEF SumOf
    <3> QED BY <3>1, <3>2, <2>3
  <2>6. CASE E # {}
    <3>1. PICK e \in E : TRUE
      BY <2>6
    <3>. DEFINE F == E \ {e}
    <3>2. F \in SUBSET D /\ Cardinality(F) \in Nat /\ Cardinality(F) < n
      <4>1. Cardinality(F) = Cardinality(E) - 1 /\ Cardinality(F) \in Nat
        BY <2>4, <3>1, FS_RemoveElement, FS_CardinalityType
      <4> QED BY <4>1, <2>3
    <3>3. Groups(F) = SumOf(f, Within(F))
      <4>. SUFFICES ASSUME Groups(F) # SumOf(f, Within(F)) PROVE FALSE
        OBVIOUS
      <4>1. Cardinality(F) \in T
        BY <3>2
      <4>2. n <= Cardinality(F) /\ n \in Nat
        BY <4>1, <2>2
      <4>. HIDE DEF F, T
      <4> QED BY <4>2, <3>2
    <3>4. Groups(E) = SumOf(f, Group(R, h, e)) + Groups(F)
      <4>. DEFINE g == [d \in E |-> SumOf(f, Group(R, h, d))]
      <4>1. g \in [E -> Nat] /\ g[e] = SumOf(f, Group(R, h, e))
        BY <1>2
      <4>2. [x \in F |-> g[x]] = [d \in F |-> SumOf(f, Group(R, h, d))]
        OBVIOUS
      <4>3. Total(g) = g[e] + Total([x \in F |-> g[x]])
        <5>. HIDE DEF g
        <5> QED BY <4>1, <2>4, TotalApart
      <4> QED BY <4>1, <4>2, <4>3
    <3>5. SumOf(f, Within(E)) = SumOf(f, Group(R, h, e)) + SumOf(f, Within(F))
      <4>. DEFINE G == Group(R, h, e)
                  W == Within(E)
                  k == [r \in W |-> f[r]]
      <4>1. IsFiniteSet(W) /\ k \in [W -> Nat]
        BY FS_Subset
      <4>2. G \in SUBSET W /\ W \ G = Within(F)
        BY DEF Group
      <4>3. /\ [r \in G |-> k[r]] = [r \in G |-> f[r]]
            /\ [r \in W \ G |-> k[r]] = [r \in Within(F) |-> f[r]]
        BY <4>2
      <4>4. Total(k) = Total([r \in G |-> k[r]]) + Total([r \in W \ G |-> k[r]])
        <5>. HIDE DEF k, G, W
        <5> QED BY <4>1, <4>2, TotalSplit
      <4> QED BY <4>3, <4>4 DEF SumOf
    <3> QED BY <2>3, <3>3, <3>4, <3>5
  <2> QED BY <2>5, <2>6
<1>4. Groups(D) = SumOf(f, Within(D))
  BY <1>3
<1>5. Within(D) = R /\ [r \in R |-> f[r]] = f
  OBVIOUS
<1> QED BY <1>2, <1>4, <1>5 DEF SumOf

-----------------------------------------------------------------------------
(* What a step gives, and to whom *)

Purses == [live : [Trader -> Purse], saved : [Trader -> Purse], coins : [Accounts -> Nat]]

PurseOf(s, p) == IF p \in online THEN s.live[p] ELSE s.saved[p]

Fortune(s, p, sort) ==
  IF sort = "money" THEN PurseOf(s, p).cash + PurseOf(s, p).bank ELSE PurseOf(s, p).goods

Wealth(s, sort) ==
  IF sort = "coin" THEN Total(s.coins) ELSE Total([p \in Trader |-> Fortune(s, p, sort)])

\* t is s with n more of a sort for p.
Given(s, t, p, so, n) ==
  /\ t \in Purses
  /\ \A q \in Trader, sort \in {"money", "item"} :
       Fortune(t, q, sort) = Fortune(s, q, sort) + (IF q = p /\ sort = so THEN n ELSE 0)
  /\ \A a \in Accounts :
       t.coins[a] = s.coins[a] + (IF a = account[p] /\ so = "coin" THEN n ELSE 0)

LEMMA PurseFacts ==
  ASSUME NEW s \in Purses, NEW p \in Trader
  PROVE  /\ PurseOf(s, p) \in Purse
         /\ \A sort : Fortune(s, p, sort) \in Nat
         /\ account[p] \in Accounts /\ s.coins[account[p]] \in Nat
<1>1. PurseOf(s, p) \in Purse
  BY DEF Purses, PurseOf
<1>2. /\ PurseOf(s, p).cash \in Nat /\ PurseOf(s, p).bank \in Nat /\ PurseOf(s, p).goods \in Nat
  BY <1>1 DEF Purse
<1>3. account[p] \in Accounts
  BY DEF Accounts
<1>4. s.coins[account[p]] \in Nat
  BY <1>3 DEF Purses
<1> QED BY <1>1, <1>2, <1>3, <1>4 DEF Fortune

\* A purse that replaces another.
Replaced(s, p, purse) ==
  IF p \in online THEN [s EXCEPT !.live = [@ EXCEPT ![p] = purse]]
                  ELSE [s EXCEPT !.saved = [@ EXCEPT ![p] = purse]]

LEMMA ReplacedFacts ==
  ASSUME NEW s \in Purses, NEW p \in Trader, NEW purse \in Purse
  PROVE  /\ Replaced(s, p, purse) \in Purses
         /\ PurseOf(Replaced(s, p, purse), p) = purse
         /\ \A q \in Trader \ {p} : PurseOf(Replaced(s, p, purse), q) = PurseOf(s, q)
         /\ Replaced(s, p, purse).coins = s.coins
<1>1. CASE p \in online
  BY <1>1 DEF Purses, PurseOf, Replaced
<1>2. CASE p \notin online
  BY <1>2 DEF Purses, PurseOf, Replaced
<1> QED BY <1>1, <1>2

LEMMA ReplacedGives ==
  ASSUME NEW s \in Purses, NEW p \in Trader, NEW purse \in Purse, NEW so \in {"money", "item"}, NEW n \in Int,
         so = "money" => /\ purse.cash + purse.bank = PurseOf(s, p).cash + PurseOf(s, p).bank + n
                         /\ purse.goods = PurseOf(s, p).goods,
         so = "item" => /\ purse.cash + purse.bank = PurseOf(s, p).cash + PurseOf(s, p).bank
                        /\ purse.goods = PurseOf(s, p).goods + n
  PROVE  Given(s, Replaced(s, p, purse), p, so, n)
<1>. DEFINE t == Replaced(s, p, purse)
<1>1. /\ t \in Purses /\ PurseOf(t, p) = purse /\ t.coins = s.coins
      /\ \A q \in Trader \ {p} : PurseOf(t, q) = PurseOf(s, q)
  BY ReplacedFacts
<1>. HIDE DEF t
<1>2. ASSUME NEW q \in Trader, NEW sort \in {"money", "item"}
      PROVE  Fortune(t, q, sort) = Fortune(s, q, sort) + (IF q = p /\ sort = so THEN n ELSE 0)
  <2>1. CASE q = p
    BY <2>1, <1>1, PurseFacts DEF Fortune
  <2>2. CASE q # p
    <3>1. Fortune(t, q, sort) = Fortune(s, q, sort) /\ Fortune(s, q, sort) \in Nat
      BY <2>2, <1>1, PurseFacts DEF Fortune
    <3> QED BY <3>1, <2>2
  <2> QED BY <2>1, <2>2
<1>3. ASSUME NEW a \in Accounts
      PROVE  t.coins[a] = s.coins[a] + (IF a = account[p] /\ so = "coin" THEN n ELSE 0)
  <2>1. s.coins[a] \in Nat /\ so # "coin"
    BY DEF Purses
  <2> QED BY <2>1, <1>1
<1>4. Given(s, t, p, so, n)
  BY <1>1, <1>2, <1>3 DEF Given
<1> QED BY <1>4 DEF t

LEMMA CreditGives ==
  ASSUME NEW s \in Purses, NEW p \in Trader, NEW n \in Nat
  PROVE  Given(s, Add(s, p, "bank", n), p, "money", n) /\ Credit(s, p, n) = Add(s, p, "bank", n)
<1>. DEFINE purse == [PurseOf(s, p) EXCEPT !.bank = @ + n]
<1>1. PurseOf(s, p) \in Purse
  BY PurseFacts
<1>2. /\ purse \in Purse
      /\ purse.cash + purse.bank = PurseOf(s, p).cash + PurseOf(s, p).bank + n
      /\ purse.goods = PurseOf(s, p).goods
  BY <1>1 DEF Purse
<1>3. Add(s, p, "bank", n) = Replaced(s, p, purse)
  BY DEF Add, Replaced, PurseOf, Purses
<1>. HIDE DEF purse
<1>4. Given(s, Replaced(s, p, purse), p, "money", n)
  BY <1>2, ReplacedGives
<1> QED BY <1>3, <1>4 DEF Credit

LEMMA DeliverGives ==
  ASSUME NEW s \in Purses, NEW p \in Trader, NEW kind \in Kind, NEW n \in Int,
         (IF kind = "item" THEN Fortune(s, p, "item") ELSE s.coins[account[p]]) + n \in Nat
  PROVE  Given(s, Deliver(s, p, kind, n), p, kind, n)
<1>1. CASE kind = "item"
  <2>. DEFINE purse == [PurseOf(s, p) EXCEPT !.goods = @ + n]
  <2>1. PurseOf(s, p) \in Purse /\ PurseOf(s, p).goods + n \in Nat
    BY <1>1, PurseFacts DEF Fortune
  <2>2. /\ purse \in Purse
        /\ purse.cash + purse.bank = PurseOf(s, p).cash + PurseOf(s, p).bank
        /\ purse.goods = PurseOf(s, p).goods + n
    BY <2>1 DEF Purse
  <2>3. Deliver(s, p, kind, n) = Replaced(s, p, purse)
    BY <1>1 DEF Deliver, Add, Replaced, PurseOf, Purses
  <2>. HIDE DEF purse
  <2>4. Given(s, Replaced(s, p, purse), p, "item", n)
    BY <2>2, ReplacedGives
  <2> QED BY <2>3, <2>4, <1>1
<1>2. CASE kind = "coin"
  <2>. DEFINE t == [s EXCEPT !.coins[account[p]] = @ + n]
  <2>1. t = Deliver(s, p, kind, n)
    BY <1>2 DEF Deliver
  <2>2. account[p] \in Accounts /\ s.coins[account[p]] + n \in Nat
    BY <1>2, PurseFacts
  <2>3. /\ t \in Purses /\ t.live = s.live /\ t.saved = s.saved
        /\ \A a \in Accounts : t.coins[a] = s.coins[a] + (IF a = account[p] THEN n ELSE 0)
    BY <2>2 DEF Purses
  <2>. HIDE DEF t
  <2>4. ASSUME NEW q \in Trader, NEW sort \in {"money", "item"}
        PROVE  Fortune(t, q, sort) = Fortune(s, q, sort) + (IF q = p /\ sort = kind THEN n ELSE 0)
    <3>1. Fortune(t, q, sort) = Fortune(s, q, sort) /\ Fortune(s, q, sort) \in Nat
      BY <2>3, PurseFacts DEF Fortune, PurseOf
    <3> QED BY <3>1, <1>2
  <2>5. Given(s, t, p, kind, n)
    BY <2>3, <2>4, <1>2 DEF Given
  <2> QED BY <2>1, <2>5
<1> QED BY <1>1, <1>2 DEF Kind

LEMMA PayGives ==
  ASSUME Now \in Purses, NEW p \in online, p \in Trader, NEW sum \in Nat, sum <= Money(p)
  PROVE  Given(Now, Pay(Now, p, sum), p, "money", -sum)
<1>. DEFINE cash == IF live[p].cash < sum THEN live[p].cash ELSE sum
            purse == [live[p] EXCEPT !.cash = @ - cash, !.bank = @ - (sum - cash)]
<1>1. PurseOf(Now, p) = live[p] /\ live[p] \in Purse
  BY DEF PurseOf, Now, Purses
<1>2. /\ live[p].cash \in Nat /\ live[p].bank \in Nat
      /\ sum <= live[p].cash + live[p].bank
  BY <1>1 DEF Purse, Money
<1>3. cash \in Nat /\ live[p].cash - cash \in Nat /\ live[p].bank - (sum - cash) \in Nat
  BY <1>2
<1>4. Pay(Now, p, sum) = Replaced(Now, p, purse)
  BY DEF Pay, Replaced, Now
<1>. HIDE DEF cash
<1>5. /\ purse \in Purse
      /\ purse.cash + purse.bank = live[p].cash + live[p].bank + (-sum)
      /\ purse.goods = live[p].goods
  <2>1. purse \in Purse
    BY <1>1, <1>3 DEF Purse
  <2>2. /\ purse.cash = live[p].cash - cash /\ purse.bank = live[p].bank - (sum - cash)
        /\ purse.goods = live[p].goods
    BY <1>1 DEF Purse
  <2>. HIDE DEF purse
  <2> QED BY <2>1, <2>2, <1>2, <1>3
<1>. HIDE DEF purse
<1>6. Given(Now, Replaced(Now, p, purse), p, "money", -sum)
  BY <1>1, <1>5, ReplacedGives
<1> QED BY <1>4, <1>6

LEMMA AccountsFinite == IsFiniteSet(Accounts)
<1>1. [p \in Trader |-> account[p]] \in Surjection(Trader, Accounts)
  BY DEF Surjection, Accounts
<1> QED BY <1>1, MarketAssumption, FS_Surjection

\* What is given adds to the wealth of all.
LEMMA WealthGiven ==
  ASSUME NEW s \in Purses, NEW t, NEW p \in Trader, NEW so \in Sort, NEW n \in Int, Given(s, t, p, so, n),
         NEW sort \in Sort
  PROVE  /\ Wealth(s, sort) \in Nat /\ Wealth(t, sort) \in Nat
         /\ Wealth(t, sort) = Wealth(s, sort) + (IF sort = so THEN n ELSE 0)
<1>1. t \in Purses /\ IsFiniteSet(Trader)
  BY MarketAssumption DEF Given
<1>2. CASE sort # "coin"
  <2>. DEFINE f == [q \in Trader |-> Fortune(s, q, sort)]
              g == [q \in Trader |-> Fortune(t, q, sort)]
  <2>1. f \in [Trader -> Nat] /\ g \in [Trader -> Nat]
    BY <1>1, PurseFacts
  <2>2. sort \in {"money", "item"}
    BY <1>2 DEF Sort, Kind
  <2>3. /\ \A q \in Trader \ {p} : g[q] = f[q]
        /\ g[p] = f[p] + (IF sort = so THEN n ELSE 0)
    BY <2>1, <2>2 DEF Given
  <2>. HIDE DEF f, g
  <2>4. Total(f) \in Nat /\ Total(g) \in Nat /\ Total(g) = Total(f) - f[p] + g[p]
    BY <1>1, <2>1, <2>3, TotalChange
  <2>5. f[p] \in Nat /\ g[p] \in Nat
    BY <2>1
  <2>6. Wealth(s, sort) = Total(f) /\ Wealth(t, sort) = Total(g)
    BY <1>2 DEF Wealth, f, g
  <2> QED BY <2>3, <2>4, <2>5, <2>6
<1>3. CASE sort = "coin"
  <2>. DEFINE f == s.coins
              g == t.coins
  <2>1. f \in [Accounts -> Nat] /\ g \in [Accounts -> Nat] /\ account[p] \in Accounts
    BY <1>1 DEF Purses, Accounts
  <2>2. /\ \A a \in Accounts \ {account[p]} : g[a] = f[a]
        /\ g[account[p]] = f[account[p]] + (IF sort = so THEN n ELSE 0)
    BY <2>1, <1>3 DEF Given
  <2>3. IsFiniteSet(Accounts)
    BY AccountsFinite
  <2>. HIDE DEF f, g
  <2>4. Total(f) \in Nat /\ Total(g) \in Nat /\ Total(g) = Total(f) - f[account[p]] + g[account[p]]
    BY <2>1, <2>2, <2>3, TotalChange
  <2>5. f[account[p]] \in Nat /\ g[account[p]] \in Nat
    BY <2>1
  <2>6. Wealth(s, sort) = Total(f) /\ Wealth(t, sort) = Total(g)
    BY <1>3 DEF Wealth, f, g
  <2> QED BY <2>2, <2>4, <2>5, <2>6
<1> QED BY <1>2, <1>3

\* Nobody of another account than that of p has less.
NotLess(s, t, q) ==
  /\ \A sort \in {"money", "item"} : Fortune(t, q, sort) >= Fortune(s, q, sort)
  /\ t.coins[account[q]] >= s.coins[account[q]]

LEMMA GivenNotLess ==
  ASSUME NEW s \in Purses, NEW t, NEW p \in Trader, NEW so \in Sort, NEW n \in Int, Given(s, t, p, so, n),
         NEW q \in Trader, account[q] # account[p] \/ n >= 0
  PROVE  NotLess(s, t, q)
<1>1. \A sort \in {"money", "item"} : Fortune(t, q, sort) >= Fortune(s, q, sort)
  <2>1. ASSUME NEW sort \in {"money", "item"} PROVE Fortune(t, q, sort) >= Fortune(s, q, sort)
    <3>1. Fortune(s, q, sort) \in Nat /\ Fortune(t, q, sort) = Fortune(s, q, sort) + (IF q = p /\ sort = so THEN n ELSE 0)
      BY PurseFacts DEF Given
    <3> QED BY <3>1
  <2> QED BY <2>1
<1>2. t.coins[account[q]] >= s.coins[account[q]]
  <2>1. s.coins[account[q]] \in Nat /\ account[q] \in Accounts
    BY PurseFacts
  <2>2. t.coins[account[q]] = s.coins[account[q]] + (IF account[q] = account[p] /\ so = "coin" THEN n ELSE 0)
    BY <2>1 DEF Given
  <2> QED BY <2>1, <2>2
<1> QED BY <1>1, <1>2 DEF NotLess

LEMMA NotLessTwice ==
  ASSUME NEW s \in Purses, NEW t \in Purses, NEW u \in Purses, NEW q \in Trader,
         NotLess(s, t, q), NotLess(t, u, q)
  PROVE  NotLess(s, u, q)
<1>1. ASSUME NEW sort \in {"money", "item"} PROVE Fortune(u, q, sort) >= Fortune(s, q, sort)
  <2>1. Fortune(s, q, sort) \in Nat /\ Fortune(t, q, sort) \in Nat /\ Fortune(u, q, sort) \in Nat
    BY PurseFacts
  <2> QED BY <2>1 DEF NotLess
<1>2. s.coins[account[q]] \in Nat /\ t.coins[account[q]] \in Nat /\ u.coins[account[q]] \in Nat
  BY PurseFacts
<1> QED BY <1>1, <1>2 DEF NotLess

-----------------------------------------------------------------------------
(* The books *)

LEMMA HeldNumber ==
  ASSUME NEW o \in Offer, NEW sort
  PROVE  Held(o, sort) \in Nat
<1>1. o.amount \in Nat /\ o.price \in Nat
  BY MarketAssumption DEF Offer
<1>2. o.price * o.amount \in Nat
  BY <1>1
<1> QED BY <1>1, <1>2 DEF Held

LEMMA ValueWith ==
  ASSUME NEW S, IsFiniteSet(S), S \subseteq Offer, NEW o \in Offer, o \notin S, NEW sort
  PROVE  /\ IsFiniteSet(S \cup {o})
         /\ Value(S, sort) \in Nat /\ Value(S \cup {o}, sort) \in Nat /\ Held(o, sort) \in Nat
         /\ Value(S \cup {o}, sort) = Value(S, sort) + Held(o, sort)
<1>. DEFINE U == S \cup {o}
            f == [q \in U |-> Held(q, sort)]
<1>1. IsFiniteSet(U) /\ o \in U /\ S = U \ {o}
  BY FS_AddElement
<1>2. f \in [U -> Nat] /\ f[o] = Held(o, sort)
  BY HeldNumber
<1>3. [q \in U \ {o} |-> f[q]] = [q \in S |-> Held(q, sort)]
  BY <1>1
<1>4. /\ Total([q \in U \ {o} |-> f[q]]) \in Nat /\ Total(f) \in Nat
      /\ Total(f) = f[o] + Total([q \in U \ {o} |-> f[q]])
  <2>. HIDE DEF f, U
  <2> QED BY <1>1, <1>2, TotalApart
<1>5. Held(o, sort) \in Nat
  BY HeldNumber
<1> QED BY <1>1, <1>2, <1>3, <1>4, <1>5 DEF Value

Begin(sort) ==
  IF sort = "coin" THEN Total([a \in Accounts |-> StartCoins])
  ELSE Total([p \in Trader |-> IF sort = "money" THEN Start[p].cash + Start[p].bank ELSE Start[p].goods])

Fees(n, sort) == IF sort = "money" THEN Fee * n ELSE 0

Books(s, offs, n, exc) ==
  \A sort \in Sort : Wealth(s, sort) + Value(offs, sort) + Fees(n, sort) = Begin(sort) + exc[sort]

LEMMA WealthNumber ==
  ASSUME NEW s \in Purses, NEW sort \in Sort
  PROVE  Wealth(s, sort) \in Nat
<1>1. CASE sort # "coin"
  <2>. DEFINE f == [q \in Trader |-> Fortune(s, q, sort)]
  <2>1. f \in [Trader -> Nat]
    BY PurseFacts
  <2>2. Wealth(s, sort) = Total(f)
    BY <1>1 DEF Wealth
  <2>. HIDE DEF f
  <2> QED BY <2>1, <2>2, TotalCounted, MarketAssumption
<1>2. CASE sort = "coin"
  <2>1. s.coins \in [Accounts -> Nat] /\ Wealth(s, sort) = Total(s.coins)
    BY <1>2 DEF Wealth, Purses
  <2> QED BY <2>1, TotalCounted, AccountsFinite
<1> QED BY <1>1, <1>2

LEMMA ValueNumber ==
  ASSUME NEW S, IsFiniteSet(S), S \subseteq Offer, NEW sort
  PROVE  Value(S, sort) \in Nat
<1>. DEFINE f == [q \in S |-> Held(q, sort)]
<1>1. f \in [S -> Nat]
  BY HeldNumber
<1>2. Value(S, sort) = Total(f)
  BY DEF Value
<1>. HIDE DEF f
<1> QED BY <1>1, <1>2, TotalCounted

\* The rows of a search: what they name is not younger than the last offer, and
\* an offer they name is what it was, but for what was accepted of it since.
RowsOK(found, offs, n) ==
  /\ IsFiniteSet(found)
  /\ \A r \in found :
       /\ r.id <= n
       /\ \A q \in found : q.id = r.id => q = r
       /\ \A o \in offs : o.id = r.id =>
            /\ o.owner = r.owner /\ o.sale = r.sale /\ o.kind = r.kind /\ o.price = r.price
            /\ o.amount <= r.amount

OffersOK(offs, n) ==
  /\ IsFiniteSet(offs) /\ offs \subseteq Offer
  /\ \A o \in offs : o.id <= n /\ \A q \in offs : q.id = o.id => q = o

MarketInv ==
  /\ MarketTypeOK
  /\ OffersOK(offers, opened)
  /\ rows \in Seq(SUBSET Offer)
  /\ \A i \in 1 .. Len(rows) : RowsOK(rows[i], offers, opened)
  /\ Books(Now, offers, opened, excess)

LEMMA NowTyped ==
  ASSUME MarketTypeOK
  PROVE  Now \in Purses
BY DEF MarketTypeOK, Now, Purses

LEMMA BooksConserve ==
  ASSUME MarketInv
  PROVE  Conserved
<1>0. \A p \in Trader : PurseOf(Now, p) = Record(p)
  BY DEF PurseOf, Now, Record
<1>1. /\ Wealth(Now, "money") = Total([p \in Trader |-> Record(p).cash + Record(p).bank])
      /\ Begin("money") = Total([p \in Trader |-> Start[p].cash + Start[p].bank])
  <2>1. [p \in Trader |-> Fortune(Now, p, "money")] = [p \in Trader |-> Record(p).cash + Record(p).bank]
    BY <1>0 DEF Fortune
  <2> QED BY <2>1 DEF Wealth, Begin
<1>2. /\ Wealth(Now, "item") = Total([p \in Trader |-> Record(p).goods])
      /\ Begin("item") = Total([p \in Trader |-> Start[p].goods])
  <2>1. [p \in Trader |-> Fortune(Now, p, "item")] = [p \in Trader |-> Record(p).goods]
    BY <1>0 DEF Fortune
  <2> QED BY <2>1 DEF Wealth, Begin
<1>3. /\ Wealth(Now, "coin") = Total(coins)
      /\ Begin("coin") = Total([a \in Accounts |-> StartCoins])
  BY DEF Wealth, Now, Begin
<1>4. \A sort \in Sort : Wealth(Now, sort) \in Nat /\ Value(offers, sort) \in Nat
  BY NowTyped, WealthNumber, ValueNumber DEF MarketInv, OffersOK
<1>5. \A sort \in Sort : Wealth(Now, sort) + Value(offers, sort) + Fees(opened, sort) = Begin(sort) + excess[sort]
  BY DEF MarketInv, Books
<1>6. Wealth(Now, "money") + Value(offers, "money") + Fee * opened = Begin("money") + excess["money"]
  BY <1>5 DEF Fees, Sort
<1>7. Wealth(Now, "item") + Value(offers, "item") = Begin("item") + excess["item"]
  BY <1>4, <1>5 DEF Fees, Sort, Kind
<1>8. Wealth(Now, "coin") + Value(offers, "coin") = Begin("coin") + excess["coin"]
  BY <1>4, <1>5 DEF Fees, Sort, Kind
<1> QED BY <1>1, <1>2, <1>3, <1>6, <1>7, <1>8 DEF MarketInv, Conserved

\* What a step of the purses has to show; the rows are left or one is taken off.
LEMMA StepKeeps ==
  ASSUME MarketInv, NEW t \in Purses, PursesAre(t),
         online' = online, inMarket' \subseteq online,
         opened' \in 0 .. MaxOffers, excess' \in [Sort -> Nat], OffersOK(offers', opened'),
         rows' \in Seq(SUBSET Offer), \A i \in 1 .. Len(rows') : RowsOK(rows'[i], offers', opened'),
         Books(t, offers', opened', excess')
  PROVE  MarketInv'
<1>1. live' = t.live /\ saved' = t.saved /\ coins' = t.coins
  BY DEF PursesAre
<1>2. MarketTypeOK'
  BY <1>1 DEF MarketInv, MarketTypeOK, Purses, OffersOK
<1>3. Now' = t
  BY <1>1 DEF Now, Purses
<1>4. \A p, sort : (Fortune(Now, p, sort))' = Fortune(t, p, sort)
  BY <1>3 DEF Fortune, PurseOf
<1>5. \A sort : (Wealth(Now, sort))' = Wealth(t, sort)
  BY <1>3, <1>4 DEF Wealth
<1>6. Books(Now, offers, opened, excess)'
  BY <1>5 DEF Books, Value, Held, Fees, Begin
<1> QED BY <1>2, <1>6 DEF MarketInv, OffersOK, RowsOK

-----------------------------------------------------------------------------
(* Requests *)

\* Going in and out of the game moves a record, and changes none.
LEMMA ComingAndGoing ==
  ASSUME MarketInv, NEW p \in Trader, EnterGame(p) \/ LeaveGame(p)
  PROVE  MarketInv' /\ \A q \in Trader : Record(q)' = Record(q)
<1>1. MarketTypeOK'
  <2>1. p \in Trader /\ saved[p] \in Purse /\ live[p] \in Purse /\ Start[p] \in Purse
    BY MarketAssumption DEF MarketInv, MarketTypeOK, Purse
  <2> QED BY <2>1 DEF MarketInv, MarketTypeOK, EnterGame, LeaveGame
<1>2. ASSUME NEW q \in Trader PROVE Record(q)' = Record(q)
  <2>1. CASE EnterGame(p)
    BY <2>1 DEF EnterGame, Record, MarketInv, MarketTypeOK
  <2>2. CASE LeaveGame(p)
    BY <2>2 DEF LeaveGame, Record, MarketInv, MarketTypeOK
  <2> QED BY <2>1, <2>2
<1>3. \A q \in Trader : PurseOf(Now, q) = Record(q) /\ (PurseOf(Now, q))' = Record(q)'
  BY DEF PurseOf, Now, Record
<1>4. \A q \in Trader : \A sort : (Fortune(Now, q, sort))' = Fortune(Now, q, sort)
  BY <1>2, <1>3 DEF Fortune
<1>5. /\ Now'.coins = Now.coins
      /\ UNCHANGED <<offers, opened, rows, excess>>
  BY DEF EnterGame, LeaveGame, Now
<1>6. \A sort : (Wealth(Now, sort))' = Wealth(Now, sort)
  <2>1. ASSUME NEW sort
        PROVE  [q \in Trader |-> (Fortune(Now, q, sort))'] = [q \in Trader |-> Fortune(Now, q, sort)]
    BY <1>4
  <2> QED BY <2>1, <1>5 DEF Wealth
<1>7. Books(Now, offers, opened, excess)'
  BY <1>5, <1>6 DEF MarketInv, Books, Value, Held, Fees, Begin
<1> QED BY <1>1, <1>2, <1>5, <1>7 DEF MarketInv, OffersOK, RowsOK

\* What does not touch purses and offers.
LEMMA QuietSteps ==
  ASSUME MarketInv, UNCHANGED <<online, live, saved, coins, offers, opened, rows, excess>>,
         inMarket' \subseteq online
  PROVE  MarketInv'
<1>1. PursesAre(Now) /\ Now \in Purses
  BY NowTyped DEF PursesAre, Now, MarketInv
<1> QED BY <1>1, StepKeeps DEF MarketInv, MarketTypeOK

LEMMA SelectKeeps ==
  ASSUME MarketInv, Select
  PROVE  MarketInv'
<1>. DEFINE found == {o \in offers : Expired(o)}
<1>1. PursesAre(Now) /\ Now \in Purses
  BY NowTyped DEF PursesAre, Now, MarketInv, Select
<1>2. found \in SUBSET Offer /\ RowsOK(found, offers, opened)
  <2>1. IsFiniteSet(found)
    BY FS_Subset DEF MarketInv, OffersOK
  <2>2. \A o \in offers : o.amount <= o.amount
    BY DEF MarketInv, OffersOK, Offer
  <2> QED BY <2>1, <2>2 DEF MarketInv, OffersOK, RowsOK
<1>. HIDE DEF found
<1>3. rows' = Append(rows, found) /\ rows \in Seq(SUBSET Offer)
  BY DEF Select, found, MarketInv
<1>4. rows' \in Seq(SUBSET Offer) /\ \A i \in 1 .. Len(rows') : RowsOK(rows'[i], offers, opened)
  <2>1. /\ Len(rows') = Len(rows) + 1 /\ rows'[Len(rows) + 1] = found
        /\ \A i \in 1 .. Len(rows) : rows'[i] = rows[i]
    BY <1>3
  <2>2. ASSUME NEW i \in 1 .. Len(rows') PROVE RowsOK(rows'[i], offers, opened)
    <3>1. i \in 1 .. Len(rows) \/ i = Len(rows) + 1
      BY <2>1, <1>3
    <3> QED BY <3>1, <2>1, <1>2 DEF MarketInv
  <2> QED BY <2>2, <1>2, <1>3
<1>5. UNCHANGED <<online, inMarket, offers, opened, excess>>
  BY DEF Select
<1> QED BY <1>1, <1>4, <1>5, StepKeeps DEF MarketInv, MarketTypeOK

\* The sort an offer holds, and how much of it is in n pieces.
SortOf(o) == IF o.sale THEN o.kind ELSE "money"
Piece(o, n) == IF o.sale THEN n ELSE o.price * n

LEMMA HeldOne ==
  ASSUME NEW o \in Offer
  PROVE  /\ SortOf(o) \in Sort /\ o.owner \in Trader /\ o.kind \in Kind /\ o.amount \in Nat /\ o.price \in Nat
         /\ \A sort \in Sort : Held(o, sort) = IF sort = SortOf(o) THEN Piece(o, o.amount) ELSE 0
         /\ \A n \in Nat : Piece(o, n) \in Nat
         /\ \A n \in Nat : n <= o.amount => Piece(o, o.amount) = Piece(o, o.amount - n) + Piece(o, n)
<1>1. /\ o.owner \in Trader /\ o.kind \in Kind /\ o.amount \in Nat /\ o.price \in Nat /\ o.sale \in BOOLEAN
  BY MarketAssumption DEF Offer
<1>2. SortOf(o) \in Sort
  BY <1>1 DEF SortOf, Sort
<1>3. \A sort \in Sort : Held(o, sort) = IF sort = SortOf(o) THEN Piece(o, o.amount) ELSE 0
  BY <1>1 DEF Held, SortOf, Piece, Kind
<1>4. ASSUME NEW n \in Nat PROVE Piece(o, n) \in Nat
  <2>1. o.price * n \in Nat
    BY <1>1
  <2> QED BY <2>1 DEF Piece
<1>5. ASSUME NEW n \in Nat, n <= o.amount
      PROVE  Piece(o, o.amount) = Piece(o, o.amount - n) + Piece(o, n)
  <2>1. o.price * o.amount = o.price * (o.amount - n) + o.price * n
    BY <1>1
  <2> QED BY <2>1, <1>1 DEF Piece
<1> QED BY <1>1, <1>2, <1>3, <1>4, <1>5

LEMMA HandBackGives ==
  ASSUME NEW s \in Purses, NEW o \in Offer, NEW n \in Nat
  PROVE  Given(s, HandBack(s, o, n), o.owner, SortOf(o), Piece(o, n))
<1>1. o.owner \in Trader /\ o.kind \in Kind /\ Piece(o, n) \in Nat
  BY HeldOne
<1>2. CASE o.sale
  <2>1. Fortune(s, o.owner, "item") \in Nat /\ s.coins[account[o.owner]] \in Nat
    BY <1>1, PurseFacts
  <2>2. Given(s, Deliver(s, o.owner, o.kind, n), o.owner, o.kind, n)
    BY <1>1, <2>1, DeliverGives
  <2> QED BY <2>2, <1>2 DEF HandBack, SortOf, Piece
<1>3. CASE ~o.sale
  <2>1. o.price * n \in Nat
    BY <1>1, <1>3 DEF Piece
  <2>2. /\ Given(s, Add(s, o.owner, "bank", o.price * n), o.owner, "money", o.price * n)
        /\ Credit(s, o.owner, o.price * n) = Add(s, o.owner, "bank", o.price * n)
    BY <1>1, <2>1, CreditGives
  <2> QED BY <2>2, <1>3 DEF HandBack, SortOf, Piece
<1> QED BY <1>2, <1>3

\* Nobody of another account than that of p has less after the step.
HasNotLess(q) ==
  /\ Record(q)'.cash + Record(q)'.bank >= Record(q).cash + Record(q).bank
  /\ Record(q)'.goods >= Record(q).goods
  /\ coins'[account[q]] >= coins[account[q]]

OthersKeep(p) == \A q \in Trader : account[q] # account[p] => HasNotLess(q)

LEMMA NotLessHas ==
  ASSUME NEW t \in Purses, PursesAre(t), online' = online, NEW q \in Trader, NotLess(Now, t, q)
  PROVE  HasNotLess(q)
<1>1. Record(q) = PurseOf(Now, q) /\ Record(q)' = PurseOf(t, q)
  BY DEF PursesAre, Record, PurseOf, Now
<1>2. coins' = t.coins /\ coins = Now.coins
  BY DEF PursesAre, Now
<1>3. /\ Fortune(t, q, "money") >= Fortune(Now, q, "money")
      /\ Fortune(t, q, "item") >= Fortune(Now, q, "item")
      /\ t.coins[account[q]] >= Now.coins[account[q]]
  BY DEF NotLess
<1> QED BY <1>1, <1>2, <1>3 DEF HasNotLess, Fortune

LEMMA SameHas ==
  ASSUME MarketTypeOK, NEW q \in Trader, Record(q)' = Record(q), coins' = coins
  PROVE  HasNotLess(q)
<1>1. Now \in Purses /\ PurseOf(Now, q) = Record(q) /\ Now.coins = coins
  BY NowTyped DEF PurseOf, Now, Record
<1>2. /\ Record(q).cash + Record(q).bank \in Nat /\ Record(q).goods \in Nat
      /\ coins[account[q]] \in Nat
  <2>1. PurseOf(Now, q) \in Purse /\ Now.coins[account[q]] \in Nat
    BY <1>1, PurseFacts
  <2> QED BY <2>1, <1>1 DEF Purse
<1> QED BY <1>2 DEF HasNotLess

LEMMA FewerOffers ==
  ASSUME NEW offs, NEW n, OffersOK(offs, n), NEW some \in SUBSET offs
  PROVE  OffersOK(some, n) /\ \A found : RowsOK(found, offs, n) => RowsOK(found, some, n)
<1>1. IsFiniteSet(some)
  BY FS_Subset DEF OffersOK
<1> QED BY <1>1 DEF OffersOK, RowsOK

\* An offer in the market, and the others.
LEMMA OfferApart ==
  ASSUME MarketInv, NEW o \in offers
  PROVE  /\ o \in Offer /\ o.id <= opened /\ opened \in Nat
         /\ OffersOK(offers \ {o}, opened) /\ IsFiniteSet(offers \ {o}) /\ offers \ {o} \subseteq Offer
         /\ \A i \in 1 .. Len(rows) : RowsOK(rows[i], offers \ {o}, opened)
         /\ \A sort \in Sort : /\ Value(offers, sort) \in Nat /\ Value(offers \ {o}, sort) \in Nat
                               /\ Held(o, sort) \in Nat
                               /\ Value(offers, sort) = Value(offers \ {o}, sort) + Held(o, sort)
<1>1. /\ o \in Offer /\ o.id <= opened /\ opened \in Nat
      /\ OffersOK(offers, opened)
  BY MarketAssumption DEF MarketInv, OffersOK, MarketTypeOK
<1>2. /\ OffersOK(offers \ {o}, opened)
      /\ \A i \in 1 .. Len(rows) : RowsOK(rows[i], offers \ {o}, opened)
  BY <1>1, FewerOffers DEF MarketInv
<1>3. IsFiniteSet(offers \ {o}) /\ offers \ {o} \subseteq Offer
  BY <1>2 DEF OffersOK
<1>4. (offers \ {o}) \cup {o} = offers /\ o \notin offers \ {o}
  OBVIOUS
<1>5. ASSUME NEW sort \in Sort
      PROVE  /\ Value(offers, sort) \in Nat /\ Value(offers \ {o}, sort) \in Nat
             /\ Held(o, sort) \in Nat
             /\ Value(offers, sort) = Value(offers \ {o}, sort) + Held(o, sort)
  <2>. DEFINE S == offers \ {o}
  <2>1. S \cup {o} = offers /\ o \notin S /\ IsFiniteSet(S) /\ S \subseteq Offer
    BY <1>3, <1>4
  <2>. HIDE DEF S
  <2>2. /\ Value(S, sort) \in Nat /\ Value(S \cup {o}, sort) \in Nat /\ Held(o, sort) \in Nat
        /\ Value(S \cup {o}, sort) = Value(S, sort) + Held(o, sort)
    BY <2>1, <1>1, ValueWith
  <2> QED BY <2>1, <2>2 DEF S
<1> QED BY <1>1, <1>2, <1>3, <1>5

LEMMA CancelKeeps ==
  ASSUME MarketInv, NEW p \in Trader, NEW o \in offers, Cancel(p, o)
  PROVE  MarketInv' /\ OthersKeep(p)
<1>. DEFINE t == HandBack(Now, o, o.amount)
<1>1. Now \in Purses /\ o \in Offer /\ o.amount \in Nat
  BY NowTyped, OfferApart, HeldOne DEF MarketInv
<1>2. /\ SortOf(o) \in Sort /\ o.owner \in Trader /\ Piece(o, o.amount) \in Nat
      /\ \A sort \in Sort : Held(o, sort) = IF sort = SortOf(o) THEN Piece(o, o.amount) ELSE 0
  BY <1>1, HeldOne
<1>3. Given(Now, t, o.owner, SortOf(o), Piece(o, o.amount)) /\ t \in Purses
  BY <1>1, HandBackGives DEF Given
<1>4. /\ PursesAre(t) /\ offers' = offers \ {o} /\ o.owner = p
      /\ UNCHANGED <<online, inMarket, opened, rows, excess>>
  BY DEF Cancel
<1>. HIDE DEF t
<1>5. Books(t, offers', opened', excess')
  <2>1. ASSUME NEW sort \in Sort
        PROVE  Wealth(t, sort) + Value(offers', sort) + Fees(opened', sort) = Begin(sort) + excess'[sort]
    <3>1. /\ Wealth(Now, sort) \in Nat
          /\ Wealth(t, sort) = Wealth(Now, sort) + (IF sort = SortOf(o) THEN Piece(o, o.amount) ELSE 0)
      BY <1>1, <1>2, <1>3, WealthGiven
    <3>2. /\ Value(offers \ {o}, sort) \in Nat /\ Held(o, sort) \in Nat
          /\ Value(offers, sort) = Value(offers \ {o}, sort) + Held(o, sort)
      BY OfferApart
    <3>3. Wealth(t, sort) + Value(offers', sort) = Wealth(Now, sort) + Value(offers, sort)
      BY <3>1, <3>2, <1>2, <1>4
    <3>4. Wealth(Now, sort) + Value(offers, sort) + Fees(opened, sort) = Begin(sort) + excess[sort]
      BY DEF MarketInv, Books
    <3> QED BY <3>3, <3>4, <1>4
  <2> QED BY <2>1 DEF Books
<1>6. MarketInv'
  <2>1. OffersOK(offers', opened') /\ \A i \in 1 .. Len(rows') : RowsOK(rows'[i], offers', opened')
    BY <1>4, OfferApart
  <2> QED BY <1>3, <1>4, <1>5, <2>1, StepKeeps DEF MarketInv, MarketTypeOK
<1>7. OthersKeep(p)
  BY <1>1, <1>2, <1>3, <1>4, GivenNotLess, NotLessHas DEF OthersKeep
<1> QED BY <1>6, <1>7

LEMMA HasIs ==
  ASSUME MarketTypeOK, NEW p \in online
  PROVE  /\ p \in Trader /\ Money(p) = Fortune(Now, p, "money") /\ Money(p) \in Nat
         /\ \A kind \in Kind : Has(p, kind) = IF kind = "item" THEN Fortune(Now, p, "item")
                                              ELSE Now.coins[account[p]]
<1>1. Now \in Purses /\ PurseOf(Now, p) = live[p] /\ p \in Trader /\ Now.coins = coins
  BY NowTyped DEF PurseOf, Now, MarketTypeOK
<1>2. Fortune(Now, p, "money") \in Nat
  BY <1>1, PurseFacts
<1> QED BY <1>1, <1>2 DEF Money, Has, Fortune

\* The purses after an offer was opened.
Opened(p, sale, kind, n, price) ==
  LET paid == Pay(Now, p, IF sale THEN Fee ELSE price * n + Fee)
  IN  IF sale THEN Deliver(paid, p, kind, -n) ELSE paid

NewOffer(p, sale, kind, n, price) ==
  [id |-> opened + 1, owner |-> p, sale |-> sale, kind |-> kind, amount |-> n, price |-> price]

LEMMA OpenedGives ==
  ASSUME MarketInv, NEW p \in Trader, NEW sale \in BOOLEAN, NEW kind \in Kind, NEW n \in Amount,
         NEW price \in Price, Create(p, sale, kind, n, price)
  PROVE  /\ Opened(p, sale, kind, n, price) \in Purses
         /\ \A sort \in Sort :
              Wealth(Opened(p, sale, kind, n, price), sort) + Held(NewOffer(p, sale, kind, n, price), sort)
                + Fees(1, sort) = Wealth(Now, sort)
         /\ \A q \in Trader : account[q] # account[p] => NotLess(Now, Opened(p, sale, kind, n, price), q)
<1>. DEFINE due == IF sale THEN Fee ELSE price * n + Fee
            paid == Pay(Now, p, due)
            t == Opened(p, sale, kind, n, price)
            new == NewOffer(p, sale, kind, n, price)
<1>1. n \in Nat /\ price \in Nat /\ price * n \in Nat /\ Fee \in Nat /\ due \in Nat
  <2>1. n \in Nat /\ price \in Nat /\ Fee \in Nat
    BY MarketAssumption
  <2>2. price * n \in Nat
    BY <2>1
  <2> QED BY <2>1, <2>2
<1>2. p \in online /\ due <= Money(p) /\ (sale => n <= Has(p, kind)) /\ MarketTypeOK /\ Now \in Purses
  BY NowTyped DEF Create, MarketInv, MarketTypeOK
<1>3. Given(Now, paid, p, "money", -due) /\ paid \in Purses
  <2>. HIDE DEF due
  <2> QED BY <1>1, <1>2, PayGives DEF Given
<1>4. t = IF sale THEN Deliver(paid, p, kind, -n) ELSE paid
  BY DEF Opened
<1>5. \A sort \in Sort : Held(new, sort) =
        IF sale THEN (IF kind = sort THEN n ELSE 0) ELSE (IF sort = "money" THEN price * n ELSE 0)
  BY DEF Held, NewOffer
<1>. HIDE DEF due, paid, t, new
<1>6. \A sort \in Sort : /\ Wealth(Now, sort) \in Nat /\ Wealth(paid, sort) \in Nat
                         /\ Wealth(paid, sort) = Wealth(Now, sort) + (IF sort = "money" THEN -due ELSE 0)
  BY <1>1, <1>2, <1>3, WealthGiven DEF Sort
<1>7. \A q \in Trader : account[q] # account[p] => NotLess(Now, paid, q)
  BY <1>1, <1>2, <1>3, GivenNotLess DEF Sort
<1>8. CASE sale
  <2>1. (IF kind = "item" THEN Fortune(paid, p, "item") ELSE paid.coins[account[p]]) + (-n) \in Nat
    <3>1. /\ Fortune(paid, p, "item") = Fortune(Now, p, "item") /\ Fortune(Now, p, "item") \in Nat
          /\ paid.coins[account[p]] = Now.coins[account[p]] /\ Now.coins[account[p]] \in Nat
      <4>1. /\ Fortune(Now, p, "item") \in Nat /\ Now.coins[account[p]] \in Nat /\ account[p] \in Accounts
        BY <1>2, PurseFacts
      <4>2. /\ Fortune(paid, p, "item") = Fortune(Now, p, "item") + 0
            /\ paid.coins[account[p]] = Now.coins[account[p]] + 0
        BY <1>3, <4>1 DEF Given
      <4> QED BY <4>1, <4>2
    <3>2. n <= IF kind = "item" THEN Fortune(Now, p, "item") ELSE Now.coins[account[p]]
      BY <1>2, <1>8, HasIs
    <3> QED BY <3>1, <3>2, <1>1
  <2>2. Given(paid, t, p, kind, -n) /\ t \in Purses
    BY <2>1, <1>1, <1>3, <1>4, <1>8, DeliverGives DEF Given
  <2>3. kind \in Sort /\ kind # "money"
    BY DEF Sort, Kind
  <2>4. \A sort \in Sort : Wealth(t, sort) = Wealth(paid, sort) + (IF sort = kind THEN -n ELSE 0)
    BY <1>1, <1>3, <2>2, <2>3, WealthGiven
  <2>5. due = Fee
    BY <1>8 DEF due
  <2>6. \A sort \in Sort : Wealth(t, sort) + Held(new, sort) + Fees(1, sort) = Wealth(Now, sort)
    BY <1>1, <1>5, <1>6, <1>8, <2>3, <2>4, <2>5 DEF Fees
  <2>7. \A q \in Trader : account[q] # account[p] => NotLess(Now, t, q)
    <3>1. ASSUME NEW q \in Trader, account[q] # account[p] PROVE NotLess(Now, t, q)
      <4>1. NotLess(paid, t, q)
        BY <3>1, <1>1, <1>3, <2>2, <2>3, GivenNotLess
      <4> QED BY <4>1, <3>1, <1>2, <1>3, <1>7, <2>2, NotLessTwice
    <3> QED BY <3>1
  <2> QED BY <2>2, <2>6, <2>7 DEF t, new
<1>9. CASE ~sale
  <2>1. t = paid /\ due = price * n + Fee
    BY <1>4, <1>9 DEF due
  <2>2. PICK cost \in Nat : cost = price * n
    BY <1>1
  <2>3. \A sort \in Sort : Wealth(t, sort) + Held(new, sort) + Fees(1, sort) = Wealth(Now, sort)
    BY <1>1, <1>5, <1>6, <1>9, <2>1, <2>2 DEF Fees
  <2> QED BY <1>3, <1>7, <2>1, <2>3 DEF t, new
<1> QED BY <1>8, <1>9

LEMMA CreateKeeps ==
  ASSUME MarketInv, NEW p \in Trader, NEW sale \in BOOLEAN, NEW kind \in Kind, NEW n \in Amount,
         NEW price \in Price, Create(p, sale, kind, n, price)
  PROVE  MarketInv' /\ OthersKeep(p)
<1>. DEFINE t == Opened(p, sale, kind, n, price)
            new == NewOffer(p, sale, kind, n, price)
<1>1. /\ t \in Purses
      /\ \A sort \in Sort : Wealth(t, sort) + Held(new, sort) + Fees(1, sort) = Wealth(Now, sort)
      /\ \A q \in Trader : account[q] # account[p] => NotLess(Now, t, q)
  BY OpenedGives
<1>2. /\ PursesAre(t) /\ opened' = opened + 1 /\ offers' = offers \cup {new}
      /\ opened < MaxOffers
      /\ UNCHANGED <<online, inMarket, rows, excess>>
  BY DEF Create, Opened, NewOffer
<1>3. opened \in 0 .. MaxOffers /\ MaxOffers \in Nat /\ Fee \in Nat /\ n \in Nat /\ opened + 1 \in Id
  BY <1>2, MarketAssumption DEF MarketInv, MarketTypeOK, Id
<1>4. new \in Offer /\ new.id = opened + 1
  BY <1>3 DEF NewOffer, Offer
<1>5. OffersOK(offers, opened) /\ Now \in Purses
  BY NowTyped DEF MarketInv
<1>. HIDE DEF t, new
<1>6. \A o \in offers : o.id \in Nat /\ o.id <= opened /\ o.id # new.id
  BY <1>3, <1>4, <1>5, MarketAssumption DEF OffersOK, Offer, Id
<1>7. OffersOK(offers', opened')
  <2>1. IsFiniteSet(offers') /\ offers' \subseteq Offer
    BY <1>2, <1>4, <1>5, FS_AddElement DEF OffersOK
  <2>2. ASSUME NEW o \in offers' PROVE o.id <= opened' /\ \A q \in offers' : q.id = o.id => q = o
    BY <1>2, <1>3, <1>4, <1>5, <1>6 DEF OffersOK
  <2> QED BY <2>1, <2>2 DEF OffersOK
<1>8. \A i \in 1 .. Len(rows') : RowsOK(rows'[i], offers', opened')
  <2>1. ASSUME NEW i \in 1 .. Len(rows) PROVE RowsOK(rows[i], offers', opened + 1)
    <3>1. RowsOK(rows[i], offers, opened) /\ rows[i] \in SUBSET Offer
      BY DEF MarketInv
    <3>2. \A r \in rows[i] : r.id \in Nat /\ r.id <= opened /\ r.id <= opened + 1 /\ r.id # new.id
      BY <3>1, <1>3, <1>4 DEF RowsOK, Offer, Id
    <3> QED BY <3>1, <3>2, <1>2 DEF RowsOK
  <2> QED BY <2>1, <1>2
<1>9. Books(t, offers', opened', excess')
  <2>1. ASSUME NEW sort \in Sort
        PROVE  Wealth(t, sort) + Value(offers', sort) + Fees(opened', sort) = Begin(sort) + excess'[sort]
    <3>1. /\ Value(offers, sort) \in Nat /\ Value(offers', sort) \in Nat /\ Held(new, sort) \in Nat
          /\ Value(offers', sort) = Value(offers, sort) + Held(new, sort)
      <4>1. new \notin offers
        BY <1>6
      <4> QED BY <4>1, <1>2, <1>4, <1>5, ValueWith DEF OffersOK
    <3>2. Wealth(Now, sort) + Value(offers, sort) + Fees(opened, sort) = Begin(sort) + excess[sort]
      BY DEF MarketInv, Books
    <3>3. Fees(opened', sort) = Fees(opened, sort) + Fees(1, sort) /\ Fees(opened, sort) \in Nat /\ Fees(1, sort) \in Nat
      <4>1. Fee * (opened + 1) = Fee * opened + Fee * 1 /\ Fee * opened \in Nat /\ Fee * 1 \in Nat
        BY <1>3
      <4> QED BY <4>1, <1>2 DEF Fees
    <3>4. Wealth(t, sort) + Held(new, sort) + Fees(1, sort) = Wealth(Now, sort)
      BY <1>1
    <3>5. Wealth(Now, sort) \in Nat /\ Wealth(t, sort) \in Nat
      BY <1>1, <1>5, WealthNumber
    <3>6. Wealth(t, sort) + Value(offers', sort) + Fees(opened', sort)
            = Wealth(Now, sort) + Value(offers, sort) + Fees(opened, sort)
      BY <3>1, <3>3, <3>4, <3>5
    <3> QED BY <3>2, <3>6, <1>2
  <2> QED BY <2>1 DEF Books
<1>10. MarketInv'
  <2>1. opened' \in 0 .. MaxOffers
    BY <1>2, <1>3
  <2> QED BY <1>1, <1>2, <1>7, <1>8, <1>9, <2>1, StepKeeps DEF MarketInv, MarketTypeOK
<1>11. OthersKeep(p)
  BY <1>1, <1>2, NotLessHas DEF OthersKeep
<1> QED BY <1>10, <1>11

\* What is left of the offers after an acceptance: less by what n pieces hold.
LEMMA WithoutLess ==
  ASSUME MarketInv, NEW o \in offers, NEW n \in Nat, n <= o.amount
  PROVE  /\ OffersOK(Without(o, n), opened)
         /\ \A i \in 1 .. Len(rows) : RowsOK(rows[i], Without(o, n), opened)
         /\ \A sort \in Sort :
              /\ Value(offers, sort) \in Nat /\ Value(Without(o, n), sort) \in Nat
              /\ Value(offers, sort)
                   = Value(Without(o, n), sort) + (IF sort = SortOf(o) THEN Piece(o, n) ELSE 0)
<1>. DEFINE S == offers \ {o}
            less == [o EXCEPT !.amount = @ - n]
<1>1. /\ o \in Offer /\ o.id <= opened /\ opened \in Nat
      /\ OffersOK(S, opened) /\ IsFiniteSet(S) /\ S \subseteq Offer
      /\ \A i \in 1 .. Len(rows) : RowsOK(rows[i], S, opened)
      /\ \A sort \in Sort : /\ Value(offers, sort) \in Nat /\ Value(S, sort) \in Nat
                            /\ Held(o, sort) \in Nat
                            /\ Value(offers, sort) = Value(S, sort) + Held(o, sort)
  BY OfferApart
<1>2. /\ o.amount \in Nat
      /\ \A sort \in Sort : Held(o, sort) = IF sort = SortOf(o) THEN Piece(o, o.amount) ELSE 0
      /\ Piece(o, n) \in Nat
      /\ Piece(o, o.amount) = Piece(o, o.amount - n) + Piece(o, n)
  BY <1>1, HeldOne
<1>3. CASE o.amount = n
  <2>1. Without(o, n) = S
    BY <1>3 DEF Without
  <2> QED BY <2>1, <1>1, <1>2, <1>3
<1>4. CASE o.amount # n
  <2>1. Without(o, n) = S \cup {less}
    BY <1>4 DEF Without
  <2>2. /\ less \in Offer /\ less.id = o.id /\ less.amount = o.amount - n /\ less.amount <= o.amount
        /\ less.owner = o.owner /\ less.sale = o.sale /\ less.kind = o.kind /\ less.price = o.price
    BY <1>1, <1>2 DEF Offer
  <2>3. SortOf(less) = SortOf(o) /\ Piece(less, less.amount) = Piece(o, o.amount - n)
    BY <2>2 DEF SortOf, Piece
  <2>4. /\ less \notin S /\ \A q \in S : q.id # o.id
    <3>1. \A q \in offers : q.id = o.id => q = o
      BY DEF MarketInv, OffersOK
    <3> QED BY <3>1, <2>2
  <2>5. \A sort \in Sort : /\ Value(S \cup {less}, sort) \in Nat
                           /\ Value(S \cup {less}, sort) = Value(S, sort) + Held(less, sort)
    <3>. HIDE DEF S, less
    <3> QED BY <1>1, <2>2, <2>4, ValueWith
  <2>6. \A sort \in Sort : Held(less, sort) = IF sort = SortOf(o) THEN Piece(o, o.amount - n) ELSE 0
    <3>. HIDE DEF less
    <3> QED BY <2>2, <2>3, HeldOne
  <2>7. Piece(o, o.amount - n) \in Nat
    <3>1. o.amount - n \in Nat
      BY <1>2
    <3> QED BY <3>1, <1>1, HeldOne
  <2>8. OffersOK(S \cup {less}, opened)
    <3>. HIDE DEF S, less
    <3>1. IsFiniteSet(S \cup {less}) /\ S \cup {less} \subseteq Offer
      BY <1>1, <2>2, FS_AddElement
    <3> QED BY <3>1, <1>1, <2>2, <2>4 DEF OffersOK
  <2>9. ASSUME NEW i \in 1 .. Len(rows) PROVE RowsOK(rows[i], S \cup {less}, opened)
    <3>. DEFINE found == rows[i]
    <3>1. RowsOK(found, S, opened) /\ RowsOK(found, offers, opened) /\ found \subseteq Offer
      <4>1. found \in SUBSET Offer
        BY DEF MarketInv
      <4> QED BY <4>1, <1>1 DEF MarketInv
    <3>. HIDE DEF found, S, less
    <3>2. \A r \in found : r.id = o.id => /\ o.owner = r.owner /\ o.sale = r.sale /\ o.kind = r.kind
                                          /\ o.price = r.price /\ less.amount <= r.amount
      <4>1. ASSUME NEW r \in found, r.id = o.id PROVE less.amount <= r.amount
        <5>1. o.amount <= r.amount /\ r.amount \in Nat /\ less.amount \in Nat
          BY <3>1, <4>1, <2>2 DEF RowsOK, Offer
        <5> QED BY <5>1, <2>2, <1>2
      <4> QED BY <3>1, <4>1 DEF RowsOK
    <3>3. RowsOK(found, S \cup {less}, opened)
      BY <3>1, <3>2, <2>2 DEF RowsOK
    <3> QED BY <3>3 DEF found
  <2>. HIDE DEF S, less
  <2>10. ASSUME NEW sort \in Sort
         PROVE  /\ Value(S \cup {less}, sort) \in Nat
                /\ Value(offers, sort)
                     = Value(S \cup {less}, sort) + (IF sort = SortOf(o) THEN Piece(o, n) ELSE 0)
    <3>1. /\ Value(S, sort) \in Nat /\ Value(offers, sort) = Value(S, sort) + Held(o, sort)
          /\ Value(S \cup {less}, sort) = Value(S, sort) + Held(less, sort)
      BY <1>1, <2>5
    <3>2. CASE sort = SortOf(o)
      <4>1. Held(o, sort) = Piece(o, o.amount) /\ Held(less, sort) = Piece(o, o.amount - n)
        BY <3>2, <1>2, <2>6
      <4> QED BY <3>1, <3>2, <4>1, <1>2, <2>7
    <3>3. CASE sort # SortOf(o)
      <4>1. Held(o, sort) = 0 /\ Held(less, sort) = 0
        BY <3>3, <1>2, <2>6
      <4> QED BY <3>1, <3>3, <4>1
    <3> QED BY <3>2, <3>3
  <2> QED BY <1>1, <2>1, <2>8, <2>9, <2>10
<1> QED BY <1>3, <1>4

\* The purses after n pieces of o were accepted.
Sold(p, o, n) ==
  Deliver(Add(Deliver(Now, p, o.kind, -n), p, "bank", o.price * n), o.owner, o.kind, n)

Bought(p, o, n) ==
  Credit(Deliver(Pay(Now, p, o.price * n), p, o.kind, n), o.owner, o.price * n)

\* What the purses together gain by an acceptance, and that nobody of another
\* account than that of p has less.
Gains(t, p, o, n) ==
  /\ t \in Purses
  /\ \A sort \in Sort : /\ Wealth(Now, sort) \in Nat /\ Wealth(t, sort) \in Nat
                        /\ Wealth(t, sort)
                             = Wealth(Now, sort) + (IF sort = SortOf(o) THEN Piece(o, n) ELSE 0)
  /\ \A q \in Trader : account[q] # account[p] => NotLess(Now, t, q)

LEMMA SoldGives ==
  ASSUME MarketTypeOK, NEW p \in online, NEW o \in Offer, NEW n \in Nat, ~o.sale, n <= Has(p, o.kind)
  PROVE  Gains(Sold(p, o, n), p, o, n)
<1>. DEFINE kind == o.kind
            s == Deliver(Now, p, kind, -n)
            u == Add(s, p, "bank", o.price * n)
            t == Deliver(u, o.owner, kind, n)
<1>1. /\ p \in Trader /\ o.owner \in Trader /\ kind \in Kind /\ kind \in Sort /\ kind # "money"
      /\ Now \in Purses /\ o.price \in Nat /\ o.price * n \in Nat
  <2>1. p \in Trader /\ o.owner \in Trader /\ kind \in Kind /\ Now \in Purses /\ o.price \in Nat
    BY NowTyped, HeldOne DEF MarketTypeOK
  <2>2. o.price * n \in Nat
    BY <2>1
  <2> QED BY <2>1, <2>2 DEF Sort, Kind
<1>2. PICK cost \in Nat : cost = o.price * n
  BY <1>1
<1>3. t = Sold(p, o, n) /\ SortOf(o) = "money" /\ Piece(o, n) = cost
  BY <1>2 DEF Sold, SortOf, Piece
<1>4. u = Add(s, p, "bank", cost)
  BY <1>2
<1>5. n <= Has(p, kind)
  OBVIOUS
<1>. HIDE DEF kind, s, u, t
<1>6. Given(Now, s, p, kind, -n) /\ s \in Purses
  <2>1. (IF kind = "item" THEN Fortune(Now, p, "item") ELSE Now.coins[account[p]]) + (-n) \in Nat
    <3>1. Fortune(Now, p, "item") \in Nat /\ Now.coins[account[p]] \in Nat
      BY <1>1, PurseFacts
    <3>2. n <= IF kind = "item" THEN Fortune(Now, p, "item") ELSE Now.coins[account[p]]
      BY <1>1, <1>5, HasIs
    <3> QED BY <3>1, <3>2
  <2>2. s = Deliver(Now, p, kind, -n)
    BY DEF s
  <2>3. -n \in Int
    OBVIOUS
  <2> QED BY <2>1, <2>2, <2>3, <1>1, DeliverGives DEF Given
<1>7. Given(s, u, p, "money", cost) /\ u \in Purses
  <2>1. Given(s, Add(s, p, "bank", cost), p, "money", cost)
    BY <1>1, <1>6, CreditGives
  <2> QED BY <2>1, <1>4 DEF Given
<1>8. Given(u, t, o.owner, kind, n) /\ t \in Purses
  <2>1. Fortune(u, o.owner, "item") \in Nat /\ u.coins[account[o.owner]] \in Nat
    BY <1>1, <1>7, PurseFacts
  <2>2. t = Deliver(u, o.owner, kind, n)
    BY DEF t
  <2> QED BY <2>1, <2>2, <1>1, <1>7, DeliverGives DEF Given
<1>9. \A sort \in Sort :
        /\ Wealth(Now, sort) \in Nat /\ Wealth(s, sort) \in Nat /\ Wealth(u, sort) \in Nat
        /\ Wealth(t, sort) \in Nat
        /\ Wealth(s, sort) = Wealth(Now, sort) + (IF sort = kind THEN -n ELSE 0)
        /\ Wealth(u, sort) = Wealth(s, sort) + (IF sort = "money" THEN cost ELSE 0)
        /\ Wealth(t, sort) = Wealth(u, sort) + (IF sort = kind THEN n ELSE 0)
  <2>1. "money" \in Sort /\ -n \in Int
    BY DEF Sort
  <2>2. \A sort \in Sort : /\ Wealth(Now, sort) \in Nat /\ Wealth(s, sort) \in Nat
          /\ Wealth(s, sort) = Wealth(Now, sort) + (IF sort = kind THEN -n ELSE 0)
    BY <2>1, <1>1, <1>6, WealthGiven
  <2>3. \A sort \in Sort : /\ Wealth(u, sort) \in Nat
          /\ Wealth(u, sort) = Wealth(s, sort) + (IF sort = "money" THEN cost ELSE 0)
    BY <2>1, <1>1, <1>6, <1>7, WealthGiven
  <2>4. \A sort \in Sort : /\ Wealth(t, sort) \in Nat
          /\ Wealth(t, sort) = Wealth(u, sort) + (IF sort = kind THEN n ELSE 0)
    BY <1>1, <1>7, <1>8, WealthGiven
  <2> QED BY <2>2, <2>3, <2>4
<1>10. ASSUME NEW sort \in Sort
       PROVE  Wealth(t, sort) = Wealth(Now, sort) + (IF sort = SortOf(o) THEN Piece(o, n) ELSE 0)
  BY <1>1, <1>3, <1>9
<1>11. ASSUME NEW q \in Trader, account[q] # account[p] PROVE NotLess(Now, t, q)
  <2>1. NotLess(Now, s, q)
    BY <1>1, <1>6, <1>11, GivenNotLess
  <2>2. NotLess(s, u, q)
    BY <1>1, <1>6, <1>7, <1>11, GivenNotLess DEF Sort
  <2>3. NotLess(u, t, q)
    BY <1>1, <1>7, <1>8, GivenNotLess
  <2>4. NotLess(Now, u, q)
    BY <2>1, <2>2, <1>1, <1>6, <1>7, NotLessTwice
  <2> QED BY <2>3, <2>4, <1>1, <1>7, <1>8, NotLessTwice
<1> QED BY <1>3, <1>8, <1>9, <1>10, <1>11 DEF Gains

LEMMA BoughtGives ==
  ASSUME MarketTypeOK, NEW p \in online, NEW o \in Offer, NEW n \in Nat, o.sale, o.price * n <= Money(p)
  PROVE  Gains(Bought(p, o, n), p, o, n)
<1>. DEFINE kind == o.kind
            s == Pay(Now, p, o.price * n)
            u == Deliver(s, p, kind, n)
            t == Credit(u, o.owner, o.price * n)
<1>1. /\ p \in Trader /\ o.owner \in Trader /\ kind \in Kind /\ kind \in Sort /\ kind # "money"
      /\ Now \in Purses /\ o.price \in Nat /\ o.price * n \in Nat
  <2>1. p \in Trader /\ o.owner \in Trader /\ kind \in Kind /\ Now \in Purses /\ o.price \in Nat
    BY NowTyped, HeldOne DEF MarketTypeOK
  <2>2. o.price * n \in Nat
    BY <2>1
  <2> QED BY <2>1, <2>2 DEF Sort, Kind
<1>2. PICK cost \in Nat : cost = o.price * n
  BY <1>1
<1>3. t = Bought(p, o, n) /\ SortOf(o) = kind /\ Piece(o, n) = n
  BY DEF Bought, SortOf, Piece
<1>4. s = Pay(Now, p, cost) /\ t = Credit(u, o.owner, cost) /\ cost <= Money(p)
  BY <1>2
<1>. HIDE DEF kind, s, u, t
<1>5. Given(Now, s, p, "money", -cost) /\ s \in Purses
  BY <1>1, <1>4, PayGives DEF Given
<1>6. Given(s, u, p, kind, n) /\ u \in Purses
  <2>1. Fortune(s, p, "item") \in Nat /\ s.coins[account[p]] \in Nat
    BY <1>1, <1>5, PurseFacts
  <2>2. u = Deliver(s, p, kind, n)
    BY DEF u
  <2> QED BY <2>1, <2>2, <1>1, <1>5, DeliverGives DEF Given
<1>7. Given(u, t, o.owner, "money", cost) /\ t \in Purses
  <2>1. Given(u, Add(u, o.owner, "bank", cost), o.owner, "money", cost) /\ t = Add(u, o.owner, "bank", cost)
    BY <1>1, <1>4, <1>6, CreditGives
  <2> QED BY <2>1 DEF Given
<1>8. \A sort \in Sort :
        /\ Wealth(Now, sort) \in Nat /\ Wealth(s, sort) \in Nat /\ Wealth(u, sort) \in Nat
        /\ Wealth(t, sort) \in Nat
        /\ Wealth(s, sort) = Wealth(Now, sort) + (IF sort = "money" THEN -cost ELSE 0)
        /\ Wealth(u, sort) = Wealth(s, sort) + (IF sort = kind THEN n ELSE 0)
        /\ Wealth(t, sort) = Wealth(u, sort) + (IF sort = "money" THEN cost ELSE 0)
  <2>1. "money" \in Sort /\ -cost \in Int
    BY DEF Sort
  <2>2. \A sort \in Sort : /\ Wealth(Now, sort) \in Nat /\ Wealth(s, sort) \in Nat
          /\ Wealth(s, sort) = Wealth(Now, sort) + (IF sort = "money" THEN -cost ELSE 0)
    BY <2>1, <1>1, <1>5, WealthGiven
  <2>3. \A sort \in Sort : /\ Wealth(u, sort) \in Nat
          /\ Wealth(u, sort) = Wealth(s, sort) + (IF sort = kind THEN n ELSE 0)
    BY <1>1, <1>5, <1>6, WealthGiven
  <2>4. \A sort \in Sort : /\ Wealth(t, sort) \in Nat
          /\ Wealth(t, sort) = Wealth(u, sort) + (IF sort = "money" THEN cost ELSE 0)
    BY <2>1, <1>1, <1>6, <1>7, WealthGiven
  <2> QED BY <2>2, <2>3, <2>4
<1>9. ASSUME NEW sort \in Sort
      PROVE  Wealth(t, sort) = Wealth(Now, sort) + (IF sort = SortOf(o) THEN Piece(o, n) ELSE 0)
  BY <1>1, <1>3, <1>8
<1>10. ASSUME NEW q \in Trader, account[q] # account[p] PROVE NotLess(Now, t, q)
  <2>1. NotLess(Now, s, q)
    BY <1>1, <1>5, <1>10, GivenNotLess DEF Sort
  <2>2. NotLess(s, u, q)
    BY <1>1, <1>5, <1>6, <1>10, GivenNotLess
  <2>3. NotLess(u, t, q)
    BY <1>1, <1>6, <1>7, GivenNotLess DEF Sort
  <2>4. NotLess(Now, u, q)
    BY <2>1, <2>2, <1>1, <1>5, <1>6, NotLessTwice
  <2> QED BY <2>3, <2>4, <1>1, <1>6, <1>7, NotLessTwice
<1> QED BY <1>3, <1>7, <1>8, <1>9, <1>10 DEF Gains

LEMMA AcceptKeeps ==
  ASSUME MarketInv, NEW p \in Trader, NEW o \in offers, NEW n \in Amount, Accept(p, o, n)
  PROVE  MarketInv' /\ OthersKeep(p)
<1>1. /\ p \in online /\ o \in Offer /\ n \in Nat /\ n <= o.amount /\ MarketTypeOK
  BY OfferApart, MarketAssumption DEF Accept, MarketInv, MarketTypeOK
<1>2. PICK t : Gains(t, p, o, n) /\ PursesAre(t)
  <2>1. CASE Sell(p, o, n)
    BY <2>1, <1>1, SoldGives DEF Sell, Sold
  <2>2. CASE Buy(p, o, n)
    BY <2>2, <1>1, BoughtGives DEF Buy, Bought
  <2> QED BY <2>1, <2>2 DEF Accept
<1>3. /\ offers' = Without(o, n)
      /\ UNCHANGED <<online, inMarket, opened, rows, excess>>
  BY DEF Accept
<1>4. /\ OffersOK(Without(o, n), opened)
      /\ \A i \in 1 .. Len(rows) : RowsOK(rows[i], Without(o, n), opened)
      /\ \A sort \in Sort :
           /\ Value(offers, sort) \in Nat /\ Value(Without(o, n), sort) \in Nat
           /\ Value(offers, sort)
                = Value(Without(o, n), sort) + (IF sort = SortOf(o) THEN Piece(o, n) ELSE 0)
  BY <1>1, WithoutLess
<1>5. Books(t, offers', opened', excess')
  <2>1. ASSUME NEW sort \in Sort
        PROVE  Wealth(t, sort) + Value(offers', sort) + Fees(opened', sort) = Begin(sort) + excess'[sort]
    <3>1. /\ Wealth(Now, sort) \in Nat
          /\ Wealth(t, sort) = Wealth(Now, sort) + (IF sort = SortOf(o) THEN Piece(o, n) ELSE 0)
      BY <1>2 DEF Gains
    <3>2. Piece(o, n) \in Nat
      BY <1>1, HeldOne
    <3>3. Wealth(t, sort) + Value(offers', sort) = Wealth(Now, sort) + Value(offers, sort)
      BY <3>1, <3>2, <1>3, <1>4
    <3>4. Wealth(Now, sort) + Value(offers, sort) + Fees(opened, sort) = Begin(sort) + excess[sort]
      BY DEF MarketInv, Books
    <3> QED BY <3>3, <3>4, <1>3
  <2> QED BY <2>1 DEF Books
<1>6. MarketInv'
  BY <1>2, <1>3, <1>4, <1>5, StepKeeps DEF Gains, MarketInv, MarketTypeOK
<1>7. OthersKeep(p)
  BY <1>2, <1>3, NotLessHas DEF OthersKeep, Gains
<1> QED BY <1>6, <1>7

-----------------------------------------------------------------------------
(* Expired offers *)

\* What the owners of rows get together is what the rows hold.
LEMMA RowsOfOwners ==
  ASSUME NEW found, IsFiniteSet(found), found \subseteq Offer, NEW sort
  PROVE  /\ \A p \in Trader : Value({r \in found : r.owner = p}, sort) \in Nat
         /\ \A a \in Accounts : Value({r \in found : account[r.owner] = a}, sort) \in Nat
         /\ Total([p \in Trader |-> Value({r \in found : r.owner = p}, sort)]) = Value(found, sort)
         /\ Total([a \in Accounts |-> Value({r \in found : account[r.owner] = a}, sort)])
              = Value(found, sort)
<1>. DEFINE f == [r \in found |-> Held(r, sort)]
            h == [r \in found |-> r.owner]
            k == [r \in found |-> account[r.owner]]
<1>1. f \in [found -> Nat]
  BY HeldNumber
<1>2. \A r \in found : r.owner \in Trader
  BY DEF Offer
<1>3. h \in [found -> Trader] /\ k \in [found -> Accounts]
  BY <1>2 DEF Accounts
<1>4. ASSUME NEW p PROVE SumOf(f, Group(found, h, p)) = Value({r \in found : r.owner = p}, sort)
  <2>1. Group(found, h, p) = {r \in found : r.owner = p}
    BY DEF Group
  <2>2. [r \in {q \in found : q.owner = p} |-> f[r]] = [o \in {r \in found : r.owner = p} |-> Held(o, sort)]
    OBVIOUS
  <2> QED BY <2>1, <2>2 DEF SumOf, Value
<1>5. ASSUME NEW a PROVE SumOf(f, Group(found, k, a)) = Value({r \in found : account[r.owner] = a}, sort)
  <2>1. Group(found, k, a) = {r \in found : account[r.owner] = a}
    BY DEF Group
  <2>2. [r \in {q \in found : account[q.owner] = a} |-> f[r]]
          = [o \in {r \in found : account[r.owner] = a} |-> Held(o, sort)]
    OBVIOUS
  <2> QED BY <2>1, <2>2 DEF SumOf, Value
<1>6. Total(f) = Value(found, sort)
  BY DEF Value
<1>. HIDE DEF f, h, k
<1>7. /\ \A p \in Trader : SumOf(f, Group(found, h, p)) \in Nat
      /\ Total([p \in Trader |-> SumOf(f, Group(found, h, p))]) = Total(f)
  BY <1>1, <1>3, MarketAssumption, TotalOfGroups
<1>8. /\ \A a \in Accounts : SumOf(f, Group(found, k, a)) \in Nat
      /\ Total([a \in Accounts |-> SumOf(f, Group(found, k, a))]) = Total(f)
  BY <1>1, <1>3, AccountsFinite, TotalOfGroups
<1>9. /\ [p \in Trader |-> SumOf(f, Group(found, h, p))]
           = [p \in Trader |-> Value({r \in found : r.owner = p}, sort)]
      /\ [a \in Accounts |-> SumOf(f, Group(found, k, a))]
           = [a \in Accounts |-> Value({r \in found : account[r.owner] = a}, sort)]
  BY <1>4, <1>5
<1> QED BY <1>4, <1>5, <1>6, <1>7, <1>8, <1>9

LEMMA AllHandedBack ==
  ASSUME MarketTypeOK, NEW found, IsFiniteSet(found), found \subseteq Offer
  PROVE  /\ HandBackAll(found) \in Purses
         /\ \A p \in Trader : \A sort \in {"money", "item"} :
              Fortune(HandBackAll(found), p, sort)
                = Fortune(Now, p, sort) + Value({r \in found : r.owner = p}, sort)
         /\ \A a \in Accounts :
              HandBackAll(found).coins[a]
                = Now.coins[a] + Value({r \in found : account[r.owner] = a}, "coin")
<1>. DEFINE t == HandBackAll(found)
            money(p) == Value({r \in found : r.owner = p}, "money")
            item(p) == Value({r \in found : r.owner = p}, "item")
            coin(a) == Value({r \in found : account[r.owner] = a}, "coin")
            gift(purse, p) == [purse EXCEPT !.bank = @ + money(p), !.goods = @ + item(p)]
<1>1. /\ \A p \in Trader : money(p) \in Nat /\ item(p) \in Nat
      /\ \A a \in Accounts : coin(a) \in Nat
  BY RowsOfOwners
<1>2. t = [live |-> [p \in Trader |-> IF p \in online THEN gift(live[p], p) ELSE live[p]],
           saved |-> [p \in Trader |-> IF p \in online THEN saved[p] ELSE gift(saved[p], p)],
           coins |-> [a \in Accounts |-> coins[a] + coin(a)]]
  BY DEF HandBackAll
<1>. HIDE DEF t, money, item, coin
<1>3. ASSUME NEW purse \in Purse, NEW p \in Trader
      PROVE  /\ gift(purse, p) \in Purse
             /\ gift(purse, p).cash + gift(purse, p).bank = purse.cash + purse.bank + money(p)
             /\ gift(purse, p).goods = purse.goods + item(p)
  <2>1. /\ gift(purse, p).cash = purse.cash /\ gift(purse, p).bank = purse.bank + money(p)
        /\ gift(purse, p).goods = purse.goods + item(p)
    BY DEF Purse
  <2>2. gift(purse, p) \in Purse
    <3>1. purse.bank + money(p) \in Nat /\ purse.goods + item(p) \in Nat
      <4>1. purse.bank \in Nat /\ purse.goods \in Nat /\ money(p) \in Nat /\ item(p) \in Nat
        BY <1>1 DEF Purse
      <4> QED BY <4>1
    <3> QED BY <3>1 DEF Purse
  <2>3. purse.cash \in Nat /\ purse.bank \in Nat /\ money(p) \in Nat
    BY <1>1 DEF Purse
  <2>. HIDE DEF gift
  <2> QED BY <2>1, <2>2, <2>3
<1>. HIDE DEF gift
<1>4. live \in [Trader -> Purse] /\ saved \in [Trader -> Purse] /\ coins \in [Accounts -> Nat]
  BY DEF MarketTypeOK
<1>5. t \in Purses
  <2>1. /\ t.live \in [Trader -> Purse] /\ t.saved \in [Trader -> Purse]
    BY <1>2, <1>3, <1>4
  <2>2. t.coins \in [Accounts -> Nat]
    BY <1>1, <1>2, <1>4
  <2>3. t = [live |-> t.live, saved |-> t.saved, coins |-> t.coins]
    BY <1>2
  <2> QED BY <2>1, <2>2, <2>3 DEF Purses
<1>6. ASSUME NEW p \in Trader PROVE PurseOf(t, p) = gift(PurseOf(Now, p), p) /\ PurseOf(Now, p) \in Purse
  BY <1>2, <1>4 DEF PurseOf, Now
<1>7. ASSUME NEW p \in Trader
      PROVE  /\ Fortune(t, p, "money") = Fortune(Now, p, "money") + money(p)
             /\ Fortune(t, p, "item") = Fortune(Now, p, "item") + item(p)
  BY <1>3, <1>6 DEF Fortune
<1>8. ASSUME NEW a \in Accounts PROVE t.coins[a] = Now.coins[a] + coin(a)
  BY <1>2 DEF Now
<1> QED BY <1>5, <1>7, <1>8 DEF t, money, item, coin

LEMMA WealthHandedBack ==
  ASSUME MarketTypeOK, NEW found, IsFiniteSet(found), found \subseteq Offer, NEW sort \in Sort
  PROVE  /\ Wealth(Now, sort) \in Nat /\ Value(found, sort) \in Nat
         /\ Wealth(HandBackAll(found), sort) = Wealth(Now, sort) + Value(found, sort)
<1>. DEFINE t == HandBackAll(found)
<1>1. /\ t \in Purses
      /\ \A p \in Trader : \A so \in {"money", "item"} :
           Fortune(t, p, so) = Fortune(Now, p, so) + Value({r \in found : r.owner = p}, so)
      /\ \A a \in Accounts : t.coins[a] = Now.coins[a] + Value({r \in found : account[r.owner] = a}, "coin")
  BY AllHandedBack
<1>. HIDE DEF t
<1>2. Now \in Purses
  BY NowTyped
<1>3. Wealth(Now, sort) \in Nat /\ Value(found, sort) \in Nat
  BY <1>2, WealthNumber, ValueNumber
<1>4. CASE sort # "coin"
  <2>. DEFINE f == [p \in Trader |-> Fortune(Now, p, sort)]
              g == [p \in Trader |-> Value({r \in found : r.owner = p}, sort)]
              b == [p \in Trader |-> Fortune(t, p, sort)]
  <2>1. f \in [Trader -> Nat] /\ b \in [Trader -> Nat]
    BY <1>1, <1>2, PurseFacts
  <2>2. g \in [Trader -> Nat] /\ Total(g) = Value(found, sort)
    BY RowsOfOwners
  <2>3. sort \in {"money", "item"}
    BY <1>4 DEF Sort, Kind
  <2>4. \A p \in Trader : b[p] = f[p] + g[p]
    BY <1>1, <2>3
  <2>5. Wealth(Now, sort) = Total(f) /\ Wealth(t, sort) = Total(b)
    BY <1>4 DEF Wealth
  <2>. HIDE DEF f, g, b
  <2>6. Total(b) = Total(f) + Total(g)
    BY <2>1, <2>2, <2>4, TotalOfSums, MarketAssumption
  <2> QED BY <1>3, <2>2, <2>5, <2>6 DEF t
<1>5. CASE sort = "coin"
  <2>. DEFINE f == Now.coins
              g == [a \in Accounts |-> Value({r \in found : account[r.owner] = a}, sort)]
              b == t.coins
  <2>1. f \in [Accounts -> Nat] /\ b \in [Accounts -> Nat]
    BY <1>1, <1>2 DEF Purses
  <2>2. g \in [Accounts -> Nat] /\ Total(g) = Value(found, sort)
    BY RowsOfOwners
  <2>3. \A a \in Accounts : b[a] = f[a] + g[a]
    BY <1>1, <1>5
  <2>4. Wealth(Now, sort) = Total(f) /\ Wealth(t, sort) = Total(b)
    BY <1>5 DEF Wealth
  <2>. HIDE DEF f, g, b
  <2>5. Total(b) = Total(f) + Total(g)
    BY <2>1, <2>2, <2>3, TotalOfSums, AccountsFinite
  <2> QED BY <1>3, <2>2, <2>4, <2>5 DEF t
<1> QED BY <1>4, <1>5

\* What rows hold is what their offers hold and what they have beyond them.
LEMMA RowsAndOffers ==
  ASSUME MarketInv, NEW found, found \subseteq Offer, RowsOK(found, offers, opened),
         \A r \in found : MovedToHistory(r), NEW sort
  PROVE  LET left == {o \in offers : \A r \in found : r.id # o.id}
             over == Total([r \in found |-> Held(Stale(r), sort)])
         IN  /\ Value(left, sort) \in Nat /\ over \in Nat
             /\ Value(found, sort) + Value(left, sort) = Value(offers, sort) + over
<1>. DEFINE left == {o \in offers : \A r \in found : r.id # o.id}
            gone == {o \in offers : \E r \in found : r.id = o.id}
            h == [r \in found |-> OfRow(r)]
            f == [o \in gone |-> Held(o, sort)]
            g == [r \in found |-> Held(OfRow(r), sort)]
            e == [r \in found |-> Held(Stale(r), sort)]
            b == [r \in found |-> Held(r, sort)]
            all == [o \in offers |-> Held(o, sort)]
<1>1. OffersOK(offers, opened) /\ IsFiniteSet(found) /\ IsFiniteSet(offers) /\ offers \subseteq Offer
  BY DEF MarketInv, OffersOK, RowsOK
<1>2. \A r \in found : OfRow(r) \in offers /\ OfRow(r).id = r.id
  BY DEF MovedToHistory, OfRow
<1>3. ASSUME NEW r \in found
      PROVE  /\ Stale(r) \in Offer /\ Held(OfRow(r), sort) \in Nat /\ Held(Stale(r), sort) \in Nat
             /\ Held(r, sort) = Held(OfRow(r), sort) + Held(Stale(r), sort)
  <2>. DEFINE o == OfRow(r)
              x == Stale(r)
  <2>1. /\ o \in Offer /\ r \in Offer /\ o.owner = r.owner /\ o.sale = r.sale /\ o.kind = r.kind
        /\ o.price = r.price /\ o.amount <= r.amount
    BY <1>1, <1>2 DEF RowsOK
  <2>2. o.amount \in Nat /\ r.amount \in Nat /\ r.price \in Nat
    BY <2>1, MarketAssumption DEF Offer
  <2>3. x = [r EXCEPT !.amount = @ - o.amount]
    BY DEF Stale
  <2>. HIDE DEF o, x
  <2>4. /\ x \in Offer /\ x.sale = r.sale /\ x.kind = r.kind /\ x.price = r.price
        /\ x.amount = r.amount - o.amount /\ x.amount \in Nat
    BY <2>1, <2>2, <2>3 DEF Offer
  <2>5. Held(o, sort) \in Nat /\ Held(x, sort) \in Nat
    BY <2>1, <2>4, HeldNumber
  <2>6. r.price * r.amount = r.price * o.amount + r.price * x.amount
    <3>1. r.amount = o.amount + x.amount
      BY <2>2, <2>4
    <3> QED BY <3>1, <2>2, <2>4
  <2>7. Held(r, sort) = Held(o, sort) + Held(x, sort)
    <3>1. CASE r.sale
      BY <3>1, <2>1, <2>2, <2>4 DEF Held
    <3>2. CASE ~r.sale
      BY <3>2, <2>1, <2>4, <2>6 DEF Held
    <3> QED BY <3>1, <3>2
  <2> QED BY <2>4, <2>5, <2>7 DEF o, x
<1>4. /\ g \in [found -> Nat] /\ e \in [found -> Nat] /\ b \in [found -> Nat]
      /\ \A r \in found : b[r] = g[r] + e[r]
  BY <1>3, HeldNumber
<1>5. gone \in SUBSET offers /\ offers \ gone = left /\ IsFiniteSet(gone)
  <2>1. gone \in SUBSET offers /\ offers \ gone = left
    OBVIOUS
  <2>. HIDE DEF gone
  <2> QED BY <2>1, <1>1, FS_Subset
<1>6. f \in [gone -> Nat] /\ all \in [offers -> Nat]
  BY <1>1, HeldNumber
<1>7. h \in Bijection(found, gone) /\ \A r \in found : g[r] = f[h[r]]
  <2>1. h \in [found -> gone]
    BY <1>2
  <2>2. \A r, q \in found : h[r] = h[q] => r = q
    <3>1. ASSUME NEW r \in found, NEW q \in found, OfRow(r) = OfRow(q) PROVE r = q
      <4>1. r.id = q.id
        BY <3>1, <1>2
      <4> QED BY <4>1 DEF RowsOK
    <3> QED BY <3>1
  <2>3. ASSUME NEW o \in gone PROVE \E r \in found : h[r] = o
    <3>1. PICK r \in found : r.id = o.id
      OBVIOUS
    <3>2. OfRow(r) = o
      <4>1. o \in offers /\ OfRow(r) \in offers /\ OfRow(r).id = o.id
        BY <3>1, <1>2
      <4> QED BY <4>1, <1>1 DEF OffersOK
    <3> QED BY <3>1, <3>2
  <2>4. \A r \in found : g[r] = f[h[r]]
    BY <2>1
  <2>. HIDE DEF h, gone, f, g
  <2> QED BY <2>1, <2>2, <2>3, <2>4 DEF Bijection, Injection, Surjection, IsInjective
<1>8. /\ Value(found, sort) = Total(b) /\ Value(offers, sort) = Total(all)
      /\ Total([r \in found |-> Held(Stale(r), sort)]) = Total(e)
  BY DEF Value
<1>9. [o \in gone |-> all[o]] = f /\ [o \in offers \ gone |-> all[o]] = [o \in left |-> Held(o, sort)]
  BY <1>5
<1>10. Value(left, sort) = Total([o \in offers \ gone |-> all[o]])
  BY <1>9 DEF Value
<1>11. /\ Total(b) = Total(g) + Total(e) /\ Total(g) \in Nat /\ Total(e) \in Nat
  <2>. HIDE DEF b, g, e
  <2> QED BY <1>1, <1>4, TotalOfSums
<1>12. Total(g) = Total(f)
  <2>. HIDE DEF g, f, h, gone
  <2> QED BY <1>4, <1>5, <1>6, <1>7, TotalRenamed
<1>13. /\ Total([o \in offers \ gone |-> all[o]]) \in Nat
       /\ Total(all) = Total(f) + Total([o \in offers \ gone |-> all[o]])
  <2>1. Total([o \in gone |-> all[o]]) = Total(f)
    BY <1>9
  <2>. HIDE DEF all, gone, f
  <2>2. /\ Total([o \in offers \ gone |-> all[o]]) \in Nat
        /\ Total(all) = Total([o \in gone |-> all[o]]) + Total([o \in offers \ gone |-> all[o]])
    <3>1. IsFiniteSet(offers) /\ all \in [offers -> Nat] /\ gone \in SUBSET offers
      BY <1>1, <1>5, <1>6
    <3> QED BY <3>1, TotalSplit
  <2> QED BY <2>1, <2>2
<1>. DEFINE rest == Total([o \in offers \ gone |-> all[o]])
<1>14. Value(found, sort) + Value(left, sort) = Value(offers, sort) + Total(e)
  <2>. HIDE DEF left, gone, f, g, e, b, all
  <2>1. Value(left, sort) = rest /\ rest \in Nat /\ Total(all) = Total(f) + rest
    BY <1>10, <1>13
  <2>. HIDE DEF rest
  <2> QED BY <2>1, <1>8, <1>11, <1>12
<1>. HIDE DEF b, g, f, h, all, gone, rest
<1> QED BY <1>8, <1>10, <1>11, <1>13, <1>14

LEMMA FeesAndBegin ==
  ASSUME MarketTypeOK, NEW sort \in Sort
  PROVE  Fees(opened, sort) \in Nat /\ Begin(sort) \in Nat
<1>1. Fees(opened, sort) \in Nat
  <2>1. Fee \in Nat /\ opened \in Nat
    BY MarketAssumption DEF MarketTypeOK
  <2>2. Fee * opened \in Nat
    BY <2>1
  <2> QED BY <2>2 DEF Fees
<1>2. CASE sort = "coin"
  <2>. DEFINE f == [a \in Accounts |-> StartCoins]
  <2>1. f \in [Accounts -> Nat] /\ Begin(sort) = Total(f)
    BY <1>2, MarketAssumption DEF Begin
  <2>. HIDE DEF f
  <2> QED BY <1>1, <2>1, AccountsFinite, TotalCounted
<1>3. CASE sort # "coin"
  <2>. DEFINE f == [p \in Trader |-> IF sort = "money" THEN Start[p].cash + Start[p].bank ELSE Start[p].goods]
  <2>1. f \in [Trader -> Nat]
    BY MarketAssumption
  <2>2. Begin(sort) = Total(f)
    BY <1>3 DEF Begin
  <2>. HIDE DEF f
  <2> QED BY <1>1, <2>1, <2>2, MarketAssumption, TotalCounted
<1> QED BY <1>2, <1>3

LEMMA ProcessKeeps ==
  ASSUME MarketInv, ProcessExpiredOffers
  PROVE  MarketInv' /\ \A q \in Trader : HasNotLess(q)
<1>. DEFINE found == {row \in Head(rows) : MovedToHistory(row)}
            t == HandBackAll(found)
            left == {o \in offers : \A r \in found : r.id # o.id}
            over(sort) == Total([r \in found |-> Held(Stale(r), sort)])
<1>1. /\ rows # <<>> /\ rows' = Tail(rows) /\ PursesAre(t) /\ offers' = left
      /\ excess' = [sort \in Sort |-> excess[sort] + over(sort)]
      /\ UNCHANGED <<online, inMarket, opened>>
  BY DEF ProcessExpiredOffers
<1>2. /\ rows \in Seq(SUBSET Offer) /\ Len(rows) \in Nat /\ 1 \in 1 .. Len(rows) /\ Head(rows) = rows[1]
      /\ Tail(rows) \in Seq(SUBSET Offer) /\ Len(Tail(rows)) = Len(rows) - 1
      /\ \A i \in 1 .. Len(Tail(rows)) : Tail(rows)[i] = rows[i + 1] /\ i + 1 \in 1 .. Len(rows)
  BY <1>1 DEF MarketInv
<1>3. Head(rows) \subseteq Offer /\ RowsOK(Head(rows), offers, opened)
  <2>1. rows[1] \in SUBSET Offer
    BY <1>2
  <2> QED BY <2>1, <1>2 DEF MarketInv
<1>4. found \in SUBSET Head(rows) /\ found \subseteq Offer /\ \A r \in found : MovedToHistory(r)
  BY <1>3
<1>. HIDE DEF found
<1>5. IsFiniteSet(found) /\ RowsOK(found, offers, opened)
  <2>1. IsFiniteSet(found)
    BY <1>3, <1>4, FS_Subset DEF RowsOK
  <2> QED BY <2>1, <1>3, <1>4 DEF RowsOK
<1>6. MarketTypeOK /\ Now \in Purses
  BY NowTyped DEF MarketInv
<1>7. /\ t \in Purses
      /\ \A p \in Trader : \A sort \in {"money", "item"} :
           Fortune(t, p, sort) = Fortune(Now, p, sort) + Value({r \in found : r.owner = p}, sort)
      /\ \A a \in Accounts : t.coins[a] = Now.coins[a] + Value({r \in found : account[r.owner] = a}, "coin")
  BY <1>4, <1>5, <1>6, AllHandedBack
<1>8. \A sort \in Sort : /\ Wealth(Now, sort) \in Nat /\ Value(found, sort) \in Nat
                         /\ Wealth(t, sort) = Wealth(Now, sort) + Value(found, sort)
  BY <1>4, <1>5, <1>6, WealthHandedBack
<1>9. \A sort : /\ Value(left, sort) \in Nat /\ over(sort) \in Nat
                /\ Value(found, sort) + Value(left, sort) = Value(offers, sort) + over(sort)
  BY <1>4, <1>5, RowsAndOffers
<1>10. left \in SUBSET offers
  OBVIOUS
<1>. HIDE DEF t, left, over
<1>11. OffersOK(left, opened) /\ \A some : RowsOK(some, offers, opened) => RowsOK(some, left, opened)
  BY <1>10, FewerOffers DEF MarketInv
<1>12. \A i \in 1 .. Len(rows') : RowsOK(rows'[i], left, opened)
  <2>1. ASSUME NEW i \in 1 .. Len(Tail(rows)) PROVE RowsOK(Tail(rows)[i], left, opened)
    <3>1. Tail(rows)[i] = rows[i + 1] /\ i + 1 \in 1 .. Len(rows)
      BY <1>2
    <3>2. RowsOK(rows[i + 1], offers, opened)
      BY <3>1 DEF MarketInv
    <3> QED BY <3>1, <3>2, <1>11
  <2> QED BY <2>1, <1>1
<1>13. excess' \in [Sort -> Nat]
  <2>1. excess \in [Sort -> Nat]
    BY <1>6 DEF MarketTypeOK
  <2> QED BY <2>1, <1>1, <1>9
<1>14. Books(t, offers', opened', excess')
  <2>1. ASSUME NEW sort \in Sort
        PROVE  Wealth(t, sort) + Value(left, sort) + Fees(opened, sort) = Begin(sort) + excess'[sort]
    <3>1. Wealth(Now, sort) + Value(offers, sort) + Fees(opened, sort) = Begin(sort) + excess[sort]
      BY DEF MarketInv, Books
    <3>2. excess'[sort] = excess[sort] + over(sort) /\ excess[sort] \in Nat
      BY <1>1, <1>6 DEF MarketTypeOK
    <3>3. Value(offers, sort) \in Nat
      BY ValueNumber DEF MarketInv, OffersOK
    <3>4. /\ Value(left, sort) \in Nat /\ over(sort) \in Nat
          /\ Value(found, sort) + Value(left, sort) = Value(offers, sort) + over(sort)
      BY <1>9
    <3>5. Wealth(t, sort) + Value(left, sort) = Wealth(Now, sort) + Value(offers, sort) + over(sort)
      BY <1>8, <3>3, <3>4
    <3>6. Fees(opened, sort) \in Nat /\ Begin(sort) \in Nat
      BY FeesAndBegin DEF MarketInv
    <3> QED BY <1>8, <3>1, <3>2, <3>3, <3>4, <3>5, <3>6
  <2> QED BY <2>1, <1>1 DEF Books
<1>15. MarketInv'
  BY <1>1, <1>2, <1>6, <1>7, <1>11, <1>12, <1>13, <1>14, StepKeeps DEF MarketTypeOK
<1>16. ASSUME NEW q \in Trader PROVE HasNotLess(q)
  <2>1. NotLess(Now, t, q)
    <3>1. ASSUME NEW sort \in {"money", "item"} PROVE Fortune(t, q, sort) >= Fortune(Now, q, sort)
      <4>1. Fortune(Now, q, sort) \in Nat /\ Value({r \in found : r.owner = q}, sort) \in Nat
        BY <1>4, <1>5, <1>6, PurseFacts, RowsOfOwners
      <4>2. Fortune(t, q, sort) = Fortune(Now, q, sort) + Value({r \in found : r.owner = q}, sort)
        BY <1>7
      <4> QED BY <4>1, <4>2
    <3>2. t.coins[account[q]] >= Now.coins[account[q]]
      <4>1. account[q] \in Accounts /\ Now.coins[account[q]] \in Nat
        BY <1>6, PurseFacts
      <4>2. Value({r \in found : account[r.owner] = account[q]}, "coin") \in Nat
        BY <4>1, <1>4, <1>5, RowsOfOwners
      <4>3. t.coins[account[q]]
              = Now.coins[account[q]] + Value({r \in found : account[r.owner] = account[q]}, "coin")
        BY <4>1, <1>7
      <4> QED BY <4>1, <4>2, <4>3
    <3> QED BY <3>1, <3>2 DEF NotLess
  <2> QED BY <2>1, <1>1, <1>7, NotLessHas
<1> QED BY <1>15, <1>16

-----------------------------------------------------------------------------
(* The market *)

LEMMA MarketBegins == MarketInit => MarketInv
<1>. SUFFICES ASSUME MarketInit PROVE MarketInv
  OBVIOUS
<1>1. /\ online = {} /\ inMarket = {} /\ live = Start /\ saved = Start
      /\ coins = [a \in Accounts |-> StartCoins]
      /\ offers = {} /\ opened = 0 /\ rows = <<>> /\ excess = [sort \in Sort |-> 0]
  BY DEF MarketInit
<1>2. MarketTypeOK
  <2>1. Start \in [Trader -> Purse] /\ StartCoins \in Nat /\ 0 \in 0 .. MaxOffers
    BY MarketAssumption DEF Purse
  <2> QED BY <2>1, <1>1 DEF MarketTypeOK
<1>3. OffersOK(offers, opened)
  BY <1>1, FS_EmptySet DEF OffersOK
<1>4. Books(Now, offers, opened, excess)
  <2>1. ASSUME NEW sort \in Sort
        PROVE  Wealth(Now, sort) + Value(offers, sort) + Fees(opened, sort) = Begin(sort) + excess[sort]
    <3>1. Value(offers, sort) = 0
      <4>1. [o \in offers |-> Held(o, sort)] \in [{} -> Nat]
        BY <1>1
      <4> QED BY <4>1, TotalNothing DEF Value
    <3>2. Fees(opened, sort) = 0
      <4>1. Fee * 0 = 0
        BY MarketAssumption
      <4> QED BY <4>1, <1>1 DEF Fees
    <3>3. excess[sort] = 0
      BY <1>1
    <3>4. Wealth(Now, sort) = Begin(sort) /\ Wealth(Now, sort) \in Nat
      <4>1. \A p \in Trader : PurseOf(Now, p) = Start[p]
        BY <1>1 DEF PurseOf, Now
      <4>2. CASE sort = "coin"
        BY <4>2, <1>1, <1>2, NowTyped, WealthNumber DEF Wealth, Begin, Now
      <4>3. CASE sort # "coin"
        <5>1. [p \in Trader |-> Fortune(Now, p, sort)]
                = [p \in Trader |-> IF sort = "money" THEN Start[p].cash + Start[p].bank ELSE Start[p].goods]
          BY <4>1 DEF Fortune
        <5> QED BY <5>1, <4>3, <1>2, NowTyped, WealthNumber DEF Wealth, Begin
      <4> QED BY <4>2, <4>3
    <3> QED BY <3>1, <3>2, <3>3, <3>4
  <2> QED BY <2>1 DEF Books
<1> QED BY <1>1, <1>2, <1>3, <1>4 DEF MarketInv

LEMMA RequestKeeps ==
  ASSUME MarketInv, NEW p \in Trader, Request(p)
  PROVE  MarketInv' /\ OthersKeep(p)
<1>1. CASE EnterGame(p) \/ LeaveGame(p)
  <2>1. MarketInv' /\ \A q \in Trader : Record(q)' = Record(q)
    BY <1>1, ComingAndGoing
  <2>2. coins' = coins
    BY <1>1 DEF EnterGame, LeaveGame
  <2> QED BY <2>1, <2>2, SameHas DEF OthersKeep, MarketInv
<1>2. CASE Enter(p) \/ Leave(p)
  <2>1. /\ UNCHANGED <<online, live, saved, coins, offers, opened, rows, excess>>
        /\ inMarket' \subseteq online
    BY <1>2 DEF Enter, Leave, MarketInv, MarketTypeOK
  <2>2. \A q \in Trader : Record(q)' = Record(q)
    BY <2>1 DEF Record
  <2> QED BY <2>1, <2>2, QuietSteps, SameHas DEF OthersKeep, MarketInv
<1>3. CASE \E sale \in BOOLEAN, kind \in Kind, n \in Amount, price \in Price : Create(p, sale, kind, n, price)
  BY <1>3, CreateKeeps
<1>4. CASE \E o \in offers : Cancel(p, o)
  BY <1>4, CancelKeeps
<1>5. CASE \E o \in offers, n \in Amount : Accept(p, o, n)
  BY <1>5, AcceptKeeps
<1> QED BY <1>1, <1>2, <1>3, <1>4, <1>5 DEF Request

LEMMA NextKeeps ==
  ASSUME MarketInv, [MarketNext]_marketVars
  PROVE  /\ MarketInv'
         /\ \A q \in Trader : \/ \E p \in Trader : account[p] = account[q] /\ Request(p)
                              \/ HasNotLess(q)
<1>1. CASE \E p \in Trader : Request(p)
  <2>1. PICK p \in Trader : Request(p)
    BY <1>1
  <2>2. MarketInv' /\ OthersKeep(p)
    BY <2>1, RequestKeeps
  <2> QED BY <2>1, <2>2 DEF OthersKeep
<1>2. CASE ProcessExpiredOffers
  BY <1>2, ProcessKeeps
<1>3. CASE (\E o \in offers : Age(o)) \/ CheckExpiredOffers \/ Select \/ UNCHANGED marketVars
  <2>1. UNCHANGED <<online, inMarket, live, saved, coins, offers, opened, excess>>
    BY <1>3 DEF Age, CheckExpiredOffers, Select, marketVars
  <2>2. MarketInv'
    <3>1. CASE Select
      BY <3>1, SelectKeeps
    <3>2. CASE ~Select
      <4>1. rows' = rows /\ inMarket' \subseteq online
        BY <1>3, <2>1, <3>2 DEF Age, CheckExpiredOffers, marketVars, MarketInv, MarketTypeOK
      <4> QED BY <4>1, <2>1, QuietSteps
    <3> QED BY <3>1, <3>2
  <2>3. \A q \in Trader : Record(q)' = Record(q)
    BY <2>1 DEF Record
  <2> QED BY <2>1, <2>2, <2>3, SameHas DEF MarketInv
<1> QED BY <1>1, <1>2, <1>3 DEF MarketNext

\* Nothing is lost and nothing is made in the market (game.cpp,
\* playerCreateMarketOffer to playerAcceptMarketOffer, and
\* IOMarket::processExpiredOffers): whatever is opened, accepted, cancelled and
\* expires, in memory or in the database, and however old the rows are that are
\* worked off, money, goods and coins add up to what there was at the beginning
\* and what rows that were no longer true gave back too much, which is never
\* less than nothing.
THEOREM NothingIsLost == MarketSpec => []Conserved
<1>1. MarketInv /\ [MarketNext]_marketVars => MarketInv'
  BY NextKeeps
<1>2. MarketInv => Conserved
  BY BooksConserve
<1> QED BY MarketBegins, <1>1, <1>2, PTL DEF MarketSpec

\* No request of others, and no search for expired offers, takes money, goods or
\* coins from a player: the code that credits, debits and delivers (game.cpp,
\* iomarket.cpp) touches, of other accounts than that of the player who asks,
\* only what they are given.
THEOREM OthersKeepTheirs == MarketSpec => OthersNeverTake
<1>1. MarketInv /\ [MarketNext]_marketVars => MarketInv'
  BY NextKeeps
<1>2. MarketInv /\ [MarketNext]_marketVars
        => [\A p \in Trader :
              \/ \E q \in Trader : account[q] = account[p] /\ Request(q)
              \/ /\ Record(p)'.cash + Record(p)'.bank >= Record(p).cash + Record(p).bank
                 /\ Record(p)'.goods >= Record(p).goods
                 /\ coins'[account[p]] >= coins[account[p]]]_marketVars
  BY NextKeeps DEF HasNotLess
<1> QED BY MarketBegins, <1>1, <1>2, PTL DEF MarketSpec, OthersNeverTake
===============================================================================
