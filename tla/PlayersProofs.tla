----------------------------- MODULE PlayersProofs ----------------------------
(***************************************************************************)
(* The house, its guests, its sleepers and what lies in it, for any number *)
(* of players, things, beds and crashes; and what conditions, outfits and  *)
(* mounts make of a player, for any offers, items and mounts.               *)
(***************************************************************************)
EXTENDS Houses, Conditions, FiniteSetTheorems, WellFoundedInduction, TLAPS

-----------------------------------------------------------------------------
(* Houses: the inductive invariant *)

Whom == Player \cup {None}
Where == Bed \cup {None}

DbType ==
  [owner : Whom, list : [Lists -> SUBSET Player], warnings : Nat, paid : BOOLEAN,
   inside : SUBSET Player, beds : [Bed -> Whom], has : [Keeper -> SUBSET Item]]

HouseType ==
  [phase : {"down", "up", "info", "items"}, on : SUBSET Player, inside : SUBSET Player,
   owner : Whom, list : [Lists -> SUBSET Player], warnings : Nat, paid : BOOLEAN,
   sale : {None} \cup [from : Player, to : Player], beds : [Bed -> Whom],
   sleepers : [Player -> Where], asked : [Player -> Where], kicks : [Player -> Nat],
   has : [Keeper -> SUBSET Item], db : DbType]

PastType ==
  [letters : Nat, changed : BOOLEAN, inherited : BOOLEAN, doubled : SUBSET Player,
   astray : SUBSET Item, crashes : Nat, unread : BOOLEAN]

\* Who is in the house, or asked by a bed, is in the game, and nobody is in a
\* game that is down.
Within(w) ==
  /\ w.inside \subseteq w.on
  /\ w.phase = "down" => w.on = {}
  /\ \A p \in Player : w.asked[p] # None => p \in w.on

MayStay(w) == \A p \in w.inside : Invited(w, p) \/ w.kicks[p] > 0

Bedded(w, doubled) ==
  w.phase # "down" =>
    /\ \A p \in Player : w.sleepers[p] # None => w.beds[w.sleepers[p]] = p
    /\ \A b \in Bed : w.beds[b] \notin doubled \cup {None} =>
         w.sleepers[w.beds[b]] = b /\ (w.beds[b] \in w.on => w.kicks[w.beds[b]] > 0)

\* All that is kept about the house itself.
Good(w, doubled) ==
  /\ w \in HouseType
  /\ Within(w)
  /\ MayStay(w)
  /\ Bedded(w, doubled)
  /\ w.db.owner = w.owner

\* A thing is with one keeper.
With(w, i, k) == \A j \in Keeper : i \in Holding(w, j) <=> j = k
Placed(w, astray) == \A i \in Item \ astray : \E k \in Keeper : With(w, i, k)

\* An owner has got the letters that are counted, in memory and, unless another
\* owner was put in since the last save, in the database.
Warned(w, q) ==
  q.inherited \/
    IF w.phase = "down" THEN w.db.warnings =< q.letters
    ELSE w.warnings =< q.letters /\ (q.changed \/ w.db.warnings =< q.letters)

HousesInv ==
  /\ past \in PastType
  /\ Good(s, past.doubled)
  /\ Placed(s, past.astray)
  /\ Warned(s, past)

-----------------------------------------------------------------------------
(* What the operations on a house keep *)

\* The house and its players hold what they held, and the letters count the same.
Alike(v, w) ==
  /\ v.phase = w.phase /\ v.on = w.on /\ v.has = w.has /\ v.db = w.db
  /\ v.owner = w.owner /\ v.warnings = w.warnings

LEMMA AlikePlaced ==
  ASSUME NEW w, NEW v, NEW astray, Alike(v, w), Placed(w, astray)
  PROVE  Placed(v, astray)
<1>1. \A j : Holding(v, j) = Holding(w, j)
  BY DEF Alike, Holding
<1> QED
  BY <1>1, Zenon DEF Placed, With

LEMMA AlikeWarned ==
  ASSUME NEW w, NEW v, NEW q, Alike(v, w), Warned(w, q)
  PROVE  Warned(v, q)
BY DEF Alike, Warned

\* A step that is Alike and leaves the history.
LEMMA AlikeStep ==
  ASSUME HousesInv, NEW v, Alike(v, s), Good(v, past.doubled), Becomes(v)
  PROVE  HousesInv'
<1>1. s' = v /\ past' = past
  BY DEF Alike, Becomes
<1>2. Placed(v, past.astray) /\ Warned(v, past)
  BY AlikePlaced, AlikeWarned DEF HousesInv
<1> QED
  BY <1>1, <1>2 DEF HousesInv

LEMMA KickOutGood ==
  ASSUME NEW w, NEW doubled, NEW P, Good(w, doubled)
  PROVE  Good(KickOutOf(w, P), doubled) /\ Alike(KickOutOf(w, P), w)
<1> DEFINE v == KickOutOf(w, P)
<1>1. v \in HouseType /\ Alike(v, w) /\ v.inside \subseteq w.inside
  BY DEF Good, HouseType, KickOutOf, Alike
<1>2. /\ v.asked = w.asked /\ v.kicks = w.kicks /\ v.sleepers = w.sleepers /\ v.beds = w.beds
      /\ v.list = w.list
  BY DEF Good, HouseType, KickOutOf
<1> HIDE DEF v
<1>3. Within(v)
  BY <1>1, <1>2 DEF Good, Within, Alike
<1>4. MayStay(v)
  BY <1>1, <1>2 DEF Good, MayStay, Invited, Level, Alike
<1>5. Bedded(v, doubled)
  BY <1>1, <1>2 DEF Good, Bedded, Alike
<1>6. v.db.owner = v.owner
  BY <1>1 DEF Good, Alike
<1> QED
  BY <1>1, <1>3, <1>4, <1>5, <1>6 DEF Good, v

LEMMA WakeUpGood ==
  ASSUME NEW w, NEW doubled, NEW b \in Bed, Good(w, doubled), w.phase # "down"
  PROVE  Good(WakeUp(w, b), doubled) /\ Alike(WakeUp(w, b), w)
<1> DEFINE v == WakeUp(w, b)
<1>1. CASE w.beds[b] = None
  BY <1>1 DEF WakeUp, Alike
<1>2. CASE w.beds[b] # None
  <2> DEFINE p == w.beds[b]
  <2>0. p \in Player /\ None \notin Player /\ None \notin Bed
    BY <1>2, HousesAssumption DEF Good, HouseType, Whom
  <2>1. v \in HouseType /\ Alike(v, w)
    BY <1>2, <2>0 DEF Good, HouseType, WakeUp, Alike, Whom, Where
  <2>2. v.inside = w.inside /\ v.asked = w.asked /\ v.kicks = w.kicks /\ v.list = w.list
    BY <1>2 DEF Good, HouseType, WakeUp
  <2>3. /\ v.sleepers = [w.sleepers EXCEPT ![p] = None] /\ v.beds = [w.beds EXCEPT ![b] = None]
        /\ w.sleepers \in [Player -> Where] /\ w.beds \in [Bed -> Whom]
    BY <1>2 DEF Good, HouseType, WakeUp
  <2> HIDE DEF v
  <2>4. Within(v) /\ MayStay(v) /\ v.db.owner = v.owner
    BY <2>1, <2>2 DEF Good, Within, MayStay, Invited, Level, Alike
  <2>5. ASSUME NEW q \in Player, v.sleepers[q] # None
        PROVE  v.beds[v.sleepers[q]] = q
    <3>1. q # p /\ v.sleepers[q] = w.sleepers[q]
      BY <2>0, <2>3, <2>5
    <3>2. w.sleepers[q] \in Bed /\ w.beds[w.sleepers[q]] = q
      BY <2>3, <2>5, <3>1 DEF Good, Bedded, Where
    <3> QED
      BY <2>3, <3>1, <3>2
  <2>6. ASSUME NEW c \in Bed, v.beds[c] \notin doubled \cup {None}
        PROVE  v.sleepers[v.beds[c]] = c /\ (v.beds[c] \in v.on => v.kicks[v.beds[c]] > 0)
    <3>1. c # b /\ v.beds[c] = w.beds[c]
      BY <2>3, <2>6
    <3>2. w.sleepers[w.beds[c]] = c /\ (w.beds[c] \in w.on => w.kicks[w.beds[c]] > 0)
      BY <2>6, <3>1 DEF Good, Bedded
    <3>3. w.beds[c] # p
      <4>1. CASE p \in doubled
        BY <4>1, <2>6, <3>1
      <4>2. CASE p \notin doubled
        BY <4>2, <2>0, <3>1, <3>2 DEF Good, Bedded
      <4> QED
        BY <4>1, <4>2
    <3>4. w.beds[c] \in Player
      BY <2>3, <2>6, <3>1 DEF Whom
    <3>5. v.on = w.on
      BY <2>1 DEF Alike
    <3> QED
      BY <2>2, <2>3, <3>1, <3>2, <3>3, <3>4, <3>5
  <2>7. Bedded(v, doubled)
    BY <2>5, <2>6 DEF Bedded
  <2> QED
    BY <2>1, <2>4, <2>7 DEF Good, v
<1> QED
  BY <1>1, <1>2

\* All beds are left, so that nobody is a sleeper.
LEMMA PutOutGood ==
  ASSUME NEW w, NEW doubled, NEW loads \in BOOLEAN, Good(w, doubled), w.owner # None
  PROVE  /\ Good(PutOut(w, loads), doubled) /\ PutOut(w, loads).inside = {}
         /\ PutOut(w, loads).phase = w.phase /\ PutOut(w, loads).on = w.on
         /\ PutOut(w, loads).warnings = w.warnings /\ PutOut(w, loads).db.warnings = w.db.warnings
         /\ PutOut(w, loads).has = TransferToDepot(w, w.owner, loads).has
         /\ PutOut(w, loads).db.has = TransferToDepot(w, w.owner, loads).db.has
<1> DEFINE u == TransferToDepot(w, w.owner, loads)
           v == PutOut(w, loads)
<1>0. None \notin Player /\ None \notin Bed /\ House \notin Player /\ w.owner \in Player
  BY HousesAssumption DEF Good, HouseType, Whom
<1>1. /\ u \in HouseType
      /\ u.phase = w.phase /\ u.on = w.on /\ u.asked = w.asked /\ u.kicks = w.kicks
      /\ u.sleepers = w.sleepers /\ u.beds = w.beds /\ u.warnings = w.warnings
      /\ u.db.warnings = w.db.warnings /\ u.owner = w.owner /\ u.db.owner = w.db.owner
      /\ u.inside = w.inside /\ u.sale = w.sale
  <2>1. CASE w.owner \in w.on
    BY <2>1, <1>0 DEF Good, HouseType, TransferToDepot, Keeper
  <2>2. CASE w.owner \notin w.on /\ loads
    BY <2>2, <1>0 DEF Good, HouseType, TransferToDepot, Keeper, DbType
  <2>3. CASE w.owner \notin w.on /\ ~loads
    BY <2>3, <1>0 DEF Good, HouseType, TransferToDepot
  <2> QED
    BY <2>1, <2>2, <2>3
<1> HIDE DEF u
<1>2. /\ v \in HouseType
      /\ v.phase = u.phase /\ v.on = u.on /\ v.asked = u.asked /\ v.inside = {}
      /\ v.warnings = u.warnings /\ v.db = u.db /\ v.owner = u.owner /\ v.has = u.has
      /\ v.sleepers = [p \in Player |-> IF \E b \in Bed : u.beds[b] = p THEN None ELSE u.sleepers[p]]
      /\ v.beds = [b \in Bed |-> None]
  <2>1. NoLists \in [Lists -> SUBSET Player]
    BY DEF NoLists
  <2>2. KickOutOf(u, w.inside).inside = {} /\ KickOutOf(u, w.inside) \in HouseType
        /\ KickOutOf(u, w.inside) = [u EXCEPT !.inside = {}]
    BY <1>1 DEF KickOutOf, HouseType
  <2>3. v = [WakeAll([u EXCEPT !.inside = {}]) EXCEPT !.list = NoLists]
    BY <2>2 DEF PutOut, u
  <2>4. /\ [p \in Player |-> IF \E b \in Bed : u.beds[b] = p THEN None ELSE u.sleepers[p]] \in [Player -> Where]
        /\ [b \in Bed |-> None] \in [Bed -> Whom]
    BY <1>1 DEF HouseType, Where, Whom
  <2> DEFINE S == [p \in Player |-> IF \E b \in Bed : u.beds[b] = p THEN None ELSE u.sleepers[p]]
             B == [b \in Bed |-> None]
             x == [u EXCEPT !.inside = {}]
  <2>5. x.beds = u.beds /\ x.sleepers = u.sleepers /\ x \in HouseType
    BY <1>1 DEF HouseType
  <2>6. WakeAll(x) = [x EXCEPT !.sleepers = S, !.beds = B]
    BY <2>5 DEF WakeAll, HouseType
  <2>7. v = [[x EXCEPT !.sleepers = S, !.beds = B] EXCEPT !.list = NoLists]
    BY <2>3, <2>6
  <2> HIDE DEF S, B
  <2>8. v = [u EXCEPT !.inside = {}, !.sleepers = S, !.beds = B, !.list = NoLists]
    BY <1>1, <2>7 DEF HouseType
  <2>9. S \in [Player -> Where] /\ B \in [Bed -> Whom]
    BY <2>4 DEF S, B
  <2>10. /\ v \in HouseType
         /\ v.phase = u.phase /\ v.on = u.on /\ v.asked = u.asked /\ v.inside = {}
         /\ v.warnings = u.warnings /\ v.db = u.db /\ v.owner = u.owner /\ v.has = u.has
         /\ v.sleepers = S /\ v.beds = B
    <3> HIDE DEF v
    <3>1. v \in HouseType
      BY <1>1, <2>1, <2>8, <2>9 DEF HouseType
    <3>2. /\ v.phase = u.phase /\ v.on = u.on /\ v.asked = u.asked /\ v.inside = {}
          /\ v.warnings = u.warnings /\ v.db = u.db /\ v.owner = u.owner /\ v.has = u.has
      BY <1>1, <2>8 DEF HouseType
    <3>3. v.sleepers = S /\ v.beds = B
      BY <1>1, <2>8 DEF HouseType
    <3> QED
      BY <3>1, <3>2, <3>3
  <2> QED
    BY <2>10 DEF S, B
<1> HIDE DEF v
<1>3. Within(v) /\ MayStay(v)
  BY <1>1, <1>2 DEF Good, Within, MayStay
<1>4. Bedded(v, doubled)
  <2>1. ASSUME w.phase # "down", NEW p \in Player, v.sleepers[p] # None
        PROVE  FALSE
    <3>1. w.sleepers[p] # None /\ ~\E b \in Bed : w.beds[b] = p
      BY <1>1, <1>2, <2>1
    <3>2. w.sleepers[p] \in Bed /\ w.beds[w.sleepers[p]] = p
      BY <2>1, <3>1 DEF Good, Bedded, HouseType, Where
    <3> QED
      BY <3>1, <3>2
  <2> QED
    BY <1>1, <1>2, <2>1 DEF Bedded
<1> QED
  BY <1>1, <1>2, <1>3, <1>4 DEF Good, u, v

\* What lies in the house goes to the owner, in the game or in the database.
LEMMA PutOutPlaced ==
  ASSUME NEW w, NEW doubled, NEW astray, NEW loads \in BOOLEAN, Good(w, doubled),
         w.owner # None, w.phase # "down",
         Placed(w, astray)
  PROVE  Placed(PutOut(w, loads), astray)
<1> DEFINE v == PutOut(w, loads)
           p == w.owner
<1>0. None \notin Player /\ House \notin Player /\ p \in Player /\ p \in Keeper /\ House \in Keeper
  BY HousesAssumption DEF Good, HouseType, Whom, Keeper
<1>1. /\ v.phase = w.phase /\ v.on = w.on
      /\ v.has = TransferToDepot(w, p, loads).has /\ v.db.has = TransferToDepot(w, p, loads).db.has
  BY PutOutGood
<1>a. /\ w.has \in [Keeper -> SUBSET Item] /\ w.db.has \in [Keeper -> SUBSET Item]
      /\ w.on \subseteq Player
  BY DEF Good, HouseType, DbType
<1> HIDE DEF v
<1>b. CASE p \notin w.on /\ ~loads
  <2>1. v.has = w.has /\ v.db.has = w.db.has
    BY <1>b, <1>1 DEF TransferToDepot
  <2>2. \A j : Holding(v, j) = Holding(w, j)
    BY <2>1, <1>1 DEF Holding
  <2>3. Placed(v, astray)
    BY <2>2, Zenon DEF Placed, With
  <2> QED
    BY <2>3 DEF v
<1>c. CASE p \in w.on \/ loads
  <2>2. Holding(v, House) = {} /\ Holding(v, p) = Holding(w, p) \cup Holding(w, House)
    <3>1. CASE p \in w.on
      <4>1. /\ v.has = [w.has EXCEPT ![p] = @ \cup w.has[House], ![House] = {}]
            /\ v.db.has = w.db.has
        BY <3>1, <1>1, <1>0 DEF Good, HouseType, TransferToDepot
      <4> QED
        BY <4>1, <3>1, <1>1, <1>0, <1>a DEF Holding
    <3>2. CASE p \notin w.on /\ loads
      <4>1. /\ v.has = [w.has EXCEPT ![House] = {}]
            /\ v.db.has = [w.db.has EXCEPT ![p] = @ \cup w.has[House]]
        BY <3>2, <1>1, <1>0 DEF Good, HouseType, TransferToDepot, DbType
      <4> QED
        BY <4>1, <3>2, <1>1, <1>0, <1>a DEF Holding
    <3> QED
      BY <1>c, <3>1, <3>2
  <2>3. ASSUME NEW j \in Keeper, j # p, j # House
        PROVE  Holding(v, j) = Holding(w, j)
    <3>1. CASE p \in w.on
      <4>1. /\ v.has = [w.has EXCEPT ![p] = @ \cup w.has[House], ![House] = {}]
            /\ v.db.has = w.db.has
        BY <3>1, <1>1, <1>0 DEF Good, HouseType, TransferToDepot
      <4> QED
        BY <4>1, <3>1, <1>1, <1>0, <1>a, <2>3 DEF Holding
    <3>2. CASE p \notin w.on /\ loads
      <4>1. /\ v.has = [w.has EXCEPT ![House] = {}]
            /\ v.db.has = [w.db.has EXCEPT ![p] = @ \cup w.has[House]]
        BY <3>2, <1>1, <1>0 DEF Good, HouseType, TransferToDepot, DbType
      <4> QED
        BY <4>1, <3>2, <1>1, <1>0, <1>a, <2>3 DEF Holding
    <3> QED
      BY <1>c, <3>1, <3>2
  <2>4. ASSUME NEW i \in Item \ astray
        PROVE  \E k \in Keeper : With(v, i, k)
    <3>1. PICK k \in Keeper : With(w, i, k)
      BY DEF Placed
    <3>2. CASE k = House
      BY <3>1, <3>2, <1>0, <2>2, <2>3 DEF With
    <3>3. CASE k # House
      BY <3>1, <3>3, <1>0, <2>2, <2>3 DEF With
    <3> QED
      BY <3>2, <3>3
  <2> QED
    BY <2>4 DEF Placed, v
<1> QED
  BY <1>b, <1>c

LEMMA SetOwnerGood ==
  ASSUME NEW w, NEW doubled, NEW astray, NEW g \in Whom, NEW loads \in BOOLEAN, Good(w, doubled),
         w.phase # "down", Placed(w, astray), w.owner # g
  PROVE  LET v == SetOwner(w, g, loads)
         IN  /\ Good(v, doubled) /\ Placed(v, astray)
             /\ v.owner = g /\ v.warnings = 0 /\ v.phase = w.phase /\ v.on = w.on
             /\ v.db.warnings = w.db.warnings
<1> DEFINE u == IF w.owner # None THEN PutOut(w, loads) ELSE [w EXCEPT !.paid = TRUE]
           v == [u EXCEPT !.owner = g, !.db.owner = g, !.warnings = 0]
<1>1. /\ Good(u, doubled) /\ Placed(u, astray)
      /\ (w.owner # None => u.inside = {}) /\ (w.owner = None => u.owner = None)
      /\ u.phase = w.phase /\ u.on = w.on /\ u.db.warnings = w.db.warnings
  <2>1. CASE w.owner # None
    BY <2>1, PutOutGood, PutOutPlaced
  <2>2. CASE w.owner = None
    <3>1. /\ u \in HouseType /\ Alike(u, w)
          /\ u.inside = w.inside /\ u.asked = w.asked /\ u.kicks = w.kicks /\ u.sleepers = w.sleepers
          /\ u.beds = w.beds /\ u.list = w.list
      BY <2>2 DEF Good, HouseType, Alike
    <3> HIDE DEF u
    <3>2. Good(u, doubled)
      BY <3>1 DEF Good, Within, MayStay, Invited, Level, Bedded, Alike
    <3> QED
      BY <2>2, <3>1, <3>2, AlikePlaced DEF Alike
  <2> QED
    BY <2>1, <2>2
<1> HIDE DEF u
<1>2. /\ v \in HouseType /\ v.owner = g /\ v.db.owner = g /\ v.warnings = 0
      /\ v.phase = u.phase /\ v.on = u.on /\ v.has = u.has /\ v.db.has = u.db.has
      /\ v.db.warnings = u.db.warnings
      /\ v.inside = u.inside /\ v.asked = u.asked /\ v.kicks = u.kicks /\ v.sleepers = u.sleepers
      /\ v.beds = u.beds /\ v.list = u.list
  BY <1>1 DEF Good, HouseType, DbType
<1> HIDE DEF v
<1>3. MayStay(v)
  <2> SUFFICES ASSUME NEW p \in v.inside
               PROVE  Invited(v, p) \/ v.kicks[p] > 0
    BY DEF MayStay
  <2>1. w.owner = None /\ u.owner = None /\ p \in Player /\ None \notin Player
    BY <1>1, <1>2, HousesAssumption DEF HouseType
  <2>2. Invited(u, p) \/ u.kicks[p] > 0
    BY <1>1, <1>2 DEF Good, MayStay
  <2>3. Invited(u, p) => Invited(v, p)
    BY <1>2, <2>1 DEF Invited, Level
  <2> QED
    BY <1>2, <2>2, <2>3
<1>4. Within(v) /\ Bedded(v, doubled)
  BY <1>1, <1>2 DEF Good, Within, Bedded
<1>5. Placed(v, astray)
  <2>1. \A j : Holding(v, j) = Holding(u, j)
    BY <1>2 DEF Holding
  <2> QED
    BY <1>1, <2>1, Zenon DEF Placed, With
<1>6. v = SetOwner(w, g, loads)
  BY DEF SetOwner, u, v
<1> QED
  BY <1>1, <1>2, <1>3, <1>4, <1>5, <1>6 DEF Good

-----------------------------------------------------------------------------
(* The steps *)

\* What is to be shown of a step that leaves the history, but for the owner.
LEMMA BecomesStep ==
  ASSUME HousesInv, NEW v, Becomes(v), Good(v, past.doubled), Placed(v, past.astray),
         v.owner = s.owner => Warned(v, past),
         v.owner # s.owner => v.phase # "down" /\ v.warnings = 0
  PROVE  HousesInv'
<1>1. CASE v.owner = s.owner
  BY <1>1 DEF Becomes, HousesInv
<1>2. CASE v.owner # s.owner
  <2>1. /\ s' = v /\ past' \in PastType /\ past'.letters = 0 /\ past'.changed
        /\ past'.doubled = past.doubled /\ past'.astray = past.astray
    BY <1>2 DEF Becomes, HousesInv, PastType
  <2>2. Warned(v, past')
    BY <1>2, <2>1 DEF Warned
  <2> QED
    BY <2>1, <2>2 DEF HousesInv
<1> QED
  BY <1>1, <1>2

LEMMA Names ==
  None \notin Player /\ None \notin Bed /\ House \notin Player /\ None # House
BY HousesAssumption

\* What the type says of the parts, for where the whole is more than is needed.
LEMMA Parts ==
  ASSUME NEW w \in HouseType
  PROVE  /\ w.on \subseteq Player /\ w.inside \subseteq Player /\ w.owner \in Whom
         /\ w.list \in [Lists -> SUBSET Player] /\ w.warnings \in Nat /\ w.paid \in BOOLEAN
         /\ w.sale \in {None} \cup [from : Player, to : Player]
         /\ w.beds \in [Bed -> Whom] /\ w.sleepers \in [Player -> Where]
         /\ w.asked \in [Player -> Where] /\ w.kicks \in [Player -> Nat]
         /\ w.has \in [Keeper -> SUBSET Item] /\ w.db \in DbType
         /\ w.db.owner \in Whom /\ w.db.list \in [Lists -> SUBSET Player] /\ w.db.warnings \in Nat
         /\ w.db.inside \subseteq Player /\ w.db.beds \in [Bed -> Whom]
         /\ w.db.has \in [Keeper -> SUBSET Item]
BY DEF HouseType, DbType

LEMMA LoginStep ==
  ASSUME HousesInv, NEW p \in Player, Login(p)
  PROVE  HousesInv'
<1> DEFINE in == [s EXCEPT !.on = @ \cup {p}, !.has[p] = s.db.has[p],
                           !.inside = @ \cup {q \in {p} : p \in s.db.inside /\ Invited(s, p)}]
           v == IF s.sleepers[p] # None THEN WakeUp(in, s.sleepers[p]) ELSE in
           d == past.doubled
<1>0. s.phase = "up" /\ p \notin s.on /\ Becomes(v)
  BY DEF Login, Up
<1>1. /\ in \in HouseType /\ in.phase = s.phase /\ in.on = s.on \cup {p}
      /\ in.has = [s.has EXCEPT ![p] = s.db.has[p]] /\ in.db = s.db /\ in.owner = s.owner
      /\ in.list = s.list /\ in.beds = s.beds /\ in.sleepers = s.sleepers /\ in.asked = s.asked
      /\ in.kicks = s.kicks /\ in.warnings = s.warnings /\ s \in HouseType
      /\ \A q \in in.inside : q \in s.inside \/ (q = p /\ Invited(s, p))
  BY DEF HousesInv, Good, HouseType, DbType, Keeper
<1> HIDE DEF in
<1>2. Within(in) /\ MayStay(in) /\ in.db.owner = in.owner
  BY <1>0, <1>1 DEF HousesInv, Good, Within, MayStay, Invited, Level
<1>3. Placed(in, past.astray)
  <2>1. \A j \in Keeper : Holding(in, j) = Holding(s, j)
    BY <1>0, <1>1, Names, Parts DEF Holding, Keeper
  <2> QED
    BY <2>1 DEF HousesInv, Placed, With
<1>4. Warned(in, past)
  BY <1>1 DEF HousesInv, Warned
<1>5. Good(v, d) /\ Alike(v, in)
  <2>1. CASE s.sleepers[p] = None
    <3>1. Bedded(in, d)
      <4> SUFFICES ASSUME NEW b \in Bed, in.beds[b] \notin d \cup {None}
                   PROVE  in.sleepers[in.beds[b]] = b /\ (in.beds[b] \in in.on => in.kicks[in.beds[b]] > 0)
        BY <1>0, <1>1 DEF HousesInv, Good, Bedded
      <4>1. s.sleepers[s.beds[b]] = b /\ (s.beds[b] \in s.on => s.kicks[s.beds[b]] > 0)
        BY <1>0, <1>1 DEF HousesInv, Good, Bedded
      <4>2. s.beds[b] # p
        BY <2>1, <4>1, Names
      <4> QED
        BY <1>1, <4>1, <4>2
    <3> QED
      BY <1>1, <1>2, <2>1, <3>1 DEF Good, Alike
  <2>2. CASE s.sleepers[p] # None
    <3> DEFINE b == s.sleepers[p]
    <3>1. b \in Bed /\ s.beds[b] = p
      BY <1>0, <1>1, <2>2, Parts DEF HousesInv, Good, Bedded, Where
    <3>2. /\ v \in HouseType /\ Alike(v, in)
          /\ v.sleepers = [in.sleepers EXCEPT ![p] = None] /\ v.beds = [in.beds EXCEPT ![b] = None]
          /\ v.inside = in.inside /\ v.asked = in.asked /\ v.kicks = in.kicks /\ v.list = in.list
      BY <1>1, <2>2, <3>1, Names DEF WakeUp, HouseType, Alike, Where, Whom
    <3> HIDE DEF v
    <3>3. Within(v) /\ MayStay(v) /\ v.db.owner = v.owner
      BY <1>2, <3>2 DEF Within, MayStay, Invited, Level, Alike
    <3>4. ASSUME NEW q \in Player, v.sleepers[q] # None
          PROVE  v.beds[v.sleepers[q]] = q
      <4>1. q # p /\ v.sleepers[q] = s.sleepers[q]
        BY <1>1, <3>2, <3>4, Parts
      <4>2. s.sleepers[q] \in Bed /\ s.beds[s.sleepers[q]] = q
        BY <1>0, <1>1, <3>4, <4>1, Parts DEF HousesInv, Good, Bedded, Where
      <4> QED
        BY <1>1, <3>1, <3>2, <4>1, <4>2, Parts
    <3>5. ASSUME NEW c \in Bed, v.beds[c] \notin d \cup {None}
          PROVE  v.sleepers[v.beds[c]] = c /\ (v.beds[c] \in v.on => v.kicks[v.beds[c]] > 0)
      <4>1. c # b /\ v.beds[c] = s.beds[c]
        BY <1>1, <3>2, <3>5, Parts
      <4>2. s.sleepers[s.beds[c]] = c /\ (s.beds[c] \in s.on => s.kicks[s.beds[c]] > 0)
        BY <1>0, <3>5, <4>1 DEF HousesInv, Good, Bedded
      <4>3. s.beds[c] # p
        BY <4>1, <4>2
      <4> QED
        BY <1>1, <3>2, <4>1, <4>2, <4>3, Parts DEF Alike
    <3> QED
      BY <3>2, <3>3, <3>4, <3>5 DEF Good, Bedded
  <2> QED
    BY <2>1, <2>2
<1> HIDE DEF v
<1>6. Placed(v, past.astray) /\ Warned(v, past) /\ v.owner = s.owner
  BY <1>1, <1>3, <1>4, <1>5, AlikePlaced, AlikeWarned DEF Alike
<1> QED
  BY <1>0, <1>5, <1>6, BecomesStep

\* The server has what it had, and the database the things of P.
Written(v, w, P) ==
  /\ v.phase = w.phase /\ v.on = w.on /\ v.has = w.has /\ v.owner = w.owner
  /\ v.inside = w.inside /\ v.beds = w.beds /\ v.list = w.list /\ v.sale = w.sale
  /\ v.kicks = w.kicks /\ v.asked = w.asked /\ v.sleepers = w.sleepers /\ v.paid = w.paid
  /\ v.warnings = w.warnings /\ v.db.warnings = w.db.warnings
  /\ v.db.beds = w.db.beds /\ v.db.owner = w.db.owner
  /\ v.db.has = [k \in Keeper |-> IF k \in P THEN w.has[k] ELSE w.db.has[k]]
  /\ \A k \in Keeper : Holding(v, k) = Holding(w, k)

LEMMA SaveAllGood ==
  ASSUME NEW w, NEW doubled, NEW P, Good(w, doubled), P \subseteq w.on
  PROVE  Good(SaveAll(w, P), doubled) /\ Written(SaveAll(w, P), w, P)
<1> DEFINE v == SaveAll(w, P)
           H == [k \in Keeper |-> IF k \in P THEN w.has[k] ELSE w.db.has[k]]
<1>0. w \in HouseType
  BY DEF Good
<1>1. H \in [Keeper -> SUBSET Item]
  BY <1>0, Parts
<1>2. v = [w EXCEPT !.db.has = H, !.db.inside = (@ \ P) \cup (P \cap w.inside)]
  BY <1>0 DEF SaveAll, HouseType, DbType
<1> HIDE DEF H, v
<1>3. /\ v \in HouseType
      /\ v.phase = w.phase /\ v.on = w.on /\ v.has = w.has /\ v.owner = w.owner
      /\ v.inside = w.inside /\ v.beds = w.beds /\ v.list = w.list /\ v.sale = w.sale
      /\ v.kicks = w.kicks /\ v.asked = w.asked /\ v.sleepers = w.sleepers /\ v.paid = w.paid
      /\ v.warnings = w.warnings /\ v.db.warnings = w.db.warnings /\ v.db.beds = w.db.beds
      /\ v.db.owner = w.db.owner /\ v.db.has = H
  <2> DEFINE x == [w EXCEPT !.db.has = H, !.db.inside = (@ \ P) \cup (P \cap w.inside)]
  <2>1. x \in HouseType
    BY <1>0, <1>1 DEF HouseType, DbType
  <2>2. /\ x.phase = w.phase /\ x.on = w.on /\ x.has = w.has /\ x.owner = w.owner
        /\ x.inside = w.inside /\ x.beds = w.beds /\ x.list = w.list /\ x.sale = w.sale
        /\ x.kicks = w.kicks /\ x.asked = w.asked /\ x.sleepers = w.sleepers /\ x.paid = w.paid
        /\ x.warnings = w.warnings /\ x.db.warnings = w.db.warnings /\ x.db.beds = w.db.beds
        /\ x.db.owner = w.db.owner /\ x.db.has = H
    BY <1>0, <1>1 DEF HouseType, DbType
  <2>3. v = x
    BY <1>2
  <2> QED
    BY <2>1, <2>2, <2>3
<1>4. Within(v) /\ MayStay(v) /\ Bedded(v, doubled) /\ v.db.owner = v.owner
  BY <1>3 DEF Good, Within, MayStay, Invited, Level, Bedded
<1>5. \A k \in Keeper : Holding(v, k) = Holding(w, k)
  BY <1>3 DEF Holding, H
<1> QED
  BY <1>3, <1>4, <1>5 DEF Good, Written, H, v

\* All is well but for p, who may have been kicked and is about to leave.
Leaving(w, doubled, p) ==
  /\ p \in w.on /\ w.phase # "down"
  /\ w \in HouseType /\ Within(w) /\ w.db.owner = w.owner
  /\ \A q \in w.inside \ {p} : Invited(w, q) \/ w.kicks[q] > 0
  /\ \A q \in Player : w.sleepers[q] # None => w.beds[w.sleepers[q]] = q
  /\ \A b \in Bed : w.beds[b] \notin doubled \cup {None} =>
       w.sleepers[w.beds[b]] = b /\ (w.beds[b] \in w.on \ {p} => w.kicks[w.beds[b]] > 0)

\* A player who leaves without being saved leaves behind what has moved.
LEMMA GoneGood ==
  ASSUME NEW w, NEW doubled, NEW astray, NEW p \in Player, NEW written \in BOOLEAN,
         Leaving(w, doubled, p), Placed(w, astray)
  PROVE  LET v == Gone(w, p, written)
         IN  /\ Good(v, doubled)
             /\ Placed(v, astray \cup IF written THEN {} ELSE Moved(w, p))
             /\ v.phase = w.phase /\ v.owner = w.owner
             /\ v.warnings = w.warnings /\ v.db.warnings = w.db.warnings
<1> DEFINE u == IF written THEN SaveAll(w, {p}) ELSE w
           v == Gone(w, p, written)
           H == [k \in Keeper |-> IF k \in {p} THEN w.has[k] ELSE w.db.has[k]]
<1>0. w \in HouseType /\ p \in w.on /\ w.phase # "down" /\ w.db.owner = w.owner
  BY DEF Leaving
<1>1. /\ u \in HouseType
      /\ u.phase = w.phase /\ u.on = w.on /\ u.has = w.has /\ u.owner = w.owner
      /\ u.inside = w.inside /\ u.beds = w.beds /\ u.list = w.list /\ u.sale = w.sale
      /\ u.kicks = w.kicks /\ u.asked = w.asked /\ u.sleepers = w.sleepers
      /\ u.warnings = w.warnings /\ u.db.warnings = w.db.warnings /\ u.db.owner = w.db.owner
      /\ u.db.has = IF written THEN H ELSE w.db.has
  <2>1. CASE ~written
    BY <1>0, <2>1
  <2>2. CASE written
    <3>0. H \in [Keeper -> SUBSET Item]
      BY <1>0, Parts
    <3>1. u = [w EXCEPT !.db.has = H, !.db.inside = (@ \ {p}) \cup ({p} \cap w.inside)]
      BY <1>0, <2>2 DEF SaveAll, HouseType, DbType
    <3> HIDE DEF H, u
    <3> QED
      BY <1>0, <2>2, <3>0, <3>1 DEF HouseType, DbType
  <2> QED
    BY <2>1, <2>2
<1>2. v = [u EXCEPT !.on = @ \ {p}, !.inside = @ \ {p}, !.has[p] = {}, !.asked[p] = None,
                    !.sale = IF @ # None /\ p \in {@.from, @.to} THEN None ELSE @]
  BY DEF Gone, SavePlayer
<1> HIDE DEF u, v
<1>3. /\ v \in HouseType
      /\ v.phase = w.phase /\ v.on = w.on \ {p} /\ v.inside = w.inside \ {p} /\ v.owner = w.owner
      /\ v.has = [w.has EXCEPT ![p] = {}] /\ v.asked = [w.asked EXCEPT ![p] = None]
      /\ v.beds = w.beds /\ v.list = w.list /\ v.kicks = w.kicks /\ v.sleepers = w.sleepers
      /\ v.warnings = w.warnings /\ v.db = u.db
  BY <1>1, <1>2 DEF HouseType, Keeper, Where
<1>4. Within(v) /\ MayStay(v) /\ Bedded(v, doubled) /\ v.db.owner = v.owner
  <2>1. Within(v)
    BY <1>1, <1>3 DEF Leaving, Within, HouseType
  <2>2. MayStay(v)
    BY <1>1, <1>3 DEF Leaving, MayStay, Invited, Level
  <2>3. Bedded(v, doubled)
    BY <1>1, <1>3 DEF Leaving, Bedded
  <2> QED
    BY <1>0, <1>1, <1>3, <2>1, <2>2, <2>3
<1>5. \A j \in Keeper : j # p => Holding(v, j) = Holding(w, j)
  BY <1>0, <1>1, <1>3, Parts DEF Holding, H
<1>6. p \in Keeper /\ Holding(w, p) = w.has[p] /\ Holding(v, p) = v.db.has[p]
  BY <1>0, <1>3, Names DEF Holding, Keeper
<1>7. CASE written
  <2>1. Holding(v, p) = Holding(w, p)
    BY <1>1, <1>3, <1>6, <1>7 DEF H
  <2>2. Placed(v, astray)
    BY <1>5, <2>1 DEF Placed, With
  <2> QED
    BY <1>1, <1>3, <1>4, <1>7, <2>2 DEF Good, v
<1>8. CASE ~written
  <2>1. ASSUME NEW i \in Item \ (astray \cup Moved(w, p))
        PROVE  \E k \in Keeper : With(v, i, k)
    <3>1. i \in Holding(v, p) <=> i \in Holding(w, p)
      BY <1>0, <1>1, <1>3, <1>6, <1>8, <2>1, Parts DEF Moved
    <3> QED
      BY <1>5, <3>1 DEF Placed, With
  <2> QED
    BY <1>1, <1>3, <1>4, <1>8, <2>1 DEF Good, v, Placed
<1> QED
  BY <1>7, <1>8

LEMMA LogoutStep ==
  ASSUME HousesInv, NEW p \in Player, NEW written \in BOOLEAN, Logout(p, written)
  PROVE  HousesInv'
<1>1. LET v == Gone(s, p, written)
      IN  /\ Good(v, past.doubled)
          /\ Placed(v, past.astray \cup IF written THEN {} ELSE Moved(s, p))
          /\ v.phase = s.phase /\ v.owner = s.owner
          /\ v.warnings = s.warnings /\ v.db.warnings = s.db.warnings
  <2>1. p \in s.on /\ s.phase # "down" /\ Placed(s, past.astray)
    BY DEF HousesInv, Logout, Up
  <2>2. Leaving(s, past.doubled, p)
    BY <2>1 DEF HousesInv, Good, MayStay, Bedded, Leaving
  <2> QED
    BY <2>1, <2>2, GoneGood
<1>2. /\ s' = Gone(s, p, written)
      /\ past' = [past EXCEPT !.astray = @ \cup IF written THEN {} ELSE Moved(s, p)]
  BY DEF Logout, Forget
<1>3. Moved(s, p) \subseteq Item
  BY Parts DEF HousesInv, Good, Moved, Keeper
<1>4. /\ past' \in PastType /\ past'.astray = past.astray \cup IF written THEN {} ELSE Moved(s, p)
      /\ past'.doubled = past.doubled /\ past'.letters = past.letters
      /\ past'.changed = past.changed /\ past'.inherited = past.inherited
  BY <1>2, <1>3 DEF HousesInv, PastType
<1>5. Warned(s', past')
  BY <1>1, <1>2, <1>4 DEF HousesInv, Warned
<1> QED
  BY <1>1, <1>2, <1>4, <1>5 DEF HousesInv

LEMMA KickStep ==
  ASSUME HousesInv, NEW p \in Player, NEW written \in BOOLEAN, KickPlayer(p, written)
  PROVE  HousesInv'
<1> DEFINE w == [s EXCEPT !.kicks[p] = @ - 1]
<1>0. s.phase = "up" /\ s.kicks[p] > 0 /\ s \in HouseType
  BY DEF KickPlayer, Up, HousesInv, Good
<1>1. /\ w \in HouseType /\ Alike(w, s)
      /\ w.inside = s.inside /\ w.asked = s.asked /\ w.sleepers = s.sleepers /\ w.beds = s.beds
      /\ w.list = s.list /\ w.kicks = [s.kicks EXCEPT ![p] = @ - 1]
  <2>1. s.kicks[p] - 1 \in Nat
    BY <1>0, Parts
  <2> QED
    BY <1>0, <2>1 DEF HouseType, Alike
<1>a. \A q \in Player : q # p => w.kicks[q] = s.kicks[q]
  BY <1>0, <1>1, Parts
<1>b. Moved(w, p) = Moved(s, p)
  BY <1>1 DEF Moved, Alike
<1>c. /\ p \in s.on => s' = Gone(w, p, written) /\ Forget(p, written)
      /\ p \notin s.on => s' = w /\ UNCHANGED <<past, theme>>
  BY DEF KickPlayer
<1> HIDE DEF w
<1>2. Within(w) /\ w.db.owner = w.owner /\ Placed(w, past.astray) /\ Warned(w, past)
  BY <1>1, AlikePlaced, AlikeWarned DEF HousesInv, Good, Within, Alike
<1>3. \A q \in s.inside \ {p} : Invited(w, q) \/ w.kicks[q] > 0
  BY <1>0, <1>1, <1>a, Parts DEF HousesInv, Good, MayStay, Invited, Level, Alike
<1>4. \A q \in Player : w.sleepers[q] # None => w.beds[w.sleepers[q]] = q
  BY <1>0, <1>1 DEF HousesInv, Good, Bedded
<1>5. \A b \in Bed : w.beds[b] \notin past.doubled \cup {None} =>
        w.sleepers[w.beds[b]] = b /\ (w.beds[b] \in w.on \ {p} => w.kicks[w.beds[b]] > 0)
  <2> SUFFICES ASSUME NEW b \in Bed, w.beds[b] \notin past.doubled \cup {None}
               PROVE  w.sleepers[w.beds[b]] = b /\ (w.beds[b] \in w.on \ {p} => w.kicks[w.beds[b]] > 0)
    OBVIOUS
  <2>1. s.sleepers[s.beds[b]] = b /\ (s.beds[b] \in s.on => s.kicks[s.beds[b]] > 0)
    BY <1>0, <1>1 DEF HousesInv, Good, Bedded
  <2>2. w.beds[b] \in Player
    BY <1>0, <1>1, Parts DEF Whom
  <2> QED
    BY <1>1, <1>a, <2>1, <2>2 DEF Alike
<1>6. CASE p \in s.on
  <2>1. LET v == Gone(w, p, written)
        IN  /\ Good(v, past.doubled)
            /\ Placed(v, past.astray \cup IF written THEN {} ELSE Moved(w, p))
            /\ v.phase = w.phase /\ v.owner = w.owner
            /\ v.warnings = w.warnings /\ v.db.warnings = w.db.warnings
    <3>1. p \in w.on /\ w.phase # "down" /\ w.inside = s.inside
      BY <1>0, <1>1, <1>6 DEF Alike
    <3>2. Leaving(w, past.doubled, p)
      BY <1>1, <1>2, <1>3, <1>4, <1>5, <3>1 DEF Leaving
    <3> QED
      BY <1>2, <3>2, GoneGood
  <2>2. /\ s' = Gone(w, p, written)
        /\ past' = [past EXCEPT !.astray = @ \cup IF written THEN {} ELSE Moved(s, p)]
    BY <1>6, <1>c DEF Forget
  <2>3. Moved(s, p) \subseteq Item
    BY <1>0, Parts DEF Moved, Keeper
  <2>4. /\ past' \in PastType /\ past'.astray = past.astray \cup IF written THEN {} ELSE Moved(s, p)
        /\ past'.doubled = past.doubled /\ past'.letters = past.letters
        /\ past'.changed = past.changed /\ past'.inherited = past.inherited
    BY <2>2, <2>3 DEF HousesInv, PastType
  <2>5. Warned(s', past')
    BY <1>2, <2>1, <2>2, <2>4 DEF Warned
  <2> QED
    BY <1>b, <2>1, <2>2, <2>4, <2>5 DEF HousesInv
<1>7. CASE p \notin s.on
  <2>1. p \notin s.inside
    BY <1>7 DEF HousesInv, Good, Within
  <2>2. MayStay(w)
    BY <1>1, <1>3, <2>1 DEF MayStay
  <2>3. Bedded(w, past.doubled)
    BY <1>1, <1>4, <1>5, <1>7 DEF Bedded, Alike
  <2> QED
    BY <1>1, <1>2, <1>7, <1>c, <2>2, <2>3 DEF HousesInv, Good
<1> QED
  BY <1>6, <1>7

\* Steps that let players in, move them out and change the lists
LEMMA GuestStep ==
  ASSUME HousesInv, NEW p \in Player,
         \/ WalkIn(p) \/ WalkOut(p) \/ \E q \in Player : KickGuest(p, q)
  PROVE  HousesInv'
<1>1. CASE WalkIn(p)
  <2> DEFINE v == [s EXCEPT !.inside = @ \cup {p}]
  <2>1. Becomes(v) /\ p \in s.on /\ Invited(s, p)
    BY <1>1 DEF WalkIn
  <2>2. /\ v \in HouseType /\ Alike(v, s) /\ v.inside = s.inside \cup {p} /\ v.asked = s.asked
        /\ v.kicks = s.kicks /\ v.sleepers = s.sleepers /\ v.beds = s.beds /\ v.list = s.list
    BY DEF HousesInv, Good, HouseType, Alike
  <2> HIDE DEF v
  <2>3. Good(v, past.doubled)
    BY <2>1, <2>2 DEF HousesInv, Good, Within, MayStay, Invited, Level, Bedded, Alike
  <2> QED
    BY <2>1, <2>2, <2>3, AlikeStep
<1>2. CASE WalkOut(p)
  BY <1>2, KickOutGood, AlikeStep DEF WalkOut, HousesInv
<1>3. ASSUME NEW q \in Player, KickGuest(p, q)
      PROVE  HousesInv'
  BY <1>3, KickOutGood, AlikeStep DEF KickGuest, HousesInv
<1> QED
  BY <1>1, <1>2, <1>3

LEMMA WindowStep ==
  ASSUME HousesInv, NEW p \in Player, NEW l \in Lists, NEW P \in SUBSET Named,
         UpdateHouseWindow(p, l, P)
  PROVE  HousesInv'
<1> DEFINE u == [s EXCEPT !.list[l] = P]
           out == {q \in u.inside : ~Invited(u, q)}
           v == KickOutOf(u, out)
<1>1. Becomes(v)
  BY DEF UpdateHouseWindow, SetAccessList
<1>2. P \in SUBSET Player
  BY HousesAssumption
<1>3. /\ u \in HouseType /\ Alike(u, s) /\ u.inside = s.inside /\ u.asked = s.asked
      /\ u.kicks = s.kicks /\ u.sleepers = s.sleepers /\ u.beds = s.beds
  BY <1>2 DEF HousesInv, Good, HouseType, Alike, Lists
<1> HIDE DEF u
<1>4. /\ v \in HouseType /\ Alike(v, u) /\ v.inside = u.inside \ out /\ v.asked = u.asked
      /\ v.kicks = u.kicks /\ v.sleepers = u.sleepers /\ v.beds = u.beds /\ v.list = u.list
  <2> HIDE DEF out
  <2> QED
    BY <1>3 DEF KickOutOf, HouseType, Alike
<1>5. \A q : Invited(v, q) <=> Invited(u, q)
  BY <1>4 DEF Invited, Level, Alike
<1> HIDE DEF v
<1>6. MayStay(v)
  BY <1>4, <1>5 DEF MayStay
<1>7. Within(v) /\ Bedded(v, past.doubled) /\ v.db.owner = v.owner /\ Alike(v, s)
  BY <1>3, <1>4 DEF HousesInv, Good, Within, Bedded, Alike
<1> QED
  BY <1>1, <1>4, <1>6, <1>7, AlikeStep DEF Good

LEMMA BedStep ==
  ASSUME HousesInv, NEW p \in Player, NEW b \in Bed, UseBed(p, b)
  PROVE  HousesInv'
<1>1. CASE s.beds[b] # None
  BY <1>1, WakeUpGood, AlikeStep DEF UseBed, Up, HousesInv
<1>2. CASE s.beds[b] = None
  <2> DEFINE v == [s EXCEPT !.asked[p] = b]
  <2>1. Becomes(v) /\ p \in s.on
    BY <1>2 DEF UseBed
  <2>2. /\ v \in HouseType /\ Alike(v, s) /\ v.inside = s.inside /\ v.asked = [s.asked EXCEPT ![p] = b]
        /\ v.kicks = s.kicks /\ v.sleepers = s.sleepers /\ v.beds = s.beds /\ v.list = s.list
    BY DEF HousesInv, Good, HouseType, Alike, Where
  <2> HIDE DEF v
  <2>3. Within(v)
    BY <2>1, <2>2, Parts DEF HousesInv, Good, Within, Alike
  <2>4. Good(v, past.doubled)
    BY <2>1, <2>2, <2>3 DEF HousesInv, Good, MayStay, Invited, Level, Bedded, Alike
  <2> QED
    BY <2>1, <2>2, <2>4, AlikeStep
<1> QED
  BY <1>1, <1>2

\* Whoever lies down is in the house until it is kicked.
LEMMA AnswerStep ==
  ASSUME HousesInv, NEW p \in Player, NEW train \in BOOLEAN, AnswerModalWindow(p, train)
  PROVE  HousesInv'
<1> DEFINE b == s.asked[p]
           w == [s EXCEPT !.asked[p] = None]
<1>0. s.phase = "up" /\ b \in Bed /\ p \in s.on /\ s \in HouseType
  BY Parts DEF AnswerModalWindow, Up, HousesInv, Good, Within, Where
<1>1. /\ w \in HouseType /\ Alike(w, s) /\ w.inside = s.inside /\ w.asked = [s.asked EXCEPT ![p] = None]
      /\ w.kicks = s.kicks /\ w.sleepers = s.sleepers /\ w.beds = s.beds /\ w.list = s.list
  BY <1>0 DEF HouseType, Alike, Where
<1>2. CASE Becomes(w)
  <2> HIDE DEF w
  <2>1. Within(w)
    BY <1>0, <1>1, Parts DEF HousesInv, Good, Within, Alike
  <2>2. Good(w, past.doubled)
    BY <1>1, <2>1 DEF HousesInv, Good, MayStay, Invited, Level, Bedded, Alike
  <2> QED
    BY <1>1, <1>2, <2>2, AlikeStep
<1>3. ASSUME s.beds[b] = None, s' = Sleep(w, p, b),
             past' = [past EXCEPT !.doubled = @ \cup {q \in {p} : \E c \in Bed : s.beds[c] = p}]
      PROVE  HousesInv'
  <2> DEFINE v == Sleep(w, p, b)
             d == past'.doubled
  <2>1. /\ v \in HouseType /\ Alike(v, s) /\ v.inside = s.inside \cup {p}
        /\ v.asked = [s.asked EXCEPT ![p] = None] /\ v.kicks = [s.kicks EXCEPT ![p] = @ + 1]
        /\ v.sleepers = [s.sleepers EXCEPT ![p] = b] /\ v.beds = [s.beds EXCEPT ![b] = p]
        /\ v.list = s.list
    <3>1. w.kicks[p] + 1 \in Nat
      BY <1>0, <1>1, Parts
    <3> HIDE DEF w
    <3> QED
      BY <1>0, <1>1, <3>1 DEF Sleep, HouseType, Alike, Where, Whom
  <2>2. /\ past' \in PastType /\ d = past.doubled \cup {q \in {p} : \E c \in Bed : s.beds[c] = p}
        /\ past'.letters = past.letters /\ past'.changed = past.changed
        /\ past'.inherited = past.inherited /\ past'.astray = past.astray
    BY <1>3 DEF HousesInv, PastType
  <2> HIDE DEF v
  <2>3. \A q \in Player : v.kicks[q] >= s.kicks[q] /\ v.kicks[p] > 0
    BY <1>0, <2>1, Parts
  <2>4. Within(v)
    BY <1>0, <2>1, Parts DEF HousesInv, Good, Within, Alike
  <2>5. MayStay(v)
    <3> SUFFICES ASSUME NEW q \in v.inside
                 PROVE  Invited(v, q) \/ v.kicks[q] > 0
      BY DEF MayStay
    <3>1. CASE q = p
      BY <2>3, <3>1
    <3>2. CASE q # p
      <4>1. q \in s.inside /\ q \in Player
        BY <2>1, <3>2, Parts
      <4>2. Invited(s, q) \/ s.kicks[q] > 0
        BY <4>1 DEF HousesInv, Good, MayStay
      <4>3. Invited(s, q) => Invited(v, q)
        BY <2>1 DEF Invited, Level, Alike
      <4>4. s.kicks[q] \in Nat /\ v.kicks[q] \in Nat
        BY <1>0, <2>1, <4>1, Parts
      <4> QED
        BY <2>3, <4>1, <4>2, <4>3, <4>4
    <3> QED
      BY <3>1, <3>2
  <2>6. ASSUME NEW q \in Player, v.sleepers[q] # None
        PROVE  v.beds[v.sleepers[q]] = q
    <3>1. CASE q = p
      BY <1>0, <2>1, <3>1, Parts
    <3>2. CASE q # p
      <4>1. v.sleepers[q] = s.sleepers[q] /\ s.sleepers[q] \in Bed
        BY <1>0, <2>1, <2>6, <3>2, Parts DEF Where
      <4>2. s.beds[s.sleepers[q]] = q
        BY <1>0, <2>6, <4>1 DEF HousesInv, Good, Bedded
      <4>3. s.sleepers[q] # b
        BY <1>3, <4>2, Names
      <4> QED
        BY <1>0, <2>1, <4>1, <4>2, <4>3, Parts
    <3> QED
      BY <3>1, <3>2
  <2>7. ASSUME NEW c \in Bed, v.beds[c] \notin d \cup {None}
        PROVE  v.sleepers[v.beds[c]] = c /\ (v.beds[c] \in v.on => v.kicks[v.beds[c]] > 0)
    <3>1. CASE c = b
      <4>1. v.beds[c] = p
        BY <1>0, <2>1, <3>1, Parts
      <4> QED
        BY <1>0, <2>1, <2>3, <3>1, <4>1, Parts
    <3>2. CASE c # b
      <4>1. v.beds[c] = s.beds[c] /\ s.beds[c] \in Player
        BY <1>0, <2>1, <2>7, <3>2, Parts DEF Whom
      <4>2. s.beds[c] # p
        BY <2>2, <2>7, <4>1
      <4>3. s.sleepers[s.beds[c]] = c /\ (s.beds[c] \in s.on => s.kicks[s.beds[c]] > 0)
        BY <1>0, <2>2, <2>7, <4>1 DEF HousesInv, Good, Bedded
      <4>4. v.kicks[s.beds[c]] = s.kicks[s.beds[c]] /\ v.sleepers[s.beds[c]] = s.sleepers[s.beds[c]]
        BY <1>0, <2>1, <4>1, <4>2, Parts
      <4> QED
        BY <2>1, <4>1, <4>3, <4>4 DEF Alike
    <3> QED
      BY <3>1, <3>2
  <2>8. Good(v, d)
    BY <2>1, <2>4, <2>5, <2>6, <2>7 DEF HousesInv, Good, Bedded, Alike
  <2>9. Placed(v, past.astray) /\ Warned(v, past)
    BY <2>1, AlikePlaced, AlikeWarned DEF HousesInv
  <2>10. Warned(v, past')
    BY <2>2, <2>9 DEF Warned
  <2> QED
    BY <1>3, <2>2, <2>8, <2>9, <2>10 DEF HousesInv, v
<1> QED
  <2>1. IF train /\ s.beds[b] = None
        THEN /\ s' = Sleep(w, p, b)
             /\ past' = [past EXCEPT !.doubled = @ \cup {q \in {p} : \E c \in Bed : s.beds[c] = p}]
        ELSE Becomes(w)
    BY DEF AnswerModalWindow
  <2> QED
    BY <1>2, <1>3, <2>1

\* A thing passes from one to another who is there.
LEMMA HandOver ==
  ASSUME HousesInv, NEW a \in Keeper, NEW c \in Keeper, NEW i \in Item, a # c, s.phase = "up",
         a \in s.on \cup {House}, c \in s.on \cup {House}, i \in s.has[a],
         NEW v, v = [s EXCEPT !.has[a] = @ \ {i}, !.has[c] = @ \cup {i}], Becomes(v)
  PROVE  HousesInv'
<1>0. s \in HouseType
  BY DEF HousesInv, Good
<1>1. /\ v \in HouseType /\ v.has = [s.has EXCEPT ![a] = @ \ {i}, ![c] = @ \cup {i}]
      /\ v.phase = s.phase /\ v.on = s.on /\ v.db = s.db /\ v.owner = s.owner
      /\ v.inside = s.inside /\ v.asked = s.asked /\ v.kicks = s.kicks /\ v.sleepers = s.sleepers
      /\ v.beds = s.beds /\ v.list = s.list /\ v.warnings = s.warnings
  BY <1>0 DEF HouseType
<1>2. /\ Holding(s, a) = s.has[a] /\ Holding(s, c) = s.has[c]
      /\ Holding(v, a) = s.has[a] \ {i} /\ Holding(v, c) = s.has[c] \cup {i}
      /\ \A j \in Keeper : j \notin {a, c} => Holding(v, j) = Holding(s, j)
  BY <1>0, <1>1, Parts DEF Holding
<1>3. Good(v, past.doubled)
  BY <1>1 DEF HousesInv, Good, Within, MayStay, Invited, Level, Bedded
<1>4. Placed(v, past.astray)
  <2> SUFFICES ASSUME NEW x \in Item \ past.astray
               PROVE  \E k \in Keeper : With(v, x, k)
    BY DEF Placed
  <2>1. PICK k \in Keeper : With(s, x, k)
    BY DEF HousesInv, Placed
  <2>2. CASE x = i
    <3>1. k = a
      BY <1>2, <2>1, <2>2 DEF With
    <3>2. With(v, x, c)
      BY <1>2, <2>1, <2>2, <3>1 DEF With
    <3> QED
      BY <3>2
  <2>3. CASE x # i
    <3>1. With(v, x, k)
      BY <1>2, <2>1, <2>3 DEF With
    <3> QED
      BY <3>1
  <2> QED
    BY <2>2, <2>3
<1>5. Warned(v, past)
  BY <1>1 DEF HousesInv, Warned
<1> QED
  BY <1>1, <1>3, <1>4, <1>5, BecomesStep

LEMMA ThingStep ==
  ASSUME HousesInv, NEW p \in Player, NEW i \in Item,
         Take(p, i) \/ PutDown(p, i) \/ \E q \in Player : Give(p, q, i)
  PROVE  HousesInv'
<1>0. p \in Keeper /\ House \in Keeper /\ p # House /\ Player \subseteq Keeper
  BY Names DEF Keeper
<1>1. CASE Take(p, i)
  BY <1>0, <1>1, HandOver DEF Take, Up
<1>2. CASE PutDown(p, i)
  BY <1>0, <1>2, HandOver DEF PutDown, Up
<1>3. ASSUME NEW q \in Player, Give(p, q, i)
      PROVE  HousesInv'
  BY <1>0, <1>3, HandOver DEF Give, Up
<1> QED
  BY <1>1, <1>2, <1>3

\* A sale is all that changes.
LEMMA SaleGood ==
  ASSUME NEW w, NEW doubled, NEW x \in {None} \cup [from : Player, to : Player], Good(w, doubled)
  PROVE  Good([w EXCEPT !.sale = x], doubled) /\ Alike([w EXCEPT !.sale = x], w)
<1> DEFINE v == [w EXCEPT !.sale = x]
<1>1. /\ v \in HouseType /\ Alike(v, w) /\ v.inside = w.inside /\ v.asked = w.asked
      /\ v.kicks = w.kicks /\ v.sleepers = w.sleepers /\ v.beds = w.beds /\ v.list = w.list
  BY DEF Good, HouseType, Alike
<1> HIDE DEF v
<1>2. Good(v, doubled)
  BY <1>1 DEF Good, Within, MayStay, Invited, Level, Bedded, Alike
<1> QED
  BY <1>1, <1>2 DEF v

LEMMA OwnerStep ==
  ASSUME HousesInv,
         \/ \E g \in Player \cup {None}, loads \in BOOLEAN : SetOwnerGuid(g, loads)
         \/ \E loads \in BOOLEAN : Transfer(loads)
         \/ CancelTrade \/ \E p, q \in Player : StartTrade(p, q)
  PROVE  HousesInv'
<1>0. s \in HouseType /\ Good(s, past.doubled) /\ Placed(s, past.astray) /\ Warned(s, past)
  BY DEF HousesInv, Good
<1>1. ASSUME NEW g \in Player \cup {None}, NEW loads \in BOOLEAN, SetOwnerGuid(g, loads)
      PROVE  HousesInv'
  <2>1. g # s.owner /\ s.phase = "up" /\ g \in Whom /\ Becomes(SetOwner(s, g, loads))
    BY <1>1 DEF SetOwnerGuid, Up, Whom
  <2> QED
    BY <1>0, <2>1, SetOwnerGood, BecomesStep
<1>2. ASSUME NEW loads \in BOOLEAN, Transfer(loads)
      PROVE  HousesInv'
  <2> DEFINE u == SetOwner(s, s.sale.to, loads)
             v == [u EXCEPT !.sale = None]
  <2>1. s.phase = "up" /\ s.sale.to \in Whom /\ Becomes(v)
    BY <1>0, <1>2, Parts DEF Transfer, Up, Whom
  <2>2. /\ Good(u, past.doubled) /\ Placed(u, past.astray) /\ u.phase = "up"
        /\ IF u.owner = s.owner THEN u = s ELSE u.warnings = 0
    <3>1. CASE s.sale.to = s.owner
      <4>1. u = s
        BY <3>1 DEF SetOwner
      <4> QED
        BY <1>0, <2>1, <4>1
    <3>2. CASE s.sale.to # s.owner
      BY <1>0, <2>1, <3>2, SetOwnerGood
    <3> QED
      BY <3>1, <3>2
  <2> HIDE DEF u
  <2>3. Good(v, past.doubled) /\ Alike(v, u)
    BY <2>2, SaleGood
  <2> HIDE DEF v
  <2>4. Placed(v, past.astray) /\ (v.owner = s.owner => Warned(v, past))
        /\ (v.owner # s.owner => v.phase # "down" /\ v.warnings = 0)
    BY <1>0, <2>2, <2>3, AlikePlaced, AlikeWarned DEF Alike
  <2> QED
    BY <2>1, <2>3, <2>4, BecomesStep
<1>3. CASE CancelTrade
  BY <1>0, <1>3, SaleGood, AlikeStep DEF CancelTrade
<1>4. ASSUME NEW p \in Player, NEW q \in Player, StartTrade(p, q)
      PROVE  HousesInv'
  <2>1. [from |-> p, to |-> q] \in [from : Player, to : Player]
    OBVIOUS
  <2> QED
    BY <1>0, <1>4, <2>1, SaleGood, AlikeStep DEF StartTrade
<1> QED
  BY <1>1, <1>2, <1>3, <1>4

\* What the database may become without anything that is kept being lost.
Rewritten(v, x, d) ==
  /\ x \in {"up", "info", "items"} /\ d \in DbType /\ d.owner = s.owner
  /\ \A k \in Keeper \ (s.on \cup {House}) : d.has[k] = s.db.has[k]
  /\ v = [s EXCEPT !.phase = x, !.db = d]

Kept(v, x, d) ==
  /\ Good(v, past.doubled) /\ Placed(v, past.astray)
  /\ v.owner = s.owner /\ v.warnings = s.warnings /\ v.db = d /\ v.phase = x

LEMMA DatabaseGood ==
  ASSUME HousesInv, s.phase # "down", NEW v, NEW x, NEW d, Rewritten(v, x, d)
  PROVE  Kept(v, x, d)
<1>0. s \in HouseType
  BY DEF HousesInv, Good
<1>1. /\ v \in HouseType /\ v.phase = x /\ v.db = d /\ v.on = s.on /\ v.has = s.has
      /\ v.owner = s.owner /\ v.warnings = s.warnings
      /\ v.inside = s.inside /\ v.asked = s.asked
      /\ v.kicks = s.kicks /\ v.sleepers = s.sleepers /\ v.beds = s.beds /\ v.list = s.list
      /\ x # "down" /\ d.owner = s.owner
  BY <1>0 DEF HouseType, Rewritten
<1>2. Good(v, past.doubled)
  BY <1>1 DEF HousesInv, Good, Within, MayStay, Invited, Level, Bedded
<1>3. \A k \in Keeper : Holding(v, k) = Holding(s, k)
  BY <1>1 DEF Holding, Rewritten
<1>4. Placed(v, past.astray)
  BY <1>3 DEF HousesInv, Placed, With
<1> QED
  BY <1>1, <1>2, <1>4 DEF Kept

LEMMA SavedTypes ==
  ASSUME NEW w \in HouseType
  PROVE  /\ SavedInfo(w) \in DbType /\ SavedInfo(w).owner = w.owner
         /\ SavedInfo(w).warnings = w.warnings /\ SavedInfo(w).has = w.db.has
         /\ SavedItems(w) \in DbType /\ SavedItems(w).owner = w.db.owner
         /\ SavedItems(w).warnings = w.db.warnings
         /\ SavedItems(w).has = [w.db.has EXCEPT ![House] = w.has[House]]
<1>1. House \in Keeper
  BY DEF Keeper
<1>2. w.has[House] \in SUBSET Item
  BY <1>1, Parts
<1> QED
  BY <1>1, <1>2, Parts DEF SavedInfo, SavedItems, DbType

LEMMA SaveStep ==
  ASSUME HousesInv,
         \/ SaveHouse \/ \E p \in Player : PlayerSave(p)
         \/ \E P \in SUBSET Player : SavePlayers(P)
         \/ \E written \in BOOLEAN : SaveHouseInfo(written) \/ SaveHouseItems(written)
  PROVE  HousesInv'
<1>0. s \in HouseType /\ Good(s, past.doubled) /\ s.db.owner = s.owner /\ Warned(s, past)
      /\ s.db \in DbType
  BY Parts DEF HousesInv, Good
<1>1. ASSUME NEW x \in {"up", "items"}, s.phase # "down",
             Becomes([s EXCEPT !.phase = x, !.db = SavedItems(s)])
      PROVE  HousesInv'
  <2> DEFINE v == [s EXCEPT !.phase = x, !.db = SavedItems(s)]
  <2>1. /\ Good(v, past.doubled) /\ Placed(v, past.astray)
        /\ v.owner = s.owner /\ v.warnings = s.warnings /\ v.db = SavedItems(s) /\ v.phase = x
    <3>1. \A k \in Keeper \ (s.on \cup {House}) : SavedItems(s).has[k] = s.db.has[k]
      BY <1>0, SavedTypes, Parts
    <3>2. x \in {"up", "info", "items"}
      BY <1>1
    <3>3. SavedItems(s) \in DbType /\ SavedItems(s).owner = s.owner
      BY <1>0, SavedTypes
    <3>4. Rewritten(v, x, SavedItems(s))
      BY <3>1, <3>2, <3>3 DEF Rewritten
    <3> HIDE DEF v
    <3>5. Kept(v, x, SavedItems(s))
      BY <1>1, <3>4, DatabaseGood
    <3> QED
      BY <3>5 DEF Kept
  <2> HIDE DEF v
  <2>2. Warned(v, past)
    BY <1>0, <1>1, <2>1, SavedTypes DEF Warned
  <2> QED
    BY <1>1, <2>1, <2>2, BecomesStep DEF v
<1>2. CASE SaveHouse
  <2>1. [s EXCEPT !.db = SavedItems(s)] = [s EXCEPT !.phase = "up", !.db = SavedItems(s)]
    BY <1>0, <1>2 DEF SaveHouse, Up, HouseType
  <2>2. s.phase = "up" /\ Becomes([s EXCEPT !.phase = "up", !.db = SavedItems(s)])
    BY <1>2, <2>1 DEF SaveHouse, Up
  <2> QED
    BY <1>1, <2>2
<1>3. ASSUME NEW P \in SUBSET s.on, NEW v, s.phase = "up", Becomes(v),
             \/ v = SaveAll(s, P)
             \/ v = [SaveAll(s, P) EXCEPT !.phase = "info"]
      PROVE  HousesInv'
  <2> DEFINE u == SaveAll(s, P)
  <2>1. /\ Good(u, past.doubled) /\ u.phase = s.phase /\ u.on = s.on /\ u.has = s.has
        /\ u.owner = s.owner /\ u.warnings = s.warnings /\ u.db.warnings = s.db.warnings
        /\ \A k \in Keeper : Holding(u, k) = Holding(s, k)
    <3>1. Good(u, past.doubled) /\ Written(u, s, P)
      BY <1>0, <1>3, SaveAllGood
    <3> HIDE DEF u
    <3> QED
      BY <3>1 DEF Written
  <2> HIDE DEF u
  <2>2. /\ v \in HouseType /\ v.phase \in {"up", "info"} /\ v.on = u.on /\ v.has = u.has
        /\ v.owner = u.owner /\ v.warnings = u.warnings /\ v.db = u.db
        /\ v.inside = u.inside /\ v.asked = u.asked
        /\ v.kicks = u.kicks /\ v.sleepers = u.sleepers /\ v.beds = u.beds /\ v.list = u.list
    <3>1. v = u \/ v = [u EXCEPT !.phase = "info"]
      BY <1>3 DEF u
    <3> QED
      BY <1>3, <2>1, <3>1 DEF Good, HouseType
  <2>3. Good(v, past.doubled)
    BY <1>3, <2>1, <2>2 DEF Good, Within, MayStay, Invited, Level, Bedded
  <2>4. \A k \in Keeper : Holding(v, k) = Holding(s, k)
    BY <1>3, <2>1, <2>2 DEF Holding
  <2>5. Placed(v, past.astray)
    BY <2>4 DEF HousesInv, Placed, With
  <2>6. Warned(v, past)
    BY <1>0, <1>3, <2>1, <2>2 DEF Warned
  <2> QED
    BY <1>3, <2>1, <2>2, <2>3, <2>5, <2>6, BecomesStep
<1>4. ASSUME NEW p \in Player, PlayerSave(p)
      PROVE  HousesInv'
  <2>1. {p} \in SUBSET s.on /\ s.phase = "up" /\ Becomes(SaveAll(s, {p}))
    BY <1>4 DEF PlayerSave, SavePlayer, Up
  <2> QED
    BY <1>3, <2>1
<1>5. ASSUME NEW P \in SUBSET Player, SavePlayers(P)
      PROVE  HousesInv'
  <2>1. P \in SUBSET s.on /\ s.phase = "up" /\ Becomes([SaveAll(s, P) EXCEPT !.phase = "info"])
    BY <1>5 DEF SavePlayers, Up
  <2> QED
    BY <1>3, <2>1
<1>6. ASSUME NEW x \in {"up", "items"}, s.phase # "down", Becomes([s EXCEPT !.phase = x])
      PROVE  HousesInv'
  <2> DEFINE v == [s EXCEPT !.phase = x, !.db = s.db]
  <2>1. [s EXCEPT !.phase = x] = v
    BY <1>0 DEF HouseType
  <2>2. /\ Good(v, past.doubled) /\ Placed(v, past.astray)
        /\ v.owner = s.owner /\ v.warnings = s.warnings /\ v.db = s.db /\ v.phase = x
    <3>1. x \in {"up", "info", "items"} /\ \A k \in Keeper \ (s.on \cup {House}) : s.db.has[k] = s.db.has[k]
      BY <1>6
    <3>2. Rewritten(v, x, s.db)
      BY <1>0, <3>1 DEF Rewritten
    <3> HIDE DEF v
    <3>3. Kept(v, x, s.db)
      BY <1>6, <3>2, DatabaseGood
    <3> QED
      BY <3>3 DEF Kept
  <2>a. Becomes(v)
    BY <1>6, <2>1
  <2> HIDE DEF v
  <2>3. Warned(v, past)
    BY <1>0, <1>6, <2>2 DEF Warned
  <2> QED
    BY <2>a, <2>2, <2>3, BecomesStep
<1>7. ASSUME NEW written \in BOOLEAN, SaveHouseItems(written)
      PROVE  HousesInv'
  <2>1. CASE written
    <3>1. s.phase # "down" /\ Becomes([s EXCEPT !.phase = "up", !.db = SavedItems(s)])
      BY <1>7, <2>1 DEF SaveHouseItems
    <3> QED
      BY <1>1, <3>1
  <2>2. CASE ~written
    <3>1. s.phase # "down" /\ Becomes([s EXCEPT !.phase = "up", !.db = @])
      BY <1>7, <2>2 DEF SaveHouseItems
    <3>2. [s EXCEPT !.phase = "up", !.db = @] = [s EXCEPT !.phase = "up"]
      BY <1>0 DEF HouseType
    <3> QED
      BY <1>6, <3>1, <3>2
  <2> QED
    BY <2>1, <2>2
<1>8. ASSUME NEW written \in BOOLEAN, SaveHouseInfo(written)
      PROVE  HousesInv'
  <2>0. s.phase = "info"
    BY <1>8 DEF SaveHouseInfo
  <2>1. CASE written
    <3> DEFINE v == [s EXCEPT !.phase = "items", !.db = SavedInfo(s)]
    <3>1. s' = v /\ past' = [past EXCEPT !.changed = FALSE]
      BY <1>8, <2>1 DEF SaveHouseInfo
    <3>2. /\ Good(v, past.doubled) /\ Placed(v, past.astray)
          /\ v.owner = s.owner /\ v.warnings = s.warnings /\ v.db = SavedInfo(s) /\ v.phase = "items"
      <4>1. \A k \in Keeper \ (s.on \cup {House}) : SavedInfo(s).has[k] = s.db.has[k]
        BY <1>0, SavedTypes
      <4>2. SavedInfo(s) \in DbType /\ SavedInfo(s).owner = s.owner
        BY <1>0, SavedTypes
      <4>3. Rewritten(v, "items", SavedInfo(s))
        BY <4>1, <4>2 DEF Rewritten
      <4> HIDE DEF v
      <4>4. Kept(v, "items", SavedInfo(s))
        BY <2>0, <4>3, DatabaseGood
      <4> QED
        BY <4>4 DEF Kept
    <3> HIDE DEF v
    <3>3. /\ past' \in PastType /\ past'.doubled = past.doubled /\ past'.astray = past.astray
          /\ past'.letters = past.letters /\ past'.inherited = past.inherited
      BY <3>1 DEF HousesInv, PastType
    <3>4. Warned(v, past')
      BY <1>0, <2>0, <3>2, <3>3, SavedTypes DEF Warned
    <3> QED
      BY <3>1, <3>2, <3>3, <3>4 DEF HousesInv
  <2>2. CASE ~written
    <3>1. s.phase # "down" /\ Becomes([s EXCEPT !.phase = "up"])
      BY <1>8, <2>2 DEF SaveHouseInfo
    <3> QED
      BY <1>6, <3>1
  <2> QED
    BY <2>1, <2>2
<1> QED
  BY <1>2, <1>4, <1>5, <1>7, <1>8

\* A server that is down has what the database has.
LEMMA DownGood ==
  ASSUME NEW d \in DbType, NEW doubled
  PROVE  /\ Good(Down(d), doubled)
         /\ Down(d).phase = "down" /\ Down(d).on = {} /\ Down(d).db = d /\ Down(d).owner = d.owner
         /\ \A k : Holding(Down(d), k) = d.has[k]
<1> DEFINE v == Down(d)
<1>1. NoLists \in [Lists -> SUBSET Player]
  BY DEF NoLists
<1>2. /\ [b \in Bed |-> None] \in [Bed -> Whom] /\ [p \in Player |-> None] \in [Player -> Where]
      /\ [p \in Player |-> 0] \in [Player -> Nat] /\ [k \in Keeper |-> {}] \in [Keeper -> SUBSET Item]
  BY DEF Whom, Where
<1>3. d.owner \in Whom
  BY DEF DbType
<1>4. v \in HouseType
  BY <1>1, <1>2, <1>3 DEF Down, HouseType
<1>5. /\ v.phase = "down" /\ v.on = {} /\ v.inside = {} /\ v.db = d /\ v.owner = d.owner
      /\ v.asked = [p \in Player |-> None]
  BY DEF Down
<1> HIDE DEF v
<1>6. Good(v, doubled)
  BY <1>4, <1>5 DEF Good, Within, MayStay, Bedded
<1>7. \A k : Holding(v, k) = d.has[k]
  BY <1>5 DEF Holding
<1> QED
  BY <1>5, <1>6, <1>7 DEF v

LEMMA CrashStep ==
  ASSUME HousesInv, Crash
  PROVE  HousesInv'
<1> DEFINE v == Down(s.db)
           lost == UNION {Moved(s, k) : k \in s.on \cup {House}}
<1>0. s \in HouseType /\ s.db \in DbType /\ s.phase # "down" /\ Warned(s, past) /\ past \in PastType
  BY Parts DEF HousesInv, Good, Crash
<1>1. /\ s' = v
      /\ past' = [past EXCEPT !.crashes = @ + 1, !.doubled = {}, !.inherited = @ \/ past.changed,
                              !.astray = @ \cup lost]
  BY DEF Crash
<1>2. s.on \subseteq Keeper /\ House \in Keeper
  BY <1>0, Parts DEF Keeper
<1>3. \A k \in s.on \cup {House} : Moved(s, k) \subseteq Item
  BY <1>0, <1>2, Parts DEF Moved
<1>4. lost \subseteq Item
  BY <1>3
<1> HIDE DEF lost
<1>5. /\ past' \in PastType /\ past'.doubled = {} /\ past'.astray = past.astray \cup lost
      /\ past'.letters = past.letters /\ past'.inherited = (past.inherited \/ past.changed)
  <2>1. PICK e \in BOOLEAN : e = (past.inherited \/ past.changed)
    BY <1>0 DEF PastType
  <2>2. past' = [past EXCEPT !.crashes = @ + 1, !.doubled = {}, !.inherited = e,
                             !.astray = @ \cup lost]
    BY <1>0, <1>1, <2>1 DEF PastType
  <2>3. /\ past' \in PastType /\ past'.doubled = {} /\ past'.astray = past.astray \cup lost
        /\ past'.letters = past.letters /\ past'.inherited = e
    <3>1. past' \in PastType
      <4>1. PICK n \in Nat : n = past.crashes + 1
        BY <1>0 DEF PastType
      <4>2. PICK A \in SUBSET Item : A = past.astray \cup lost
        BY <1>0, <1>4 DEF PastType
      <4>3. past' = [past EXCEPT !.crashes = n, !.doubled = {}, !.inherited = e, !.astray = A]
        BY <1>0, <2>2, <4>1, <4>2 DEF PastType
      <4> QED
        BY <1>0, <2>1, <4>3 DEF PastType
    <3>2. /\ past'.doubled = {} /\ past'.astray = past.astray \cup lost
          /\ past'.letters = past.letters /\ past'.inherited = e
      BY <1>0, <2>2 DEF PastType
    <3> QED
      BY <3>1, <3>2
  <2> QED
    BY <2>1, <2>3, Zenon
<1>6. /\ Good(v, {}) /\ v.phase = "down" /\ v.db = s.db
      /\ \A k : Holding(v, k) = s.db.has[k]
  BY <1>0, DownGood
<1> HIDE DEF v
<1>7. Placed(v, past.astray \cup lost)
  <2> SUFFICES ASSUME NEW i \in Item \ (past.astray \cup lost)
               PROVE  \E k \in Keeper : With(v, i, k)
    BY DEF Placed
  <2>1. PICK k \in Keeper : With(s, i, k)
    BY DEF HousesInv, Placed
  <2>2. ASSUME NEW j \in Keeper
        PROVE  i \in s.db.has[j] <=> i \in Holding(s, j)
    <3>1. CASE j \in s.on \cup {House}
      <4>1. i \notin Moved(s, j)
        BY <3>1 DEF lost
      <4> QED
        BY <1>0, <3>1, <4>1 DEF Holding, Moved
    <3>2. CASE j \notin s.on \cup {House}
      BY <3>2 DEF Holding
    <3> QED
      BY <3>1, <3>2
  <2>3. With(v, i, k)
    BY <1>6, <2>1, <2>2 DEF With
  <2> QED
    BY <2>3
<1>8. Warned(v, past')
  BY <1>0, <1>5, <1>6 DEF Warned
<1> QED
  BY <1>1, <1>5, <1>6, <1>7, <1>8 DEF HousesInv

LEMMA StopStep ==
  ASSUME HousesInv, Stop
  PROVE  HousesInv'
<1> DEFINE w == SaveAll(s, s.on)
           x == [w EXCEPT !.db = SavedInfo(w)]
           d == SavedItems(x)
           v == Down(d)
<1>0. /\ s \in HouseType /\ s.phase = "up" /\ Warned(s, past) /\ past \in PastType
      /\ Good(s, past.doubled) /\ s.db.owner = s.owner
  BY DEF HousesInv, Good, Stop, Up
<1>1. s' = v /\ past' = [past EXCEPT !.changed = FALSE]
  BY DEF Stop
<1>2. Good(w, past.doubled) /\ Written(w, s, s.on)
  BY <1>0, SaveAllGood
<1> HIDE DEF w
<1>3. /\ SavedInfo(w) \in DbType /\ SavedInfo(w).owner = w.owner
      /\ SavedInfo(w).warnings = w.warnings /\ SavedInfo(w).has = w.db.has
  BY <1>2, SavedTypes DEF Good
<1>4. x \in HouseType /\ x.db = SavedInfo(w) /\ x.has = w.has
  BY <1>2, <1>3 DEF Good, HouseType
<1> HIDE DEF x
<1>5. /\ d \in DbType /\ d.owner = s.owner /\ d.warnings = s.warnings
      /\ d.has = [w.db.has EXCEPT ![House] = s.has[House]]
  BY <1>2, <1>3, <1>4, SavedTypes DEF Written
<1> HIDE DEF d
<1>6. ASSUME NEW k \in Keeper
      PROVE  d.has[k] = Holding(s, k)
  <2>1. w.db.has = [j \in Keeper |-> IF j \in s.on THEN s.has[j] ELSE s.db.has[j]]
    BY <1>2 DEF Written
  <2> QED
    BY <1>0, <1>5, <2>1 DEF Holding
<1>7. /\ Good(v, past.doubled) /\ v.phase = "down" /\ v.db = d
      /\ \A k : Holding(v, k) = d.has[k]
  BY <1>5, DownGood
<1> HIDE DEF v
<1>8. Placed(v, past.astray)
  BY <1>6, <1>7 DEF HousesInv, Placed, With
<1>9. /\ past' \in PastType /\ past'.doubled = past.doubled /\ past'.astray = past.astray
      /\ past'.letters = past.letters /\ past'.inherited = past.inherited
  BY <1>0, <1>1 DEF PastType
<1>10. Warned(v, past')
  BY <1>0, <1>5, <1>7, <1>9 DEF Warned
<1> QED
  BY <1>1, <1>7, <1>8, <1>9, <1>10 DEF HousesInv

\* The players who have two beds in the database.
Twice == {p \in Player : \E c, e \in Bed : c # e /\ s.db.beds[c] = p /\ s.db.beds[e] = p}

LEMMA LoadedGood ==
  ASSUME HousesInv, s.phase = "down", NEW b \in Bed
  PROVE  /\ Good(Loaded(b), Twice) /\ Placed(Loaded(b), past.astray)
         /\ Loaded(b).phase = "up" /\ Loaded(b).on = {} /\ Loaded(b).owner = s.owner
         /\ Loaded(b).warnings = s.db.warnings /\ Loaded(b).db = s.db
<1> DEFINE v == Loaded(b)
           B(p) == {c \in Bed : s.db.beds[c] = p}
           S == [p \in Player |-> IF B(p) = {} THEN None ELSE IF b \in B(p) THEN b
                                  ELSE CHOOSE c \in B(p) : TRUE]
           u == Down(s.db)
<1>0. s \in HouseType /\ s.db \in DbType /\ s.on = {} /\ s.db.owner = s.owner
  BY Parts DEF HousesInv, Good, Within
<1>1. /\ Good(u, Twice) /\ u.phase = "down" /\ u.on = {} /\ u.db = s.db /\ u.owner = s.db.owner
      /\ u \in HouseType
  BY <1>0, DownGood DEF Good
<1>2. u.has = [k \in Keeper |-> {}] /\ u.inside = {} /\ u.asked = [p \in Player |-> None]
  BY DEF Down
<1>3. \A p \in Player : B(p) # {} => S[p] \in B(p)
  OBVIOUS
<1>4. S \in [Player -> Where]
  BY DEF Where
<1>5. v = [u EXCEPT !.phase = "up", !.list = s.db.list, !.warnings = s.db.warnings,
                    !.beds = s.db.beds, !.has[House] = s.db.has[House], !.sleepers = S]
  BY DEF Loaded
<1>6. \A p \in Player : B(p) = {} => S[p] = None
  OBVIOUS
<1> HIDE DEF u, S
<1>7. /\ v \in HouseType /\ v.phase = "up" /\ v.list = s.db.list /\ v.warnings = s.db.warnings
      /\ v.beds = s.db.beds /\ v.sleepers = S /\ v.has = [u.has EXCEPT ![House] = s.db.has[House]]
      /\ v.on = {} /\ v.inside = {} /\ v.asked = u.asked /\ v.db = s.db /\ v.owner = s.db.owner
  <2>1. /\ s.db.list \in [Lists -> SUBSET Player] /\ s.db.warnings \in Nat
        /\ s.db.beds \in [Bed -> Whom] /\ s.db.has[House] \in SUBSET Item
    BY <1>0, Parts DEF Keeper
  <2> HIDE DEF v
  <2> QED
    BY <1>1, <1>2, <1>4, <1>5, <2>1 DEF HouseType
<1> HIDE DEF v
<1>8. Within(v) /\ MayStay(v) /\ v.db.owner = v.owner
  BY <1>2, <1>7 DEF Within, MayStay
<1>9. ASSUME NEW p \in Player, v.sleepers[p] # None
      PROVE  v.beds[v.sleepers[p]] = p
  <2>1. S[p] \in B(p)
    BY <1>3, <1>6, <1>7, <1>9
  <2> QED
    BY <1>7, <2>1
<1>10. ASSUME NEW c \in Bed, v.beds[c] \notin Twice \cup {None}
       PROVE  v.sleepers[v.beds[c]] = c /\ v.beds[c] \notin v.on
  <2>1. v.beds[c] \in Player /\ c \in B(v.beds[c])
    BY <1>0, <1>7, <1>10, Parts DEF Whom
  <2>2. S[v.beds[c]] \in B(v.beds[c])
    BY <1>3, <2>1
  <2>3. \A e \in B(v.beds[c]) : e = c
    BY <1>7, <1>10, <2>1 DEF Twice
  <2> QED
    BY <1>7, <2>2, <2>3
<1>11. Good(v, Twice)
  BY <1>7, <1>8, <1>9, <1>10 DEF Good, Bedded
<1>12. \A k \in Keeper : Holding(v, k) = Holding(s, k)
  BY <1>0, <1>2, <1>7 DEF Holding, Keeper
<1>13. Placed(v, past.astray)
  BY <1>12 DEF HousesInv, Placed, With
<1> QED
  BY <1>0, <1>7, <1>11, <1>13 DEF v

\* Nothing but the owner, the warnings and the rent is different.
SameHouse(v, w, doubled, astray) ==
  /\ Good(v, doubled) /\ Placed(v, astray)
  /\ v.phase = "up" /\ v.db.warnings = w.db.warnings

\* The owner keeps the house, with a letter more or none, or loses it with all
\* warnings counted, or because it could not be loaded.
Charged(v, w, found) ==
  \/ v.owner = w.owner /\ v.warnings \in {w.warnings, w.warnings + 1}
  \/ v.owner # w.owner /\ v.warnings = 0 /\ (w.warnings >= Patience \/ ~found)

LEMMA PayHousesGood ==
  ASSUME NEW w, NEW doubled, NEW astray, NEW due \in BOOLEAN, NEW rich \in BOOLEAN,
         NEW found \in BOOLEAN, NEW loads \in BOOLEAN,
         Good(w, doubled), Placed(w, astray), w.phase = "up"
  PROVE  /\ SameHouse(PayHouses(w, due, rich, found, loads), w, doubled, astray)
         /\ Charged(PayHouses(w, due, rich, found, loads), w, found)
<1> DEFINE v == PayHouses(w, due, rich, found, loads)
<1>0. w \in HouseType /\ w.warnings \in Nat /\ Patience \in Nat
  BY Parts, HousesAssumption DEF Good
<1>1. ASSUME NEW pd \in BOOLEAN, NEW n \in Nat
      PROVE  /\ SameHouse([w EXCEPT !.paid = pd, !.warnings = n], w, doubled, astray)
             /\ [w EXCEPT !.paid = pd, !.warnings = n].owner = w.owner
             /\ [w EXCEPT !.paid = pd, !.warnings = n].warnings = n
  <2> DEFINE u == [w EXCEPT !.paid = pd, !.warnings = n]
  <2>1. /\ u \in HouseType /\ u.phase = w.phase /\ u.on = w.on /\ u.has = w.has /\ u.db = w.db
        /\ u.owner = w.owner /\ u.warnings = n /\ u.inside = w.inside /\ u.asked = w.asked
        /\ u.kicks = w.kicks /\ u.sleepers = w.sleepers /\ u.beds = w.beds /\ u.list = w.list
    BY <1>0 DEF HouseType
  <2> HIDE DEF u
  <2>2. Good(u, doubled)
    BY <2>1 DEF Good, Within, MayStay, Invited, Level, Bedded
  <2>3. \A k : Holding(u, k) = Holding(w, k)
    BY <2>1 DEF Holding
  <2>4. Placed(u, astray)
    BY <2>3, Zenon DEF Placed, With
  <2> QED
    BY <2>1, <2>2, <2>4 DEF u, SameHouse
<1>2. CASE w.owner = None \/ ~due
  <2>1. PICK pd \in BOOLEAN : pd = ~due
    OBVIOUS
  <2>2. v = [w EXCEPT !.paid = pd, !.warnings = w.warnings]
    <3>1. v = [w EXCEPT !.paid = ~due]
      BY <1>2 DEF PayHouses
    <3>2. v = [w EXCEPT !.paid = pd]
      BY <2>1, <3>1
    <3> QED
      BY <1>0, <3>2 DEF HouseType
  <2> HIDE DEF v
  <2>3. SameHouse(v, w, doubled, astray) /\ v.owner = w.owner /\ v.warnings = w.warnings
    BY <1>0, <1>1, <2>2
  <2>4. Charged(v, w, found)
    BY <2>3 DEF Charged
  <2> QED
    BY <2>3, <2>4 DEF v
<1>3. CASE w.owner # None /\ due /\ found /\ rich
  <2>1. v = [w EXCEPT !.paid = TRUE, !.warnings = w.warnings]
    BY <1>0, <1>3 DEF PayHouses, HouseType
  <2>2. TRUE \in BOOLEAN
    OBVIOUS
  <2> HIDE DEF v
  <2>3. SameHouse(v, w, doubled, astray) /\ v.owner = w.owner /\ v.warnings = w.warnings
    BY <1>0, <1>1, <2>1, <2>2
  <2>4. Charged(v, w, found)
    BY <2>3 DEF Charged
  <2> QED
    BY <2>3, <2>4 DEF v
<1>4. CASE w.owner # None /\ due /\ found /\ ~rich /\ w.warnings < Patience
  <2>1. v = [w EXCEPT !.paid = FALSE, !.warnings = w.warnings + 1]
    BY <1>4 DEF PayHouses
  <2>2. w.warnings + 1 \in Nat
    BY <1>0
  <2> HIDE DEF v
  <2> QED
    BY <1>0, <1>1, <2>1, <2>2 DEF v, Charged
<1>5. CASE w.owner # None /\ due /\ (~found \/ (~rich /\ ~(w.warnings < Patience)))
  <2>0. PICK l \in BOOLEAN : l = IF found THEN TRUE ELSE loads
    OBVIOUS
  <2> DEFINE u == SetOwner(w, None, l)
  <2>1. v = [u EXCEPT !.paid = FALSE]
    <3>1. CASE ~found
      BY <1>5, <2>0, <3>1 DEF PayHouses
    <3>2. CASE found
      <4>1. v = [SetOwner(w, None, TRUE) EXCEPT !.paid = FALSE]
        BY <1>5, <3>2 DEF PayHouses
      <4> QED
        BY <2>0, <3>2, <4>1
    <3> QED
      BY <3>1, <3>2
  <2>2. /\ Good(u, doubled) /\ Placed(u, astray) /\ u.owner = None /\ u.warnings = 0
        /\ u.phase = w.phase /\ u.on = w.on /\ u.db.warnings = w.db.warnings
    <3>1. None \in Whom
      BY DEF Whom
    <3> QED
      BY <1>5, <3>1, SetOwnerGood
  <2> HIDE DEF u, v
  <2>3. /\ v \in HouseType /\ v.phase = u.phase /\ v.on = u.on /\ v.has = u.has /\ v.db = u.db
        /\ v.owner = u.owner /\ v.warnings = u.warnings /\ v.inside = u.inside /\ v.asked = u.asked
        /\ v.kicks = u.kicks /\ v.sleepers = u.sleepers /\ v.beds = u.beds /\ v.list = u.list
    BY <2>1, <2>2 DEF Good, HouseType
  <2>4. Good(v, doubled)
    BY <2>2, <2>3 DEF Good, Within, MayStay, Invited, Level, Bedded
  <2>5. Placed(v, astray)
    BY <2>2, <2>3, AlikePlaced DEF Alike
  <2> QED
    <3>1. SameHouse(v, w, doubled, astray)
      BY <2>2, <2>3, <2>4, <2>5 DEF SameHouse
    <3>2. Charged(v, w, found)
      BY <1>0, <1>5, <2>2, <2>3 DEF Charged
    <3> QED
      BY <3>1, <3>2 DEF v
<1> QED
  BY <1>2, <1>3, <1>4, <1>5

\* What a start does to the owner and the warnings.
LEMMA StartParts ==
  ASSUME HousesInv, NEW b \in Bed, NEW late \in BOOLEAN, NEW rich \in BOOLEAN,
         NEW found \in BOOLEAN, NEW loads \in BOOLEAN, StartServer(b, late, rich, found, loads)
  PROVE  /\ SameHouse(s', s, Twice, past.astray)
         /\ \/ s'.owner = s.owner /\ s'.warnings \in {s.db.warnings, s.db.warnings + 1}
            \/ s'.owner # s.owner /\ s'.warnings = 0 /\ (s.db.warnings >= Patience \/ ~found)
<1> DEFINE l == Loaded(b)
           due == ~s.db.paid \/ late
<1>1. s.phase = "down" /\ s' = PayHouses(l, due, rich, found, loads)
  BY DEF StartServer
<1>2. /\ Good(l, Twice) /\ Placed(l, past.astray) /\ l.phase = "up" /\ l.on = {}
      /\ l.owner = s.owner /\ l.warnings = s.db.warnings /\ l.db = s.db
  BY <1>1, LoadedGood
<1>3. due \in BOOLEAN
  OBVIOUS
<1> HIDE DEF l, due
<1> QED
  <2>1. SameHouse(PayHouses(l, due, rich, found, loads), l, Twice, past.astray) /\ Charged(PayHouses(l, due, rich, found, loads), l, found)
    BY <1>2, <1>3, PayHousesGood
  <2> QED
    BY <1>1, <1>2, <2>1 DEF SameHouse, Charged

LEMMA StartStep ==
  ASSUME HousesInv, NEW b \in Bed, NEW late \in BOOLEAN, NEW rich \in BOOLEAN,
         NEW found \in BOOLEAN, NEW loads \in BOOLEAN, StartServer(b, late, rich, found, loads)
  PROVE  HousesInv'
<1>0. /\ s \in HouseType /\ past \in PastType /\ Warned(s, past) /\ s.phase = "down"
      /\ s.db.warnings \in Nat
  BY Parts DEF HousesInv, Good, StartServer
<1> DEFINE m == IF s'.owner # s.owner THEN 0
                ELSE IF s'.warnings > s.db.warnings THEN past.letters + 1 ELSE past.letters
<1>1. /\ Good(s', Twice) /\ Placed(s', past.astray) /\ s'.phase = "up"
      /\ s'.db.warnings = s.db.warnings
      /\ \/ s'.owner = s.owner /\ s'.warnings \in {s.db.warnings, s.db.warnings + 1}
         \/ s'.owner # s.owner /\ s'.warnings = 0
  BY StartParts DEF SameHouse
<1>2. PICK c \in BOOLEAN, h \in BOOLEAN, n \in BOOLEAN :
        /\ c = (past.changed \/ s'.owner # s.owner) /\ h = (past.inherited /\ s'.owner = s.owner)
        /\ n = (~found /\ s'.owner # s.owner)
  BY <1>0 DEF PastType
<1>3. past' = [past EXCEPT !.doubled = Twice, !.letters = m, !.changed = c, !.inherited = h,
                           !.unread = n]
  BY <1>0, <1>2 DEF StartServer, Twice, PastType
<1>4. m \in Nat /\ Twice \subseteq Player
  BY <1>0 DEF PastType, Twice
<1> HIDE DEF m
<1>5. /\ past' \in PastType /\ past'.doubled = Twice /\ past'.astray = past.astray
      /\ past'.letters = m /\ past'.changed = c /\ past'.inherited = h
  BY <1>0, <1>3, <1>4 DEF PastType
<1>6. Warned(s', past')
  <2>1. CASE past.inherited /\ s'.owner = s.owner
    <3>1. h
      BY <1>2, <2>1, Zenon
    <3> QED
      BY <1>5, <3>1, Zenon DEF Warned
  <2>2. CASE s'.owner # s.owner
    <3>1. m = 0 /\ s'.warnings = 0
      BY <1>1, <2>2 DEF m
    <3>2. c
      BY <1>2, <2>2, Zenon
    <3>3. past'.changed
      BY <1>5, <3>2, Zenon
    <3> QED
      BY <1>1, <1>5, <3>1, <3>3 DEF Warned
  <2>3. CASE ~past.inherited /\ s'.owner = s.owner
    <3>1. s.db.warnings =< past.letters /\ past.letters \in Nat
      BY <1>0, <2>3 DEF Warned, PastType
    <3>2. s'.warnings =< m /\ s.db.warnings =< m
      BY <1>0, <1>1, <2>3, <3>1 DEF m
    <3> QED
      BY <1>1, <1>5, <3>2 DEF Warned
  <2> QED
    BY <2>1, <2>2, <2>3
<1> QED
  BY <1>1, <1>5, <1>6 DEF HousesInv

LEMMA HousesStart ==
  ASSUME HousesInit
  PROVE  HousesInv
<1>1. PICK has \in [Item -> Keeper] :
        s = Down([owner |-> None, list |-> NoLists, warnings |-> 0, paid |-> TRUE, inside |-> {},
                  beds |-> [b \in Bed |-> None], has |-> [k \in Keeper |-> {i \in Item : has[i] = k}]])
  <2>1. [Item -> IF About("things") THEN Keeper ELSE {House}] \subseteq [Item -> Keeper]
    BY DEF Keeper
  <2> QED
    BY <2>1 DEF HousesInit
<1> DEFINE H == [k \in Keeper |-> {i \in Item : has[i] = k}]
           E == [b \in Bed |-> None]
           d == [owner |-> None, list |-> NoLists, warnings |-> 0, paid |-> TRUE, inside |-> {},
                 beds |-> E, has |-> H]
<1>2. NoLists \in [Lists -> SUBSET Player] /\ E \in [Bed -> Whom] /\ H \in [Keeper -> SUBSET Item]
      /\ None \in Whom
  BY DEF NoLists, Whom
<1>3. \A k \in Keeper, i \in Item : i \in H[k] <=> has[i] = k
  OBVIOUS
<1> HIDE DEF H, E
<1>4. d \in DbType /\ d.warnings = 0 /\ d.has = H
  BY <1>2 DEF DbType
<1>5. s = Down(d)
  BY <1>1 DEF H, E
<1> HIDE DEF d
<1>6. Good(s, past.doubled) /\ s.phase = "down" /\ s.db = d /\ \A k : Holding(s, k) = H[k]
  BY <1>4, <1>5, DownGood
<1>7. past \in PastType /\ past.letters = 0
  BY DEF HousesInit, PastType
<1>8. Placed(s, past.astray)
  <2> SUFFICES ASSUME NEW i \in Item
               PROVE  With(s, i, has[i]) /\ has[i] \in Keeper
    BY DEF Placed
  <2> QED
    BY <1>1, <1>3, <1>6 DEF With
<1>9. Warned(s, past)
  BY <1>4, <1>6, <1>7 DEF Warned
<1> QED
  BY <1>6, <1>7, <1>8, <1>9 DEF HousesInv

LEMMA HousesStep ==
  ASSUME HousesInv, [HousesNext]_housesVars
  PROVE  HousesInv'
<1>1. CASE UNCHANGED housesVars
  BY <1>1 DEF housesVars, HousesInv
<1>2. ASSUME NEW p \in Player,
             \/ Login(p) \/ WalkIn(p) \/ WalkOut(p) \/ PlayerSave(p)
             \/ \E written \in BOOLEAN : Logout(p, written) \/ KickPlayer(p, written)
             \/ \E l \in Lists, P \in SUBSET Named : UpdateHouseWindow(p, l, P)
             \/ \E b \in Bed : UseBed(p, b)
             \/ \E train \in BOOLEAN : AnswerModalWindow(p, train)
             \/ \E i \in Item : Take(p, i) \/ PutDown(p, i)
             \/ \E q \in Player : KickGuest(p, q) \/ StartTrade(p, q) \/ \E i \in Item : Give(p, q, i)
      PROVE  HousesInv'
  <2>1. CASE Login(p)
    BY <2>1, LoginStep
  <2>2. CASE WalkIn(p) \/ WalkOut(p) \/ \E q \in Player : KickGuest(p, q)
    BY <2>2, GuestStep
  <2>3. CASE PlayerSave(p)
    BY <2>3, SaveStep
  <2>4. ASSUME NEW written \in BOOLEAN, Logout(p, written) \/ KickPlayer(p, written)
        PROVE  HousesInv'
    BY <2>4, LogoutStep, KickStep
  <2>5. ASSUME NEW l \in Lists, NEW P \in SUBSET Named, UpdateHouseWindow(p, l, P)
        PROVE  HousesInv'
    <3>1. P \in SUBSET Player
      BY HousesAssumption
    <3> QED
      BY <2>5, <3>1, WindowStep
  <2>6. ASSUME NEW b \in Bed, UseBed(p, b)
        PROVE  HousesInv'
    BY <2>6, BedStep
  <2>7. ASSUME NEW train \in BOOLEAN, AnswerModalWindow(p, train)
        PROVE  HousesInv'
    BY <2>7, AnswerStep
  <2>8. ASSUME NEW i \in Item, Take(p, i) \/ PutDown(p, i) \/ \E q \in Player : Give(p, q, i)
        PROVE  HousesInv'
    BY <2>8, ThingStep
  <2>9. CASE \E q \in Player : StartTrade(p, q)
    BY <2>9, OwnerStep
  <2> QED
    BY <1>2, <2>1, <2>2, <2>3, <2>4, <2>5, <2>6, <2>7, <2>8, <2>9
<1>3. CASE \/ \E g \in Player \cup {None}, loads \in BOOLEAN : SetOwnerGuid(g, loads)
           \/ \E loads \in BOOLEAN : Transfer(loads)
           \/ CancelTrade
  BY <1>3, OwnerStep
<1>4. CASE \/ SaveHouse
           \/ \E P \in SUBSET Player : SavePlayers(P)
           \/ \E written \in BOOLEAN : SaveHouseInfo(written) \/ SaveHouseItems(written)
  BY <1>4, SaveStep
<1>5. CASE Crash \/ Stop
  BY <1>5, CrashStep, StopStep
<1>6. ASSUME NEW b \in Bed, NEW late \in BOOLEAN, NEW rich \in BOOLEAN,
             NEW found \in BOOLEAN, NEW loads \in BOOLEAN, StartServer(b, late, rich, found, loads)
      PROVE  HousesInv'
  BY <1>6, StartStep
<1> QED
  BY <1>1, <1>2, <1>3, <1>4, <1>5, <1>6 DEF HousesNext

-----------------------------------------------------------------------------
(* Houses: the theorems *)

LEMMA InvSound ==
  ASSUME HousesInv
  PROVE  HousesSound
<1>1. s \in HouseType /\ MayStay(s) /\ Bedded(s, past.doubled) /\ OwnerKept
  BY DEF HousesInv, Good, OwnerKept
<1>2. InsideInvited
  BY <1>1 DEF MayStay, InsideInvited
<1>3. BedsAgree
  BY <1>1 DEF Bedded, BedsAgree
<1>4. ThingsKept
  <2> SUFFICES ASSUME NEW i \in Item \ past.astray
               PROVE  Copies(s, i) = 1
    BY DEF ThingsKept
  <2>1. PICK k \in Keeper : With(s, i, k)
    BY DEF HousesInv, Placed
  <2>2. {j \in Keeper : i \in Holding(s, j)} = {k}
    BY <2>1 DEF With
  <2> QED
    BY <2>2, FS_Singleton DEF Copies
<1> QED
  BY <1>1, <1>2, <1>3, <1>4 DEF HousesSound

\* Every guest is invited or about to be kicked, every bed and its sleeper
\* know each other, the database knows the owner, and every thing that no crash
\* and no failed save touched is somewhere once (house.cpp, bed.cpp,
\* iomapserialize.cpp).
THEOREM HousesAreSound == HousesSpec => []HousesSound
<1>1. HousesInit => HousesInv
  BY HousesStart
<1>2. HousesInv /\ [HousesNext]_housesVars => HousesInv'
  BY HousesStep
<1>3. HousesInv => HousesSound
  BY InvSound
<1> QED
  BY <1>1, <1>2, <1>3, PTL DEF HousesSpec

LEMMA PutOutWarned ==
  ASSUME HousesInv, HousesNext, s.phase = "down", s'.owner # s.owner
  PROVE  past.letters >= Patience \/ past.inherited \/ past'.unread
<1>1. PICK b \in Bed, late \in BOOLEAN, rich \in BOOLEAN, found \in BOOLEAN, loads \in BOOLEAN :
        StartServer(b, late, rich, found, loads)
  BY DEF HousesNext, Login, WalkIn, WalkOut, PlayerSave, Logout, KickPlayer, UpdateHouseWindow, UseBed,
         AnswerModalWindow, Take, PutDown, KickGuest, StartTrade, Give, SetOwnerGuid, Transfer,
         CancelTrade, SaveHouse, Crash, Stop, SavePlayers, SaveHouseInfo, SaveHouseItems, Up
<1>2. s.db.warnings >= Patience \/ ~found
  BY <1>1, StartParts
<1>3. /\ past.inherited \/ s.db.warnings =< past.letters
      /\ past.letters \in Nat /\ s.db.warnings \in Nat /\ Patience \in Nat
  BY Parts, HousesAssumption DEF HousesInv, Good, Warned, PastType
<1>4. ~found => past'.unread
  <2>1. past \in PastType
    BY DEF HousesInv
  <2>2. past'.unread = (~found /\ s'.owner # s.owner)
    BY <1>1, <2>1 DEF StartServer, PastType
  <2> QED
    BY <2>2, Zenon
<1> QED
  BY <1>2, <1>3, <1>4

\* A house is taken for unpaid rent only after all the letters, but for an owner
\* who could not be loaded, and one who came between the last save and a crash
\* (Houses::payHouses).
THEOREM PutOutIsWarned == HousesSpec => PutOutAfterLetters
<1>1. HousesInit => HousesInv
  BY HousesStart
<1>2. HousesInv /\ [HousesNext]_housesVars => HousesInv'
  BY HousesStep
<1>3. HousesInv /\ [HousesNext]_housesVars
        => [s.phase = "down" /\ s'.owner # s.owner => past.letters >= Patience \/ past.inherited \/ past'.unread]_housesVars
  BY PutOutWarned
<1> QED
  BY <1>1, <1>2, <1>3, PTL DEF HousesSpec, PutOutAfterLetters

-----------------------------------------------------------------------------
(* Induction over finite sets, and folds *)

\* Every set of numbers that is not empty has a least one.
LEMMA LeastNumber ==
  ASSUME NEW T, T \subseteq Nat, T # {}
  PROVE  \E x \in T : \A y \in T : x <= y
<1>. DEFINE R == {ss \in Nat \X Nat : ss[1] < ss[2]}
<1>1. IsWellFoundedOn(R, Nat)
  BY NatLessThanWellFounded DEF OpToRel
<1>. HIDE DEF R
<1>2. PICK x \in T : \A y \in T : ~(<<y, x>> \in R)
  BY <1>1, WFMin
<1>3. \A y \in T : <<y, x>> \in R <=> y < x
  BY DEF R
<1>4. ASSUME NEW y \in T PROVE x <= y
  <2>1. x \in Nat /\ y \in Nat /\ ~(y < x)
    BY <1>2, <1>3
  <2> QED BY <2>1
<1> QED BY <1>4

\* What holds of a set as soon as it holds of the set without any one of its
\* elements, holds of every finite set.
LEMMA SubsetInduction ==
  ASSUME NEW S, IsFiniteSet(S), NEW A,
         \A part \in SUBSET S : (\A x \in part : part \ {x} \in A) => part \in A
  PROVE  \A part \in SUBSET S : part \in A
<1>. SUFFICES ASSUME NEW s0 \in SUBSET S, s0 \notin A PROVE FALSE
  OBVIOUS
<1>. DEFINE Bad == {part \in SUBSET S : part \notin A}
<1>. DEFINE Sizes == {Cardinality(part) : part \in Bad}
<1>1. \A part \in SUBSET S : IsFiniteSet(part) /\ Cardinality(part) \in Nat
  BY FS_Subset, FS_CardinalityType
<1>2. Sizes \subseteq Nat /\ Sizes # {}
  BY <1>1
<1>. HIDE DEF Sizes
<1>3. PICK n \in Sizes : \A m \in Sizes : n <= m
  BY <1>2, LeastNumber
<1>4. PICK part \in Bad : n = Cardinality(part)
  BY <1>3 DEF Sizes
<1>5. PICK x \in part : part \ {x} \in Bad
  BY <1>4
<1>6. Cardinality(part \ {x}) = Cardinality(part) - 1
  BY <1>1, <1>4, <1>5, FS_RemoveElement
<1>7. n <= Cardinality(part \ {x})
  BY <1>3, <1>5 DEF Sizes
<1> QED BY <1>1, <1>4, <1>6, <1>7

Pick(part) == CHOOSE x \in part : TRUE

\* f gives the fold of every subset of S.
Folding(f, S, base, step) ==
  /\ f[{}] = base
  /\ \A part \in SUBSET S : part # {} => f[part] = step[<<Pick(part), f[part \ {Pick(part)}]>>]

\* The recursion by which a set is folded has a solution.
LEMMA FoldExists ==
  ASSUME NEW S, IsFiniteSet(S), NEW B, NEW base \in B, NEW step \in [S \X B -> B]
  PROVE  \E f \in [SUBSET S -> B] : Folding(f, S, base, step)
<1>. DEFINE Small(n) == {part \in SUBSET S : Cardinality(part) <= n}
<1>. DEFINE Solves(f, n) ==
              /\ f \in [Small(n) -> B]
              /\ f[{}] = base
              /\ \A part \in Small(n) : part # {} => f[part] = step[<<Pick(part), f[part \ {Pick(part)}]>>]
<1>. DEFINE Bad == {n \in Nat : ~\E f : Solves(f, n)}
<1>1. \A part \in SUBSET S : IsFiniteSet(part) /\ Cardinality(part) \in Nat /\ Cardinality(part) <= Cardinality(S)
  BY FS_Subset, FS_CardinalityType
<1>2. \A part \in SUBSET S : part # {} =>
        /\ Pick(part) \in part /\ part \ {Pick(part)} \in SUBSET S
        /\ Cardinality(part \ {Pick(part)}) = Cardinality(part) - 1
  BY <1>1, FS_RemoveElement DEF Pick
<1>3. {} \in SUBSET S /\ Cardinality({}) = 0
  BY FS_EmptySet
<1>4. 0 \notin Bad
  <2>1. Small(0) = {{}}
    <3>1. \A part \in SUBSET S : Cardinality(part) <= 0 => part = {}
      BY <1>1, FS_EmptySet
    <3> QED BY <1>3, <3>1
  <2>2. Solves([part \in {{}} |-> base], 0)
    BY <2>1
  <2> QED BY <2>2
<1>5. ASSUME NEW n \in Nat, n \notin Bad PROVE n + 1 \notin Bad
  <2>1. PICK f : Solves(f, n)
    BY <1>5
  <2>. DEFINE g == [part \in Small(n + 1) |->
                      IF part = {} THEN base ELSE step[<<Pick(part), f[part \ {Pick(part)}]>>]]
  <2>2. \A part \in Small(n + 1) : part # {} => part \ {Pick(part)} \in Small(n) /\ Pick(part) \in S
    BY <1>1, <1>2
  <2>3. g \in [Small(n + 1) -> B]
    <3>1. ASSUME NEW part \in Small(n + 1), part # {} PROVE step[<<Pick(part), f[part \ {Pick(part)}]>>] \in B
      <4>. HIDE DEF Small
      <4>1. f[part \ {Pick(part)}] \in B
        BY <2>1, <2>2, <3>1
      <4> QED BY <4>1, <2>2, <3>1
    <3> HIDE DEF Small
    <3> QED BY <3>1
  <2>4. {} \in Small(n) /\ {} \in Small(n + 1) /\ Small(n) \subseteq Small(n + 1)
    BY <1>1, <1>3
  <2>. HIDE DEF Small
  <2>5. \A part \in Small(n) : g[part] = f[part]
    BY <2>1, <2>4
  <2>6. g[{}] = base
    BY <2>4
  <2>7. \A part \in Small(n + 1) : part # {} => g[part] = step[<<Pick(part), g[part \ {Pick(part)}]>>]
    BY <2>2, <2>5
  <2>8. Solves(g, n + 1)
    BY <2>3, <2>6, <2>7
  <2> QED BY <2>8
<1>6. Bad = {}
  <2>. SUFFICES ASSUME Bad # {} PROVE FALSE
    OBVIOUS
  <2>0. Bad \subseteq Nat
    OBVIOUS
  <2>. HIDE DEF Bad
  <2>1. PICK n \in Bad : \A m \in Bad : n <= m
    BY LeastNumber, <2>0
  <2>2. n \in Nat /\ n # 0
    BY <1>4, <2>0
  <2>3. n - 1 \in Nat /\ n - 1 \notin Bad /\ n = (n - 1) + 1
    BY <2>1, <2>2, <2>0
  <2> QED BY <1>5, <2>3
<1>7. Cardinality(S) \in Nat
  BY <1>1
<1>8. PICK f : Solves(f, Cardinality(S))
  BY <1>6, <1>7
<1>9. Small(Cardinality(S)) = SUBSET S
  BY <1>1
<1> QED BY <1>8, <1>9 DEF Folding

-----------------------------------------------------------------------------
(* Sums over conditions *)

Conds == [Key -> Entry \cup {Nil}]
Present(conds) == {k \in Key : conds[k] # Nil}

\* There are as many keys as offers at most.
LEMMA KeyFinite == IsFiniteSet(Key)
<1>. DEFINE f == [c \in Offer |-> <<c.type, c.id>>]
<1>1. f \in Surjection(Offer, Key)
  BY DEF Key, Surjection
<1> QED BY <1>1, ConditionsAssumption, FS_Surjection

\* So the conditions that are there are finitely many.
LEMMA PresentFinite ==
  ASSUME NEW conds \in Conds
  PROVE  /\ IsFiniteSet(Present(conds))
         /\ \A k \in Present(conds) : k \in Key /\ conds[k] \in Entry
BY KeyFinite, FS_Subset DEF Present, Conds

\* One function gives all sums over the conditions that are there.
LEMMA SumSolved ==
  ASSUME NEW conds \in Conds
  PROVE  \E f \in [SUBSET Present(conds) -> Int] :
           /\ f[{}] = 0
           /\ \A part \in SUBSET Present(conds) :
                part # {} => f[part] = conds[Pick(part)].value + f[part \ {Pick(part)}]
           /\ \A part \in SUBSET Present(conds) : SumOf(conds, part) = f[part]
<1>. DEFINE P == Present(conds)
<1>. DEFINE step == [q \in P \X Int |-> conds[q[1]].value + q[2]]
<1>1. IsFiniteSet(P) /\ \A k \in P : conds[k].value \in Int
  BY PresentFinite DEF Entry
<1>2. step \in [P \X Int -> Int]
  BY <1>1
<1>. HIDE DEF P
<1>3. PICK f \in [SUBSET P -> Int] :
        /\ f[{}] = 0
        /\ \A part \in SUBSET P : part # {} => f[part] = step[<<Pick(part), f[part \ {Pick(part)}]>>]
  <2>. DEFINE B == Int
  <2>. DEFINE base == 0
  <2>1. base \in B /\ step \in [P \X B -> B]
    BY <1>2
  <2>. HIDE DEF step, B, base
  <2>2. \E f \in [SUBSET P -> B] : Folding(f, P, base, step)
    BY <1>1, <2>1, FoldExists
  <2> QED BY <2>2 DEF B, base, Folding
<1>4. \A part \in SUBSET P : part # {} => /\ Pick(part) \in part
                                   /\ f[part] = conds[Pick(part)].value + f[part \ {Pick(part)}]
  <2>1. \A part \in SUBSET P : part # {} => Pick(part) \in part
    BY DEF Pick
  <2>2. ASSUME NEW part \in SUBSET P, part # {} PROVE f[part] = conds[Pick(part)].value + f[part \ {Pick(part)}]
    <3>1. Pick(part) \in P /\ f[part \ {Pick(part)}] \in Int
      BY <2>1, <2>2, <1>3
    <3> QED BY <3>1, <2>2, <1>3
  <2> QED BY <2>1, <2>2
<1>5. ASSUME NEW S \in SUBSET P PROVE SumOf(conds, S) = f[S]
  <2>. DEFINE Folds(i) == i = [part \in SUBSET S |->
                                IF part = {} THEN 0
                                ELSE conds[CHOOSE x \in part : TRUE].value + i[part \ {CHOOSE x \in part : TRUE}]]
  <2>. DEFINE g == CHOOSE i : Folds(i)
  <2>1. SumOf(conds, S) = g[S]
    BY DEF SumOf, MapThenSumSet, MapThenFoldSet
  <2>2. Folds([part \in SUBSET S |-> f[part]])
    <3>1. \A part \in SUBSET S : part \in SUBSET P /\ part \ {Pick(part)} \in SUBSET S
      OBVIOUS
    <3>2. \A part \in SUBSET S : f[part] = IF part = {} THEN 0 ELSE conds[Pick(part)].value + f[part \ {Pick(part)}]
      BY <1>3, <1>4, <3>1
    <3>3. [part \in SUBSET S |-> f[part]] = [part \in SUBSET S |-> IF part = {} THEN 0 ELSE
             conds[Pick(part)].value + [t \in SUBSET S |-> f[t]][part \ {Pick(part)}]]
      BY <3>1, <3>2
    <3> QED BY <3>3 DEF Pick
  <2>. HIDE DEF Folds
  <2>3. Folds(g)
    BY <2>2
  <2>4. \A part \in SUBSET S : g[part] = IF part = {} THEN 0 ELSE conds[Pick(part)].value + g[part \ {Pick(part)}]
    BY <2>3 DEF Folds, Pick
  <2>. HIDE DEF g
  <2>. DEFINE A == {part \in SUBSET S : g[part] = f[part]}
  <2>5. ASSUME NEW part \in SUBSET S, \A x \in part : part \ {x} \in A PROVE part \in A
    BY <1>3, <1>4, <2>4, <2>5
  <2>6. IsFiniteSet(S)
    BY <1>1, FS_Subset
  <2>. HIDE DEF A
  <2>7. \A part \in SUBSET S : part \in A
    BY <2>5, <2>6, SubsetInduction
  <2>8. S \in A
    BY <2>7
  <2> QED BY <2>1, <2>8 DEF A
<1> QED BY <1>3, <1>4, <1>5 DEF P

LEMMA SumTyped ==
  ASSUME NEW conds \in Conds, NEW S \in SUBSET Present(conds)
  PROVE  SumOf(conds, S) \in Int
<1>1. PICK f \in [SUBSET Present(conds) -> Int] : \A part \in SUBSET Present(conds) : SumOf(conds, part) = f[part]
  BY SumSolved
<1> QED BY <1>1

LEMMA SumOfNone ==
  ASSUME NEW conds \in Conds
  PROVE  SumOf(conds, {}) = 0
BY SumSolved

\* One more.
LEMMA SumWith ==
  ASSUME NEW conds \in Conds, NEW S \in SUBSET Present(conds), NEW k \in Present(conds), k \notin S
  PROVE  SumOf(conds, S \cup {k}) = SumOf(conds, S) + conds[k].value
<1>. DEFINE P == Present(conds)
<1>1. IsFiniteSet(P) /\ \A x \in P : conds[x].value \in Int
  BY PresentFinite DEF Entry
<1>. HIDE DEF P
<1>2. PICK f \in [SUBSET P -> Int] :
           /\ f[{}] = 0
           /\ \A part \in SUBSET P :
                part # {} => f[part] = conds[Pick(part)].value + f[part \ {Pick(part)}]
           /\ \A part \in SUBSET P : SumOf(conds, part) = f[part]
  BY SumSolved DEF P
<1>. DEFINE A == {part \in SUBSET P : \A x \in part : f[part] = conds[x].value + f[part \ {x}]}
<1>3. ASSUME NEW part \in SUBSET P, \A x \in part : part \ {x} \in A PROVE part \in A
  <2>. SUFFICES ASSUME NEW x \in part PROVE f[part] = conds[x].value + f[part \ {x}]
    OBVIOUS
  <2>. DEFINE c == Pick(part)
  <2>1. c \in part /\ f[part] = conds[c].value + f[part \ {c}]
    BY <1>2 DEF Pick
  <2>. HIDE DEF c
  <2>2. CASE x = c
    BY <2>1, <2>2
  <2>3. CASE x # c
    <3>1. f[part \ {c}] = conds[x].value + f[(part \ {c}) \ {x}]
      <4>1. part \ {c} \in A /\ x \in part \ {c}
        BY <1>3, <2>1, <2>3
      <4> QED BY <4>1
    <3>2. f[part \ {x}] = conds[c].value + f[(part \ {x}) \ {c}]
      <4>1. part \ {x} \in A /\ c \in part \ {x}
        BY <1>3, <2>1, <2>3
      <4> QED BY <4>1
    <3>3. (part \ {c}) \ {x} = (part \ {x}) \ {c} /\ (part \ {c}) \ {x} \in SUBSET P
      OBVIOUS
    <3>. DEFINE rest == f[(part \ {c}) \ {x}]
    <3>4. rest \in Int /\ conds[x].value \in Int /\ conds[c].value \in Int
      BY <1>1, <1>2, <2>1, <3>3
    <3>5. f[part] = conds[c].value + (conds[x].value + rest)
      BY <2>1, <3>1
    <3>6. f[part \ {x}] = conds[c].value + rest
      BY <3>2, <3>3
    <3>. HIDE DEF rest
    <3> QED BY <3>4, <3>5, <3>6
  <2> QED BY <2>2, <2>3
<1>. HIDE DEF A
<1>4. \A part \in SUBSET P : part \in A
  BY <1>1, <1>3, SubsetInduction
<1>5. S \cup {k} \in SUBSET P /\ (S \cup {k}) \ {k} = S /\ S \in SUBSET P /\ k \in P
  BY DEF P
<1>6. f[S \cup {k}] = conds[k].value + f[S]
  <2>1. S \cup {k} \in A
    BY <1>4, <1>5
  <2> QED BY <2>1, <1>5 DEF A
<1>7. f[S] \in Int /\ conds[k].value \in Int
  BY <1>1, <1>2, <1>5
<1> QED BY <1>2, <1>5, <1>6, <1>7

\* Only the values count.
LEMMA SumsAgree ==
  ASSUME NEW conds \in Conds, NEW other \in Conds, NEW S \in SUBSET Present(conds),
         S \subseteq Present(other), \A k \in S : conds[k].value = other[k].value
  PROVE  SumOf(conds, S) = SumOf(other, S)
<1>. DEFINE A == {part \in SUBSET S : SumOf(conds, part) = SumOf(other, part)}
<1>1. ASSUME NEW part \in SUBSET S, \A x \in part : part \ {x} \in A PROVE part \in A
  <2>1. CASE part = {}
    BY <2>1, SumOfNone
  <2>2. CASE part # {}
    <3>1. PICK x \in part : TRUE
      BY <2>2
    <3>2. SumOf(conds, part \ {x}) = SumOf(other, part \ {x}) /\ conds[x].value = other[x].value
      BY <1>1, <3>1
    <3>3. (part \ {x}) \cup {x} = part /\ x \notin part \ {x}
      BY <3>1
    <3>. DEFINE less == part \ {x}
    <3>4. /\ less \in SUBSET Present(conds) /\ less \in SUBSET Present(other)
          /\ x \in Present(conds) /\ x \in Present(other) /\ x \notin less /\ less \cup {x} = part
      BY <3>1, <3>3
    <3>. HIDE DEF less
    <3>5. SumOf(conds, less \cup {x}) = SumOf(conds, less) + conds[x].value
      BY <3>4, SumWith
    <3>6. SumOf(other, less \cup {x}) = SumOf(other, less) + other[x].value
      BY <3>4, SumWith
    <3> QED BY <3>2, <3>4, <3>5, <3>6 DEF less
  <2> QED BY <2>1, <2>2
<1>2. IsFiniteSet(S)
  BY PresentFinite, FS_Subset
<1>. HIDE DEF A
<1>3. \A part \in SUBSET S : part \in A
  BY <1>1, <1>2, SubsetInduction
<1> QED BY <1>3 DEF A

-----------------------------------------------------------------------------
(* Conditions: the inductive invariant *)

Seat == Mount \cup {Nil}
Look == {"own", Beast} \X Seat
Body ==
  [conds : Conds, speed : Int, bonus : Int, light : Int, drunk : Int,
   current : Look, saddle : Seat, shown : Look \cup {Nil},
   mount : Seat, tamed : SUBSET Mount, random : BOOLEAN, wasMounted : BOOLEAN, pz : BOOLEAN]

Speeds == {"haste", "paralyze"}

\* What the speed and the skills are beyond what the conditions and the mount
\* that are there explain.
Drift(b) == b.speed - Total(b, Speeds) - SpeedOf(b.saddle)
Surplus(b) == b.bonus - Total(b, {"attributes"})

\* PictureExact and NothingLingers of any body; a player rides the mount it
\* has chosen, and it is tame.  While it changes its outfit only the last part
\* may fail.
Plain(b) ==
  /\ b \in Body
  /\ b.saddle # Nil => b.saddle = b.mount /\ b.mount \in b.tamed
  /\ b.shown = IF Invisible(b) THEN Nil ELSE b.current
  /\ Of(b, "light") = {} => b.light = 0
  /\ Of(b, "drunk") = {} => b.drunk = 0
Proper(b) == Plain(b) /\ (Of(b, "outfit") = {} => b.current = Default(b))

\* What each change of a body does: whatever was unexplained stays so.
Keeps(b, e) == Proper(e) /\ Drift(e) = Drift(b) /\ Surplus(e) = Surplus(b)

\* HasteEndsParalysis of a body, with the calls that are pending.
Apart(b, calls) ==
  \A h \in Of(b, "haste"), p \in Of(b, "paralyze") :
    ~b.conds[h].over /\ ~b.conds[p].over =>
      Cure \in calls \/ b.conds[h].revived \/ b.conds[p].revived

ConditionsInv ==
  /\ Proper(body)
  /\ saved \in BOOLEAN
  /\ ~saved => Drift(body) = 0
  /\ Surplus(body) = 0
  /\ Apart(body, later)

-----------------------------------------------------------------------------
(* Conditions: how totals change *)

KeysOf(b, types) == {k \in Key : k[1] \in types /\ b.conds[k] # Nil}

\* A key is the type and the id of an offer.
LEMMA KeyFacts ==
  ASSUME NEW k \in Key
  PROVE  k = <<k[1], k[2]>> /\ k[1] \in Types
BY ConditionsAssumption DEF Key

\* The types of the fields of a body.
LEMMA BodyFacts ==
  ASSUME NEW b \in Body
  PROVE  /\ b.conds \in Conds
         /\ \A k \in Key : b.conds[k] \in Entry \cup {Nil}
         /\ \A k \in Key : b.conds[k] # Nil => b.conds[k] \in Entry /\ b.conds[k].value \in Int
         /\ b.speed \in Int /\ b.bonus \in Int /\ b.light \in Int /\ b.drunk \in Int
         /\ b.saddle \in Seat /\ b.mount \in Seat /\ b.tamed \in SUBSET Mount
BY DEF Body, Conds, Entry

LEMMA SpeedOfTyped ==
  ASSUME NEW m \in Seat
  PROVE  SpeedOf(m) \in Int
BY ConditionsAssumption DEF Seat, SpeedOf

\* The total of some types is the sum over their keys.
LEMMA TotalOfKeys ==
  ASSUME NEW b \in Body, NEW types
  PROVE  /\ Total(b, types) = SumOf(b.conds, KeysOf(b, types))
         /\ KeysOf(b, types) \in SUBSET Present(b.conds)
         /\ Total(b, types) \in Int
<1>1. UNION {Of(b, t) : t \in types} = KeysOf(b, types)
  BY DEF Of, KeysOf
<1>2. KeysOf(b, types) \in SUBSET Present(b.conds)
  BY DEF KeysOf, Present
<1> QED BY <1>1, <1>2, SumTyped, BodyFacts DEF Total

\* Nothing that counts has changed.
LEMMA TotalStays ==
  ASSUME NEW b \in Body, NEW e \in Body, NEW types,
         \A k \in Key : k[1] \in types =>
            /\ e.conds[k] = Nil <=> b.conds[k] = Nil
            /\ b.conds[k] # Nil => e.conds[k].value = b.conds[k].value
  PROVE  Total(e, types) = Total(b, types)
<1>1. KeysOf(e, types) = KeysOf(b, types)
  BY DEF KeysOf
<1>2. \A k \in KeysOf(b, types) : b.conds[k].value = e.conds[k].value
  BY DEF KeysOf
<1>3. KeysOf(b, types) \in SUBSET Present(b.conds) /\ KeysOf(b, types) \subseteq Present(e.conds)
  BY <1>1, TotalOfKeys
<1>4. SumOf(b.conds, KeysOf(b, types)) = SumOf(e.conds, KeysOf(b, types))
  BY <1>2, <1>3, SumsAgree, BodyFacts
<1> QED BY <1>1, <1>4, TotalOfKeys

Value(b, k) == IF b.conds[k] = Nil THEN 0 ELSE b.conds[k].value

\* One condition has come, has gone or has changed.
LEMMA TotalChanges ==
  ASSUME NEW b \in Body, NEW e \in Body, NEW types, NEW k \in Key, k[1] \in types,
         \A j \in Key \ {k} : e.conds[j] = b.conds[j]
  PROVE  Total(e, types) = Total(b, types) - Value(b, k) + Value(e, k)
<1>. DEFINE rest == KeysOf(b, types) \ {k}
<1>1. rest = KeysOf(b, types) \ {k} /\ rest = KeysOf(e, types) \ {k} /\ rest \in SUBSET Present(b.conds) /\ rest \subseteq Present(e.conds)
  BY DEF KeysOf, Present
<1>2. SumOf(b.conds, rest) = SumOf(e.conds, rest)
  <2>1. \A j \in rest : b.conds[j].value = e.conds[j].value
    BY DEF KeysOf
  <2>. HIDE DEF rest
  <2> QED BY <1>1, <2>1, SumsAgree, BodyFacts
<1>3. ASSUME NEW w \in Body, rest = KeysOf(w, types) \ {k}, rest \in SUBSET Present(w.conds)
      PROVE  Total(w, types) = SumOf(w.conds, rest) + Value(w, k)
  <2>. HIDE DEF rest
  <2>0. w.conds \in Conds /\ SumOf(w.conds, rest) \in Int
    BY <1>3, BodyFacts, SumTyped
  <2>1. CASE w.conds[k] = Nil
    <3>1. KeysOf(w, types) = rest
      BY <1>3, <2>1 DEF KeysOf
    <3> QED BY <2>0, <2>1, <3>1, TotalOfKeys DEF Value
  <2>2. CASE w.conds[k] # Nil
    <3>1. k \in Present(w.conds) /\ k \notin rest /\ KeysOf(w, types) = rest \cup {k}
      BY <1>3, <2>2 DEF KeysOf, Present
    <3>2. SumOf(w.conds, rest \cup {k}) = SumOf(w.conds, rest) + w.conds[k].value
      BY <1>3, <2>0, <3>1, SumWith
    <3> QED BY <2>2, <3>1, <3>2, TotalOfKeys DEF Value
  <2> QED BY <2>1, <2>2
<1>. HIDE DEF rest
<1>4. Value(b, k) \in Int /\ Value(e, k) \in Int
  BY BodyFacts DEF Value
<1>5. SumOf(b.conds, rest) \in Int
  BY <1>1, SumTyped, BodyFacts
<1>6. Total(b, types) = SumOf(b.conds, rest) + Value(b, k)
  BY <1>1, <1>3
<1>7. Total(e, types) = SumOf(b.conds, rest) + Value(e, k)
  BY <1>1, <1>2, <1>3
<1> QED BY <1>4, <1>5, <1>6, <1>7

-----------------------------------------------------------------------------
(* A condition ends *)

\* What stays when conditions come and go.
Unmoved(b, e) ==
  /\ e.mount = b.mount /\ e.tamed = b.tamed /\ e.random = b.random
  /\ e.wasMounted = b.wasMounted /\ e.pz = b.pz

\* The speeds and the skills are explained as before if each key explains as
\* much more as it has added.
LEMMA DriftStays ==
  ASSUME NEW b \in Body, NEW e \in Body, NEW k \in Key,
         \A j \in Key \ {k} : e.conds[j] = b.conds[j],
         e.speed - SpeedOf(e.saddle) =
           b.speed - SpeedOf(b.saddle) + IF k[1] \in Speeds THEN Value(e, k) - Value(b, k) ELSE 0,
         e.bonus = b.bonus + IF k[1] = "attributes" THEN Value(e, k) - Value(b, k) ELSE 0
  PROVE  Drift(e) = Drift(b) /\ Surplus(e) = Surplus(b)
<1>1. /\ b.speed \in Int /\ e.speed \in Int /\ b.bonus \in Int /\ e.bonus \in Int
      /\ SpeedOf(b.saddle) \in Int /\ SpeedOf(e.saddle) \in Int
      /\ Value(b, k) \in Int /\ Value(e, k) \in Int
  BY BodyFacts, SpeedOfTyped DEF Value
<1>2. \A types : Total(b, types) \in Int /\ Total(e, types) \in Int
  BY TotalOfKeys
<1>3. ASSUME NEW types, k[1] \in types
      PROVE  Total(e, types) = Total(b, types) - Value(b, k) + Value(e, k)
  BY <1>3, TotalChanges
<1>4. ASSUME NEW types, k[1] \notin types
      PROVE  Total(e, types) = Total(b, types)
  <2>1. \A j \in Key : j[1] \in types => e.conds[j] = b.conds[j]
    BY <1>4
  <2> QED BY <2>1, TotalStays
<1>. DEFINE part == Total(b, Speeds)
            t == Total(e, Speeds)
            u == Total(b, {"attributes"})
            v == Total(e, {"attributes"})
<1>5. part \in Int /\ t \in Int /\ u \in Int /\ v \in Int
  BY <1>2
<1>6. t = IF k[1] \in Speeds THEN part - Value(b, k) + Value(e, k) ELSE part
  BY <1>3, <1>4
<1>7. v = IF k[1] = "attributes" THEN u - Value(b, k) + Value(e, k) ELSE u
  BY <1>3, <1>4
<1>. HIDE DEF part, t, u, v
<1>8. e.speed - t - SpeedOf(e.saddle) = b.speed - part - SpeedOf(b.saddle)
  <2>1. CASE k[1] \in Speeds
    <3>1. e.speed - SpeedOf(e.saddle) = b.speed - SpeedOf(b.saddle) + (Value(e, k) - Value(b, k))
      BY <2>1
    <3> QED BY <1>1, <1>5, <1>6, <2>1, <3>1
  <2>2. CASE k[1] \notin Speeds
    <3>1. e.speed - SpeedOf(e.saddle) = b.speed - SpeedOf(b.saddle)
      BY <1>1, <2>2
    <3> QED BY <1>1, <1>5, <1>6, <2>2, <3>1
  <2> QED BY <2>1, <2>2
<1>9. e.bonus - v = b.bonus - u
  BY <1>1, <1>5, <1>7
<1> QED BY <1>8, <1>9 DEF part, t, u, v, Drift, Surplus

\* A condition that ends takes back what it gave, and nothing else.
LEMMA EndKeeps ==
  ASSUME NEW b, Proper(b), NEW k \in Key, b.conds[k] # Nil
  PROVE  /\ Keeps(b, End(b, k)) /\ Unmoved(b, End(b, k))
         /\ End(b, k).conds = [b.conds EXCEPT ![k] = Nil]
         /\ End(b, k).saddle = b.saddle
         /\ k[1] # "outfit" => End(b, k).current = b.current
<1>. DEFINE c == [b EXCEPT !.conds[k] = Nil]
            e == End(b, k)
            n == b.conds[k].value
<1>1. b \in Body /\ n \in Int /\ k[1] \in Types
  BY BodyFacts, KeyFacts DEF Proper, Plain
<1>2. /\ c \in Body /\ Unmoved(b, c) /\ c.conds = [b.conds EXCEPT ![k] = Nil]
      /\ c.saddle = b.saddle /\ c.current = b.current /\ c.shown = b.shown
      /\ c.speed = b.speed /\ c.bonus = b.bonus /\ c.light = b.light /\ c.drunk = b.drunk
  <2>1. [b.conds EXCEPT ![k] = Nil] \in Conds
    BY <1>1 DEF Body, Conds
  <2>2. c = [b EXCEPT !.conds = [b.conds EXCEPT ![k] = Nil]]
    BY <1>1 DEF Body
  <2> QED BY <1>1, <2>1, <2>2 DEF Body, Unmoved
<1>3. e = EndCondition(c, k[1], n)
  BY DEF End
<1>. HIDE DEF c, e, n
<1>4. Default(c) \in Look /\ c.current \in Look /\ c.shown \in Look \cup {Nil} /\ Default(c) = Default(b)
  BY <1>2 DEF Default, Look, Body
<1>5. /\ e \in Body /\ Unmoved(b, e) /\ e.conds = [b.conds EXCEPT ![k] = Nil] /\ e.saddle = b.saddle
      /\ k[1] # "outfit" => e.current = b.current
      /\ e.speed = IF k[1] \in Speeds THEN b.speed - n ELSE b.speed
      /\ e.bonus = IF k[1] = "attributes" THEN b.bonus - n ELSE b.bonus
      /\ e.light = IF k[1] = "light" THEN 0 ELSE b.light
      /\ e.drunk = IF k[1] = "drunk" THEN 0 ELSE b.drunk
      /\ k[1] = "outfit" => e.current = Default(b) /\ e.shown = IF Invisible(c) THEN b.shown ELSE e.current
      /\ k[1] = "invisible" => e.shown = IF Invisible(c) THEN b.shown ELSE b.current
      /\ k[1] \notin {"outfit", "invisible"} => e.shown = b.shown
  <2>1. CASE k[1] \in Speeds
    <3>1. e = [c EXCEPT !.speed = c.speed + (-n)]
      BY <1>3, <2>1 DEF EndCondition, ChangeSpeed, Speeds
    <3>2. c.speed + (-n) \in Int /\ c.speed + (-n) = b.speed - n
      BY <1>1, <1>2 DEF Body
    <3> QED BY <1>2, <2>1, <3>1, <3>2 DEF Body, Speeds, Unmoved
  <2>2. CASE k[1] = "attributes"
    <3>1. e = [c EXCEPT !.bonus = c.bonus - n]
      BY <1>3, <2>2 DEF EndCondition
    <3>2. c.bonus - n \in Int
      BY <1>1, <1>2 DEF Body
    <3> QED BY <1>2, <2>2, <3>1, <3>2 DEF Body, Speeds, Unmoved
  <2>3. CASE k[1] = "outfit"
    <3>. DEFINE pic == IF Invisible(c) THEN c.shown ELSE Default(c)
    <3>1. e = [c EXCEPT !.current = Default(c), !.shown = pic]
      BY <1>3, <2>3 DEF EndCondition, ChangeOutfit
    <3>2. pic \in Look \cup {Nil}
      BY <1>4
    <3>. HIDE DEF pic
    <3>3. e \in Body /\ Unmoved(c, e) /\ e.current = Default(b) /\ e.shown = pic
          /\ e.conds = c.conds /\ e.saddle = c.saddle
          /\ e.speed = c.speed /\ e.bonus = c.bonus /\ e.light = c.light /\ e.drunk = c.drunk
      BY <1>2, <1>4, <3>1, <3>2 DEF Body, Unmoved
    <3> QED BY <1>2, <1>4, <2>3, <3>3 DEF pic, Speeds, Unmoved
  <2>4. CASE k[1] = "invisible"
    <3>. DEFINE pic == IF Invisible(c) THEN c.shown ELSE c.current
    <3>1. e = [c EXCEPT !.shown = pic]
      BY <1>3, <2>4 DEF EndCondition
    <3>2. pic \in Look \cup {Nil}
      BY <1>4
    <3>. HIDE DEF pic
    <3>3. e \in Body /\ Unmoved(c, e) /\ e.current = c.current /\ e.shown = pic
          /\ e.conds = c.conds /\ e.saddle = c.saddle
          /\ e.speed = c.speed /\ e.bonus = c.bonus /\ e.light = c.light /\ e.drunk = c.drunk
      BY <1>2, <3>1, <3>2 DEF Body, Unmoved
    <3> QED BY <1>2, <2>4, <3>3 DEF pic, Speeds, Unmoved
  <2>5. CASE k[1] = "light"
    <3>1. e = [c EXCEPT !.light = 0]
      BY <1>3, <2>5 DEF EndCondition
    <3> QED BY <1>2, <2>5, <3>1 DEF Body, Speeds, Unmoved
  <2>6. CASE k[1] = "drunk"
    <3>1. e = [c EXCEPT !.drunk = 0]
      BY <1>3, <2>6 DEF EndCondition
    <3> QED BY <1>2, <2>6, <3>1 DEF Body, Speeds, Unmoved
  <2> QED BY <1>1, <2>1, <2>2, <2>3, <2>4, <2>5, <2>6 DEF Types, Speeds
<1>6. \A t \in Types : t # k[1] => Of(e, t) = Of(b, t)
  BY <1>1, <1>5 DEF Of, Body, Conds
<1>7. Of(c, "invisible") = Of(e, "invisible")
  BY <1>2, <1>5 DEF Of
<1>8. Proper(e)
  <2>1. e.saddle # Nil => e.saddle = e.mount /\ e.mount \in e.tamed
    BY <1>5 DEF Proper, Plain, Unmoved
  <2>2. e.shown = IF Invisible(e) THEN Nil ELSE e.current
    <3>1. CASE k[1] = "outfit"
      BY <1>5, <1>6, <1>7, <3>1 DEF Proper, Plain, Invisible, Types
    <3>2. CASE k[1] = "invisible"
      <4>1. Invisible(b)
        BY <3>2 DEF Invisible, Of
      <4> QED BY <1>5, <1>7, <3>2, <4>1 DEF Proper, Plain, Invisible
    <3>3. CASE k[1] \notin {"outfit", "invisible"}
      BY <1>5, <1>6, <3>3 DEF Proper, Plain, Invisible, Types
    <3> QED BY <3>1, <3>2, <3>3
  <2>3. Of(e, "outfit") = {} => e.current = Default(e)
    BY <1>5, <1>6 DEF Proper, Plain, Types, Default
  <2>4. Of(e, "light") = {} => e.light = 0
    BY <1>5, <1>6 DEF Proper, Plain, Types
  <2>5. Of(e, "drunk") = {} => e.drunk = 0
    BY <1>5, <1>6 DEF Proper, Plain, Types
  <2> QED BY <1>5, <2>1, <2>2, <2>3, <2>4, <2>5 DEF Proper, Plain
<1>9. Drift(e) = Drift(b) /\ Surplus(e) = Surplus(b)
  <2>1. \A j \in Key \ {k} : e.conds[j] = b.conds[j]
    BY <1>1, <1>5 DEF Body, Conds
  <2>2. Value(b, k) = n /\ Value(e, k) = 0
    BY <1>1, <1>5 DEF Value, Body, Conds, n
  <2>3. SpeedOf(b.saddle) \in Int /\ b.speed \in Int /\ b.bonus \in Int
    BY <1>1, SpeedOfTyped, BodyFacts
  <2>4. /\ e.speed - SpeedOf(e.saddle) =
             b.speed - SpeedOf(b.saddle) + IF k[1] \in Speeds THEN Value(e, k) - Value(b, k) ELSE 0
        /\ e.bonus = b.bonus + IF k[1] = "attributes" THEN Value(e, k) - Value(b, k) ELSE 0
    BY <1>1, <1>5, <2>2, <2>3
  <2> QED BY <1>1, <1>5, <2>1, <2>4, DriftStays
<1> QED BY <1>5, <1>8, <1>9 DEF Keeps, e

\* b after the conditions at keys have ended.
Ended(b, keys, e) ==
  /\ Keeps(b, e) /\ Unmoved(b, e)
  /\ e.conds = [k \in Key |-> IF k \in keys THEN Nil ELSE b.conds[k]]
  /\ e.saddle = b.saddle
  /\ (\A k \in keys : k[1] # "outfit") => e.current = b.current

\* So do several, one after the other (removeConditions, executeConditions).
LEMMA EndAllKeeps ==
  ASSUME NEW b, Proper(b), NEW keys \in SUBSET Present(b.conds)
  PROVE  Ended(b, keys, EndAll(b, keys))
<1>. DEFINE step == [q \in keys \X Body |->
                       IF Proper(q[2]) /\ q[2].conds[q[1]] # Nil THEN End(q[2], q[1]) ELSE q[2]]
<1>1. b \in Body /\ b.conds \in Conds /\ IsFiniteSet(keys) /\ \A k \in keys : k \in Key /\ b.conds[k] # Nil
  BY PresentFinite, FS_Subset DEF Proper, Plain, Body, Present
<1>2. step \in [keys \X Body -> Body]
  <2>1. ASSUME NEW k \in keys, NEW e \in Body, Proper(e), e.conds[k] # Nil
        PROVE  End(e, k) \in Body
    BY <1>1, <2>1, EndKeeps DEF Keeps, Proper, Plain
  <2> QED BY <2>1
<1>3. ASSUME NEW k \in keys, NEW e \in Body, Proper(e), e.conds[k] # Nil
      PROVE  step[<<k, e>>] = End(e, k)
  BY <1>3
<1>. HIDE DEF step
<1>4. PICK f \in [SUBSET keys -> Body] : Folding(f, keys, b, step)
  BY <1>1, <1>2, FoldExists
<1>5. ASSUME NEW part \in SUBSET keys, part # {}, Ended(b, part \ {Pick(part)}, f[part \ {Pick(part)}])
      PROVE  f[part] = End(f[part \ {Pick(part)}], Pick(part)) /\ Ended(b, part, f[part])
  <2>. DEFINE c == Pick(part)
              e == f[part \ {c}]
  <2>1. c \in part /\ c \in keys /\ part \ {c} \in SUBSET keys
    BY <1>5 DEF Pick
  <2>2. e \in Body /\ f[part] = step[<<c, e>>]
    BY <1>4, <1>5, <2>1 DEF Folding
  <2>3. Ended(b, part \ {c}, e)
    BY <1>5
  <2>. HIDE DEF c, e
  <2>4. Proper(e) /\ e.conds[c] # Nil
    BY <1>1, <2>1, <2>3 DEF Ended, Keeps
  <2>5. f[part] = End(e, c)
    BY <1>3, <2>1, <2>2, <2>4
  <2>6. /\ Keeps(e, f[part]) /\ Unmoved(e, f[part]) /\ f[part].conds = [e.conds EXCEPT ![c] = Nil]
        /\ f[part].saddle = e.saddle
        /\ c[1] # "outfit" => f[part].current = e.current
    BY <1>1, <2>1, <2>4, <2>5, EndKeeps
  <2>7. f[part].conds = [k \in Key |-> IF k \in part THEN Nil ELSE b.conds[k]]
    BY <1>1, <2>1, <2>3, <2>6 DEF Ended
  <2>a. /\ Keeps(b, e) /\ Unmoved(b, e) /\ e.saddle = b.saddle
        /\ (\A k \in part \ {c} : k[1] # "outfit") => e.current = b.current
    BY <2>3 DEF Ended
  <2>8. Keeps(b, f[part]) /\ Unmoved(b, f[part]) /\ f[part].saddle = b.saddle
    BY <2>6, <2>a DEF Keeps, Unmoved
  <2>9. (\A k \in part : k[1] # "outfit") => f[part].current = b.current
    <3>1. (\A k \in part : k[1] # "outfit") => c[1] # "outfit" /\ \A k \in part \ {c} : k[1] # "outfit"
      BY <2>1
    <3> QED BY <2>6, <2>a, <3>1
  <2> QED BY <2>5, <2>7, <2>8, <2>9 DEF Ended, c, e
<1>6. f[{}] = b /\ Ended(b, {}, b)
  <2>1. b.conds = [k \in Key |-> b.conds[k]]
    BY <1>1 DEF Conds
  <2> QED BY <1>4, <2>1 DEF Folding, Ended, Keeps, Unmoved
<1>. DEFINE A == {part \in SUBSET keys : Ended(b, part, f[part])}
<1>7. \A part \in SUBSET keys : part \in A
  <2>1. ASSUME NEW part \in SUBSET keys, \A x \in part : part \ {x} \in A PROVE part \in A
    <3>1. part # {} => Pick(part) \in part
      BY DEF Pick
    <3> QED BY <1>5, <1>6, <2>1, <3>1
  <2>. HIDE DEF A
  <2> QED BY <1>1, <2>1, SubsetInduction
<1>8. EndAll(b, keys) = f[keys]
  <2>. DEFINE Folds(i) == i = [part \in SUBSET keys |->
                                IF part = {} THEN b
                                ELSE End(i[part \ {CHOOSE x \in part : TRUE}], CHOOSE x \in part : TRUE)]
  <2>. DEFINE g == CHOOSE i : Folds(i)
  <2>1. EndAll(b, keys) = g[keys]
    BY DEF EndAll, FoldSet, MapThenFoldSet
  <2>2. Folds(f)
    <3>1. \A part \in SUBSET keys : f[part] = IF part = {} THEN b ELSE End(f[part \ {Pick(part)}], Pick(part))
      BY <1>5, <1>6, <1>7
    <3>2. f = [part \in SUBSET keys |-> IF part = {} THEN b ELSE End(f[part \ {Pick(part)}], Pick(part))]
      BY <3>1
    <3> QED BY <3>2 DEF Pick
  <2>. HIDE DEF Folds
  <2>3. Folds(g)
    BY <2>2
  <2>4. \A part \in SUBSET keys : g[part] = IF part = {} THEN b ELSE End(g[part \ {Pick(part)}], Pick(part))
    BY <2>3 DEF Folds, Pick
  <2>. HIDE DEF g
  <2>. DEFINE B == {part \in SUBSET keys : g[part] = f[part]}
  <2>5. ASSUME NEW part \in SUBSET keys, \A x \in part : part \ {x} \in B PROVE part \in B
    <3>1. part # {} => Pick(part) \in part
      BY DEF Pick
    <3> QED BY <1>5, <1>6, <1>7, <2>4, <2>5, <3>1
  <2>. HIDE DEF B
  <2>6. \A part \in SUBSET keys : part \in B
    BY <1>1, <2>5, SubsetInduction
  <2>7. keys \in B
    BY <2>6
  <2> QED BY <2>1, <2>7 DEF B
<1> QED BY <1>7, <1>8

\* Dispelled or ended conditions hide nobody: what was apart stays apart.
LEMMA EndedApart ==
  ASSUME NEW b, NEW keys, NEW e, Ended(b, keys, e), NEW calls, Apart(b, calls)
  PROVE  Apart(e, calls)
<1>1. \A k \in Key : e.conds[k] # Nil => e.conds[k] = b.conds[k]
  BY DEF Ended
<1> QED BY <1>1 DEF Apart, Of

-----------------------------------------------------------------------------
(* Pictures and mounts *)

\* The same conditions, or their values at least.
LEMMA SameDrift ==
  ASSUME NEW b \in Body, NEW e \in Body,
         \A k \in Key :
            /\ e.conds[k] = Nil <=> b.conds[k] = Nil
            /\ b.conds[k] # Nil => e.conds[k].value = b.conds[k].value,
         e.speed - SpeedOf(e.saddle) = b.speed - SpeedOf(b.saddle), e.bonus = b.bonus
  PROVE  Drift(e) = Drift(b) /\ Surplus(e) = Surplus(b)
<1>1. ASSUME NEW types PROVE Total(e, types) = Total(b, types)
  <2>1. \A k \in Key : k[1] \in types =>
            /\ e.conds[k] = Nil <=> b.conds[k] = Nil
            /\ b.conds[k] # Nil => e.conds[k].value = b.conds[k].value
    OBVIOUS
  <2> QED BY <2>1, TotalStays, Zenon
<1>2. /\ e.speed \in Int /\ b.speed \in Int /\ SpeedOf(e.saddle) \in Int /\ SpeedOf(b.saddle) \in Int
      /\ Total(b, Speeds) \in Int
  BY BodyFacts, SpeedOfTyped, TotalOfKeys
<1>3. e.speed - Total(b, Speeds) - SpeedOf(e.saddle) = b.speed - Total(b, Speeds) - SpeedOf(b.saddle)
  BY <1>2
<1> QED BY <1>1, <1>3 DEF Drift, Surplus

\* It wears something else, or gets on or off, and has the same conditions.
Restyled(b, e) ==
  /\ Plain(e) /\ Drift(e) = Drift(b) /\ Surplus(e) = Surplus(b)
  /\ e.conds = b.conds /\ e.tamed = b.tamed

\* A new outfit changes what is worn and shown only.
LEMMA ChangeOutfitRestyles ==
  ASSUME NEW b, Plain(b), NEW look \in Look
  PROVE  /\ Restyled(b, ChangeOutfit(b, look)) /\ Unmoved(b, ChangeOutfit(b, look))
         /\ ChangeOutfit(b, look).saddle = b.saddle
         /\ ChangeOutfit(b, look).current = look
<1>. DEFINE pic == IF Invisible(b) THEN b.shown ELSE look
            e == ChangeOutfit(b, look)
<1>1. b \in Body /\ pic \in Look \cup {Nil}
  BY DEF Plain, Body
<1>2. e = [b EXCEPT !.current = look, !.shown = pic]
  BY DEF ChangeOutfit
<1>. HIDE DEF pic, e
<1>3. /\ e \in Body /\ Unmoved(b, e) /\ e.conds = b.conds /\ e.saddle = b.saddle
      /\ e.current = look /\ e.shown = pic
      /\ e.speed = b.speed /\ e.bonus = b.bonus /\ e.light = b.light /\ e.drunk = b.drunk
  BY <1>1, <1>2 DEF Body, Unmoved
<1>4. \A t : Of(e, t) = Of(b, t)
  BY <1>3 DEF Of
<1>5. Plain(e)
  BY <1>3, <1>4 DEF Plain, Invisible, pic, Unmoved
<1>6. Drift(e) = Drift(b) /\ Surplus(e) = Surplus(b)
  BY <1>1, <1>3, SameDrift
<1> QED BY <1>3, <1>5, <1>6 DEF Restyled, Unmoved, e

\* Who gets off loses the speed of the mount it rode.
LEMMA DismountRestyles ==
  ASSUME NEW b, Plain(b), IsMounted(b)
  PROVE  /\ Restyled(b, Dismount(b)) /\ Unmoved(b, Dismount(b))
         /\ Dismount(b).saddle = Nil
         /\ Dismount(b).current = b.current
<1>. DEFINE n == b.speed + (-SpeedOf(b.mount))
            e == Dismount(b)
<1>1. b \in Body /\ b.saddle = b.mount /\ SpeedOf(b.mount) \in Int /\ b.speed \in Int
  BY BodyFacts, SpeedOfTyped DEF Plain, IsMounted
<1>2. e = [b EXCEPT !.speed = n, !.saddle = Nil]
  BY <1>1 DEF Dismount, ChangeSpeed, Body
<1>3. n \in Int /\ n = b.speed - SpeedOf(b.saddle)
  BY <1>1
<1>. HIDE DEF n, e
<1>4. /\ e \in Body /\ Unmoved(b, e) /\ e.conds = b.conds /\ e.saddle = Nil
      /\ e.current = b.current /\ e.shown = b.shown
      /\ e.speed = n /\ e.bonus = b.bonus /\ e.light = b.light /\ e.drunk = b.drunk
  BY <1>1, <1>2, <1>3 DEF Body, Unmoved, Seat
<1>5. \A t : Of(e, t) = Of(b, t)
  BY <1>4 DEF Of
<1>6. Plain(e)
  BY <1>4, <1>5 DEF Plain, Invisible
<1>7. SpeedOf(e.saddle) = 0 /\ e.speed - SpeedOf(e.saddle) = b.speed - SpeedOf(b.saddle)
  BY <1>3, <1>4 DEF SpeedOf
<1>8. Drift(e) = Drift(b) /\ Surplus(e) = Surplus(b)
  BY <1>1, <1>4, <1>7, SameDrift
<1> QED BY <1>4, <1>6, <1>8 DEF Restyled, Unmoved, e

-----------------------------------------------------------------------------
(* A condition comes *)

Offered(c) ==
  c.type \in Types /\ c.ever \in BOOLEAN /\ c.value \in Int /\ <<c.type, c.id>> \in Key

LEMMA OfferIsOffered == \A c \in Offer : Offered(c)
BY ConditionsAssumption DEF Offered, Key

\* A new condition has started.
Started(b, c, k, new) == [Start(b, c) EXCEPT !.conds[k] = new]

\* What a new condition changes is explained by its being there.
LEMMA StartKeeps ==
  ASSUME NEW b, Proper(b), NEW c, Offered(c), NEW new \in Entry, new.value = c.value,
         NEW k, k = <<c.type, c.id>>, b.conds[k] = Nil,
         NEW e, e = Started(b, c, k, new)
  PROVE  /\ Keeps(b, e) /\ Unmoved(b, e)
         /\ e.conds = [b.conds EXCEPT ![k] = new]
         /\ e.saddle = b.saddle
         /\ e.current = IF c.type = "outfit" THEN <<Beast, Nil>> ELSE b.current
<1>. DEFINE d == Start(b, c)
            n == c.value
            pic == IF Invisible(b) THEN b.shown ELSE <<Beast, Nil>>
<1>1. b \in Body /\ n \in Int /\ k \in Key /\ k[1] = c.type /\ c.type \in Types
  BY DEF Proper, Plain, Offered
<1>2. <<Beast, Nil>> \in Look /\ pic \in Look \cup {Nil} /\ b.shown \in Look \cup {Nil}
  BY <1>1 DEF Look, Seat, Body
<1>. HIDE DEF d, n, pic
<1>3. /\ d \in Body /\ Unmoved(b, d) /\ d.conds = b.conds /\ d.saddle = b.saddle
      /\ d.current = IF c.type = "outfit" THEN <<Beast, Nil>> ELSE b.current
      /\ d.shown = IF c.type = "outfit" THEN pic ELSE IF c.type = "invisible" THEN Nil ELSE b.shown
      /\ d.speed = IF c.type \in Speeds THEN b.speed + n ELSE b.speed
      /\ d.bonus = IF c.type = "attributes" THEN b.bonus + n ELSE b.bonus
      /\ d.light = IF c.type = "light" THEN n ELSE b.light
      /\ d.drunk = IF c.type = "drunk" THEN n ELSE b.drunk
  <2>1. CASE c.type \in Speeds
    <3>1. d = [b EXCEPT !.speed = b.speed + n]
      BY <2>1 DEF Start, ChangeSpeed, Speeds, d, n
    <3>2. b.speed + n \in Int
      BY <1>1 DEF Body
    <3> QED BY <1>1, <2>1, <3>1, <3>2 DEF Body, Speeds, Unmoved
  <2>2. CASE c.type = "attributes"
    <3>1. d = [b EXCEPT !.bonus = b.bonus + n]
      BY <2>2 DEF Start, d, n
    <3>2. b.bonus + n \in Int
      BY <1>1 DEF Body
    <3> QED BY <1>1, <2>2, <3>1, <3>2 DEF Body, Speeds, Unmoved
  <2>3. CASE c.type = "outfit"
    <3>1. d = [b EXCEPT !.current = <<Beast, Nil>>, !.shown = pic]
      BY <2>3 DEF Start, ChangeOutfit, d, pic
    <3> QED BY <1>1, <1>2, <2>3, <3>1 DEF Body, Speeds, Unmoved
  <2>4. CASE c.type = "invisible"
    <3>1. d = [b EXCEPT !.shown = Nil]
      BY <2>4 DEF Start, d
    <3> QED BY <1>1, <2>4, <3>1 DEF Body, Speeds, Unmoved
  <2>5. CASE c.type = "light"
    <3>1. d = [b EXCEPT !.light = n]
      BY <2>5 DEF Start, d, n
    <3> QED BY <1>1, <2>5, <3>1 DEF Body, Speeds, Unmoved
  <2>6. CASE c.type = "drunk"
    <3>1. d = [b EXCEPT !.drunk = n]
      BY <2>6 DEF Start, d, n
    <3> QED BY <1>1, <2>6, <3>1 DEF Body, Speeds, Unmoved
  <2> QED BY <1>1, <2>1, <2>2, <2>3, <2>4, <2>5, <2>6 DEF Types, Speeds
<1>4. [b.conds EXCEPT ![k] = new] \in Conds /\ e = [d EXCEPT !.conds = [b.conds EXCEPT ![k] = new]]
  BY <1>1, <1>3 DEF Body, Conds, d, Started
<1>5. /\ e \in Body /\ Unmoved(b, e) /\ e.conds = [b.conds EXCEPT ![k] = new] /\ e.saddle = d.saddle
      /\ e.current = d.current /\ e.shown = d.shown
      /\ e.speed = d.speed /\ e.bonus = d.bonus /\ e.light = d.light /\ e.drunk = d.drunk
  BY <1>3, <1>4 DEF Body, Unmoved
<1>6. Nil \notin Entry /\ e.conds[k] = new
  BY <1>1, <1>5, ConditionsAssumption DEF Body, Conds
<1>7. k \in Of(e, c.type) /\ \A t : t # c.type => Of(e, t) = Of(b, t)
  BY <1>1, <1>5, <1>6 DEF Of, Body, Conds
<1>8. Proper(e)
  <2>1. e.saddle # Nil => e.saddle = e.mount /\ e.mount \in e.tamed
    BY <1>3, <1>5 DEF Proper, Plain, Unmoved
  <2>2. e.shown = IF Invisible(e) THEN Nil ELSE e.current
    <3>1. CASE c.type = "outfit"
      BY <1>3, <1>5, <1>7, <3>1 DEF Proper, Plain, Invisible, pic
    <3>2. CASE c.type = "invisible"
      BY <1>3, <1>5, <1>7, <3>2 DEF Invisible
    <3>3. CASE c.type \notin {"outfit", "invisible"}
      BY <1>3, <1>5, <1>7, <3>3 DEF Proper, Plain, Invisible
    <3> QED BY <3>1, <3>2, <3>3
  <2>3. Of(e, "outfit") = {} => e.current = Default(e)
    BY <1>3, <1>5, <1>7 DEF Proper, Plain, Default
  <2>4. Of(e, "light") = {} => e.light = 0
    BY <1>3, <1>5, <1>7 DEF Proper, Plain
  <2>5. Of(e, "drunk") = {} => e.drunk = 0
    BY <1>3, <1>5, <1>7 DEF Proper, Plain
  <2> QED BY <1>5, <2>1, <2>2, <2>3, <2>4, <2>5 DEF Proper, Plain
<1>9. Drift(e) = Drift(b) /\ Surplus(e) = Surplus(b)
  <2>1. \A j \in Key \ {k} : e.conds[j] = b.conds[j]
    BY <1>1, <1>5 DEF Body, Conds
  <2>2. Value(b, k) = 0 /\ Value(e, k) = n
    BY <1>6 DEF Value, n
  <2>3. SpeedOf(b.saddle) \in Int /\ b.speed \in Int /\ b.bonus \in Int
    BY <1>1, SpeedOfTyped, BodyFacts
  <2>4. /\ e.speed - SpeedOf(e.saddle) =
             b.speed - SpeedOf(b.saddle) + IF k[1] \in Speeds THEN Value(e, k) - Value(b, k) ELSE 0
        /\ e.bonus = b.bonus + IF k[1] = "attributes" THEN Value(e, k) - Value(b, k) ELSE 0
    BY <1>1, <1>3, <1>5, <2>2, <2>3
  <2>5. b \in Body /\ e \in Body /\ k \in Key
    BY <1>1, <1>5
  <2> QED BY <2>1, <2>4, <2>5, DriftStays
<1> QED BY <1>3, <1>5, <1>8, <1>9 DEF Keeps

\* A renewed condition may have another value, and has not ended.
LEMMA SetTicksKeeps ==
  ASSUME NEW b, Proper(b), NEW c, Offered(c), NEW k \in Key, b.conds[k] # Nil, NEW n \in Int,
         NEW e, e = SetTicks(b, k, c, n)
  PROVE  /\ e \in Body
         /\ e.conds = [b.conds EXCEPT ![k] = e.conds[k]] /\ e.conds[k] \in Entry
         /\ e.conds[k].value = n /\ ~e.conds[k].over
         /\ e.conds[k].revived = (b.conds[k].revived \/ b.conds[k].over)
         /\ Unmoved(b, e) /\ e.saddle = b.saddle /\ e.current = b.current /\ e.shown = b.shown
         /\ e.speed = b.speed /\ e.bonus = b.bonus /\ e.light = b.light /\ e.drunk = b.drunk
<1>. DEFINE new == [ever |-> c.ever, over |-> FALSE, value |-> n,
                    revived |-> b.conds[k].revived \/ b.conds[k].over]
<1>1. b \in Body /\ b.conds[k] \in Entry /\ c.ever \in BOOLEAN
  BY BodyFacts DEF Proper, Plain, Offered
<1>2. new \in Entry
  BY <1>1 DEF Entry
<1>3. [b.conds EXCEPT ![k] = new] \in Conds /\ e = [b EXCEPT !.conds = [b.conds EXCEPT ![k] = new]]
  BY <1>1, <1>2 DEF Body, Conds, SetTicks
<1>4. new.value = n /\ ~new.over /\ new.revived = (b.conds[k].revived \/ b.conds[k].over)
  OBVIOUS
<1>. HIDE DEF new
<1>5. /\ e \in Body /\ Unmoved(b, e) /\ e.conds = [b.conds EXCEPT ![k] = new] /\ e.saddle = b.saddle
      /\ e.current = b.current /\ e.shown = b.shown
      /\ e.speed = b.speed /\ e.bonus = b.bonus /\ e.light = b.light /\ e.drunk = b.drunk
  BY <1>1, <1>3 DEF Body, Unmoved
<1>6. e.conds[k] = new
  BY <1>1, <1>5 DEF Body, Conds
<1> QED BY <1>2, <1>4, <1>5, <1>6

\* The conditions of e are those of b, one of which may be renewed.
Renewed(b, e, k) ==
  \/ e.conds = b.conds
  \/ /\ e.conds = [b.conds EXCEPT ![k] = e.conds[k]] /\ e.conds[k] \in Entry
     /\ e.conds[k].revived = (b.conds[k].revived \/ b.conds[k].over)

\* A renewal changes by the difference of the values (addCondition of each class).
LEMMA MergeKeeps ==
  ASSUME NEW b, Proper(b), NEW c, Offered(c), NEW k, k = <<c.type, c.id>>, b.conds[k] # Nil,
         NEW longer \in BOOLEAN, NEW e, e = Merge(b, k, b.conds[k], c, longer)
  PROVE  /\ Keeps(b, e) /\ Unmoved(b, e) /\ Renewed(b, e, k)
         /\ e.saddle = b.saddle
         /\ e.current = b.current \/ (c.type = "outfit" /\ e.current = <<Beast, Nil>>)
<1>. DEFINE old == b.conds[k].value
            n == IF c.type = "drunk" THEN old ELSE c.value
            d == SetTicks(b, k, c, n)
            pic == IF Invisible(d) THEN b.shown ELSE <<Beast, Nil>>
<1>1. /\ b \in Body /\ c.value \in Int /\ old \in Int /\ n \in Int
      /\ k \in Key /\ k[1] = c.type /\ c.type \in Types
  BY BodyFacts DEF Proper, Plain, Offered
<1>2. <<Beast, Nil>> \in Look /\ pic \in Look \cup {Nil} /\ b.shown \in Look \cup {Nil}
  BY <1>1 DEF Look, Seat, Body
<1>. HIDE DEF old, n, d, pic
<1>3. /\ d \in Body
      /\ d.conds = [b.conds EXCEPT ![k] = d.conds[k]] /\ d.conds[k] \in Entry
      /\ d.conds[k].value = n /\ ~d.conds[k].over
      /\ d.conds[k].revived = (b.conds[k].revived \/ b.conds[k].over)
      /\ Unmoved(b, d) /\ d.saddle = b.saddle /\ d.current = b.current /\ d.shown = b.shown
      /\ d.speed = b.speed /\ d.bonus = b.bonus /\ d.light = b.light /\ d.drunk = b.drunk
  BY <1>1, SetTicksKeeps DEF d
<1>4. CASE e = b
  BY <1>4 DEF Keeps, Unmoved, Renewed
<1>5. CASE e # b
  <2>1. /\ e \in Body /\ Unmoved(b, e) /\ e.conds = d.conds /\ e.saddle = b.saddle
        /\ e.current = IF c.type = "outfit" THEN <<Beast, Nil>> ELSE b.current
        /\ e.shown = IF c.type = "outfit" THEN pic ELSE b.shown
        /\ e.speed = IF c.type \in Speeds THEN b.speed + (n - old) ELSE b.speed
        /\ e.bonus = IF c.type = "attributes" THEN b.bonus + (n - old) ELSE b.bonus
        /\ c.type # "light" => e.light = b.light
        /\ c.type # "drunk" => e.drunk = b.drunk
    <3>1. CASE c.type \in Speeds
      <4>1. e = [d EXCEPT !.speed = d.speed + (n - old)]
        BY <1>5, <3>1 DEF Merge, ChangeSpeed, Speeds, d, n, old
      <4>2. d.speed + (n - old) \in Int
        BY <1>1, <1>3 DEF Body
      <4> QED BY <1>3, <3>1, <4>1, <4>2 DEF Body, Speeds, Unmoved
    <3>2. CASE c.type = "attributes"
      <4>1. e = [d EXCEPT !.bonus = d.bonus + c.value - old]
        BY <1>5, <3>2 DEF Merge, d, n, old
      <4>2. d.bonus + c.value - old \in Int /\ d.bonus + c.value - old = b.bonus + (n - old)
        BY <1>1, <1>3, <3>2 DEF Body, n
      <4> QED BY <1>3, <3>2, <4>1, <4>2 DEF Body, Speeds, Unmoved
    <3>3. CASE c.type = "outfit"
      <4>1. e = [d EXCEPT !.current = <<Beast, Nil>>, !.shown = pic]
        BY <1>3, <1>5, <3>3 DEF Merge, ChangeOutfit, d, n, pic
      <4> QED BY <1>2, <1>3, <3>3, <4>1 DEF Body, Speeds, Unmoved
    <3>4. CASE c.type = "invisible"
      <4>1. e = d
        BY <1>5, <3>4 DEF Merge, d, n
      <4> QED BY <1>3, <3>4, <4>1 DEF Speeds
    <3>5. CASE c.type = "light"
      <4>1. e = [d EXCEPT !.light = c.value]
        BY <1>5, <3>5 DEF Merge, d, n
      <4> QED BY <1>1, <1>3, <3>5, <4>1 DEF Body, Speeds, Unmoved
    <3>6. CASE c.type = "drunk"
      <4>1. e = [d EXCEPT !.drunk = c.value]
        BY <1>5, <3>6 DEF Merge, d, n, old
      <4> QED BY <1>1, <1>3, <3>6, <4>1 DEF Body, Speeds, Unmoved
    <3> QED BY <1>1, <3>1, <3>2, <3>3, <3>4, <3>5, <3>6 DEF Types, Speeds
  <2>2. Nil \notin Entry /\ e.conds[k] \in Entry /\ \A j \in Key \ {k} : e.conds[j] = b.conds[j]
    BY <1>1, <1>3, <2>1, ConditionsAssumption DEF Body, Conds
  <2>3. k \in Of(e, c.type) /\ k \in Of(b, c.type) /\ \A t : Of(e, t) = Of(b, t)
    BY <1>1, <1>3, <2>1, <2>2 DEF Of
  <2>4. Invisible(d) = Invisible(b)
    BY <2>1, <2>3 DEF Invisible, Of
  <2>5. Proper(e)
    <3>1. e.saddle # Nil => e.saddle = e.mount /\ e.mount \in e.tamed
      BY <2>1 DEF Proper, Plain, Unmoved
    <3>2. e.shown = IF Invisible(e) THEN Nil ELSE e.current
      BY <2>1, <2>3, <2>4 DEF Proper, Plain, Invisible, pic
    <3>3. Of(e, "outfit") = {} => e.current = Default(e)
      BY <2>1, <2>3 DEF Proper, Plain, Default
    <3>4. Of(e, "light") = {} => e.light = 0
      BY <2>1, <2>3 DEF Proper, Plain
    <3>5. Of(e, "drunk") = {} => e.drunk = 0
      BY <2>1, <2>3 DEF Proper, Plain
    <3> QED BY <2>1, <3>1, <3>2, <3>3, <3>4, <3>5 DEF Proper, Plain
  <2>6. Drift(e) = Drift(b) /\ Surplus(e) = Surplus(b)
    <3>1. Value(b, k) = old /\ Value(e, k) = n
      BY <1>3, <2>1, <2>2 DEF Value, old
    <3>2. SpeedOf(b.saddle) \in Int /\ b.speed \in Int /\ b.bonus \in Int
      BY <1>1, SpeedOfTyped, BodyFacts
    <3>3. /\ e.speed - SpeedOf(e.saddle) =
               b.speed - SpeedOf(b.saddle) + IF k[1] \in Speeds THEN Value(e, k) - Value(b, k) ELSE 0
          /\ e.bonus = b.bonus + IF k[1] = "attributes" THEN Value(e, k) - Value(b, k) ELSE 0
      BY <1>1, <2>1, <3>1, <3>2
    <3>4. b \in Body /\ e \in Body /\ k \in Key /\ \A j \in Key \ {k} : e.conds[j] = b.conds[j]
      BY <1>1, <2>1, <2>2
    <3> QED BY <3>3, <3>4, DriftStays
  <2>7. Renewed(b, e, k)
    BY <1>3, <2>1, <2>2 DEF Renewed
  <2> QED BY <2>1, <2>5, <2>6, <2>7 DEF Keeps
<1> QED BY <1>4, <1>5

\* What is not over is live.
LEMMA LiveFacts ==
  ASSUME NEW b \in Body, NEW type, ~Live(b, type), NEW k \in Of(b, type)
  PROVE  b.conds[k].over
<1>1. k \in Key /\ b.conds[k] # Nil
  BY DEF Of
<1>2. b.conds[k].over \in BOOLEAN
  BY <1>1, BodyFacts DEF Entry
<1> QED BY <1>2 DEF Live

\* Haste and paralysis end each other (onAddCondition).
LEMMA EndCounterpartKeeps ==
  ASSUME NEW b, Proper(b), NEW type, NEW delayed \in BOOLEAN,
         NEW e, e = EndCounterpart(b, type, delayed)
  PROVE  /\ Keeps(b, e) /\ Unmoved(b, e) /\ e.saddle = b.saddle /\ e.current = b.current
         /\ \A k \in Key : e.conds[k] # Nil => e.conds[k] = b.conds[k]
         /\ type \notin Speeds => e = b
         /\ type = "paralyze" => \A h \in Of(e, "haste") : e.conds[h].over
         /\ type = "haste" /\ ~(delayed /\ Live(b, "paralyze")) => \A p \in Of(e, "paralyze") : e.conds[p].over
<1>0. b \in Body
  BY DEF Proper, Plain
<1>1. ASSUME NEW t \in Speeds, e = EndAll(b, Of(b, t))
      PROVE  /\ Keeps(b, e) /\ Unmoved(b, e) /\ e.saddle = b.saddle /\ e.current = b.current
             /\ \A k \in Key : e.conds[k] # Nil => e.conds[k] = b.conds[k]
             /\ Of(e, t) = {}
  <2>1. Of(b, t) \in SUBSET Present(b.conds) /\ \A k \in Of(b, t) : k[1] # "outfit"
    BY DEF Of, Present, Speeds
  <2>2. Ended(b, Of(b, t), e)
    BY <1>1, <2>1, EndAllKeeps
  <2>3. \A k \in Key : e.conds[k] = IF k \in Of(b, t) THEN Nil ELSE b.conds[k]
    BY <2>2 DEF Ended
  <2>4. Of(e, t) = {}
    BY <2>3 DEF Of
  <2>5. Keeps(b, e) /\ Unmoved(b, e) /\ e.saddle = b.saddle /\ e.current = b.current
    BY <2>1, <2>2 DEF Ended
  <2> QED BY <2>3, <2>4, <2>5
<1>2. CASE type = "paralyze" /\ Live(b, "haste")
  <2>1. e = EndAll(b, Of(b, "haste"))
    BY <1>2 DEF EndCounterpart
  <2> QED BY <1>1, <1>2, <2>1 DEF Speeds
<1>3. CASE type = "haste" /\ Live(b, "paralyze") /\ ~delayed
  <2>1. e = EndAll(b, Of(b, "paralyze"))
    BY <1>3 DEF EndCounterpart
  <2> QED BY <1>1, <1>3, <2>1 DEF Speeds
<1>4. CASE ~(type = "paralyze" /\ Live(b, "haste")) /\ ~(type = "haste" /\ Live(b, "paralyze") /\ ~delayed)
  <2>1. e = b
    BY <1>4 DEF EndCounterpart
  <2>2. Keeps(b, b) /\ Unmoved(b, b)
    BY DEF Keeps, Unmoved
  <2>3. type = "paralyze" => \A h \in Of(b, "haste") : b.conds[h].over
    BY <1>0, <1>4, LiveFacts
  <2>4. type = "haste" /\ ~(delayed /\ Live(b, "paralyze")) => \A p \in Of(b, "paralyze") : b.conds[p].over
    BY <1>0, <1>4, LiveFacts
  <2> QED BY <2>1, <2>2, <2>3, <2>4
<1> QED BY <1>2, <1>3, <1>4

\* What addCondition does, whether the condition is new or is there already.
Added(b, c, k, e) ==
  /\ Keeps(b, e) /\ Unmoved(b, e)
  /\ \A j \in Key : e.conds[j] # Nil => j = k \/ b.conds[j] # Nil
  /\ \/ e.saddle = b.saddle /\ e.current = b.current
     \/ c.type = "outfit" /\ e.saddle \in {b.saddle, Nil} /\ e.current = <<Beast, Nil>>

\* addCondition: only a haste that comes while the end of a paralysis is put off may
\* leave the two together, and then that end is in the scheduler.
LEMMA AddKeeps ==
  ASSUME NEW b, Proper(b), NEW c, Offered(c), NEW delayed \in BOOLEAN, NEW longer \in BOOLEAN,
         NEW e, e = AddCondition(b, c, delayed, longer)
  PROVE  /\ Added(b, c, <<c.type, c.id>>, e)
         /\ \A calls : Apart(b, calls) =>
              Apart(e, calls \cup (IF CureLater(b, c, delayed) THEN {Cure} ELSE {}))
<1>. DEFINE k == <<c.type, c.id>>
<1>0. k \in Key /\ k[1] = c.type /\ b \in Body /\ b.conds \in Conds
  BY DEF Offered, Proper, Plain, Body
<1>. HIDE DEF k
<1>1. CASE b.conds[k] # Nil
  <2>1. e = Merge(b, k, b.conds[k], c, longer)
    BY <1>1 DEF AddCondition, k
  <2>2. /\ Keeps(b, e) /\ Unmoved(b, e) /\ Renewed(b, e, k) /\ e.saddle = b.saddle
        /\ e.current = b.current \/ (c.type = "outfit" /\ e.current = <<Beast, Nil>>)
    BY <1>1, <2>1, MergeKeeps DEF k
  <2>3. Added(b, c, k, e)
    <3>1. \A j \in Key : e.conds[j] # Nil => j = k \/ b.conds[j] # Nil
      BY <1>0, <2>2 DEF Renewed, Conds
    <3> QED BY <2>2, <3>1 DEF Added
  <2>4. ASSUME NEW calls, Apart(b, calls) PROVE Apart(e, calls)
    <3>1. CASE e.conds = b.conds
      BY <2>4, <3>1 DEF Apart, Of
    <3>2. CASE /\ e.conds = [b.conds EXCEPT ![k] = e.conds[k]] /\ e.conds[k] \in Entry
               /\ e.conds[k].revived = (b.conds[k].revived \/ b.conds[k].over)
      <4>1. \A j \in Key \ {k} : e.conds[j] = b.conds[j]
        BY <1>0, <3>2 DEF Conds
      <4>2. \A j \in Key : e.conds[j] # Nil => b.conds[j] # Nil
        BY <1>1, <4>1
      <4>. SUFFICES ASSUME NEW h \in Of(e, "haste"), NEW p \in Of(e, "paralyze"),
                           ~e.conds[h].over, ~e.conds[p].over
                    PROVE  Cure \in calls \/ e.conds[h].revived \/ e.conds[p].revived
        BY DEF Apart
      <4>3. h \in Of(b, "haste") /\ p \in Of(b, "paralyze") /\ h \in Key /\ p \in Key
        BY <4>2 DEF Of
      <4>4. ASSUME NEW j \in {h, p}, b.conds[j].over PROVE e.conds[j].revived
        BY <3>2, <4>1, <4>3, <4>4
      <4>5. ASSUME NEW j \in {h, p}, b.conds[j].revived PROVE e.conds[j].revived
        BY <3>2, <4>1, <4>3, <4>5
      <4> QED BY <2>4, <4>3, <4>4, <4>5 DEF Apart
    <3> QED BY <2>2, <3>1, <3>2 DEF Renewed
  <2>5. \A calls, more : Apart(e, calls) => Apart(e, calls \cup more)
    BY DEF Apart
  <2> QED BY <2>3, <2>4, <2>5 DEF k
<1>2. CASE b.conds[k] = Nil
  <2>. DEFINE new == [ever |-> c.ever, over |-> FALSE, value |-> c.value, revived |-> FALSE]
              d == Started(b, c, k, new)
  <2>1. e = OnAddCondition(d, c.type, delayed)
    BY <1>2 DEF AddCondition, Started, k
  <2>2. new \in Entry /\ new.value = c.value
    BY DEF Offered, Entry
  <2>. HIDE DEF new
  <2>a. d = Started(b, c, k, new) /\ k = <<c.type, c.id>>
    BY DEF k
  <2>. HIDE DEF d
  <2>3. /\ Keeps(b, d) /\ Unmoved(b, d) /\ d.conds = [b.conds EXCEPT ![k] = new] /\ d.saddle = b.saddle
        /\ d.current = IF c.type = "outfit" THEN <<Beast, Nil>> ELSE b.current
    BY <1>2, <2>2, <2>a, StartKeeps
  <2>4. Proper(d) /\ \A j \in Key \ {k} : d.conds[j] = b.conds[j]
    BY <1>0, <2>3 DEF Keeps, Conds
  <2>5. CASE c.type = "outfit" /\ IsMounted(d)
    <3>1. e = Dismount(d)
      BY <2>1, <2>5 DEF OnAddCondition
    <3>2. Restyled(d, e) /\ Unmoved(d, e) /\ e.saddle = Nil /\ e.current = d.current
      BY <2>4, <2>5, <3>1, DismountRestyles DEF Proper
    <3>3. k \in Of(e, "outfit")
      <4>1. e.conds[k] \in Entry
        BY <1>0, <2>2, <2>3, <3>2 DEF Restyled, Conds
      <4> QED BY <1>0, <2>5, <4>1, ConditionsAssumption DEF Of
    <3>4. Keeps(b, e) /\ Unmoved(b, e)
      BY <2>3, <3>2, <3>3 DEF Keeps, Restyled, Unmoved, Proper
    <3>5. Added(b, c, k, e)
      BY <2>3, <2>4, <2>5, <3>2, <3>4 DEF Added, Restyled
    <3>6. ASSUME NEW calls, Apart(b, calls) PROVE Apart(e, calls)
      <4>1. \A j \in Key : j[1] # "outfit" => e.conds[j] = b.conds[j]
        BY <1>0, <2>4, <2>5, <3>2 DEF Restyled
      <4> QED BY <3>6, <4>1 DEF Apart, Of
    <3>7. ~CureLater(b, c, delayed)
      BY <2>5 DEF CureLater
    <3> QED BY <3>5, <3>6, <3>7 DEF k
  <2>6. CASE ~(c.type = "outfit" /\ IsMounted(d))
    <3>1. e = EndCounterpart(d, c.type, delayed)
      BY <2>1, <2>6 DEF OnAddCondition
    <3>2. /\ Keeps(d, e) /\ Unmoved(d, e) /\ e.saddle = d.saddle /\ e.current = d.current
          /\ \A j \in Key : e.conds[j] # Nil => e.conds[j] = d.conds[j]
          /\ c.type = "paralyze" => \A h \in Of(e, "haste") : e.conds[h].over
          /\ c.type = "haste" /\ ~(delayed /\ Live(d, "paralyze")) => \A p \in Of(e, "paralyze") : e.conds[p].over
      BY <2>4, <3>1, EndCounterpartKeeps
    <3>3. Keeps(b, e) /\ Unmoved(b, e)
      BY <2>3, <3>2 DEF Keeps, Unmoved
    <3>4. Added(b, c, k, e)
      BY <2>3, <2>4, <3>2, <3>3 DEF Added
    <3>5. ASSUME NEW calls, Apart(b, calls)
          PROVE  Apart(e, calls \cup (IF CureLater(b, c, delayed) THEN {Cure} ELSE {}))
      <4>1. CASE c.type = "paralyze"
        BY <3>2, <4>1 DEF Apart
      <4>2. CASE c.type = "haste"
        <5>1. Live(d, "paralyze") = Live(b, "paralyze")
          <6>1. Of(d, "paralyze") = Of(b, "paralyze") /\ k \notin Of(b, "paralyze")
            BY <1>0, <2>4, <4>2 DEF Of
          <6> QED BY <2>4, <6>1 DEF Live, Of
        <5>2. CASE delayed /\ Live(d, "paralyze")
          <6>1. CureLater(b, c, delayed)
            BY <1>2, <4>2, <5>1, <5>2 DEF CureLater, k
          <6> QED BY <6>1 DEF Apart
        <5>3. CASE ~(delayed /\ Live(d, "paralyze"))
          BY <3>2, <4>2, <5>3 DEF Apart
        <5> QED BY <5>2, <5>3
      <4>3. CASE c.type \notin Speeds
        <5>1. \A j \in Key : j[1] \in Speeds /\ e.conds[j] # Nil => e.conds[j] = b.conds[j]
          BY <1>0, <2>4, <3>2, <4>3
        <5> QED BY <3>5, <5>1 DEF Apart, Of, Speeds
      <4> QED BY <4>1, <4>2, <4>3 DEF Speeds
    <3> QED BY <3>4, <3>5 DEF k
  <2> QED BY <2>5, <2>6
<1> QED BY <1>1, <1>2

-----------------------------------------------------------------------------
(* Conditions are given back at the login *)

\* What was saved can be given back.
LEMMA RestoredIsOffered ==
  ASSUME NEW b \in Body, NEW k \in Present(b.conds)
  PROVE  Offered(Restored(k, b)) /\ <<Restored(k, b).type, Restored(k, b).id>> = k /\ Restored(k, b).type = k[1]
<1>1. k \in Key /\ b.conds[k] \in Entry
  BY PresentFinite, BodyFacts
<1>2. k = <<k[1], k[2]>> /\ k[1] \in Types
  BY <1>1, KeyFacts
<1>3. DefaultDrunk \in Int
  BY ConditionsAssumption
<1> QED BY <1>1, <1>2, <1>3 DEF Restored, Offered, Entry

\* b after some of the conditions at keys have been given back.
Readied(b, keys, e) ==
  /\ Keeps(b, e) /\ Unmoved(b, e)
  /\ \A j \in Key : e.conds[j] # Nil => j \in keys \/ b.conds[j] # Nil
  /\ \/ e.saddle = b.saddle /\ e.current = b.current
     \/ /\ \E k \in keys : k[1] = "outfit"
        /\ e.saddle \in {b.saddle, Nil} /\ e.current = <<Beast, Nil>>
  /\ \A calls : Apart(b, calls) => Apart(e, calls)

LEMMA ReadiedAgain ==
  ASSUME NEW b, NEW keys, NEW e, Readied(b, keys, e), NEW more, NEW d, Readied(e, more, d)
  PROVE  Readied(b, keys \cup more, d)
<1>1. Keeps(b, d) /\ Unmoved(b, d)
  BY DEF Readied, Keeps, Unmoved
<1>2. \A j \in Key : d.conds[j] # Nil => j \in keys \cup more \/ b.conds[j] # Nil
  BY DEF Readied
<1>3. \/ d.saddle = b.saddle /\ d.current = b.current
      \/ /\ \E k \in keys \cup more : k[1] = "outfit"
         /\ d.saddle \in {b.saddle, Nil} /\ d.current = <<Beast, Nil>>
  BY DEF Readied
<1>4. \A calls : Apart(b, calls) => Apart(d, calls)
  BY DEF Readied
<1> QED BY <1>1, <1>2, <1>3, <1>4 DEF Readied

\* Giving conditions back, in any order, keeps whatever was unexplained before.
LEMMA AddAllKeeps ==
  ASSUME NEW b, Proper(b), NEW was \in Body, NEW keys \in SUBSET Present(was.conds)
  PROVE  Readied(b, keys, AddAll(b, was, keys))
<1>. DEFINE Hand(k, e) == AddCondition(e, Restored(k, was), FALSE, TRUE)
<1>. DEFINE step == [q \in keys \X Body |-> IF Proper(q[2]) THEN Hand(q[1], q[2]) ELSE q[2]]
<1>1. b \in Body /\ IsFiniteSet(keys) /\ \A k \in keys : k \in Key
  <2>1. was.conds \in Conds
    BY DEF Body
  <2>2. IsFiniteSet(keys)
    BY <2>1, PresentFinite, FS_Subset
  <2> QED BY <2>2 DEF Proper, Plain, Present
<1>2. ASSUME NEW k \in keys, NEW e, Proper(e) PROVE Readied(e, {k}, Hand(k, e))
  <2>. DEFINE c == Restored(k, was)
              d == Hand(k, e)
  <2>1. Offered(c) /\ <<c.type, c.id>> = k /\ c.type = k[1]
    BY RestoredIsOffered
  <2>2. d = AddCondition(e, c, FALSE, TRUE)
    OBVIOUS
  <2>. HIDE DEF c, d
  <2>3. Added(e, c, k, d) /\ \A calls : Apart(e, calls) =>
          Apart(d, calls \cup (IF CureLater(e, c, FALSE) THEN {Cure} ELSE {}))
    BY <1>2, <2>1, <2>2, AddKeeps
  <2>4. \A calls : calls \cup (IF CureLater(e, c, FALSE) THEN {Cure} ELSE {}) = calls
    BY DEF CureLater
  <2> QED BY <2>1, <2>3, <2>4 DEF Readied, Added, d
<1>3. step \in [keys \X Body -> Body]
  <2>1. ASSUME NEW k \in keys, NEW e \in Body, Proper(e) PROVE Hand(k, e) \in Body
    BY <1>2, <2>1 DEF Readied, Keeps, Proper, Plain
  <2>. HIDE DEF Hand
  <2> QED BY <2>1
<1>4. ASSUME NEW k \in keys, NEW e \in Body, Proper(e) PROVE step[<<k, e>>] = Hand(k, e)
  BY <1>4
<1>. HIDE DEF step, Hand
<1>5. PICK f \in [SUBSET keys -> Body] : Folding(f, keys, b, step)
  BY <1>1, <1>3, FoldExists
<1>6. ASSUME NEW part \in SUBSET keys, part # {}, Readied(b, part \ {Pick(part)}, f[part \ {Pick(part)}])
      PROVE  f[part] = Hand(Pick(part), f[part \ {Pick(part)}]) /\ Readied(b, part, f[part])
  <2>. DEFINE c == Pick(part)
              e == f[part \ {c}]
  <2>1. c \in part /\ c \in keys /\ part \ {c} \in SUBSET keys /\ (part \ {c}) \cup {c} = part
    BY <1>6 DEF Pick
  <2>2. e \in Body /\ f[part] = step[<<c, e>>]
    BY <1>5, <1>6, <2>1 DEF Folding
  <2>3. Readied(b, part \ {c}, e)
    BY <1>6
  <2>. HIDE DEF c, e
  <2>4. Proper(e)
    BY <2>3 DEF Readied, Keeps
  <2>5. f[part] = Hand(c, e) /\ Readied(e, {c}, f[part])
    BY <1>2, <1>4, <2>1, <2>2, <2>4
  <2>6. Readied(b, (part \ {c}) \cup {c}, f[part])
    BY <2>3, <2>5, ReadiedAgain
  <2> QED BY <2>1, <2>5, <2>6 DEF c, e
<1>7. f[{}] = b /\ Readied(b, {}, b)
  BY <1>5 DEF Folding, Readied, Keeps, Unmoved
<1>. DEFINE A == {part \in SUBSET keys : Readied(b, part, f[part])}
<1>8. \A part \in SUBSET keys : part \in A
  <2>1. ASSUME NEW part \in SUBSET keys, \A x \in part : part \ {x} \in A PROVE part \in A
    <3>1. part # {} => Pick(part) \in part
      BY DEF Pick
    <3> QED BY <1>6, <1>7, <2>1, <3>1
  <2>. HIDE DEF A
  <2> QED BY <1>1, <2>1, SubsetInduction
<1>9. AddAll(b, was, keys) = f[keys]
  <2>. DEFINE Folds(i) == i = [part \in SUBSET keys |->
                                IF part = {} THEN b
                                ELSE Hand(CHOOSE x \in part : TRUE, i[part \ {CHOOSE x \in part : TRUE}])]
  <2>. DEFINE g == CHOOSE i : Folds(i)
  <2>1. AddAll(b, was, keys) = g[keys]
    BY DEF AddAll, FoldSet, MapThenFoldSet, Hand
  <2>2. Folds(f)
    <3>1. \A part \in SUBSET keys : f[part] = IF part = {} THEN b ELSE Hand(Pick(part), f[part \ {Pick(part)}])
      BY <1>6, <1>7, <1>8
    <3>2. f = [part \in SUBSET keys |-> IF part = {} THEN b ELSE Hand(Pick(part), f[part \ {Pick(part)}])]
      BY <3>1
    <3> QED BY <3>2 DEF Pick
  <2>. HIDE DEF Folds
  <2>3. Folds(g)
    BY <2>2
  <2>4. \A part \in SUBSET keys : g[part] = IF part = {} THEN b ELSE Hand(Pick(part), g[part \ {Pick(part)}])
    BY <2>3 DEF Folds, Pick
  <2>. HIDE DEF g
  <2>. DEFINE B == {part \in SUBSET keys : g[part] = f[part]}
  <2>5. ASSUME NEW part \in SUBSET keys, \A x \in part : part \ {x} \in B PROVE part \in B
    <3>1. part # {} => Pick(part) \in part
      BY DEF Pick
    <3> QED BY <1>6, <1>7, <1>8, <2>4, <2>5, <3>1
  <2>. HIDE DEF B
  <2>6. \A part \in SUBSET keys : part \in B
    BY <1>1, <2>5, SubsetInduction
  <2>7. keys \in B
    BY <2>6
  <2> QED BY <2>1, <2>7 DEF B
<1>10. keys \in A
  BY <1>8
<1> QED BY <1>9, <1>10

-----------------------------------------------------------------------------
(* Mounts and outfits *)

\* It differs in what it owns or is set to only.
SameBut(b, e) ==
  /\ e.conds = b.conds /\ e.speed = b.speed /\ e.bonus = b.bonus
  /\ e.light = b.light /\ e.drunk = b.drunk
  /\ e.current = b.current /\ e.shown = b.shown /\ e.saddle = b.saddle

LEMMA SameButKeeps ==
  ASSUME NEW b, Plain(b), NEW e \in Body, SameBut(b, e),
         e.saddle # Nil => e.saddle = e.mount /\ e.mount \in e.tamed
  PROVE  /\ Plain(e) /\ Drift(e) = Drift(b) /\ Surplus(e) = Surplus(b)
         /\ Proper(b) => Proper(e)
<1>1. b \in Body
  BY DEF Plain
<1>2. \A t : Of(e, t) = Of(b, t)
  BY DEF SameBut, Of
<1>3. Plain(e)
  BY <1>2 DEF Plain, SameBut, Invisible
<1>4. Proper(b) => Proper(e)
  BY <1>2, <1>3 DEF Proper, SameBut, Default
<1>5. Drift(e) = Drift(b) /\ Surplus(e) = Surplus(b)
  BY <1>1, SameDrift DEF SameBut
<1> QED BY <1>3, <1>4, <1>5

\* What an action about outfits and mounts does.
Fits(b, e) == Keeps(b, e) /\ e.conds = b.conds

LEMMA FitsTwice ==
  ASSUME NEW b, NEW d, NEW e, Fits(b, d), Fits(d, e)
  PROVE  Fits(b, e)
BY DEF Fits, Keeps

\* It dresses as it is by default.
LEMMA DressedFits ==
  ASSUME NEW b, Plain(b)
  PROVE  Fits(b, ChangeOutfit(b, Default(b)))
<1>. DEFINE e == ChangeOutfit(b, Default(b))
<1>1. Default(b) \in Look
  BY DEF Plain, Body, Default, Look
<1>2. Restyled(b, e) /\ e.saddle = b.saddle /\ e.current = Default(b)
  BY <1>1, ChangeOutfitRestyles
<1>. HIDE DEF e
<1>3. Proper(e)
  BY <1>2 DEF Proper, Restyled, Default
<1> QED BY <1>2, <1>3 DEF Fits, Keeps, Restyled, e

\* It gets off and dresses.
LEMMA DismountFits ==
  ASSUME NEW b, Plain(b), IsMounted(b)
  PROVE  /\ Fits(b, ChangeOutfit(Dismount(b), <<"own", Nil>>))
         /\ ChangeOutfit(Dismount(b), <<"own", Nil>>).saddle = Nil
<1>. DEFINE d == Dismount(b)
<1>1. Restyled(b, d) /\ d.saddle = Nil
  BY DismountRestyles
<1>. HIDE DEF d
<1>2. Default(d) = <<"own", Nil>> /\ Plain(d)
  BY <1>1 DEF Default, Restyled
<1>3. Fits(d, ChangeOutfit(d, <<"own", Nil>>))
  BY <1>2, DressedFits
<1>4. ChangeOutfit(d, <<"own", Nil>>).saddle = Nil
  <2>1. <<"own", Nil>> \in Look
    BY DEF Look, Seat
  <2> QED BY <1>1, <1>2, <2>1, ChangeOutfitRestyles
<1>5. Fits(b, ChangeOutfit(d, <<"own", Nil>>))
  BY <1>1, <1>3 DEF Fits, Keeps, Restyled
<1> QED BY <1>4, <1>5 DEF d

\* toggleMount(true) gives the speed of the mount that is then ridden.
LEMMA MountUpFits ==
  ASSUME NEW b, Proper(b), NEW m \in Seat
  PROVE  Fits(b, MountUp(b, m))
<1>1. b \in Body /\ Plain(b) /\ Fits(b, b)
  BY DEF Proper, Plain, Fits, Keeps
<1>2. CASE IsMounted(b) \/ b.pz \/ b.mount = Nil \/ Live(b, "outfit")
  BY <1>1, <1>2 DEF MountUp
<1>3. CASE ~(IsMounted(b) \/ b.pz \/ b.mount = Nil \/ Live(b, "outfit")) /\ m \notin b.tamed
  <2>. DEFINE e == [b EXCEPT !.mount = Nil]
  <2>1. MountUp(b, m) = e
    BY <1>3 DEF MountUp
  <2>2. e \in Body /\ SameBut(b, e) /\ e.saddle = Nil
    BY <1>1, <1>3 DEF Body, SameBut, Seat, IsMounted
  <2>. HIDE DEF e
  <2>3. Proper(e) /\ Drift(e) = Drift(b) /\ Surplus(e) = Surplus(b)
    BY <1>1, <2>2, SameButKeeps
  <2> QED BY <2>1, <2>2, <2>3 DEF Fits, Keeps, SameBut
<1>4. CASE ~(IsMounted(b) \/ b.pz \/ b.mount = Nil \/ Live(b, "outfit")) /\ m \in b.tamed
  <2>. DEFINE n == b.speed + SpeedOf(m)
              up == [b EXCEPT !.speed = n, !.saddle = m, !.mount = m]
  <2>1. MountUp(b, m) = ChangeOutfit(up, Default(up))
    BY <1>1, <1>4 DEF MountUp, ChangeSpeed, Body
  <2>2. b.saddle = Nil /\ SpeedOf(m) \in Int /\ n \in Int /\ SpeedOf(b.saddle) = 0 /\ b.speed \in Int
    BY <1>1, <1>4, SpeedOfTyped, BodyFacts DEF IsMounted, SpeedOf
  <2>3. n - SpeedOf(m) = b.speed - SpeedOf(b.saddle)
    BY <2>2
  <2>. HIDE DEF n
  <2>4. /\ up \in Body /\ up.conds = b.conds /\ up.bonus = b.bonus /\ up.light = b.light /\ up.drunk = b.drunk
        /\ up.current = b.current /\ up.shown = b.shown
        /\ up.speed = n /\ up.saddle = m /\ up.mount = m /\ up.tamed = b.tamed
    BY <1>1, <2>2 DEF Body
  <2>. HIDE DEF up
  <2>5. \A t : Of(up, t) = Of(b, t)
    BY <2>4 DEF Of
  <2>6. Plain(up)
    BY <1>1, <1>4, <2>4, <2>5 DEF Plain, Invisible
  <2>7. Drift(up) = Drift(b) /\ Surplus(up) = Surplus(b)
    BY <1>1, <2>3, <2>4, SameDrift
  <2>8. Fits(up, ChangeOutfit(up, Default(up)))
    BY <2>6, DressedFits
  <2> QED BY <2>1, <2>4, <2>7, <2>8 DEF Fits, Keeps
<1> QED BY <1>2, <1>3, <1>4

\* Into a protection zone nobody rides.
LEMMA EnterPzFits ==
  ASSUME NEW b, Proper(b)
  PROVE  Fits(b, EnterPz(b))
<1>1. CASE ~IsMounted(b)
  BY <1>1 DEF EnterPz, Fits, Keeps
<1>2. CASE IsMounted(b)
  <2>. DEFINE d == ChangeOutfit(Dismount(b), <<"own", Nil>>)
              e == [d EXCEPT !.wasMounted = TRUE]
  <2>1. EnterPz(b) = e
    BY <1>2 DEF EnterPz
  <2>2. Fits(b, d) /\ d.saddle = Nil
    BY <1>2, DismountFits DEF Proper
  <2>3. d \in Body /\ Plain(d) /\ Proper(d)
    BY <2>2 DEF Fits, Keeps, Proper, Plain
  <2>. HIDE DEF d
  <2>4. e \in Body /\ SameBut(d, e) /\ e.saddle = Nil
    BY <2>2, <2>3 DEF Body, SameBut
  <2>. HIDE DEF e
  <2>5. Proper(e) /\ Drift(e) = Drift(d) /\ Surplus(e) = Surplus(d)
    BY <2>3, <2>4, SameButKeeps
  <2> QED BY <2>1, <2>2, <2>4, <2>5 DEF Fits, Keeps, SameBut
<1> QED BY <1>1, <1>2

\* What is worn is made new, unless an outfit condition hides it.
LEMMA DressedKeeps ==
  ASSUME NEW b, Plain(b)
  PROVE  Fits(b, Dressed(b))
<1>1. CASE Live(b, "outfit")
  <2>1. Of(b, "outfit") # {} /\ Dressed(b) = b
    BY <1>1 DEF Live, Dressed
  <2> QED BY <2>1 DEF Proper, Fits, Keeps
<1>2. CASE ~Live(b, "outfit") /\ b.pz
  <2>. DEFINE d == ChangeOutfit(b, Default(b))
  <2>1. Dressed(b) = EnterPz(d)
    BY <1>2 DEF Dressed
  <2>2. Fits(b, d)
    BY DressedFits
  <2>. HIDE DEF d
  <2>3. Fits(d, EnterPz(d))
    BY <2>2, EnterPzFits DEF Fits, Keeps
  <2> QED BY <2>1, <2>2, <2>3, FitsTwice
<1>3. CASE ~Live(b, "outfit") /\ ~b.pz
  <2>1. Dressed(b) = ChangeOutfit(b, Default(b))
    BY <1>3 DEF Dressed
  <2> QED BY <2>1, DressedFits
<1> QED BY <1>1, <1>2, <1>3

\* A chosen outfit exchanges mounts and their speeds; only what is worn may be old.
LEMMA SaddledFits ==
  ASSUME NEW b, Proper(b), NEW m \in Seat, NEW random \in BOOLEAN,
         NEW e, e = [Saddled(b, m) EXCEPT !.random = random]
  PROVE  Plain(e) /\ Drift(e) = Drift(b) /\ Surplus(e) = Surplus(b) /\ e.conds = b.conds
<1>1. b \in Body /\ Plain(b)
  BY DEF Proper, Plain
<1>2. CASE m \in b.tamed
  <2>. DEFINE n == b.speed + (SpeedOf(m) - (IF IsMounted(b) THEN SpeedOf(b.mount) ELSE 0))
  <2>1. e = [b EXCEPT !.speed = n, !.mount = m, !.saddle = m, !.random = random]
    BY <1>1, <1>2 DEF Saddled, ChangeSpeed, Body
  <2>2. /\ SpeedOf(m) \in Int /\ SpeedOf(b.saddle) \in Int /\ b.speed \in Int
        /\ SpeedOf(b.saddle) = IF IsMounted(b) THEN SpeedOf(b.mount) ELSE 0
    BY <1>1, SpeedOfTyped, BodyFacts DEF Plain, IsMounted, SpeedOf
  <2>3. n \in Int /\ n - SpeedOf(m) = b.speed - SpeedOf(b.saddle)
    <3>1. n = b.speed + (SpeedOf(m) - SpeedOf(b.saddle))
      BY <2>2
    <3> QED BY <2>2, <3>1
  <2>. HIDE DEF n
  <2>4. /\ e \in Body /\ e.conds = b.conds /\ e.bonus = b.bonus /\ e.light = b.light /\ e.drunk = b.drunk
        /\ e.current = b.current /\ e.shown = b.shown
        /\ e.speed = n /\ e.saddle = m /\ e.mount = m /\ e.tamed = b.tamed
    BY <1>1, <2>1, <2>3 DEF Body
  <2>5. \A t : Of(e, t) = Of(b, t)
    BY <2>4 DEF Of
  <2>6. Plain(e)
    BY <1>1, <1>2, <2>4, <2>5 DEF Plain, Invisible
  <2>7. Drift(e) = Drift(b) /\ Surplus(e) = Surplus(b)
    BY <1>1, <2>3, <2>4, SameDrift
  <2> QED BY <2>4, <2>6, <2>7
<1>3. CASE m \notin b.tamed
  <2>. DEFINE d == IF IsMounted(b) THEN Dismount(b) ELSE b
  <2>1. e = [d EXCEPT !.wasMounted = FALSE, !.random = random]
    BY <1>3 DEF Saddled
  <2>2. Plain(d) /\ Drift(d) = Drift(b) /\ Surplus(d) = Surplus(b) /\ d.conds = b.conds /\ d.saddle = Nil
    <3>1. CASE IsMounted(b)
      BY <1>1, <3>1, DismountRestyles DEF Restyled
    <3>2. CASE ~IsMounted(b)
      BY <1>1, <3>2 DEF IsMounted
    <3> QED BY <3>1, <3>2
  <2>. HIDE DEF d
  <2>3. e \in Body /\ SameBut(d, e) /\ e.saddle = Nil
    BY <2>1, <2>2 DEF Plain, Body, SameBut
  <2>4. Plain(e) /\ Drift(e) = Drift(d) /\ Surplus(e) = Surplus(d)
    BY <2>2, <2>3, SameButKeeps
  <2> QED BY <2>2, <2>3, <2>4 DEF SameBut
<1> QED BY <1>2, <1>3

LEMMA SameButFits ==
  ASSUME NEW b, Proper(b), NEW e \in Body, SameBut(b, e),
         e.saddle # Nil => e.saddle = e.mount /\ e.mount \in e.tamed
  PROVE  Fits(b, e)
BY SameButKeeps DEF Fits, Keeps, Proper, SameBut

-----------------------------------------------------------------------------
(* Conditions: every step keeps the invariant *)

\* What every action has to show.
LEMMA TurnsInto ==
  ASSUME ConditionsInv, NEW b, NEW calls, Turns(b, calls), Keeps(body, b), Apart(b, later \cup calls)
  PROVE  ConditionsInv'
<1>1. body' = b /\ later' = later \cup calls /\ saved' = saved
  BY DEF Turns
<1>2. Proper(b) /\ Drift(b) = Drift(body) /\ Surplus(b) = Surplus(body)
  BY DEF Keeps
<1> QED BY <1>1, <1>2 DEF ConditionsInv

LEMMA FitsInto ==
  ASSUME ConditionsInv, NEW b, Turns(b, {}), Fits(body, b)
  PROVE  ConditionsInv'
<1>1. Apart(b, later \cup {})
  BY DEF ConditionsInv, Fits, Apart, Of
<1> QED BY <1>1, TurnsInto DEF Fits

LEMMA EndedInto ==
  ASSUME ConditionsInv, NEW b, Fits(body, b), NEW keys \in SUBSET Present(b.conds), Turns(EndAll(b, keys), {})
  PROVE  ConditionsInv'
<1>. DEFINE e == EndAll(b, keys)
<1>1. Ended(b, keys, e)
  BY EndAllKeeps DEF Fits, Keeps
<1>2. Turns(e, {})
  OBVIOUS
<1>. HIDE DEF e
<1>3. Keeps(body, e)
  BY <1>1 DEF Fits, Keeps, Ended
<1>4. Apart(b, later)
  BY DEF ConditionsInv, Fits, Apart, Of
<1>5. Apart(e, later \cup {})
  BY <1>1, <1>4, EndedApart DEF Apart
<1> QED BY <1>2, <1>3, <1>5, TurnsInto

\* Nothing but a call is added.
LEMMA CallKeeps ==
  ASSUME ConditionsInv, NEW calls, Turns(body, calls)
  PROVE  ConditionsInv'
<1>1. Keeps(body, body) /\ Apart(body, later \cup calls)
  BY DEF ConditionsInv, Keeps, Apart
<1> QED BY <1>1, TurnsInto

LEMMA SameFits ==
  ASSUME ConditionsInv
  PROVE  Fits(body, body) /\ body \in Body /\ Proper(body) /\ Plain(body)
BY DEF ConditionsInv, Fits, Keeps, Proper, Plain

LEMMA GetKeeps ==
  ASSUME ConditionsInv, NEW c \in Offer, NEW delayed \in BOOLEAN, NEW longer \in BOOLEAN, Get(c, delayed, longer)
  PROVE  ConditionsInv'
<1>1. CASE c.type = "haste" /\ Live(body, "paralyze") /\ delayed
  BY <1>1, CallKeeps DEF Get
<1>2. CASE ~(c.type = "haste" /\ Live(body, "paralyze") /\ delayed)
  <2>. DEFINE e == AddCondition(body, c, delayed, longer)
  <2>1. Turns(e, {})
    BY <1>2 DEF Get
  <2>2. ~CureLater(body, c, delayed)
    BY <1>2 DEF CureLater
  <2>3. /\ Added(body, c, <<c.type, c.id>>, e)
        /\ \A calls : Apart(body, calls) =>
              Apart(e, calls \cup (IF CureLater(body, c, delayed) THEN {Cure} ELSE {}))
    BY SameFits, OfferIsOffered, AddKeeps
  <2>. HIDE DEF e
  <2>4. Keeps(body, e) /\ Apart(e, later \cup {})
    BY <2>2, <2>3 DEF Added, ConditionsInv
  <2> QED BY <2>1, <2>4, TurnsInto
<1> QED BY <1>1, <1>2

LEMMA ForceAddKeeps ==
  ASSUME ConditionsInv, NEW c \in Offer, NEW delayed \in BOOLEAN, NEW longer \in BOOLEAN, ForceAdd(c, delayed, longer)
  PROVE  ConditionsInv'
<1>. DEFINE e == AddCondition(body, c, delayed, longer)
            more == IF CureLater(body, c, delayed) THEN {Cure} ELSE {}
<1>1. body' = e /\ later' = (later \ {Add(c)}) \cup more /\ saved' = saved
  BY DEF ForceAdd
<1>2. Added(body, c, <<c.type, c.id>>, e) /\ Apart(e, later \cup more)
  BY SameFits, OfferIsOffered, AddKeeps DEF ConditionsInv
<1>. HIDE DEF e, more
<1>3. Cure # Add(c)
  <2>1. Cure.do = "cure" /\ Add(c).do = "add"
    BY DEF Cure, Add
  <2> QED BY <2>1
<1>4. Apart(e, (later \ {Add(c)}) \cup more)
  BY <1>2, <1>3 DEF Apart
<1>5. Proper(e) /\ Drift(e) = Drift(body) /\ Surplus(e) = Surplus(body)
  BY <1>2 DEF Added, Keeps
<1> QED BY <1>1, <1>4, <1>5 DEF ConditionsInv

LEMMA ForceCureKeeps ==
  ASSUME ConditionsInv, ForceCure
  PROVE  ConditionsInv'
<1>. DEFINE e == EndAll(body, Of(body, "paralyze"))
<1>1. body' = e /\ saved' = saved
  BY DEF ForceCure
<1>2. Of(body, "paralyze") \in SUBSET Present(body.conds)
  BY DEF Of, Present
<1>3. Ended(body, Of(body, "paralyze"), e)
  BY <1>2, EndAllKeeps, SameFits
<1>. HIDE DEF e
<1>4. Proper(e) /\ Drift(e) = Drift(body) /\ Surplus(e) = Surplus(body)
  BY <1>3 DEF Ended, Keeps
<1>5. \A p \in Key : p \in Of(body, "paralyze") => e.conds[p] = Nil
  BY <1>3 DEF Ended
<1>6. Of(e, "paralyze") = {}
  BY <1>3, <1>5 DEF Of, Ended
<1>7. Apart(e, later')
  BY <1>6 DEF Apart
<1> QED BY <1>1, <1>4, <1>7 DEF ConditionsInv

LEMMA RemoveKeeps ==
  ASSUME ConditionsInv, NEW k \in Key, NEW delayed \in BOOLEAN, Remove(k, delayed)
  PROVE  ConditionsInv'
<1>1. CASE k[1] = "paralyze" /\ delayed
  BY <1>1, CallKeeps DEF Remove
<1>2. CASE ~(k[1] = "paralyze" /\ delayed)
  <2>. DEFINE e == End(body, k)
  <2>1. Turns(e, {}) /\ body.conds[k] # Nil
    BY <1>2 DEF Remove
  <2>2. Keeps(body, e) /\ e.conds = [body.conds EXCEPT ![k] = Nil]
    BY <2>1, SameFits, EndKeeps
  <2>. HIDE DEF e
  <2>3. body.conds \in Conds
    BY SameFits DEF Body
  <2>4. \A j \in Key : e.conds[j] # Nil => e.conds[j] = body.conds[j]
    BY <2>2, <2>3 DEF Conds
  <2>5. Apart(e, later \cup {})
    BY <2>4 DEF ConditionsInv, Apart, Of
  <2> QED BY <2>1, <2>2, <2>5, TurnsInto
<1> QED BY <1>1, <1>2

\* The list changes, its values do not.
LEMMA ListFits ==
  ASSUME ConditionsInv, NEW conds \in Conds,
         \A k \in Key :
            /\ conds[k] = Nil <=> body.conds[k] = Nil
            /\ body.conds[k] # Nil => conds[k].value = body.conds[k].value,
         NEW e, e = [body EXCEPT !.conds = conds]
  PROVE  Keeps(body, e) /\ e.conds = conds
<1>1. body \in Body
  BY SameFits
<1>2. /\ e \in Body /\ e.conds = conds /\ Unmoved(body, e) /\ e.saddle = body.saddle
      /\ e.current = body.current /\ e.shown = body.shown
      /\ e.speed = body.speed /\ e.bonus = body.bonus /\ e.light = body.light /\ e.drunk = body.drunk
  BY <1>1 DEF Body, Unmoved
<1>3. \A t : Of(e, t) = Of(body, t)
  BY <1>2 DEF Of
<1>4. Proper(e)
  BY <1>2, <1>3, SameFits DEF Proper, Plain, Invisible, Default, Unmoved
<1>5. Drift(e) = Drift(body) /\ Surplus(e) = Surplus(body)
  <2>1. \A k \in Key :
            /\ e.conds[k] = Nil <=> body.conds[k] = Nil
            /\ body.conds[k] # Nil => e.conds[k].value = body.conds[k].value
    BY <1>2
  <2>2. e \in Body /\ e.speed - SpeedOf(e.saddle) = body.speed - SpeedOf(body.saddle) /\ e.bonus = body.bonus
    BY <1>2
  <2> QED BY <1>1, <2>1, <2>2, SameDrift
<1> QED BY <1>2, <1>4, <1>5 DEF Keeps

LEMMA DispelKeeps ==
  ASSUME ConditionsInv, NEW type \in Types, NEW delayed \in BOOLEAN, NEW exhausted \in BOOLEAN,
         Dispel(type, delayed, exhausted)
  PROVE  ConditionsInv'
<1>. DEFINE keys == {k \in Of(body, type) : k[2] \notin Slot}
            soon == [k \in Key |-> IF k \in keys THEN [body.conds[k] EXCEPT !.ever = FALSE, !.over = FALSE,
                                                                   !.revived = @ \/ body.conds[k].over]
                                   ELSE body.conds[k]]
<1>1. CASE exhausted
  <2>1. Turns([body EXCEPT !.conds = soon], {})
    BY <1>1 DEF Dispel
  <2>2. ASSUME NEW k \in keys
        PROVE  /\ k \in Key /\ body.conds[k] # Nil /\ soon[k] \in Entry
               /\ soon[k].value = body.conds[k].value /\ ~soon[k].over
               /\ soon[k].revived = (body.conds[k].revived \/ body.conds[k].over)
    <3>1. k \in Key /\ body.conds[k] \in Entry /\ body.conds[k] # Nil
      BY SameFits, BodyFacts DEF Of
    <3>2. soon[k] = [body.conds[k] EXCEPT !.ever = FALSE, !.over = FALSE,
                                          !.revived = body.conds[k].revived \/ body.conds[k].over]
      BY <3>1
    <3>. HIDE DEF soon
    <3> QED BY <3>1, <3>2 DEF Entry
  <2>3. \A k \in Key \ keys : soon[k] = body.conds[k]
    OBVIOUS
  <2>4. soon = [k \in Key |-> soon[k]]
    OBVIOUS
  <2>. HIDE DEF soon, keys
  <2>5. Nil \notin Entry
    BY ConditionsAssumption
  <2>6. soon \in Conds
    <3>1. \A k \in Key : soon[k] \in Entry \cup {Nil}
      BY <2>2, <2>3, SameFits, BodyFacts
    <3> QED BY <2>4, <3>1 DEF Conds
  <2>7. ASSUME NEW k \in Key
        PROVE  /\ soon[k] = Nil <=> body.conds[k] = Nil
               /\ body.conds[k] # Nil => soon[k].value = body.conds[k].value
               /\ body.conds[k] # Nil => (body.conds[k].revived => soon[k].revived)
               /\ body.conds[k] # Nil /\ ~soon[k].over => (~body.conds[k].over \/ soon[k].revived)
    BY <2>2, <2>3, <2>5
  <2>. DEFINE e == [body EXCEPT !.conds = soon]
  <2>8. Keeps(body, e) /\ e.conds = soon
    BY <2>6, <2>7, ListFits
  <2>. HIDE DEF e
  <2>9. Apart(e, later \cup {})
    <3>. SUFFICES ASSUME NEW h \in Of(e, "haste"), NEW p \in Of(e, "paralyze"),
                         ~e.conds[h].over, ~e.conds[p].over
                  PROVE  Cure \in later \/ e.conds[h].revived \/ e.conds[p].revived
      BY DEF Apart
    <3>1. h \in Key /\ p \in Key /\ h \in Of(body, "haste") /\ p \in Of(body, "paralyze")
      BY <2>7, <2>8 DEF Of
    <3>2. body.conds[h] # Nil /\ body.conds[p] # Nil
      BY <3>1 DEF Of
    <3>3. CASE ~body.conds[h].over /\ ~body.conds[p].over
      BY <2>7, <2>8, <3>1, <3>2, <3>3 DEF ConditionsInv, Apart
    <3>4. CASE body.conds[h].over \/ body.conds[p].over
      BY <2>7, <2>8, <3>1, <3>2, <3>4
    <3> QED BY <3>3, <3>4
  <2> QED BY <2>1, <2>8, <2>9, TurnsInto DEF e
<1>2. CASE ~exhausted /\ type = "paralyze" /\ delayed
  BY <1>2, CallKeeps DEF Dispel
<1>3. CASE ~exhausted /\ ~(type = "paralyze" /\ delayed)
  <2>1. Turns(EndAll(body, keys), {})
    BY <1>3 DEF Dispel
  <2>2. keys \in SUBSET Present(body.conds)
    BY DEF Of, Present
  <2>. HIDE DEF keys
  <2> QED BY <2>1, <2>2, SameFits, EndedInto
<1> QED BY <1>1, <1>2, <1>3

LEMMA PassKeeps ==
  ASSUME ConditionsInv, NEW k \in Key, Pass(k)
  PROVE  ConditionsInv'
<1>. DEFINE new == [body.conds[k] EXCEPT !.over = TRUE]
            conds == [body.conds EXCEPT ![k] = new]
            e == [body EXCEPT !.conds = conds]
<1>1. body \in Body /\ body.conds \in Conds /\ body.conds[k] \in Entry /\ Nil \notin Entry
  BY SameFits, BodyFacts, ConditionsAssumption DEF Pass
<1>2. new \in Entry /\ new.value = body.conds[k].value /\ new.over
  BY <1>1 DEF Entry
<1>3. Turns(e, {})
  <2>1. [body EXCEPT !.conds[k].over = TRUE] = e
    BY <1>1 DEF Body, Conds
  <2> QED BY <2>1 DEF Pass
<1>. HIDE DEF new
<1>4. conds \in Conds /\ conds[k] = new /\ \A j \in Key \ {k} : conds[j] = body.conds[j]
  BY <1>1, <1>2 DEF Conds
<1>. HIDE DEF conds
<1>5. \A j \in Key :
            /\ conds[j] = Nil <=> body.conds[j] = Nil
            /\ body.conds[j] # Nil => conds[j].value = body.conds[j].value
  BY <1>1, <1>2, <1>4
<1>6. Keeps(body, e) /\ e.conds = conds
  BY <1>4, <1>5, ListFits
<1>. HIDE DEF e
<1>7. Apart(e, later \cup {})
  BY <1>2, <1>4, <1>5, <1>6 DEF ConditionsInv, Apart, Of
<1> QED BY <1>3, <1>6, <1>7, TurnsInto

LEMMA ExecuteKeeps ==
  ASSUME ConditionsInv, NEW dim \in BOOLEAN, Execute(dim)
  PROVE  ConditionsInv'
<1>. DEFINE b == IF dim THEN [body EXCEPT !.light = @ - 1] ELSE body
            keys == {k \in Key : b.conds[k] # Nil /\ b.conds[k].over}
<1>1. Turns(EndAll(b, keys), {}) /\ (dim => Of(body, "light") # {})
  BY DEF Execute
<1>2. keys \in SUBSET Present(b.conds)
  BY DEF Present
<1>3. Fits(body, b)
  <2>1. CASE ~dim
    BY <2>1, SameFits
  <2>2. CASE dim
    <3>. DEFINE n == body.light - 1
    <3>1. body \in Body /\ n \in Int /\ b = [body EXCEPT !.light = n]
      BY <2>2, SameFits, BodyFacts DEF Body
    <3>. HIDE DEF n, b
    <3>2. /\ b \in Body /\ b.conds = body.conds /\ Unmoved(body, b) /\ b.saddle = body.saddle
          /\ b.current = body.current /\ b.shown = body.shown
          /\ b.speed = body.speed /\ b.bonus = body.bonus /\ b.drunk = body.drunk
      BY <3>1 DEF Body, Unmoved
    <3>3. \A t : Of(b, t) = Of(body, t)
      BY <3>2 DEF Of
    <3>4. Proper(b)
      BY <1>1, <2>2, <3>2, <3>3, SameFits DEF Proper, Plain, Invisible, Default, Unmoved
    <3>5. Drift(b) = Drift(body) /\ Surplus(b) = Surplus(body)
      BY <3>1, <3>2, SameDrift
    <3> QED BY <3>2, <3>4, <3>5 DEF Fits, Keeps
  <2> QED BY <2>1, <2>2
<1>. HIDE DEF b, keys
<1> QED BY <1>1, <1>2, <1>3, EndedInto

LEMMA DeathKeeps ==
  ASSUME ConditionsInv, Death
  PROVE  ConditionsInv'
<1>1. Persistent(body) \in SUBSET Present(body.conds)
  BY DEF Persistent, Present
<1> QED BY <1>1, SameFits, EndedInto DEF Death

LEMMA ToggleMountKeeps ==
  ASSUME ConditionsInv, ToggleMount
  PROVE  ConditionsInv'
<1>1. CASE IsMounted(body)
  <2>. DEFINE d == Dismount(body)
  <2>1. Turns(ChangeOutfit(d, Default(d)), {})
    BY <1>1 DEF ToggleMount
  <2>2. Restyled(body, d)
    BY <1>1, SameFits, DismountRestyles
  <2>. HIDE DEF d
  <2>3. Fits(d, ChangeOutfit(d, Default(d)))
    BY <2>2, DressedFits DEF Restyled
  <2>4. Fits(body, ChangeOutfit(d, Default(d)))
    BY <2>2, <2>3 DEF Fits, Keeps, Restyled
  <2> QED BY <2>1, <2>4, FitsInto
<1>2. CASE ~IsMounted(body)
  <2>1. PICK m \in Mounts(body) : Turns(MountUp(body, m), {})
    BY <1>2 DEF ToggleMount
  <2>2. m \in Seat
    BY SameFits, BodyFacts DEF Mounts, Seat
  <2> QED BY <2>1, <2>2, SameFits, MountUpFits, FitsInto
<1> QED BY <1>1, <1>2

LEMMA WalkKeeps ==
  ASSUME ConditionsInv, NEW pz \in BOOLEAN, Walk(pz)
  PROVE  ConditionsInv'
<1>. DEFINE b == [body EXCEPT !.pz = pz]
<1>1. b \in Body /\ SameBut(body, b) /\ b.mount = body.mount /\ b.tamed = body.tamed
  BY SameFits DEF Body, SameBut
<1>2. CASE pz
  <2>1. Turns(EnterPz(b), {})
    BY <1>2 DEF Walk
  <2>. HIDE DEF b
  <2>2. Fits(body, b)
    BY <1>1, SameFits, SameButFits DEF Plain, SameBut
  <2>3. Fits(body, EnterPz(b))
    BY <2>2, EnterPzFits, FitsTwice DEF Fits, Keeps
  <2> QED BY <2>1, <2>3, FitsInto
<1>3. CASE ~pz
  <2>1. PICK m \in (IF body.wasMounted THEN Mounts(body) ELSE {Nil}) : Turns(LeavePz(b, m), {})
    BY <1>3 DEF Walk
  <2>2. m \in Seat
    BY SameFits, BodyFacts DEF Mounts, Seat
  <2>. HIDE DEF b
  <2>3. Fits(body, b)
    BY <1>1, SameFits, SameButFits DEF Plain, SameBut
  <2>. DEFINE d == IF b.wasMounted THEN MountUp(b, m) ELSE b
              e == [d EXCEPT !.wasMounted = FALSE]
  <2>4. Fits(body, d)
    BY <2>2, <2>3, MountUpFits, FitsTwice DEF Fits, Keeps
  <2>5. LeavePz(b, m) = e
    BY DEF LeavePz
  <2>. HIDE DEF d
  <2>6. d \in Body /\ Proper(d) /\ Plain(d)
    BY <2>4 DEF Fits, Keeps, Proper, Plain
  <2>7. e \in Body /\ SameBut(d, e) /\ e.mount = d.mount /\ e.tamed = d.tamed
    BY <2>6 DEF Body, SameBut
  <2>. HIDE DEF e
  <2>8. Fits(d, e)
    BY <2>6, <2>7, SameButFits DEF Plain, SameBut
  <2> QED BY <2>1, <2>4, <2>5, <2>8, FitsTwice, FitsInto
<1> QED BY <1>2, <1>3

LEMMA SelectOutfitKeeps ==
  ASSUME ConditionsInv, NEW m \in Seat, NEW random \in BOOLEAN, SelectOutfit(m, random)
  PROVE  ConditionsInv'
<1>. DEFINE e == [Saddled(body, m) EXCEPT !.random = random]
<1>1. Turns(Dressed(e), {})
  BY DEF SelectOutfit
<1>2. Plain(e) /\ Drift(e) = Drift(body) /\ Surplus(e) = Surplus(body) /\ e.conds = body.conds
  BY SameFits, SaddledFits
<1>. HIDE DEF e
<1>3. Fits(e, Dressed(e))
  BY <1>2, DressedKeeps
<1>4. Fits(body, Dressed(e))
  BY <1>2, <1>3 DEF Fits, Keeps
<1> QED BY <1>1, <1>4, FitsInto

LEMMA TameKeeps ==
  ASSUME ConditionsInv, NEW m \in Mount, Tame(m)
  PROVE  ConditionsInv'
<1>. DEFINE more == body.tamed \cup {m}
            b == [body EXCEPT !.tamed = more]
<1>1. Turns(b, {})
  BY DEF Tame
<1>2. more \in SUBSET Mount
  BY SameFits DEF Body
<1>3. b \in Body /\ SameBut(body, b) /\ b.mount = body.mount /\ b.tamed = body.tamed \cup {m}
  BY <1>2, SameFits DEF Body, SameBut
<1>. HIDE DEF b
<1>4. Fits(body, b)
  BY <1>3, SameFits, SameButFits DEF Plain, SameBut
<1> QED BY <1>1, <1>4, FitsInto

LEMMA UntameKeeps ==
  ASSUME ConditionsInv, NEW m \in Mount, Untame(m)
  PROVE  ConditionsInv'
<1>. DEFINE less == body.tamed \ {m}
            b == [body EXCEPT !.tamed = less]
<1>1. Turns(IF b.mount # m THEN b
               ELSE [IF IsMounted(b) THEN ChangeOutfit(Dismount(b), <<"own", Nil>>) ELSE b
                       EXCEPT !.mount = Nil], {})
  BY DEF Untame
<1>2. body \in Body /\ less \in SUBSET Mount /\ Nil \in Seat
  BY SameFits DEF Body, Seat
<1>3. b \in Body /\ SameBut(body, b) /\ b.mount = body.mount /\ b.tamed = less
  BY <1>2 DEF Body, SameBut
<1>4. CASE body.mount # m
  <2>1. Turns(b, {})
    BY <1>1, <1>3, <1>4
  <2>. HIDE DEF b
  <2>2. Fits(body, b)
    BY <1>3, <1>4, SameFits, SameButFits DEF Plain, SameBut
  <2> QED BY <2>1, <2>2, FitsInto
<1>5. CASE body.mount = m /\ ~IsMounted(body)
  <2>. DEFINE e == [b EXCEPT !.mount = Nil]
  <2>1. Turns(e, {})
    BY <1>1, <1>3, <1>5 DEF IsMounted, SameBut
  <2>2. e \in Body /\ SameBut(body, e) /\ e.saddle = Nil
    BY <1>2, <1>5 DEF Body, SameBut, IsMounted
  <2>. HIDE DEF e
  <2>3. Fits(body, e)
    BY <2>2, SameFits, SameButFits
  <2> QED BY <2>1, <2>3, FitsInto
<1>6. CASE body.mount = m /\ IsMounted(body)
  <2>. DEFINE d == ChangeOutfit(Dismount(body), <<"own", Nil>>)
              e == [d EXCEPT !.tamed = less, !.mount = Nil]
  <2>1. Fits(body, d) /\ d.saddle = Nil
    BY <1>6, SameFits, DismountFits
  <2>2. d \in Body
    BY <2>1 DEF Fits, Keeps, Proper, Plain
  <2>3. [ChangeOutfit(Dismount(b), <<"own", Nil>>) EXCEPT !.mount = Nil] = e
    <3>1. Invisible(Dismount(b)) = Invisible(Dismount(body))
      BY <1>2 DEF Invisible, Of, Dismount, ChangeSpeed, Body
    <3>. DEFINE hidden == Invisible(Dismount(body))
    <3>. HIDE DEF hidden
    <3> QED BY <1>2, <3>1 DEF ChangeOutfit, Dismount, ChangeSpeed, Body
  <2>4. Turns(e, {})
    BY <1>1, <1>3, <1>6, <2>3 DEF IsMounted, SameBut
  <2>. HIDE DEF d
  <2>5. e \in Body /\ SameBut(d, e) /\ e.saddle = Nil
    BY <1>2, <2>1, <2>2 DEF Body, SameBut
  <2>. HIDE DEF e
  <2>6. Fits(d, e)
    BY <2>1, <2>5, SameButFits DEF Fits, Keeps
  <2> QED BY <2>1, <2>4, <2>6, FitsTwice, FitsInto
<1> QED BY <1>4, <1>5, <1>6

\* Without conditions there is nothing to explain.
LEMMA FreshFacts ==
  ASSUME NEW b \in Body, \A k \in Key : b.conds[k] = Nil
  PROVE  /\ \A types : Total(b, types) = 0
         /\ \A t : Of(b, t) = {}
         /\ \A calls : Apart(b, calls)
<1>1. \A t : Of(b, t) = {}
  BY DEF Of
<1>2. ASSUME NEW types PROVE Total(b, types) = 0
  <2>1. KeysOf(b, types) = {}
    BY DEF KeysOf
  <2> QED BY <2>1, TotalOfKeys, SumOfNone, BodyFacts
<1> QED BY <1>1, <1>2 DEF Apart

\* A speed nothing explains.
LEMMA FasterKeeps ==
  ASSUME NEW b, Proper(b), NEW n \in Int, NEW e, e = ChangeSpeed(b, n)
  PROVE  Proper(e) /\ Drift(e) = Drift(b) + n /\ Surplus(e) = Surplus(b) /\ e.conds = b.conds
<1>. DEFINE m == b.speed + n
<1>1. b \in Body /\ m \in Int /\ e = [b EXCEPT !.speed = m]
  BY BodyFacts DEF Proper, Plain, ChangeSpeed
<1>2. m = b.speed + n
  OBVIOUS
<1>. HIDE DEF m
<1>3. /\ e \in Body /\ e.conds = b.conds /\ Unmoved(b, e) /\ e.saddle = b.saddle
      /\ e.current = b.current /\ e.shown = b.shown
      /\ e.speed = m /\ e.bonus = b.bonus /\ e.light = b.light /\ e.drunk = b.drunk
  BY <1>1 DEF Body, Unmoved
<1>4. \A t : Of(e, t) = Of(b, t)
  BY <1>3 DEF Of
<1>5. Proper(e)
  BY <1>3, <1>4 DEF Proper, Plain, Invisible, Default, Unmoved
<1>6. ASSUME NEW types PROVE Total(e, types) = Total(b, types)
  <2>1. \A k \in Key : k[1] \in types =>
            /\ e.conds[k] = Nil <=> b.conds[k] = Nil
            /\ b.conds[k] # Nil => e.conds[k].value = b.conds[k].value
    BY <1>3
  <2> QED BY <1>1, <1>3, <2>1, TotalStays, Zenon
<1>7. Total(b, Speeds) \in Int /\ SpeedOf(b.saddle) \in Int /\ b.speed \in Int
  BY <1>1, TotalOfKeys, SpeedOfTyped, BodyFacts
<1>8. Drift(e) = Drift(b) + n
  <2>1. Drift(e) = m - Total(b, Speeds) - SpeedOf(b.saddle)
    BY <1>3, <1>6 DEF Drift
  <2> QED BY <1>2, <1>7, <2>1 DEF Drift
<1> QED BY <1>3, <1>5, <1>6, <1>8 DEF Surplus

\* The player without its conditions: the speed of its mount is not there yet.
LEMMA FreshKeeps ==
  ASSUME NEW b, Proper(b), NEW pz \in BOOLEAN, NEW e, e = Fresh(b, pz)
  PROVE  /\ Proper(e) /\ Drift(e) = -SpeedOf(b.saddle) /\ Surplus(e) = 0
         /\ e.saddle = b.saddle /\ e.current = Default(b) /\ e.tamed = b.tamed
         /\ \A k \in Key : e.conds[k] = Nil
         /\ \A calls : Apart(e, calls)
<1>1. b \in Body /\ Default(b) \in Look /\ [k \in Key |-> Nil] \in Conds
  BY DEF Proper, Plain, Body, Look, Default, Conds
<1>2. /\ e \in Body /\ e.conds = [k \in Key |-> Nil] /\ e.speed = 0 /\ e.bonus = 0 /\ e.light = 0 /\ e.drunk = 0
      /\ e.current = Default(b) /\ e.shown = Default(b) /\ e.saddle = b.saddle
      /\ e.mount = b.mount /\ e.tamed = b.tamed
  <2>. DEFINE none == [k \in Key |-> Nil]
              look == Default(b)
  <2>1. e = [b EXCEPT !.conds = none, !.speed = 0, !.bonus = 0, !.light = 0, !.drunk = 0,
                      !.current = look, !.shown = look, !.wasMounted = FALSE, !.pz = pz]
    BY DEF Fresh
  <2>2. none \in Conds /\ look \in Look
    BY <1>1
  <2>. HIDE DEF none, look
  <2>3. /\ e \in Body /\ e.conds = none /\ e.speed = 0 /\ e.bonus = 0 /\ e.light = 0 /\ e.drunk = 0
        /\ e.current = look /\ e.shown = look /\ e.saddle = b.saddle
        /\ e.mount = b.mount /\ e.tamed = b.tamed
    <3>1. e = [conds |-> none, speed |-> 0, bonus |-> 0, light |-> 0, drunk |-> 0,
               current |-> look, saddle |-> b.saddle, shown |-> look, mount |-> b.mount,
               tamed |-> b.tamed, random |-> b.random, wasMounted |-> FALSE, pz |-> pz]
      BY <1>1, <2>1 DEF Body
    <3>2. b.saddle \in Seat /\ b.mount \in Seat /\ b.tamed \in SUBSET Mount /\ b.random \in BOOLEAN
      BY <1>1 DEF Body
    <3> QED BY <2>2, <3>1, <3>2 DEF Body
  <2> QED BY <2>3 DEF none, look
<1>3. \A k \in Key : e.conds[k] = Nil
  BY <1>2
<1>4. (\A types : Total(e, types) = 0) /\ (\A t : Of(e, t) = {}) /\ (\A calls : Apart(e, calls))
  BY <1>2, <1>3, FreshFacts
<1>5. Proper(e)
  BY <1>2, <1>4 DEF Proper, Plain, Invisible, Default
<1>6. SpeedOf(b.saddle) \in Int
  BY <1>1, SpeedOfTyped, BodyFacts
<1>7. Drift(e) = -SpeedOf(b.saddle) /\ Surplus(e) = 0
  BY <1>2, <1>4, <1>6 DEF Drift, Surplus
<1> QED BY <1>2, <1>3, <1>4, <1>5, <1>7

\* A login explains the speed of the mount again, unless an outfit condition has put the
\* player off it before that speed was added: then saved says so.
LEMMA RelogKeeps ==
  ASSUME ConditionsInv, NEW pz \in BOOLEAN, Relog(pz)
  PROVE  ConditionsInv'
<1>. DEFINE b == Fresh(body, pz)
            c == AddAll(b, body, Worn(body))
            d == AddAll(c, body, Persistent(body))
            e == LoadMount(d)
            disguised == \E k \in Persistent(body) : k[1] = "outfit"
<1>1. body' = (IF pz THEN EnterPz(e) ELSE e) /\ saved' = (IsMounted(body) /\ disguised) /\ later' = later
  BY DEF Relog
<1>2. body \in Body /\ Proper(body) /\ body.saddle \in Seat /\ SpeedOf(body.saddle) \in Int
  BY SameFits, BodyFacts, SpeedOfTyped
<1>3. /\ Proper(b) /\ Drift(b) = -SpeedOf(body.saddle) /\ Surplus(b) = 0
      /\ b.saddle = body.saddle /\ b.current = Default(body) /\ b.tamed = body.tamed
      /\ \A calls : Apart(b, calls)
  BY <1>2, FreshKeeps
<1>. HIDE DEF b
<1>4. Worn(body) \in SUBSET Present(body.conds) /\ Persistent(body) \in SUBSET Present(body.conds)
  BY DEF Worn, Persistent, Present
<1>5. \A k \in Worn(body) : k[1] # "outfit"
  BY ConditionsAssumption DEF Worn, Key
<1>6. Readied(b, Worn(body), c)
  BY <1>2, <1>3, <1>4, AddAllKeeps
<1>. HIDE DEF c
<1>7. Proper(c)
  BY <1>6 DEF Readied, Keeps
<1>8. Readied(c, Persistent(body), d)
  BY <1>2, <1>4, <1>7, AddAllKeeps
<1>9. Readied(b, Worn(body) \cup Persistent(body), d)
  BY <1>6, <1>8, ReadiedAgain
<1>. HIDE DEF d, disguised
<1>10. /\ Proper(d) /\ Drift(d) = -SpeedOf(body.saddle) /\ Surplus(d) = 0 /\ d.tamed = body.tamed
       /\ \A calls : Apart(d, calls)
       /\ \/ d.saddle = body.saddle /\ d.current = Default(body)
          \/ disguised /\ d.current = <<Beast, Nil>>
  BY <1>3, <1>5, <1>9 DEF Readied, Keeps, Unmoved, disguised
<1>11. /\ Proper(e) /\ Surplus(e) = 0 /\ e.conds = d.conds
       /\ ~(IsMounted(body) /\ disguised) => Drift(e) = 0
  <2>1. CASE d.current[2] = Nil
    <3>1. e = d
      <4>1. Nil \notin d.tamed
        BY <1>10, ConditionsAssumption DEF Proper, Plain, Body
      <4> QED BY <2>1, <4>1 DEF LoadMount
    <3>2. ~(IsMounted(body) /\ disguised) => body.saddle = Nil
      BY <1>10, <2>1 DEF IsMounted, Default
    <3>3. SpeedOf(Nil) = 0
      BY DEF SpeedOf
    <3> QED BY <1>10, <3>1, <3>2, <3>3
  <2>2. CASE d.current[2] # Nil
    <3>1. d.current = Default(body) /\ d.current[2] = body.saddle
      BY <1>10, <2>2 DEF Default
    <3>2. body.saddle \in d.tamed
      BY <1>2, <1>10, <2>2, <3>1 DEF Proper, Plain
    <3>3. e = ChangeSpeed(d, SpeedOf(body.saddle))
      BY <2>2, <3>1, <3>2 DEF LoadMount
    <3>. HIDE DEF e
    <3>4. Proper(e) /\ Drift(e) = Drift(d) + SpeedOf(body.saddle) /\ Surplus(e) = Surplus(d) /\ e.conds = d.conds
      BY <1>2, <1>10, <3>3, FasterKeeps
    <3>5. Drift(e) = 0
      BY <1>2, <1>10, <3>4
    <3> QED BY <1>10, <3>4, <3>5
  <2> QED BY <2>1, <2>2
<1>. HIDE DEF e
<1>12. Fits(e, body')
  <2>1. CASE pz
    BY <1>1, <1>11, <2>1, EnterPzFits
  <2>2. CASE ~pz
    BY <1>1, <1>11, <2>2 DEF Fits, Keeps
  <2> QED BY <2>1, <2>2
<1>13. Proper(body') /\ Surplus(body') = 0 /\ (~saved' => Drift(body') = 0) /\ saved' \in BOOLEAN
  <2>1. Proper(body') /\ Surplus(body') = Surplus(e) /\ Drift(body') = Drift(e)
    BY <1>12 DEF Fits, Keeps
  <2>2. saved' \in BOOLEAN
    BY <1>1 DEF IsMounted, disguised
  <2>3. ~saved' => Drift(e) = 0
    BY <1>1, <1>11
  <2> QED BY <1>11, <2>1, <2>2, <2>3
<1>14. Apart(body', later')
  <2>1. Apart(d, later) /\ body'.conds = d.conds
    BY <1>10, <1>11, <1>12 DEF Fits
  <2> QED BY <1>1, <2>1 DEF Apart, Of
<1> QED BY <1>13, <1>14 DEF ConditionsInv

LEMMA InitKeeps == ConditionsInit => ConditionsInv
<1>. SUFFICES ASSUME ConditionsInit PROVE ConditionsInv
  OBVIOUS
<1>1. <<"own", Nil>> \in Look /\ [k \in Key |-> Nil] \in Conds /\ Nil \in Seat
  BY DEF Look, Seat, Conds
<1>2. /\ body \in Body /\ body.conds = [k \in Key |-> Nil] /\ body.speed = 0 /\ body.bonus = 0
      /\ body.light = 0 /\ body.drunk = 0
      /\ body.current = <<"own", Nil>> /\ body.shown = <<"own", Nil>> /\ body.saddle = Nil
  BY <1>1 DEF ConditionsInit, Body
<1>3. \A k \in Key : body.conds[k] = Nil
  BY <1>2
<1>4. (\A types : Total(body, types) = 0) /\ (\A t : Of(body, t) = {}) /\ (\A calls : Apart(body, calls))
  BY <1>2, <1>3, FreshFacts
<1>5. Proper(body)
  BY <1>2, <1>4 DEF Proper, Plain, Invisible, Default
<1>6. Drift(body) = 0 /\ Surplus(body) = 0
  BY <1>2, <1>4 DEF Drift, Surplus, SpeedOf
<1> QED BY <1>4, <1>5, <1>6 DEF ConditionsInv, ConditionsInit

LEMMA StepKeeps == ConditionsInv /\ [ConditionsNext]_conditionVars => ConditionsInv'
<1>. SUFFICES ASSUME ConditionsInv, [ConditionsNext]_conditionVars PROVE ConditionsInv'
  OBVIOUS
<1>1. CASE UNCHANGED conditionVars
  BY <1>1 DEF ConditionsInv, conditionVars
<1>2. ASSUME NEW c \in Offer, NEW delayed \in BOOLEAN, NEW longer \in BOOLEAN,
             Get(c, delayed, longer) \/ ForceAdd(c, delayed, longer)
      PROVE  ConditionsInv'
  BY <1>2, GetKeeps, ForceAddKeeps
<1>3. CASE ForceCure
  BY <1>3, ForceCureKeeps
<1>4. ASSUME NEW k \in Key, Pass(k) \/ \E delayed \in BOOLEAN : Remove(k, delayed)
      PROVE  ConditionsInv'
  BY <1>4, PassKeeps, RemoveKeeps
<1>5. ASSUME NEW type \in Types, NEW delayed \in BOOLEAN, NEW exhausted \in BOOLEAN, Dispel(type, delayed, exhausted)
      PROVE  ConditionsInv'
  BY <1>5, DispelKeeps
<1>6. ASSUME NEW dim \in BOOLEAN, Execute(dim) PROVE ConditionsInv'
  BY <1>6, ExecuteKeeps
<1>7. CASE Death
  BY <1>7, DeathKeeps
<1>8. CASE ToggleMount \/ \E pz \in BOOLEAN : Walk(pz)
  BY <1>8, ToggleMountKeeps, WalkKeeps
<1>9. ASSUME NEW m \in Mount, Tame(m) \/ Untame(m) PROVE ConditionsInv'
  BY <1>9, TameKeeps, UntameKeeps
<1>10. ASSUME NEW m \in Seat, NEW random \in BOOLEAN, SelectOutfit(m, random) PROVE ConditionsInv'
  BY <1>10, SelectOutfitKeeps
<1>11. ASSUME NEW pz \in BOOLEAN, Relog(pz) PROVE ConditionsInv'
  BY <1>11, RelogKeeps
<1> QED BY <1>1, <1>2, <1>3, <1>4, <1>5, <1>6, <1>7, <1>8, <1>9, <1>10, <1>11 DEF ConditionsNext, Seat

LEMMA ConditionsInvIsSound == ConditionsInv => ConditionsSound
<1>. SUFFICES ASSUME ConditionsInv PROVE ConditionsSound
  OBVIOUS
<1>1. Total(body, Speeds) \in Int /\ Total(body, {"attributes"}) \in Int /\ SpeedOf(body.saddle) \in Int
      /\ body.speed \in Int /\ body.bonus \in Int
  BY TotalOfKeys, BodyFacts, SpeedOfTyped DEF ConditionsInv, Proper, Plain
<1>2. EffectsExact
  BY <1>1 DEF ConditionsInv, Drift, Surplus, EffectsExact, Speeds
<1>3. PictureExact /\ NothingLingers
  BY DEF ConditionsInv, Proper, Plain, PictureExact, NothingLingers
<1>4. HasteEndsParalysis
  BY DEF ConditionsInv, Apart, HasteEndsParalysis
<1> QED BY <1>2, <1>3, <1>4 DEF ConditionsSound

\* Whatever order conditions come, are renewed, wait and end in, with mounts, outfits,
\* deaths and logins in between: speed, skills, light and picture are what the conditions
\* that are there and the mount make of them, and a haste and a paralysis act together only
\* while the end of the paralysis is put off.
THEOREM ConditionsAreSound == ConditionsSpec => []ConditionsSound
<1>1. ConditionsSpec => []ConditionsInv
  BY InitKeeps, StepKeeps, PTL DEF ConditionsSpec
<1> QED BY <1>1, ConditionsInvIsSound, PTL
=============================================================================
