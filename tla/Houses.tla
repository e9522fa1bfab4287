-------------------------------- MODULE Houses --------------------------------
(***************************************************************************)
(* A house: who owns it, who may enter, who sleeps in its beds, what lies  *)
(* on its floor, and what of all that a crash leaves behind (house.cpp,    *)
(* bed.cpp, housetile.cpp, iomapserialize.cpp, iologindata.cpp).           *)
(*                                                                         *)
(* Players are written to the database when they leave, the house when the *)
(* server saves.  The owner is written at once; what changes with it is    *)
(* not.                                                                    *)
(***************************************************************************)
EXTENDS Integers, FiniteSets

CONSTANTS
  Player, Item,
  Bed,       \* both halves of a bed are one here
  House,     \* the keeper of what lies on its floor
  Patience,  \* warnings before an owner is put out, 7 in the code
  Crashes,   \* bound: crashes of a behaviour
  Kicks,     \* bound: kicks a player has coming
  Themes,    \* bound: what a behaviour is about: players who log in, beds they use, and some
             \* of "things", "guests", "rent", "sale" and "saves"
  Named,     \* bound: the players whom lists name
  None

Keeper == Player \cup {House}
Lists == {"guests", "subowners"}

ASSUME HousesAssumption ==
  /\ Named \subseteq Player /\ Patience \in Nat /\ Crashes \in Nat /\ Kicks \in Nat
  /\ \A t \in Themes : t \subseteq Player \cup Bed \cup {"things", "guests", "rent", "sale", "saves"}
  /\ {None, House} \cap Player = {} /\ None # House /\ None \notin Bed

VARIABLES
  s,      \* the memory of the server and, as s.db, the database
  past,   \* history
  theme

\* s:
\*   phase      "down", "up", or where a save has come to: "info", "items"
\*   on, inside the players in the game, and those of them in the house
\*   owner, list, warnings
\*   paid       paidUntil is in the future
\*   sale       None, or the trade of the transfer document: from, to
\*   beds       sleeperGUID of each bed
\*   sleepers   bedSleepersMap
\*   asked      the bed of which a player is asked what to train
\*   kicks      the kicks that are on their way to each player
\*   has        what the house and the players in the game have
\*   db         owner, list, warnings, paid, beds, has, and inside: those
\*              whose login position is in the house
\* past:
\*   letters    warnings its owner has got
\*   changed    the owner has changed since the house was saved
\*   inherited  and the server crashed then
\*   doubled    players who lay down in a second bed
\*   astray     things that were not where the database has them at a crash
\*   unread     the owner was put out at the last start because it could not be loaded

housesVars == <<s, past, theme>>

-----------------------------------------------------------------------------
(* Who may enter *)

NoLists == [l \in Lists |-> {}]

\* getHouseAccessLevel
Level(w, p) ==
  IF w.owner = p THEN 3 ELSE IF p \in w.list["subowners"] THEN 2
  ELSE IF p \in w.list["guests"] THEN 1 ELSE 0
Invited(w, p) == Level(w, p) > 0

KickOutOf(w, P) == [w EXCEPT !.inside = @ \ P]

\* Mutant: whoever is in the house may stay.
SetListOnly(w, l, P) == [w EXCEPT !.list[l] = P]

SetAccessList(w, l, P) ==
  LET v == [w EXCEPT !.list[l] = P]
  IN  KickOutOf(v, {p \in v.inside : ~Invited(v, p)})

CanEdit(w, p, l) == Level(w, p) = 3 \/ (Level(w, p) = 2 /\ l = "guests")

-----------------------------------------------------------------------------
(* Beds *)

WakeUp(w, b) ==
  IF w.beds[b] = None THEN w
  ELSE [w EXCEPT !.sleepers[w.beds[b]] = None, !.beds[b] = None]

WakeAll(w) ==
  [w EXCEPT !.sleepers = [p \in Player |-> IF \E b \in Bed : w.beds[b] = p THEN None ELSE @[p]],
            !.beds = [b \in Bed |-> None]]

\* Who lies down is carried onto the bed, and kicked 50 ms later.
Sleep(w, p, b) ==
  [w EXCEPT !.beds[b] = p, !.sleepers[p] = b, !.inside = @ \cup {p}, !.kicks[p] = @ + 1]

-----------------------------------------------------------------------------
(* Owners *)

\* The inbox of the owner, or that of a copy from the database, which is saved;
\* what belongs to an owner who cannot be loaded stays in the house.
TransferToDepot(w, p, loads) ==
  IF p \in w.on THEN [w EXCEPT !.has[p] = @ \cup w.has[House], !.has[House] = {}]
  ELSE IF loads THEN [w EXCEPT !.db.has[p] = @ \cup w.has[House], !.has[House] = {}]
  ELSE w

PutOut(w, loads) ==
  LET v == KickOutOf(TransferToDepot(w, w.owner, loads), w.inside)
  IN  [WakeAll(v) EXCEPT !.list = NoLists]

\* Mutant: the warnings of the last owner count for the next.
SetOwnerWarned(w, g, loads) ==
  IF w.owner = g THEN w
  ELSE LET free == IF w.owner # None THEN PutOut(w, loads) ELSE [w EXCEPT !.paid = TRUE]
       IN  [free EXCEPT !.owner = g, !.db.owner = g]

SetOwner(w, g, loads) ==
  IF w.owner = g THEN w
  ELSE LET free == IF w.owner # None THEN PutOut(w, loads) ELSE [w EXCEPT !.paid = TRUE]
       IN  [free EXCEPT !.owner = g, !.db.owner = g, !.warnings = 0]

-----------------------------------------------------------------------------
(* Steps *)

Up == s.phase = "up"
About(t) == t \in theme
\* What a keeper has, or would have if it came.
Holding(w, k) ==
  IF k \in w.on \/ (k = House /\ w.phase # "down") THEN w.has[k] ELSE w.db.has[k]
Copies(w, i) == Cardinality({k \in Keeper : i \in Holding(w, k)})
Moved(w, k) == (w.has[k] \ w.db.has[k]) \cup (w.db.has[k] \ w.has[k])

Becomes(w) ==
  /\ s' = w
  /\ past' = IF w.owner = s.owner THEN past
             ELSE [past EXCEPT !.letters = 0, !.changed = TRUE, !.inherited = FALSE]
  /\ UNCHANGED theme

\* loadPlayer and placeCreature; onCreatureAppear wakes the player.
Login(p) ==
  /\ About(p) /\ Up /\ p \notin s.on
  /\ LET in == [s EXCEPT !.on = @ \cup {p}, !.has[p] = s.db.has[p],
                         !.inside = @ \cup {q \in {p} : p \in s.db.inside /\ Invited(s, p)}]
     IN  Becomes(IF s.sleepers[p] # None THEN WakeUp(in, s.sleepers[p]) ELSE in)

SaveAll(w, P) ==
  [w EXCEPT !.db.has = [k \in Keeper |-> IF k \in P THEN w.has[k] ELSE @[k]],
            !.db.inside = (@ \ P) \cup (P \cap w.inside)]
SavePlayer(w, p) == SaveAll(w, {p})

\* onRemoveCreature, with a save that is tried three times
Gone(w, p, saved) ==
  LET v == IF saved THEN SavePlayer(w, p) ELSE w
  IN  [v EXCEPT !.on = @ \ {p}, !.inside = @ \ {p}, !.has[p] = {}, !.asked[p] = None,
                !.sale = IF @ # None /\ p \in {@.from, @.to} THEN None ELSE @]

Forget(p, saved) ==
  /\ past' = [past EXCEPT !.astray = @ \cup IF saved THEN {} ELSE Moved(s, p)]
  /\ UNCHANGED theme

Logout(p, saved) ==
  /\ Up /\ p \in s.on
  /\ s' = Gone(s, p, saved) /\ Forget(p, saved)

\* The kick finds whoever has the id of the player by now.
KickPlayer(p, saved) ==
  /\ Up /\ s.kicks[p] > 0
  /\ LET w == [s EXCEPT !.kicks[p] = @ - 1]
     IN  IF p \in s.on THEN s' = Gone(w, p, saved) /\ Forget(p, saved)
         ELSE saved /\ s' = w /\ UNCHANGED <<past, theme>>

\* queryAdd of a house tile
WalkIn(p) ==
  /\ About("guests") /\ Up /\ p \in s.on \ s.inside /\ Invited(s, p)
  /\ Becomes([s EXCEPT !.inside = @ \cup {p}])
WalkOut(p) == Up /\ p \in s.inside /\ Becomes(KickOutOf(s, {p}))

\* house:kickPlayer
KickGuest(p, q) ==
  /\ Up /\ p \in s.on /\ q \in s.inside
  /\ Level(s, p) >= Level(s, q)
  /\ Becomes(KickOutOf(s, {q}))

UpdateHouseWindow(p, l, P) ==
  /\ About("guests") /\ Up /\ p \in s.on /\ CanEdit(s, p, l)
  /\ Becomes(SetAccessList(s, l, P))

\* A bed that is taken is free again when the owner uses it.
UseBed(p, b) ==
  /\ About(b) /\ Up /\ p \in s.on
  /\ s.beds[b] # None => Level(s, p) = 3 \/ Level(s, s.beds[b]) <= Level(s, p)
  /\ IF s.beds[b] # None THEN s.owner = p /\ Becomes(WakeUp(s, b))
     ELSE Becomes([s EXCEPT !.asked[p] = b])

AnswerModalWindow(p, train) ==
  LET b == s.asked[p]
      w == [s EXCEPT !.asked[p] = None]
  IN  /\ Up /\ b # None
      /\ IF train /\ s.beds[b] = None
         THEN /\ s.kicks[p] < Kicks
              /\ s' = Sleep(w, p, b)
              /\ past' = [past EXCEPT !.doubled = @ \cup {q \in {p} : \E c \in Bed : s.beds[c] = p}]
              /\ UNCHANGED theme
         ELSE Becomes(w)

-----------------------------------------------------------------------------
(* Things and owners *)

Take(p, i) ==
  /\ About("things") /\ Up /\ p \in s.on /\ Invited(s, p) /\ i \in s.has[House]
  /\ Becomes([s EXCEPT !.has[House] = @ \ {i}, !.has[p] = @ \cup {i}])
PutDown(p, i) ==
  /\ About("things") /\ Up /\ p \in s.on /\ Invited(s, p) /\ i \in s.has[p]
  /\ Becomes([s EXCEPT !.has[p] = @ \ {i}, !.has[House] = @ \cup {i}])
Give(p, q, i) ==
  /\ About("things") /\ Up /\ {p, q} \subseteq s.on /\ p # q /\ i \in s.has[p]
  /\ Becomes([s EXCEPT !.has[p] = @ \ {i}, !.has[q] = @ \cup {i}])

\* house:setOwnerGuid, of the scripts that sell, clear and auction houses
SetOwnerGuid(g, loads) == Up /\ g # s.owner /\ Becomes(SetOwner(s, g, loads))

StartTrade(p, q) ==
  /\ About("sale") /\ Up /\ {p, q} \subseteq s.on /\ p # q
  /\ s.owner = p /\ s.sale = None
  /\ Becomes([s EXCEPT !.sale = [from |-> p, to |-> q]])
\* executeTransfer does not ask whose house it is by now.
Transfer(loads) ==
  Up /\ s.sale # None /\ Becomes([SetOwner(s, s.sale.to, loads) EXCEPT !.sale = None])
CancelTrade == Up /\ s.sale # None /\ Becomes([s EXCEPT !.sale = None])

-----------------------------------------------------------------------------
(* Saving, crashing and starting *)

SavedInfo(w) == [w.db EXCEPT !.owner = w.owner, !.list = w.list, !.warnings = w.warnings, !.paid = w.paid]
SavedItems(w) == [w.db EXCEPT !.has[House] = w.has[House], !.beds = w.beds]

\* saveGameState goes on whomever it could not save.
SavePlayers(P) ==
  /\ About("saves") /\ Up /\ P \subseteq s.on
  /\ Becomes([SaveAll(s, P) EXCEPT !.phase = "info"])
SaveHouseInfo(saved) ==
  /\ s.phase = "info"
  /\ IF saved
     THEN /\ s' = [s EXCEPT !.phase = "items", !.db = SavedInfo(s)]
          /\ past' = [past EXCEPT !.changed = FALSE] /\ UNCHANGED theme
     ELSE Becomes([s EXCEPT !.phase = "up"])
SaveHouseItems(saved) ==
  /\ s.phase = "items"
  /\ Becomes([s EXCEPT !.phase = "up", !.db = IF saved THEN SavedItems(s) ELSE @])

SaveHouse == About("saves") /\ Up /\ Becomes([s EXCEPT !.db = SavedItems(s)])
PlayerSave(p) == About("saves") /\ Up /\ p \in s.on /\ Becomes(SavePlayer(s, p))

Down(d) ==
  [phase |-> "down", on |-> {}, inside |-> {}, owner |-> d.owner, list |-> NoLists,
   warnings |-> 0, paid |-> TRUE, sale |-> None, beds |-> [b \in Bed |-> None],
   sleepers |-> [p \in Player |-> None], asked |-> [p \in Player |-> None],
   kicks |-> [p \in Player |-> 0], has |-> [k \in Keeper |-> {}], db |-> d]

Crash ==
  /\ About("saves") /\ s.phase # "down" /\ past.crashes < Crashes
  /\ s' = Down(s.db)
  /\ past' = [past EXCEPT !.crashes = @ + 1, !.doubled = {}, !.inherited = @ \/ past.changed,
                          !.astray = @ \cup UNION {Moved(s, k) : k \in s.on \cup {House}}]
  /\ UNCHANGED theme

\* A shutdown puts everybody out of the game and saves the house.
Stop ==
  /\ Up
  /\ LET w == SaveAll(s, s.on)
     IN  s' = Down(SavedItems([w EXCEPT !.db = SavedInfo(w)]))
  /\ past' = [past EXCEPT !.changed = FALSE]
  /\ UNCHANGED theme

\* loadHouseInfo and loadHouseItems; of two beds with one sleeper the map has one.
Loaded(b) ==
  [Down(s.db) EXCEPT
    !.phase = "up", !.list = s.db.list, !.warnings = s.db.warnings,
    !.beds = s.db.beds, !.has[House] = s.db.has[House],
    !.sleepers = [p \in Player |-> LET B == {c \in Bed : s.db.beds[c] = p}
                                   IN  IF B = {} THEN None ELSE IF b \in B THEN b
                                       ELSE CHOOSE c \in B : TRUE]]

\* Rent that is not paid costs a letter each time the server starts, then the
\* house.  An owner who cannot be loaded loses it at once; its goods follow if
\* the second attempt, that of transferToDepot, loads it.
PayHouses(w, due, rich, found, loads) ==
  IF w.owner = None \/ ~due THEN [w EXCEPT !.paid = ~due]
  ELSE IF ~found THEN [SetOwner(w, None, loads) EXCEPT !.paid = FALSE]
  ELSE IF rich THEN [w EXCEPT !.paid = TRUE]
  ELSE IF w.warnings < Patience THEN [w EXCEPT !.paid = FALSE, !.warnings = @ + 1]
  ELSE [SetOwner(w, None, TRUE) EXCEPT !.paid = FALSE]

StartServer(b, late, rich, found, loads) ==
  /\ s.phase = "down" /\ (late => About("rent"))
  /\ LET w == PayHouses(Loaded(b), ~s.db.paid \/ late, rich, found, loads)
     IN  /\ s' = w
         /\ past' = [past EXCEPT
              !.doubled = {p \in Player : \E c, e \in Bed : c # e /\ s.db.beds[c] = p /\ s.db.beds[e] = p},
              !.letters = IF w.owner # s.owner THEN 0 ELSE IF w.warnings > s.db.warnings THEN @ + 1 ELSE @,
              !.changed = @ \/ w.owner # s.owner,
              !.inherited = @ /\ w.owner = s.owner,
              !.unread = ~found /\ w.owner # s.owner]
  /\ UNCHANGED theme

HousesInit ==
  /\ theme \in Themes
  /\ \E has \in [Item -> IF About("things") THEN Keeper ELSE {House}] :
       s = Down([owner |-> None, list |-> NoLists, warnings |-> 0, paid |-> TRUE, inside |-> {},
                 beds |-> [b \in Bed |-> None], has |-> [k \in Keeper |-> {i \in Item : has[i] = k}]])
  /\ past = [letters |-> 0, changed |-> FALSE, inherited |-> FALSE, doubled |-> {},
             astray |-> {}, crashes |-> 0, unread |-> FALSE]

HousesNext ==
  \/ \E p \in Player :
       \/ Login(p) \/ WalkIn(p) \/ WalkOut(p) \/ PlayerSave(p)
       \/ \E saved \in BOOLEAN : Logout(p, saved) \/ KickPlayer(p, saved)
       \/ \E l \in Lists, P \in SUBSET Named : UpdateHouseWindow(p, l, P)
       \/ \E b \in Bed : UseBed(p, b)
       \/ \E train \in BOOLEAN : AnswerModalWindow(p, train)
       \/ \E i \in Item : Take(p, i) \/ PutDown(p, i)
       \/ \E q \in Player : KickGuest(p, q) \/ StartTrade(p, q) \/ \E i \in Item : Give(p, q, i)
  \/ \E g \in Player \cup {None}, loads \in BOOLEAN : SetOwnerGuid(g, loads)
  \/ \E loads \in BOOLEAN : Transfer(loads)
  \/ CancelTrade \/ SaveHouse \/ Crash \/ Stop
  \/ \E P \in SUBSET Player : SavePlayers(P)
  \/ \E saved \in BOOLEAN : SaveHouseInfo(saved) \/ SaveHouseItems(saved)
  \/ \E b \in Bed, late, rich, found, loads \in BOOLEAN : StartServer(b, late, rich, found, loads)

HousesSpec == HousesInit /\ [][HousesNext]_housesVars

-----------------------------------------------------------------------------
(* What is checked *)

\* Whoever is in the house is invited, but for one who answered the question
\* of a bed after being put out: the bed took it in, and it is to be kicked.
InsideInvited ==
  \A p \in s.inside : Invited(s, p) \/ s.kicks[p] > 0

\* A sleeper is found by its login, which frees its bed, unless it lay down
\* twice in the 50 ms in which it could: the map knows one bed of a player.
BedsAgree ==
  s.phase # "down" =>
    /\ \A p \in Player : s.sleepers[p] # None => s.beds[s.sleepers[p]] = p
    /\ \A b \in Bed : LET p == s.beds[b]
                      IN  p \notin past.doubled \cup {None} =>
                            s.sleepers[p] = b /\ (p \in s.on => s.kicks[p] > 0)

\* The database has the owner at any time.
OwnerKept == s.db.owner = s.owner

\* Every thing is somewhere once, whoever moved it, kept it, was put out of
\* the house or left: a crash, or a player who cannot be saved, loses or
\* doubles only what was not yet where the database has it.
ThingsKept == \A i \in Item \ past.astray : Copies(s, i) = 1

HousesSound == InsideInvited /\ BedsAgree /\ OwnerKept /\ ThingsKept

\* An owner who is in the database loses no house over rent without all the
\* letters, except one who came after the last save before a crash: the warnings
\* of the one before are loaded for it.  One who cannot be loaded has lost it
\* without a letter (house.cpp:652).
PutOutAfterLetters ==
  [][s.phase = "down" /\ s'.owner # s.owner =>
       past.letters >= Patience \/ past.inherited \/ past'.unread]_housesVars
==============================================================================
