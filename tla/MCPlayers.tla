------------------------------ MODULE MCPlayers ------------------------------
(***************************************************************************)
(* Small instances of what belongs to players: their conditions, the view  *)
(* a client has of a tile, their windows, and whom they talk to.  They     *)
(* share no state, so which says whose behaviour this is, and the others   *)
(* stay as they begin.                                                     *)
(***************************************************************************)
EXTENDS Conditions, Company, TLC

CONSTANTS horse, bear, grass, pool, puddle, fire, flames, rat, hero, guest,
  ann, ben, cid, bag, pouch, coin, None

VARIABLES which, tile, view, at, world, attribute, cast

viewVars == <<tile, view>>
windowVars == <<at, world, attribute, cast>>

Condition(type, id, ever, value) == [type |-> type, id |-> id, ever |-> ever, value |-> value]
Offers ==
  {Condition("haste", "spell", FALSE, 3), Condition("haste", "spell", FALSE, 5),
   Condition("haste", "boots", TRUE, 2),
   Condition("paralyze", "spell", FALSE, -4), Condition("paralyze", "spell", FALSE, -6),
   Condition("outfit", "spell", FALSE, 0),
   Condition("invisible", "spell", FALSE, 0), Condition("invisible", "ring", TRUE, 0),
   Condition("attributes", "spell", FALSE, 1), Condition("attributes", "spell", TRUE, 2),
   Condition("attributes", "ring", TRUE, 3),
   Condition("light", "spell", FALSE, 1), Condition("light", "spell", FALSE, 2),
   Condition("drunk", "spell", FALSE, 1), Condition("drunk", "spell", FALSE, 2),
   Condition("drunk", "spell", FALSE, 3), Condition("drunk", "potion", FALSE, 2)}
Some(types) == {c \in Offers : c.type \in types}
\* What interferes: speeds, pictures, the two of which there are several at
\* once, strengths that are saved, and a speed under a disguise.
SomeFamilies ==
  {{}, Some({"haste", "paralyze"}), Some({"outfit", "invisible"}), Some({"attributes", "light"}), Some({"drunk"}),
   {Condition("outfit", "spell", FALSE, 0), Condition("haste", "spell", FALSE, 3)}}
Speeds == (horse :> 10) @@ (bear :> 20)

\* A client that shows three things and remembers one creature.  A puddle may
\* dry and block, which is all the code asks of it.
T == INSTANCE TileView WITH Viewer <- {guest}, Staff <- {}, Ground <- {grass}, Top <- {pool, puddle},
       Down <- {fire, flames}, Order <- (pool :> 2) @@ (puddle :> 2), Splash <- {pool, puddle},
       Field <- {fire, flames}, Fixed <- {flames}, Door <- {puddle}, Person <- {hero}, Monster <- {rat},
       Limit <- 3, MaxKnown <- 1

\* A bag and a pouch of one player, a bag and a coin of two.
Cast(players, items, left) == [players |-> players, items |-> items, left |-> left]
W == INSTANCE OpenContainers WITH Player <- {ann, ben}, Item <- {bag, pouch, coin},
       Container <- {bag, pouch}, Turning <- {coin}, Tile <- {1, 3}, Limit <- 2,
       Casts <- {Cast({ann}, {bag, pouch}, 0), Cast({ann, ben}, {bag}, 0), Cast({ann, ben}, {coin}, 1)}

\* Three friends on two accounts, one of whom sees ghosts: two of them with a
\* normal channel, guilds or lists of buddies, all with private channels or a party.
Accounts == [p \in Player |-> IF p = cid THEN "second" ELSE "first"]
CompanyThemes ==
  {{ann, ben, "normal"}, {ann, ben, cid, "private"}, {ann, ben, "guild"}, {ann, ben, cid, "p1"},
   {ann, ben, "p1", "p2"}, {ann, ben, "vip"}, {ann, cid, "vip"}}

ASSUME PlayersAssumption == T!TileViewAssumption /\ W!ContainersAssumption

\* What does not move need not begin in several ways.
Init ==
  /\ which \in {"conditions", "view", "windows", "company"}
  /\ ConditionsInit /\ T!TileInit /\ W!ContainersInit /\ CompanyInit
  /\ which # "conditions" => family = {}
  /\ which # "windows" => cast.items = {coin}
  /\ which # "company" => theme = {ann, ben, "normal"}

Next ==
  \/ which = "conditions" /\ ConditionsNext /\ UNCHANGED <<which, viewVars, windowVars, companyVars>>
  \/ which = "view" /\ T!TileNext /\ UNCHANGED <<which, conditionVars, windowVars, companyVars>>
  \/ which = "windows" /\ W!ContainersNext /\ UNCHANGED <<which, conditionVars, viewVars, companyVars>>
  \/ which = "company" /\ CompanyNext /\ UNCHANGED <<which, conditionVars, viewVars, windowVars>>

Spec == Init /\ [][Next]_<<which, conditionVars, viewVars, windowVars, companyVars>>

----------------------------------------------------------------------------
(* What is checked, next to ConditionsSound and CompanySound *)

\* A client shows the things that are on a tile, in their order.  A player
\* looks into what is there, near and nobody else's, and browse fields live as
\* long as somebody counts on them.
ScreensSound == T!ViewsSound /\ W!WindowsSound
==============================================================================
