------------------------------ MODULE Conditions ------------------------------
(***************************************************************************)
(* The conditions of a player and what they do to it (condition.cpp,       *)
(* creature.cpp, player.cpp), together with its outfit and its mount, which *)
(* change the same speed and the same picture.                             *)
(*                                                                         *)
(* A condition changes something when it starts or is renewed and has to   *)
(* take exactly that back when it ends, however it ends: it is over, is    *)
(* dispelled, its item is taken off, its counterpart comes, the player     *)
(* dies.  Conditions are kept by type and id, so that there may be several *)
(* of a type.                                                              *)
(*                                                                         *)
(* Of time the model keeps what is read of it: whether the end of a        *)
(* condition has passed (it stays in the list until the next execution),   *)
(* and, where two ends are compared, either outcome.                       *)
(***************************************************************************)
EXTENDS Integers, FiniteSetsExt

CONSTANTS
  Offer,      \* conditions a player may get: [type, id, ever, value]
  Families,   \* bound: sets of offers, one of which a behaviour is about
  Slot,       \* the ids that are equipment slots
  Mount, MountSpeed,
  DefaultDrunk,   \* 25 in the code
  Beast,      \* the look of an outfit condition
  Nil

Types == {"haste", "paralyze", "attributes", "outfit", "invisible", "light", "drunk"}

\* A condition in the list of a player; see body.
Entry == [ever : BOOLEAN, over : BOOLEAN, value : Int, revived : BOOLEAN]
Key == {<<c.type, c.id>> : c \in Offer}

\* What an item gives lasts while it is worn, and is no outfit (MoveEvent::EquipItem).
ASSUME ConditionsAssumption ==
  /\ IsFiniteSet(Offer)
  /\ \A c \in Offer : /\ c.type \in Types /\ c.ever \in BOOLEAN /\ c.value \in Int
                      /\ c.id \in Slot => c.ever /\ c.type # "outfit"
  /\ Families \subseteq SUBSET Offer
  /\ MountSpeed \in [Mount -> Nat]
  /\ DefaultDrunk \in Int
  /\ Nil \notin Mount \cup Entry

VARIABLES
  body,    \* the player
  saved,   \* history: it was mounted and disguised when it logged in
  later,   \* calls of forceAddCondition and forceRemoveCondition in the scheduler
  family   \* the offers of this behaviour

\* body:
\*   conds         [Key -> a condition or Nil]: ever (ticks = -1), over, value,
\*                 revived (history: renewed after its end)
\*   speed, bonus, light, drunk
\*   current       currentOutfit: a look and a mount
\*   saddle        defaultOutfit.lookMount
\*   shown         what other clients show of it
\*   mount, tamed, random, wasMounted, pz

conditionVars == <<body, saved, later, family>>

-----------------------------------------------------------------------------
(* Who it is, what it wears *)

Of(b, type) == {k \in Key : k[1] = type /\ b.conds[k] # Nil}
Live(b, type) == \E k \in Of(b, type) : b.conds[k].ever \/ ~b.conds[k].over    \* hasCondition
Invisible(b) == Of(b, "invisible") # {}

Default(b) == <<"own", b.saddle>>
IsMounted(b) == b.saddle # Nil
SpeedOf(m) == IF m = Nil THEN 0 ELSE MountSpeed[m]

ChangeSpeed(b, delta) == [b EXCEPT !.speed = @ + delta]
\* internalCreatureChangeOutfit
ChangeOutfit(b, look) ==
  [b EXCEPT !.current = look, !.shown = IF Invisible(b) THEN @ ELSE look]
Dismount(b) == [ChangeSpeed(b, -SpeedOf(b.mount)) EXCEPT !.saddle = Nil]

-----------------------------------------------------------------------------
(* What a condition does *)

\* startCondition
Start(b, c) ==
  CASE c.type \in {"haste", "paralyze"} -> ChangeSpeed(b, c.value)
    [] c.type = "attributes" -> [b EXCEPT !.bonus = @ + c.value]
    [] c.type = "outfit" -> ChangeOutfit(b, <<Beast, Nil>>)
    [] c.type = "invisible" -> [b EXCEPT !.shown = Nil]
    [] c.type = "light" -> [b EXCEPT !.light = c.value]
    [] c.type = "drunk" -> [b EXCEPT !.drunk = c.value]

\* endCondition, when the condition has left the list
EndCondition(b, type, value) ==
  CASE type \in {"haste", "paralyze"} -> ChangeSpeed(b, -value)
    [] type = "attributes" -> [b EXCEPT !.bonus = @ - value]
    [] type = "outfit" -> ChangeOutfit(b, Default(b))
    [] type = "invisible" -> [b EXCEPT !.shown = IF Invisible(b) THEN @ ELSE b.current]
    [] type = "light" -> [b EXCEPT !.light = 0]
    [] type = "drunk" -> [b EXCEPT !.drunk = 0]

End(b, k) == EndCondition([b EXCEPT !.conds[k] = Nil], k[1], b.conds[k].value)
EndAll(b, keys) == FoldSet(LAMBDA k, e : End(e, k), b, keys)

\* updateCondition: a lasting one stays, a longer one stays.
Renews(old, c, longer) ==
  /\ old.ever => c.ever
  /\ c.ever \/ old.over \/ longer

SetTicks(b, k, c, value) ==
  [b EXCEPT !.conds[k] = [ever |-> c.ever, over |-> FALSE, value |-> value,
                          revived |-> @.revived \/ @.over]]

\* Mutant: the speed of the old one stays.
MergeAdding(b, k, old, c, longer) ==
  IF c.type \in {"haste", "paralyze"}
  THEN IF old.ever /\ ~c.ever THEN b ELSE ChangeSpeed(SetTicks(b, k, c, c.value), c.value)
  ELSE b

\* addCondition of the condition that is there.  A drunk one keeps its own
\* strength and changes the creature's.
Merge(b, k, old, c, longer) ==
  CASE c.type \in {"haste", "paralyze"} ->
         IF old.ever /\ ~c.ever THEN b
         ELSE ChangeSpeed(SetTicks(b, k, c, c.value), c.value - old.value)
    [] c.type = "drunk" ->
         IF c.value > old.value
         THEN [SetTicks(b, k, c, old.value) EXCEPT !.drunk = c.value] ELSE b
    [] c.type \in {"attributes", "outfit", "invisible", "light"} ->
         IF ~Renews(old, c, longer) THEN b
         ELSE CASE c.type = "attributes" ->
                     [SetTicks(b, k, c, c.value) EXCEPT !.bonus = @ + c.value - old.value]
                [] c.type = "outfit" -> ChangeOutfit(SetTicks(b, k, c, c.value), <<Beast, Nil>>)
                [] c.type = "invisible" -> SetTicks(b, k, c, c.value)
                [] c.type = "light" -> [SetTicks(b, k, c, c.value) EXCEPT !.light = c.value]

-----------------------------------------------------------------------------
(* Adding and removing.  "delayed" is walkDelay > 0: what is put off is a   *)
(* call for the scheduler.                                                 *)

Add(c)  == [do |-> "add", c |-> c]
Cure    == [do |-> "cure"]

\* Haste and paralysis end each other; only the latter waits.
EndCounterpart(b, type, delayed) ==
  CASE type = "paralyze" /\ Live(b, "haste") -> EndAll(b, Of(b, "haste"))
    [] type = "haste" /\ Live(b, "paralyze") /\ ~delayed -> EndAll(b, Of(b, "paralyze"))
    [] OTHER -> b

\* Player::onAddCondition
OnAddCondition(b, type, delayed) ==
  IF type = "outfit" /\ IsMounted(b) THEN Dismount(b) ELSE EndCounterpart(b, type, delayed)

\* addCondition, of one that is not put off
AddCondition(b, c, delayed, longer) ==
  LET k == <<c.type, c.id>>
      new == [ever |-> c.ever, over |-> FALSE, value |-> c.value, revived |-> FALSE]
  IN  IF b.conds[k] # Nil THEN Merge(b, k, b.conds[k], c, longer)
      ELSE OnAddCondition([Start(b, c) EXCEPT !.conds[k] = new], c.type, delayed)

CureLater(b, c, delayed) ==
  c.type = "haste" /\ delayed /\ Live(b, "paralyze") /\ b.conds[<<c.type, c.id>>] = Nil

\* At most one call of each kind is pending.
Turns(b, calls) ==
  /\ body' = b
  /\ calls \cap later = {} /\ later' = later \cup calls
  /\ UNCHANGED <<saved, family>>

Get(c, delayed, longer) ==
  /\ c \in family
  /\ IF c.type = "haste" /\ Live(body, "paralyze") /\ delayed
     THEN Turns(body, {Add(c)})
     ELSE Turns(AddCondition(body, c, delayed, longer), {})

ForceAdd(c, delayed, longer) ==
  /\ Add(c) \in later
  /\ body' = AddCondition(body, c, delayed, longer)
  /\ later' = (later \ {Add(c)}) \cup (IF CureLater(body, c, delayed) THEN {Cure} ELSE {})
  /\ Cure \in later => ~CureLater(body, c, delayed)
  /\ UNCHANGED <<saved, family>>

ForceCure ==
  /\ Cure \in later
  /\ body' = EndAll(body, Of(body, "paralyze"))
  /\ later' = later \ {Cure}
  /\ UNCHANGED <<saved, family>>

\* removeCondition by a script, or as an item is taken off
Remove(k, delayed) ==
  /\ body.conds[k] # Nil
  /\ IF k[1] = "paralyze" /\ delayed THEN Turns(body, {Cure}) ELSE Turns(End(body, k), {})

\* removeCombatCondition: what an item gives stays; a player who is exhausted
\* keeps the rest until then.
Dispel(type, delayed, exhausted) ==
  LET keys == {k \in Of(body, type) : k[2] \notin Slot}
      soon == [k \in Key |-> IF k \in keys THEN [body.conds[k] EXCEPT !.ever = FALSE, !.over = FALSE,
                                                                   !.revived = @ \/ body.conds[k].over]
                             ELSE body.conds[k]]
  IN  /\ keys # {}
      /\ CASE exhausted -> Turns([body EXCEPT !.conds = soon], {})
           [] ~exhausted /\ type = "paralyze" /\ delayed -> Turns(body, {Cure})
           [] OTHER -> Turns(EndAll(body, keys), {})

\* The end of a condition passes.
Pass(k) ==
  /\ body.conds[k] # Nil /\ ~body.conds[k].ever /\ ~body.conds[k].over
  /\ Turns([body EXCEPT !.conds[k].over = TRUE], {})

\* executeConditions: a light grows dim.
Execute(dim) ==
  /\ dim => body.light > 0 /\ Of(body, "light") # {}
  /\ \E b \in {IF dim THEN [body EXCEPT !.light = @ - 1] ELSE body} :
       Turns(EndAll(b, {k \in Key : b.conds[k] # Nil /\ b.conds[k].over}), {})

\* isPersistent
Persistent(b) == {k \in Key : b.conds[k] # Nil /\ ~b.conds[k].ever /\ k[2] \notin Slot}
Death == Turns(EndAll(body, Persistent(body)), {})

-----------------------------------------------------------------------------
(* Outfit and mount *)

\* toggleMount(true); a random mount is one of those the player has.
MountUp(b, m) ==
  IF IsMounted(b) \/ b.pz \/ b.mount = Nil \/ Live(b, "outfit") THEN b
  ELSE IF m \notin b.tamed THEN [b EXCEPT !.mount = Nil]
  ELSE LET up == [ChangeSpeed(b, SpeedOf(m)) EXCEPT !.saddle = m, !.mount = m]
       IN  ChangeOutfit(up, Default(up))
Mounts(b) == IF b.random THEN b.tamed ELSE {b.mount}

ToggleMount ==
  IF IsMounted(body)
  THEN \E b \in {Dismount(body)} : Turns(ChangeOutfit(b, Default(b)), {})
  ELSE \E m \in Mounts(body) : Turns(MountUp(body, m), {})

\* onChangeZone
EnterPz(b) ==
  IF ~IsMounted(b) THEN b
  ELSE [ChangeOutfit(Dismount(b), <<"own", Nil>>) EXCEPT !.wasMounted = TRUE]
LeavePz(b, m) == [IF b.wasMounted THEN MountUp(b, m) ELSE b EXCEPT !.wasMounted = FALSE]

Walk(pz) ==
  /\ pz # body.pz
  /\ IF pz THEN Turns(EnterPz([body EXCEPT !.pz = TRUE]), {})
     ELSE \E m \in (IF body.wasMounted THEN Mounts(body) ELSE {Nil}) :
            Turns(LeavePz([body EXCEPT !.pz = FALSE], m), {})

\* playerChangeOutfit: it may mount at once, even under an outfit condition.
Saddled(b, m) ==
  IF m \in b.tamed
  THEN [ChangeSpeed(b, SpeedOf(m) - (IF IsMounted(b) THEN SpeedOf(b.mount) ELSE 0))
          EXCEPT !.mount = m, !.saddle = m]
  ELSE [IF IsMounted(b) THEN Dismount(b) ELSE b EXCEPT !.wasMounted = FALSE]
Dressed(b) ==
  IF Live(b, "outfit") THEN b
  ELSE IF b.pz THEN EnterPz(ChangeOutfit(b, Default(b))) ELSE ChangeOutfit(b, Default(b))
SelectOutfit(m, random) ==
  \E b \in {Saddled(body, m)} : Turns(Dressed([b EXCEPT !.random = random]), {})

Tame(m) ==
  /\ m \notin body.tamed
  /\ Turns([body EXCEPT !.tamed = @ \cup {m}], {})

Untame(m) ==
  /\ m \in body.tamed
  /\ \E b \in {[body EXCEPT !.tamed = @ \ {m}]} :
       Turns(IF b.mount # m THEN b
               ELSE [IF IsMounted(b) THEN ChangeOutfit(Dismount(b), <<"own", Nil>>) ELSE b
                       EXCEPT !.mount = Nil], {})

-----------------------------------------------------------------------------
(* Logout and login *)

\* What items give comes first, then what was saved; a drunkenness is saved
\* without its strength.
Restored(k, b) == [type |-> k[1], id |-> k[2], ever |-> b.conds[k].ever,
                   value |-> IF k[1] = "drunk" THEN DefaultDrunk ELSE b.conds[k].value]
Worn(b) == {k \in Key : k[2] \in Slot /\ b.conds[k] # Nil}
AddAll(b, was, keys) ==
  FoldSet(LAMBDA k, e : AddCondition(e, Restored(k, was), FALSE, TRUE), b, keys)

\* onCreatureAppear adds the speed of the mount that is then shown.
LoadMount(b) ==
  CASE b.current[2] = Nil -> b
    [] b.current[2] \in b.tamed -> ChangeSpeed(b, SpeedOf(b.current[2]))
    [] OTHER -> ChangeOutfit([b EXCEPT !.saddle = Nil], <<"own", Nil>>)

Fresh(b, pz) ==
  [b EXCEPT !.conds = [k \in Key |-> Nil], !.speed = 0, !.bonus = 0, !.light = 0, !.drunk = 0,
            !.current = Default(b), !.shown = Default(b), !.wasMounted = FALSE, !.pz = pz]

Relog(pz) ==
  /\ \E b \in {LoadMount(AddAll(AddAll(Fresh(body, pz), body, Worn(body)), body, Persistent(body)))} :
       body' = IF pz THEN EnterPz(b) ELSE b
  /\ saved' = (IsMounted(body) /\ \E k \in Persistent(body) : k[1] = "outfit")
  /\ UNCHANGED <<later, family>>

ConditionsInit ==
  /\ body = [conds |-> [k \in Key |-> Nil], speed |-> 0, bonus |-> 0, light |-> 0, drunk |-> 0,
             current |-> <<"own", Nil>>, saddle |-> Nil, shown |-> <<"own", Nil>>,
             mount |-> Nil, tamed |-> {}, random |-> FALSE, wasMounted |-> FALSE, pz |-> FALSE]
  /\ saved = FALSE
  /\ later = {}
  /\ family \in Families

\* Bound: mounts matter where outfits do.
Dressing == \E c \in family : c.type = "outfit"

ConditionsNext ==
  \/ \E c \in Offer, delayed, longer \in BOOLEAN : Get(c, delayed, longer) \/ ForceAdd(c, delayed, longer)
  \/ ForceCure
  \/ \E k \in Key : Pass(k) \/ \E delayed \in BOOLEAN : Remove(k, delayed)
  \/ \E type \in Types, delayed, exhausted \in BOOLEAN : Dispel(type, delayed, exhausted)
  \/ \E dim \in BOOLEAN : Execute(dim)
  \/ Death
  \/ Dressing /\ (ToggleMount \/ \E pz \in BOOLEAN : Walk(pz))
  \/ Dressing /\ \E m \in Mount : Tame(m) \/ Untame(m)
  \/ Dressing /\ \E m \in Mount \cup {Nil}, random \in BOOLEAN : SelectOutfit(m, random)
  \/ \E pz \in BOOLEAN : Relog(pz)

ConditionsSpec == ConditionsInit /\ [][ConditionsNext]_conditionVars

-----------------------------------------------------------------------------
(* Properties *)

SumOf(conds, keys) == MapThenSumSet(LAMBDA k : conds[k].value, keys)
Total(b, types) == SumOf(b.conds, UNION {Of(b, t) : t \in types})

\* What haste, paralysis and the mount have done to the speed is what those that
\* are there do, and the same of skills: nothing is left of one that has ended,
\* and nothing is done twice (setSpeed, setVarSkill).  A player who logs in with
\* a mount and an outfit condition is dismounted before the speed of the mount
\* is added, and stays slower until it logs out (player.cpp 1247-1268).
EffectsExact ==
  /\ ~saved => body.speed = Total(body, {"haste", "paralyze"}) + SpeedOf(body.saddle)
  /\ body.bonus = Total(body, {"attributes"})

\* Others see the outfit the player wears now, or nothing while it is invisible.
PictureExact == body.shown = IF Invisible(body) THEN Nil ELSE body.current

\* Without a condition of its type nothing of it is left.
NothingLingers ==
  /\ Of(body, "outfit") = {} => body.current = Default(body)
  /\ Of(body, "light") = {} => body.light = 0
  /\ Of(body, "drunk") = {} => body.drunk = 0

\* A haste and a paralysis act together only while the end of the paralysis is
\* put off, or if one was renewed in the second between its end and its removal.
HasteEndsParalysis ==
  \A h \in Of(body, "haste"), p \in Of(body, "paralyze") :
    ~body.conds[h].over /\ ~body.conds[p].over =>
      Cure \in later \/ body.conds[h].revived \/ body.conds[p].revived

ConditionsSound == EffectsExact /\ PictureExact /\ NothingLingers /\ HasteEndsParalysis
=============================================================================
