---------------------------- MODULE TimersProofs ----------------------------
(***************************************************************************)
(* Proofs about events that come again in the scheduler: the rounds of     *)
(* GlobalEvents, the checks of Spawns, the chains of Raids and Walk and    *)
(* the retries of Services, for any number of events, blocks, monsters,    *)
(* raids, steps and ports.                                                 *)
(***************************************************************************)
EXTENDS Spawns, GlobalEvents, Raids, Walk, Services, FiniteSetTheorems, WellFoundedInduction, TLAPS

-----------------------------------------------------------------------------
(* Numbers that are free *)

\* One number more than there are elements cannot all be among them.
LEMMA NumberFree ==
  ASSUME NEW T, IsFiniteSet(T), NEW m \in Nat, m > Cardinality(T)
  PROVE  \E n \in 1..m : n \notin T
<1>. SUFFICES ASSUME 1..m \subseteq T PROVE FALSE
  OBVIOUS
<1>1. Cardinality(1..m) = m
  BY FS_Interval
<1>2. Cardinality(1..m) <= Cardinality(T) /\ Cardinality(T) \in Nat
  BY FS_Subset, FS_CardinalityType
<1> QED BY <1>1, <1>2

\* With 0 among the elements, as many numbers are enough.
LEMMA PositiveNumberFree ==
  ASSUME NEW T, IsFiniteSet(T), 0 \in T
  PROVE  \E n \in 1..Cardinality(T) : n \notin T
<1>1. /\ IsFiniteSet(T \ {0}) /\ Cardinality(T \ {0}) = Cardinality(T) - 1
      /\ Cardinality(T) \in Nat
  BY FS_RemoveElement, FS_CardinalityType
<1>2. \E n \in 1..Cardinality(T) : n \notin T \ {0}
  BY <1>1, NumberFree
<1> QED BY <1>2

LEMMA IdsFinite ==
  ASSUME NEW S, IsFiniteSet(S)
  PROVE  IsFiniteSet({e.id : e \in S})
<1>. DEFINE f == [e \in S |-> e.id]
<1>1. f \in Surjection(S, {e.id : e \in S})
  BY DEF Surjection
<1> QED BY <1>1, FS_Surjection

\* Taking the elements of A out of S, but for those of B.
LEMMA CardinalityWithout ==
  ASSUME NEW S, IsFiniteSet(S), NEW A, A \subseteq S, NEW B, B \subseteq A
  PROVE  /\ IsFiniteSet(S \ (A \ B)) /\ IsFiniteSet(B)
         /\ Cardinality(S) \in Nat /\ Cardinality(B) \in Nat
         /\ Cardinality(S \ (A \ B)) \in Nat
         /\ Cardinality(S \ (A \ B)) <= Cardinality(S)
         /\ A # {} => Cardinality(S \ (A \ B)) < Cardinality(S) + Cardinality(B)
         /\ A = {} => Cardinality(B) = 0
<1>1. IsFiniteSet(A) /\ IsFiniteSet(B) /\ IsFiniteSet(A \ B) /\ IsFiniteSet(S \ (A \ B))
  BY FS_Subset
<1>2. /\ Cardinality(S) \in Nat /\ Cardinality(A) \in Nat /\ Cardinality(B) \in Nat
      /\ Cardinality(A \ B) \in Nat /\ Cardinality(S \ (A \ B)) \in Nat
  BY <1>1, FS_CardinalityType
<1>3. Cardinality(A \ B) = Cardinality(A) - Cardinality(B)
  BY <1>1, FS_Difference, A \cap B = B
<1>4. Cardinality(S \ (A \ B)) = Cardinality(S) - Cardinality(A \ B)
  BY <1>1, FS_Difference, S \cap (A \ B) = A \ B
<1>5. /\ A # {} => Cardinality(A) # 0
      /\ A = {} => Cardinality(A) = 0 /\ Cardinality(B) = 0
  BY <1>1, FS_EmptySet
<1> QED BY <1>1, <1>2, <1>3, <1>4, <1>5

LEMMA CardinalityWith ==
  ASSUME NEW S, IsFiniteSet(S), NEW e
  PROVE  /\ IsFiniteSet(S \cup {e})
         /\ Cardinality(S) \in Nat /\ Cardinality(S \cup {e}) \in Nat
         /\ Cardinality(S \cup {e}) <= Cardinality(S) + 1
<1>1. IsFiniteSet(S \cup {e})
  BY FS_AddElement
<1>2. Cardinality(S) \in Nat /\ Cardinality(S \cup {e}) \in Nat
  BY <1>1, FS_CardinalityType
<1>3. Cardinality(S \cup {e}) = IF e \in S THEN Cardinality(S) ELSE Cardinality(S) + 1
  BY FS_AddElement
<1> QED BY <1>1, <1>2, <1>3

LEMMA PairFinite ==
  ASSUME NEW a, NEW b
  PROVE  IsFiniteSet({a, b})
<1>1. IsFiniteSet({} \cup {a})
  BY FS_EmptySet, FS_AddElement
<1>2. IsFiniteSet(({} \cup {a}) \cup {b})
  BY <1>1, FS_AddElement
<1>3. {a, b} = ({} \cup {a}) \cup {b}
  OBVIOUS
<1> QED BY <1>2, <1>3

-----------------------------------------------------------------------------
(***************************************************************************)
(* GlobalEvents.  A kind has one round more than there were late stops     *)
(* only as long as one of its rounds is the remembered one: that is what   *)
(* the next clear stops.                                                   *)
(***************************************************************************)

Remembered(k, s, id) == \E e \in ScheduledOf(k, s) : e.id = id

OnlyRemembered(k, s, id, n) ==
  Cardinality(ScheduledOf(k, s)) <= n + (IF Remembered(k, s, id) THEN 1 ELSE 0)

AnyRound == [kind : EventKind, id : Nat \ {0}]

GlobalInv ==
  /\ GlobalTypeOK
  /\ late \in [EventKind -> Nat] /\ IsFiniteSet(scheduled)
  /\ \A k \in EventKind : OnlyRemembered(k, scheduled, eventIds[k], late[k])
  /\ Waited

LEMMA ScheduledFinite ==
  ASSUME NEW s, IsFiniteSet(s), NEW k
  PROVE  IsFiniteSet(ScheduledOf(k, s)) /\ Cardinality(ScheduledOf(k, s)) \in Nat
<1>1. IsFiniteSet(ScheduledOf(k, s))
  BY FS_Subset DEF ScheduledOf
<1> QED BY <1>1, FS_CardinalityType

\* The id of a new round is a number and not remembered.
LEMMA FreshRoundIsNew ==
  ASSUME NEW s, IsFiniteSet(s), NEW k
  PROVE  FreshRoundId(k, s) \in Nat \ {0}
<1>. DEFINE taken == {e.id : e \in ScheduledOf(k, s)} \cup {0, eventIds[k]}
<1>1. IsFiniteSet({e.id : e \in ScheduledOf(k, s)})
  BY ScheduledFinite, IdsFinite
<1>2. IsFiniteSet({e.id : e \in ScheduledOf(k, s)} \cup {0})
  BY <1>1, FS_AddElement
<1>3. IsFiniteSet(taken) /\ 0 \in taken
  <2>1. taken = ({e.id : e \in ScheduledOf(k, s)} \cup {0}) \cup {eventIds[k]}
    OBVIOUS
  <2>2. IsFiniteSet(({e.id : e \in ScheduledOf(k, s)} \cup {0}) \cup {eventIds[k]})
    BY <1>2, FS_AddElement
  <2> QED BY <2>1, <2>2
<1>4. \E n \in 1..Cardinality(taken) : n \notin taken
  BY <1>3, PositiveNumberFree
<1>5. Cardinality(taken) \in Nat
  BY <1>3, FS_CardinalityType
<1>6. FreshRoundId(k, s) \in 1..Cardinality(taken)
  BY <1>4 DEF FreshRoundId
<1> QED BY <1>5, <1>6

\* A kind gets a new round and remembers it.
LEMMA RoundAdded ==
  ASSUME NEW s, IsFiniteSet(s), NEW k, NEW id, NEW n \in Nat,
         Cardinality(ScheduledOf(k, s)) <= n
  PROVE  OnlyRemembered(k, s \cup {[kind |-> k, id |-> id]}, id, n)
<1>. DEFINE e == [kind |-> k, id |-> id]
<1>1. ScheduledOf(k, s \cup {e}) = ScheduledOf(k, s) \cup {e}
  BY DEF ScheduledOf
<1>2. Remembered(k, s \cup {e}, id)
  <2>1. e \in ScheduledOf(k, s \cup {e}) /\ e.id = id
    BY DEF ScheduledOf
  <2> QED BY <2>1 DEF Remembered
<1>3. /\ Cardinality(ScheduledOf(k, s)) \in Nat
      /\ Cardinality(ScheduledOf(k, s) \cup {e}) <= Cardinality(ScheduledOf(k, s)) + 1
      /\ Cardinality(ScheduledOf(k, s) \cup {e}) \in Nat
  <2>1. IsFiniteSet(ScheduledOf(k, s))
    BY ScheduledFinite
  <2> QED BY <2>1, CardinalityWith
<1> QED BY <1>1, <1>2, <1>3 DEF OnlyRemembered

\* Register starts a round for each kind of Starting and no other.
LEMMA RegisterKeeps ==
  ASSUME NEW s, NEW new, NEW ids \in [EventKind -> Nat], NEW n \in [EventKind -> Nat],
         IsFiniteSet(s), s \subseteq AnyRound,
         \A k \in EventKind : OnlyRemembered(k, s, ids[k], n[k]),
         Register(new, s, ids)
  PROVE  /\ IsFiniteSet(scheduled') /\ scheduled' \subseteq AnyRound
         /\ eventIds' \in [EventKind -> Nat]
         /\ \A k \in EventKind : OnlyRemembered(k, scheduled', eventIds'[k], n[k])
         /\ s \subseteq scheduled'
         /\ \A k \in Starting(new, ids) : ScheduledOf(k, scheduled') # {}
<1>. DEFINE starting == Starting(new, ids)
            added == {[kind |-> k, id |-> FreshRoundId(k, s)] : k \in starting}
<1>1. /\ scheduled' = s \cup added
      /\ eventIds' = [k \in EventKind |-> IF k \in starting THEN FreshRoundId(k, s) ELSE ids[k]]
  BY DEF Register
<1>2. starting \subseteq EventKind
  BY DEF Starting
<1>3. \A k \in EventKind : FreshRoundId(k, s) \in Nat \ {0}
  BY FreshRoundIsNew
<1>4. IsFiniteSet(added)
  <2>1. IsFiniteSet(EventKind)
    BY PairFinite DEF EventKind
  <2>2. IsFiniteSet(starting)
    BY <1>2, <2>1, FS_Subset
  <2>. DEFINE f == [k \in starting |-> [kind |-> k, id |-> FreshRoundId(k, s)]]
  <2>3. f \in Surjection(starting, added)
    BY DEF Surjection
  <2> QED BY <2>2, <2>3, FS_Surjection
<1>5. IsFiniteSet(scheduled')
  BY <1>1, <1>4, FS_Union
<1>6. scheduled' \subseteq AnyRound /\ eventIds' \in [EventKind -> Nat]
  BY <1>1, <1>2, <1>3 DEF AnyRound
<1>7. ASSUME NEW k \in EventKind
      PROVE  OnlyRemembered(k, scheduled', eventIds'[k], n[k])
  <2>1. CASE k \in starting
    <3>1. ScheduledOf(k, scheduled') = ScheduledOf(k, s \cup {[kind |-> k, id |-> FreshRoundId(k, s)]})
      BY <1>1, <2>1 DEF ScheduledOf
    <3>2. eventIds'[k] = FreshRoundId(k, s)
      BY <1>1, <2>1
    <3>3. ids[k] = 0
      BY <2>1 DEF Starting
    <3>4. ~Remembered(k, s, ids[k])
      BY <3>3 DEF Remembered, ScheduledOf, AnyRound
    <3>5. Cardinality(ScheduledOf(k, s)) <= n[k]
      BY <3>4, ScheduledFinite DEF OnlyRemembered
    <3>6. OnlyRemembered(k, s \cup {[kind |-> k, id |-> FreshRoundId(k, s)]}, FreshRoundId(k, s), n[k])
      BY <3>5, RoundAdded
    <3> QED BY <3>1, <3>2, <3>6 DEF OnlyRemembered, Remembered
  <2>2. CASE k \notin starting
    <3>1. ScheduledOf(k, scheduled') = ScheduledOf(k, s)
      BY <1>1, <2>2 DEF ScheduledOf
    <3>2. eventIds'[k] = ids[k]
      BY <1>1, <2>2
    <3> QED BY <3>1, <3>2 DEF OnlyRemembered, Remembered
  <2> QED BY <2>1, <2>2
<1>8. s \subseteq scheduled' /\ \A k \in starting : ScheduledOf(k, scheduled') # {}
  <2>1. s \subseteq scheduled'
    BY <1>1
  <2>2. ASSUME NEW k \in starting
        PROVE  ScheduledOf(k, scheduled') # {}
    <3>1. [kind |-> k, id |-> FreshRoundId(k, s)] \in scheduled'
      BY <1>1
    <3> QED BY <3>1 DEF ScheduledOf
  <2> QED BY <2>1, <2>2
<1> QED BY <1>5, <1>6, <1>7, <1>8

LEMMA RegisterEventKeeps ==
  ASSUME GlobalInv, NEW e \in Timer \cup Think, RegisterEvent(e)
  PROVE  GlobalInv'
<1>. USE DEF GlobalInv, GlobalTypeOK
<1>1. /\ IsFiniteSet(scheduled') /\ scheduled' \subseteq AnyRound
      /\ eventIds' \in [EventKind -> Nat]
      /\ \A k \in EventKind : OnlyRemembered(k, scheduled', eventIds'[k], late[k])
      /\ scheduled \subseteq scheduled'
      /\ \A k \in Starting({e}, eventIds) : ScheduledOf(k, scheduled') # {}
  <2>1. Register({e}, scheduled, eventIds) /\ scheduled \subseteq AnyRound
    BY DEF RegisterEvent, AnyRound
  <2>2. eventIds \in [EventKind -> Nat] /\ late \in [EventKind -> Nat] /\ IsFiniteSet(scheduled)
    OBVIOUS
  <2>3. \A k \in EventKind : OnlyRemembered(k, scheduled, eventIds[k], late[k])
    OBVIOUS
  <2> QED BY <2>1, <2>2, <2>3, RegisterKeeps
<1>2. late' = late /\ left \subseteq left' /\ left' \subseteq EventKind
  BY DEF RegisterEvent
<1>3. \A k \in EventKind : OnlyRemembered(k, scheduled', eventIds'[k], late'[k])
  BY <1>1, <1>2
<1>4. Waited'
  <2>. SUFFICES ASSUME NEW k \in EventKind \ left', map' \cap OfKind(k) # {}
                PROVE  ScheduledOf(k, scheduled') # {}
    BY DEF Waited, OfKind
  <2>1. CASE ScheduledOf(k, scheduled) # {}
    BY <2>1, <1>1 DEF ScheduledOf
  <2>2. CASE ScheduledOf(k, scheduled) = {}
    <3>1. map \cap OfKind(k) = {}
      BY <1>2, <2>2 DEF Waited
    <3>2. e \in OfKind(k)
      BY <3>1 DEF RegisterEvent
    <3>3. eventIds[k] = 0
      BY <3>2, <2>2 DEF RegisterEvent
    <3> QED BY <3>2, <3>3, <1>1 DEF Starting
  <2> QED BY <2>1, <2>2
<1> QED BY <1>1, <1>2, <1>3, <1>4 DEF AnyRound, RegisterEvent

LEMMA RoundKeeps ==
  ASSUME GlobalInv, NEW e \in scheduled, Round(e)
  PROVE  GlobalInv'
<1>. USE DEF GlobalInv, GlobalTypeOK
<1>. DEFINE k == e.kind
            rest == scheduled \ {e}
            new == [kind |-> k, id |-> FreshRoundId(k, scheduled)]
<1>1. PICK failed \in SUBSET (map \cap OfKind(k)) :
        /\ map' = map \ failed
        /\ \/ /\ (map \ failed) \cap OfKind(k) # {}
              /\ scheduled' = rest \cup {new}
              /\ eventIds' = [eventIds EXCEPT ![k] = FreshRoundId(k, scheduled)]
           \/ /\ (map \ failed) \cap OfKind(k) = {}
              /\ scheduled' = rest /\ eventIds' = eventIds
  BY DEF Round
<1>2. late' = late /\ left' = left
  BY DEF Round
<1>3. k \in EventKind /\ e \in ScheduledOf(k, scheduled) /\ FreshRoundId(k, scheduled) \in Nat \ {0}
  BY FreshRoundIsNew DEF ScheduledOf
<1>4. IsFiniteSet(rest) /\ IsFiniteSet(scheduled')
  BY <1>1, FS_RemoveElement, FS_AddElement
<1>5. scheduled' \subseteq AnyRound /\ eventIds' \in [EventKind -> Nat] /\ map' \subseteq Timer \cup Think
  BY <1>1, <1>3 DEF AnyRound
<1>6. \A j \in EventKind \ {k} : ScheduledOf(j, scheduled') = ScheduledOf(j, scheduled) /\ eventIds'[j] = eventIds[j]
  BY <1>1 DEF ScheduledOf
<1>7. Cardinality(ScheduledOf(k, rest)) <= late[k]
  <2>1. ScheduledOf(k, rest) = ScheduledOf(k, scheduled) \ {e}
    BY DEF ScheduledOf
  <2>2. IsFiniteSet(ScheduledOf(k, scheduled)) /\ Cardinality(ScheduledOf(k, scheduled)) \in Nat
    BY ScheduledFinite
  <2>3. Cardinality(ScheduledOf(k, scheduled) \ {e}) = Cardinality(ScheduledOf(k, scheduled)) - 1
    BY <1>3, <2>2, FS_RemoveElement
  <2>4. Cardinality(ScheduledOf(k, scheduled)) <= late[k] + 1 /\ late[k] \in Nat
    BY <1>3, <2>2 DEF OnlyRemembered
  <2>5. Cardinality(ScheduledOf(k, scheduled)) - 1 <= late[k]
    BY <2>2, <2>4
  <2>6. Cardinality(ScheduledOf(k, rest)) = Cardinality(ScheduledOf(k, scheduled)) - 1
    BY <2>1, <2>3
  <2> QED BY <2>5, <2>6
<1>8. OnlyRemembered(k, scheduled', eventIds'[k], late[k])
  <2>1. CASE scheduled' = rest \cup {new} /\ eventIds' = [eventIds EXCEPT ![k] = FreshRoundId(k, scheduled)]
    <3>1. eventIds'[k] = FreshRoundId(k, scheduled)
      BY <2>1, <1>3
    <3>2. late[k] \in Nat
      BY <1>3
    <3>3. OnlyRemembered(k, rest \cup {new}, FreshRoundId(k, scheduled), late[k])
      BY <3>2, <1>4, <1>7, RoundAdded
    <3> QED BY <2>1, <3>1, <3>3
  <2>2. CASE scheduled' = rest
    <3>1. late[k] \in Nat /\ Cardinality(ScheduledOf(k, rest)) \in Nat
      BY <1>3, <1>4, ScheduledFinite
    <3> QED BY <2>2, <3>1, <1>7 DEF OnlyRemembered
  <2> QED BY <1>1, <2>1, <2>2
<1>9. \A j \in EventKind : OnlyRemembered(j, scheduled', eventIds'[j], late'[j])
  BY <1>2, <1>6, <1>8 DEF OnlyRemembered, Remembered
<1>10. Waited'
  <2>. SUFFICES ASSUME NEW j \in EventKind \ left', map' \cap OfKind(j) # {}
                PROVE  ScheduledOf(j, scheduled') # {}
    BY DEF Waited, OfKind
  <2>1. CASE j = k
    <3>1. new \in scheduled'
      BY <1>1, <2>1
    <3>2. new.kind = k
      OBVIOUS
    <3> QED BY <2>1, <3>1, <3>2 DEF ScheduledOf
  <2>2. CASE j # k
    BY <1>1, <1>2, <1>6, <2>2 DEF Waited
  <2> QED BY <2>1, <2>2
<1> QED BY <1>2, <1>4, <1>5, <1>9, <1>10 DEF AnyRound

LEMMA ReloadEventsKeeps ==
  ASSUME GlobalInv, NEW fromLua \in BOOLEAN, NEW found \in SUBSET (Timer \cup Think),
         NEW tooLate \in SUBSET Stopped, ReloadEvents(fromLua, found, tooLate)
  PROVE  GlobalInv'
<1>. USE DEF GlobalInv, GlobalTypeOK
<1>. DEFINE rest == scheduled \ (Stopped \ tooLate)
            none == [k \in EventKind |-> 0]
            n == [k \in EventKind |-> late[k] + Cardinality(ScheduledOf(k, tooLate))]
<1>1. Register(found, rest, none) /\ late' = n
  BY DEF ReloadEvents
<1>2. IsFiniteSet(rest) /\ rest \subseteq AnyRound /\ none \in [EventKind -> Nat]
  BY FS_Subset DEF AnyRound
<1>3. ASSUME NEW k \in EventKind
      PROVE  n[k] \in Nat /\ OnlyRemembered(k, rest, none[k], n[k])
  <2>. DEFINE S == ScheduledOf(k, scheduled)
              A == ScheduledOf(k, Stopped)
              B == ScheduledOf(k, tooLate)
  <2>1. /\ IsFiniteSet(S) /\ A \subseteq S /\ B \subseteq A
        /\ ScheduledOf(k, rest) = S \ (A \ B)
    BY ScheduledFinite DEF ScheduledOf, Stopped
  <2>2. Remembered(k, scheduled, eventIds[k]) <=> A # {}
    BY DEF Remembered, ScheduledOf, Stopped
  <2>. HIDE DEF S, A, B
  <2>3. /\ Cardinality(S) \in Nat /\ Cardinality(B) \in Nat
        /\ Cardinality(S \ (A \ B)) \in Nat
        /\ Cardinality(S \ (A \ B)) <= Cardinality(S)
        /\ A # {} => Cardinality(S \ (A \ B)) < Cardinality(S) + Cardinality(B)
        /\ A = {} => Cardinality(B) = 0
    BY <2>1, CardinalityWithout
  <2>4. late[k] \in Nat
    OBVIOUS
  <2>5. /\ A # {} => Cardinality(S) <= late[k] + 1
        /\ A = {} => Cardinality(S) <= late[k]
    BY <2>2, <2>3, <2>4 DEF OnlyRemembered, S
  <2>6. n[k] = late[k] + Cardinality(B)
    BY DEF B
  <2>7. n[k] \in Nat /\ Cardinality(S \ (A \ B)) <= n[k]
    BY <2>3, <2>4, <2>5, <2>6
  <2>8. ~Remembered(k, rest, none[k])
    BY DEF Remembered, ScheduledOf, AnyRound
  <2>9. Cardinality(ScheduledOf(k, rest)) <= n[k]
    BY <2>1, <2>7
  <2>10. Cardinality(ScheduledOf(k, rest)) <= n[k] + 0
    BY <2>1, <2>3, <2>7, <2>9
  <2> QED BY <2>7, <2>8, <2>10 DEF OnlyRemembered
<1>. HIDE DEF n
<1>4. n \in [EventKind -> Nat]
  BY <1>3 DEF n
<1>5. /\ IsFiniteSet(scheduled') /\ scheduled' \subseteq AnyRound
      /\ eventIds' \in [EventKind -> Nat]
      /\ \A k \in EventKind : OnlyRemembered(k, scheduled', eventIds'[k], n[k])
      /\ \A k \in Starting(found, none) : ScheduledOf(k, scheduled') # {}
  BY <1>1, <1>2, <1>3, <1>4, RegisterKeeps
<1>6. map' \subseteq Timer \cup Think /\ left' \subseteq EventKind
  BY DEF ReloadEvents
<1>7. Waited'
  <2>. SUFFICES ASSUME NEW k \in EventKind \ left', map' \cap OfKind(k) # {}
                PROVE  ScheduledOf(k, scheduled') # {}
    BY DEF Waited, OfKind
  <2>1. found \cap OfKind(k) # {}
    BY DEF ReloadEvents
  <2> QED BY <2>1, <1>5 DEF Starting
<1> QED BY <1>1, <1>4, <1>5, <1>6, <1>7 DEF AnyRound

\* For any timers and think events, from scripts or files: events of a kind run
\* in one chain of rounds, one more for each stop that came too late, and none
\* is left without but for the clears and registrations Waited names.
THEOREM EventsAreSound == GlobalSpec => []EventsSound
<1>1. GlobalInit => GlobalInv
  <2>. SUFFICES ASSUME GlobalInit PROVE GlobalInv
    OBVIOUS
  <2>1. \A k \in EventKind : ScheduledOf(k, scheduled) = {}
    BY DEF GlobalInit, ScheduledOf
  <2>2. \A k \in EventKind : OnlyRemembered(k, scheduled, eventIds[k], late[k])
    BY <2>1, FS_EmptySet DEF OnlyRemembered, Remembered, GlobalInit
  <2> QED BY <2>2, FS_EmptySet DEF GlobalInit, GlobalInv, GlobalTypeOK, Waited
<1>2. GlobalInv /\ [GlobalNext]_globalVars => GlobalInv'
  <2>. SUFFICES ASSUME GlobalInv, [GlobalNext]_globalVars PROVE GlobalInv'
    OBVIOUS
  <2>1. ASSUME NEW e \in Timer \cup Think, RegisterEvent(e) PROVE GlobalInv'
    BY <2>1, RegisterEventKeeps
  <2>2. ASSUME NEW e \in scheduled, Round(e) PROVE GlobalInv'
    BY <2>2, RoundKeeps
  <2>3. ASSUME NEW fromLua \in BOOLEAN, NEW found \in SUBSET (Timer \cup Think),
               NEW tooLate \in SUBSET Stopped, ReloadEvents(fromLua, found, tooLate)
        PROVE  GlobalInv'
    BY <2>3, ReloadEventsKeeps
  <2>4. CASE UNCHANGED globalVars
    BY <2>4 DEF globalVars, GlobalInv, GlobalTypeOK, OnlyRemembered, Remembered, Waited, OfKind, ScheduledOf
  <2> QED BY <2>1, <2>2, <2>3, <2>4 DEF GlobalNext
<1>3. GlobalInv => EventsSound
  <2>. SUFFICES ASSUME GlobalInv PROVE EventsSound
    OBVIOUS
  <2>1. ASSUME NEW k \in EventKind
        PROVE  Cardinality(ScheduledOf(k, scheduled)) <= 1 + late[k]
    <3>1. Cardinality(ScheduledOf(k, scheduled)) \in Nat /\ late[k] \in Nat
      BY ScheduledFinite DEF GlobalInv
    <3>2. OnlyRemembered(k, scheduled, eventIds[k], late[k])
      BY DEF GlobalInv
    <3> QED BY <3>1, <3>2 DEF OnlyRemembered
  <2> QED BY <2>1 DEF EventsSound, GlobalInv, OneChain
<1> QED BY <1>1, <1>2, <1>3, PTL DEF GlobalSpec

-----------------------------------------------------------------------------
(***************************************************************************)
(* Spawns.  Nobody looks whether a block was filled while it was warning.  *)
(* That it is vacant still (CallsVacant) is a matter of time: Elapsed is   *)
(* how long a block has been warning, two warnings at most, and until then *)
(* either the block is not due or the next check is far (CheckFar); no     *)
(* interval is shorter than MinInterval.                                   *)
(***************************************************************************)

Call == [block : Block, tries : 1..Warnings, in : 0..1]
Elapsed(d) == d.tries - d.in

SpawnsTyped == SpawnsTypeOK /\ delayed \subseteq Call

OneCall == \A d, e \in delayed : d.block = e.block => d = e

CallsVacant == \A d \in delayed, m \in Monster : key[m] # d.block

CheckFar ==
  \A d \in delayed :
    \/ age[d.block] <= Elapsed(d)
    \/ checkIn = NotAtAll
    \/ checkIn >= CheckInterval - Elapsed(d)

Untouched ==
  ~startedUp => /\ ~woken /\ checkIn = NotAtAll /\ delayed = {}
                /\ \A m \in Monster : key[m] = NotAtAll

SpawnsInv == SpawnsTyped /\ OneEach /\ OneCall /\ CallsVacant /\ CheckFar /\ Untouched /\ CheckPending

Key == Block \cup {0, NotAtAll}

\* Every set of numbers that is not empty has a least one.
LEMMA LeastNumber ==
  ASSUME NEW T, T \subseteq Nat, T # {}
  PROVE  \E x \in T : \A y \in T : x <= y
<1>. DEFINE R == {ss \in Nat \X Nat : ss[1] < ss[2]}
<1>1. IsWellFoundedOn(R, Nat)
  BY NatLessThanWellFounded DEF OpToRel
<1>. HIDE DEF R
<1>2. PICK x \in T : \A y \in T : ~(<<y, x>> \in R)
  BY <1>1, WFMin
<1>3. \A y \in T : <<y, x>> \in R <=> y < x
  BY DEF R
<1>4. ASSUME NEW y \in T PROVE x <= y
  <2>1. x \in Nat /\ y \in Nat /\ ~(y < x)
    BY <1>2, <1>3
  <2> QED BY <2>1
<1> QED BY <1>4

LEMMA MinOfNumbers ==
  ASSUME NEW T, T \subseteq Nat, T # {}
  PROVE  Min(T) \in T /\ \A y \in T : Min(T) <= y
  BY LeastNumber DEF Min

LEMMA CheckIntervalIsLong == CheckInterval \in Nat /\ CheckInterval >= MinInterval
<1>. DEFINE T == {EmptyInterval} \cup {BlockInterval[b] : b \in Block}
<1>1. T \subseteq Nat /\ T # {} /\ \A y \in T : y >= MinInterval
  BY SpawnsAssumption DEF EmptyInterval, MinInterval
<1>. HIDE DEF T
<1>2. Min(T) \in T
  BY <1>1, MinOfNumbers
<1>3. Min(T) \in Nat /\ Min(T) >= MinInterval
  BY <1>1, <1>2
<1> QED BY <1>3 DEF T, CheckInterval

\* What fits can be told apart.
LEMMA FittingInjects ==
  ASSUME NEW S, IsFiniteSet(S), NEW T, IsFiniteSet(T), Cardinality(S) <= Cardinality(T)
  PROVE  \E f \in [S -> T] : \A b, c \in S : f[b] = f[c] => b = c
<1>. DEFINE m == Cardinality(S)
            n == Cardinality(T)
<1>1. m \in Nat /\ n \in Nat /\ ExistsBijection(1..m, S) /\ ExistsBijection(1..n, T)
  BY FS_CardinalityType
<1>2. PICK g \in [1..m -> S] : \A b \in S : \E i \in 1..m : g[i] = b
  BY <1>1 DEF ExistsBijection, Bijection, Surjection
<1>3. PICK h \in [1..n -> T] : \A i, j \in 1..n : h[i] = h[j] => i = j
  BY <1>1 DEF ExistsBijection, Bijection, Injection, IsInjective
<1>. HIDE DEF m, n
<1>. DEFINE at(b) == CHOOSE i \in 1..m : g[i] = b
<1>4. \A b \in S : at(b) \in 1..m /\ g[at(b)] = b
  BY <1>2
<1>5. \A i \in 1..m : i \in 1..n
  BY <1>1 DEF m, n
<1>. HIDE DEF at
<1>. DEFINE f == [b \in S |-> h[at(b)]]
<1>6. f \in [S -> T]
  BY <1>3, <1>4, <1>5
<1>7. \A b, c \in S : f[b] = f[c] => b = c
  <2>. SUFFICES ASSUME NEW b \in S, NEW c \in S, h[at(b)] = h[at(c)] PROVE b = c
    OBVIOUS
  <2>1. at(b) = at(c)
    BY <1>3, <1>4, <1>5
  <2> QED BY <1>4, <2>1
<1> QED BY <1>6, <1>7

\* r is k with new monsters for some of the blocks bs, one for each.
Filled(k, r, bs) ==
  /\ r \in [Monster -> Key]
  /\ \A m \in Monster : k[m] # NotAtAll => r[m] = k[m]
  /\ \A m \in Monster : r[m] # k[m] => r[m] \in bs
  /\ \A m, n \in Monster : r[m] = r[n] /\ r[m] # k[m] /\ r[n] # k[n] => m = n

LEMMA InsertFills ==
  ASSUME NEW k \in [Monster -> Key], NEW bs \in SUBSET Block, Fits(k, bs)
  PROVE  Filled(k, Insert(k, bs), bs)
<1>. DEFINE free == Monster \ Spawned(k)
            new == CHOOSE f \in [bs -> free] : \A b, c \in bs : f[b] = f[c] => b = c
            r == [m \in Monster |-> IF \E b \in bs : new[b] = m THEN CHOOSE b \in bs : new[b] = m ELSE k[m]]
<1>1. IsFiniteSet(bs) /\ IsFiniteSet(free) /\ Cardinality(bs) <= Cardinality(free)
  BY SpawnsAssumption, FS_Subset DEF Fits, Spawned
<1>2. \E f \in [bs -> free] : \A b, c \in bs : f[b] = f[c] => b = c
  BY <1>1, FittingInjects
<1>3. new \in [bs -> free] /\ \A b, c \in bs : new[b] = new[c] => b = c
  BY <1>2
<1>4. Insert(k, bs) = r
  BY DEF Insert
<1>. HIDE DEF new
<1>5. \A b \in bs : new[b] \in Monster /\ k[new[b]] = NotAtAll
  BY <1>3 DEF Spawned
<1>6. ASSUME NEW m \in Monster
      PROVE  /\ (\E b \in bs : new[b] = m) => r[m] \in bs /\ new[r[m]] = m
             /\ (\A b \in bs : new[b] # m) => r[m] = k[m]
  OBVIOUS
<1>7. \A m \in Monster : r[m] \in Key
  BY <1>6 DEF Key
<1>8. r \in [Monster -> Key]
  BY <1>7
<1>. HIDE DEF r
<1>9. \A m \in Monster : k[m] # NotAtAll => r[m] = k[m]
  BY <1>5, <1>6
<1>10. \A m \in Monster : r[m] # k[m] => r[m] \in bs /\ new[r[m]] = m
  BY <1>6
<1> QED BY <1>4, <1>8, <1>9, <1>10 DEF Filled

\* Filling blocks that are vacant keeps one monster for each.
LEMMA FillingVacant ==
  ASSUME NEW k \in [Monster -> Key], NEW r, NEW bs \in SUBSET Block, Filled(k, r, bs),
         bs \subseteq Vacant(k), \A m, n \in Monster : k[m] = k[n] /\ k[m] \in Block => m = n
  PROVE  \A m, n \in Monster : r[m] = r[n] /\ r[m] \in Block => m = n
  BY DEF Filled, Vacant

\* Nothing that was spawned is lost by filling.
LEMMA FillingSpawns ==
  ASSUME NEW k \in [Monster -> Key], NEW r, NEW bs \in SUBSET Block, Filled(k, r, bs)
  PROVE  /\ Spawned(k) \subseteq Spawned(r)
         /\ IsFiniteSet(Spawned(r)) /\ IsFiniteSet(Spawned(k))
         /\ Cardinality(Spawned(k)) \in Nat /\ Cardinality(Spawned(r)) \in Nat
         /\ Cardinality(Spawned(k)) <= Cardinality(Spawned(r))
<1>1. Spawned(k) \subseteq Spawned(r) /\ Spawned(r) \subseteq Monster
  BY DEF Filled, Spawned
<1>2. IsFiniteSet(Spawned(r)) /\ IsFiniteSet(Spawned(k))
  BY <1>1, SpawnsAssumption, FS_Subset
<1> QED BY <1>1, <1>2, FS_Subset, FS_CardinalityType

LEMMA CallFacts ==
  ASSUME SpawnsInv, NEW d \in delayed
  PROVE  /\ d.block \in Block /\ d.tries \in {1, 2} /\ d.in \in {0, 1} /\ Elapsed(d) \in 0..2
         /\ age[d.block] \in Nat /\ BlockInterval[d.block] \in Nat
<1>1. d \in Call
  BY DEF SpawnsInv, SpawnsTyped
<1>2. d.block \in Block /\ d.tries \in {1, 2} /\ d.in \in {0, 1}
  BY <1>1 DEF Call, Warnings
<1>3. Elapsed(d) \in 0..2
  BY <1>2 DEF Elapsed
<1>4. age[d.block] \in Nat /\ BlockInterval[d.block] \in Nat
  BY <1>2, SpawnsAssumption DEF SpawnsInv, SpawnsTyped, SpawnsTypeOK
<1> QED BY <1>2, <1>3, <1>4

LEMMA WarnFacts ==
  ASSUME NEW b \in Block, NEW t \in 1..Warnings
  PROVE  /\ Warn(b, t) \in Call /\ Warn(b, t).block = b /\ Elapsed(Warn(b, t)) = t - 1
  BY DEF Warn, Call, Elapsed

\* When the check comes, a block that is warning is not due.
LEMMA WarningIsNotDue ==
  ASSUME SpawnsInv, checkIn = 0, NEW d \in delayed
  PROVE  age[d.block] <= Elapsed(d) /\ age[d.block] # BlockInterval[d.block]
<1>1. CheckInterval \in Nat /\ CheckInterval >= 5 /\ BlockInterval[d.block] >= 5
  BY CheckIntervalIsLong, CallFacts, SpawnsAssumption DEF MinInterval
<1>2. Elapsed(d) \in 0..2 /\ age[d.block] \in Nat /\ BlockInterval[d.block] \in Nat
  BY CallFacts
<1>3. age[d.block] <= Elapsed(d)
  BY <1>1, <1>2 DEF SpawnsInv, CheckFar, NotAtAll
<1> QED BY <1>1, <1>2, <1>3

LEMMA InitSpawnsInv == SpawnsInit => SpawnsInv
<1>. SUFFICES ASSUME SpawnsInit PROVE SpawnsInv
  OBVIOUS
<1>1. CheckInterval \in Nat
  BY CheckIntervalIsLong
<1>2. SpawnsTyped
  BY <1>1, SpawnsAssumption DEF SpawnsInit, SpawnsTyped, SpawnsTypeOK, NotAtAll
<1>3. OneEach
  <2>1. NotAtAll \notin Block
    BY SpawnsAssumption DEF NotAtAll
  <2> QED BY <2>1 DEF SpawnsInit, OneEach
<1>4. OneCall /\ CallsVacant /\ CheckFar /\ Untouched
  BY DEF SpawnsInit, OneCall, CallsVacant, CheckFar, Untouched
<1>5. CheckPending
  BY DEF SpawnsInit, CheckPending, Spawned
<1> QED BY <1>2, <1>3, <1>4, <1>5 DEF SpawnsInv

LEMMA SpawnStartupKeeps ==
  ASSUME SpawnsInv, SpawnStartup
  PROVE  SpawnsInv'
<1>1. PICK o \in Attempts(key, Block) :
        /\ o.placed \cup o.warned = Block
        /\ key' = Insert(key, o.placed)
        /\ place' = Placed(key')
        /\ age' = [b \in Block |-> IF b \in o.placed THEN 0 ELSE age[b]]
        /\ delayed' = {Warn(b, 1) : b \in o.warned}
  BY DEF SpawnStartup
<1>2. o.placed \in SUBSET Block /\ o.warned \in SUBSET Block /\ o.placed \cap o.warned = {} /\ Fits(key, o.placed)
  BY DEF Attempts
<1>3. ~startedUp /\ startedUp' = TRUE /\ checkIn' = checkIn /\ woken' = woken
  BY DEF SpawnStartup
<1>4. ~woken /\ checkIn = NotAtAll /\ \A m \in Monster : key[m] = NotAtAll
  BY <1>3 DEF SpawnsInv, Untouched
<1>5. /\ key \in [Monster -> Key] /\ place \in [Monster -> {"zone", "away", "removed"}]
      /\ age \in [Block -> Nat] /\ 0 \notin Block /\ NotAtAll \notin Block
      /\ checkIn \in -1 .. CheckInterval
  BY SpawnsAssumption DEF SpawnsInv, SpawnsTyped, SpawnsTypeOK, Key, NotAtAll
<1>6. Filled(key, key', o.placed)
  BY <1>1, <1>2, <1>5, InsertFills
<1>7. key' \in [Monster -> Key]
  BY <1>6 DEF Filled
<1>8. SpawnsTyped'
  <2>1. place' \in [Monster -> {"zone", "away", "removed"}]
    BY <1>1, <1>5 DEF Placed
  <2>2. age' \in [Block -> Nat]
    BY <1>1, <1>5
  <2>3. delayed' \subseteq Call
    BY <1>1, <1>2, WarnFacts DEF Warnings
  <2> QED BY <1>3, <1>5, <1>7, <2>1, <2>2, <2>3 DEF SpawnsTyped, SpawnsTypeOK, Key
<1>9. OneEach'
  <2>1. o.placed \subseteq Vacant(key)
    BY <1>2, <1>4, <1>5 DEF Vacant
  <2>2. \A m, n \in Monster : key'[m] = key'[n] /\ key'[m] \in Block => m = n
    BY <1>2, <1>4, <1>5, <1>6, <2>1, FillingVacant
  <2> QED BY <2>2 DEF OneEach
<1>10. OneCall'
  BY <1>1, <1>2, WarnFacts DEF OneCall, Warnings
<1>11. CallsVacant'
  <2>. SUFFICES ASSUME NEW b \in o.warned, NEW m \in Monster PROVE key'[m] # b
    BY <1>1, <1>2, WarnFacts DEF CallsVacant, Warnings
  <2> QED BY <1>2, <1>4, <1>5, <1>6 DEF Filled
<1>12. CheckFar' /\ Untouched'
  BY <1>3, <1>4 DEF CheckFar, Untouched
<1>13. CheckPending'
  <2>1. \A m \in Spawned(key') : place'[m] # "removed"
    BY <1>1, <1>4 DEF Spawned, Placed
  <2> QED BY <1>3, <1>4, <2>1 DEF CheckPending
<1> QED BY <1>8, <1>9, <1>10, <1>11, <1>12, <1>13 DEF SpawnsInv

LEMMA CheckSpawnKeeps ==
  ASSUME SpawnsInv, CheckSpawn
  PROVE  SpawnsInv'
<1>. DEFINE k == CleanedUp
            due == {b \in Vacant(k) : age[b] = BlockInterval[b]}
<1>1. PICK bs \in SUBSET due : \E o \in Attempts(k, bs) :
        /\ key' = Insert(k, o.placed)
        /\ place' = [m \in Monster |-> IF key'[m] = NotAtAll THEN "removed"
                                       ELSE IF k[m] = NotAtAll THEN "zone" ELSE place[m]]
        /\ age' = [b \in Block |-> IF b \in bs THEN 0 ELSE age[b]]
        /\ delayed' = delayed \cup {Warn(b, 1) : b \in o.warned}
  BY DEF CheckSpawn
<1>2. PICK o \in Attempts(k, bs) :
        /\ key' = Insert(k, o.placed)
        /\ place' = [m \in Monster |-> IF key'[m] = NotAtAll THEN "removed"
                                       ELSE IF k[m] = NotAtAll THEN "zone" ELSE place[m]]
        /\ age' = [b \in Block |-> IF b \in bs THEN 0 ELSE age[b]]
        /\ delayed' = delayed \cup {Warn(b, 1) : b \in o.warned}
  BY <1>1
<1>3. /\ checkIn = 0 /\ startedUp' = startedUp /\ woken' = woken
      /\ checkIn' = IF Cardinality(Spawned(key')) < Cardinality(Block) THEN CheckInterval ELSE NotAtAll
  BY DEF CheckSpawn
<1>4. /\ bs \subseteq Block /\ bs \subseteq Vacant(k) /\ o.placed \in SUBSET bs /\ o.warned \in SUBSET bs
      /\ o.placed \cap o.warned = {} /\ Fits(k, o.placed)
      /\ \A b \in bs : age[b] = BlockInterval[b]
  BY <1>1 DEF Attempts, Vacant
<1>5. /\ key \in [Monster -> Key] /\ place \in [Monster -> {"zone", "away", "removed"}]
      /\ age \in [Block -> Nat] /\ 0 \notin Block /\ NotAtAll \notin Block
      /\ CheckInterval \in Nat /\ CheckInterval >= 5
  BY SpawnsAssumption, CheckIntervalIsLong
     DEF SpawnsInv, SpawnsTyped, SpawnsTypeOK, Key, NotAtAll, MinInterval
<1>6. /\ k \in [Monster -> Key]
      /\ \A m \in Monster : /\ place[m] = "removed" => k[m] = NotAtAll
                            /\ k[m] \in Block => k[m] = key[m]
  BY <1>5 DEF CleanedUp, Key
<1>. HIDE DEF k
<1>7. Filled(k, key', o.placed)
  BY <1>2, <1>4, <1>6, InsertFills
<1>8. key' \in [Monster -> Key]
  BY <1>7 DEF Filled
<1>9. \A d \in delayed : d.block \notin bs /\ age[d.block] <= Elapsed(d) /\ d.block \in Block
  BY <1>3, <1>4, WarningIsNotDue, CallFacts
<1>10. checkIn' \in {CheckInterval, NotAtAll}
  BY <1>3
<1>11. SpawnsTyped'
  <2>1. place' \in [Monster -> {"zone", "away", "removed"}]
    BY <1>2, <1>5
  <2>2. age' \in [Block -> Nat]
    BY <1>2, <1>5
  <2>3. delayed' \subseteq Call
    BY <1>2, <1>4, WarnFacts DEF Warnings, SpawnsInv, SpawnsTyped
  <2>4. checkIn' \in -1 .. CheckInterval
    BY <1>5, <1>10 DEF NotAtAll
  <2> QED BY <1>8, <2>1, <2>2, <2>3, <2>4 DEF SpawnsTyped, SpawnsTypeOK, Key
<1>12. OneEach'
  <2>1. \A m, n \in Monster : k[m] = k[n] /\ k[m] \in Block => m = n
    BY <1>6 DEF SpawnsInv, OneEach
  <2>2. o.placed \subseteq Vacant(k) /\ o.placed \in SUBSET Block
    BY <1>4
  <2>3. \A m, n \in Monster : key'[m] = key'[n] /\ key'[m] \in Block => m = n
    BY <1>6, <1>7, <2>1, <2>2, FillingVacant
  <2> QED BY <2>3 DEF OneEach
<1>13. \A b \in o.warned : Warn(b, 1).block = b /\ Elapsed(Warn(b, 1)) = 0 /\ b \in Block
  BY <1>4, WarnFacts DEF Warnings
<1>14. OneCall'
  BY <1>2, <1>4, <1>9, <1>13 DEF SpawnsInv, OneCall
<1>15. CallsVacant'
  <2>1. ASSUME NEW b \in Block, b \notin o.placed, \A m \in Monster : k[m] # b
        PROVE  \A m \in Monster : key'[m] # b
    BY <1>7, <2>1 DEF Filled
  <2>2. \A d \in delayed : \A m \in Monster : key'[m] # d.block
    <3>1. \A d \in delayed : \A m \in Monster : k[m] # d.block
      BY <1>6, <1>9 DEF SpawnsInv, CallsVacant
    <3> QED BY <1>4, <1>9, <2>1, <3>1
  <2>3. \A b \in o.warned : \A m \in Monster : key'[m] # b
    BY <1>4, <2>1 DEF Vacant
  <2> QED BY <1>2, <1>13, <2>2, <2>3 DEF CallsVacant
<1>16. CheckFar'
  <2>1. \A d \in delayed : age'[d.block] <= Elapsed(d)
    BY <1>2, <1>9
  <2>2. \A b \in o.warned : age'[b] = 0
    BY <1>2, <1>4, <1>13
  <2>3. \A d \in delayed' : age'[d.block] <= Elapsed(d)
    BY <1>2, <1>13, <2>1, <2>2
  <2> QED BY <2>3 DEF CheckFar
<1>17. Untouched'
  BY <1>3 DEF SpawnsInv, Untouched, NotAtAll
<1>18. CheckPending'
  <2>1. \A m \in Spawned(key') : place'[m] # "removed"
    BY <1>2, <1>6 DEF Spawned
  <2>2. Cardinality(Spawned(key')) \in Nat /\ Cardinality(Block) \in Nat
    BY <1>4, <1>6, <1>7, FillingSpawns, SpawnsAssumption, FS_CardinalityType
  <2>3. CASE Cardinality(Spawned(key')) < Cardinality(Block)
    BY <1>3, <1>5, <2>3 DEF CheckPending, NotAtAll
  <2>4. CASE Cardinality(Spawned(key')) >= Cardinality(Block)
    BY <2>1, <2>4 DEF CheckPending
  <2> QED BY <2>2, <2>3, <2>4
<1> QED BY <1>11, <1>12, <1>14, <1>15, <1>16, <1>17, <1>18 DEF SpawnsInv

LEMMA SpawnMonsterKeeps ==
  ASSUME SpawnsInv, NEW d \in delayed, SpawnMonster(d)
  PROVE  SpawnsInv'
<1>1. d.in = 0 /\ UNCHANGED <<startedUp, checkIn, woken>>
  BY DEF SpawnMonster
<1>2. d.block \in Block /\ d.tries \in {1, 2} /\ Elapsed(d) = d.tries
  BY <1>1, CallFacts DEF Elapsed
<1>3. /\ key \in [Monster -> Key] /\ place \in [Monster -> {"zone", "away", "removed"}]
      /\ age \in [Block -> Nat] /\ 0 \notin Block /\ NotAtAll \notin Block
      /\ checkIn \in -1 .. CheckInterval /\ delayed \subseteq Call
  BY SpawnsAssumption DEF SpawnsInv, SpawnsTyped, SpawnsTypeOK, Key, NotAtAll
<1>4. startedUp
  BY DEF SpawnsInv, Untouched
<1>5. \A e \in delayed : e # d => e.block # d.block
  BY DEF SpawnsInv, OneCall
<1>6. CASE /\ Fits(key, {d.block})
           /\ key' = Insert(key, {d.block}) /\ place' = Placed(key')
           /\ age' = [age EXCEPT ![d.block] = 0]
           /\ delayed' = delayed \ {d}
  <2>1. {d.block} \in SUBSET Block
    BY <1>2
  <2>2. Filled(key, key', {d.block})
    BY <1>3, <1>6, <2>1, InsertFills
  <2>3. key' \in [Monster -> Key]
    BY <2>2 DEF Filled
  <2>4. SpawnsTyped'
    <3>1. place' \in [Monster -> {"zone", "away", "removed"}]
      BY <1>3, <1>6 DEF Placed
    <3>2. age' \in [Block -> Nat]
      BY <1>3, <1>6
    <3> QED BY <1>1, <1>3, <1>6, <2>3, <3>1, <3>2 DEF SpawnsTyped, SpawnsTypeOK, Key
  <2>5. OneEach'
    <3>1. {d.block} \subseteq Vacant(key)
      BY <1>2 DEF SpawnsInv, CallsVacant, Vacant
    <3>2. \A m, n \in Monster : key[m] = key[n] /\ key[m] \in Block => m = n
      BY DEF SpawnsInv, OneEach
    <3>3. \A m, n \in Monster : key'[m] = key'[n] /\ key'[m] \in Block => m = n
      BY <1>3, <2>1, <2>2, <3>1, <3>2, FillingVacant
    <3> QED BY <3>3 DEF OneEach
  <2>6. OneCall'
    BY <1>6 DEF SpawnsInv, OneCall
  <2>7. CallsVacant'
    <3>1. ASSUME NEW e \in delayed', NEW m \in Monster PROVE key'[m] # e.block
      <4>1. e.block # d.block /\ key[m] # e.block
        BY <1>5, <1>6, <3>1 DEF SpawnsInv, CallsVacant
      <4> QED BY <2>2, <4>1 DEF Filled
    <3> QED BY <3>1 DEF CallsVacant
  <2>8. CheckFar'
    <3>1. \A e \in delayed' : age'[e.block] = age[e.block] /\ e \in delayed
      BY <1>3, <1>5, <1>6
    <3> QED BY <1>1, <3>1 DEF SpawnsInv, CheckFar
  <2>9. Untouched'
    BY <1>1, <1>4 DEF Untouched
  <2>10. CheckPending'
    <3>1. CASE checkIn # NotAtAll
      BY <1>1, <3>1 DEF CheckPending
    <3>2. CASE checkIn = NotAtAll
      <4>1. /\ \A m \in Spawned(key) : place[m] # "removed"
            /\ woken => Cardinality(Spawned(key)) >= Cardinality(Block)
        BY <3>2 DEF SpawnsInv, CheckPending
      <4>2. \A m \in Spawned(key') : place'[m] # "removed"
        BY <1>6, <4>1 DEF Spawned, Placed
      <4>3. /\ Cardinality(Spawned(key)) <= Cardinality(Spawned(key'))
            /\ Cardinality(Spawned(key)) \in Nat /\ Cardinality(Spawned(key')) \in Nat
            /\ Cardinality(Block) \in Nat
        BY <1>3, <2>1, <2>2, FillingSpawns, SpawnsAssumption, FS_CardinalityType
      <4>4. woken' => Cardinality(Spawned(key')) >= Cardinality(Block)
        BY <1>1, <4>1, <4>3
      <4> QED BY <4>2, <4>4 DEF CheckPending
    <3> QED BY <3>1, <3>2
  <2> QED BY <2>4, <2>5, <2>6, <2>7, <2>8, <2>9, <2>10 DEF SpawnsInv
<1>7. CASE UNCHANGED <<key, place, age>> /\ delayed' = delayed \ {d}
  <2>1. SpawnsTyped'
    BY <1>1, <1>7 DEF SpawnsInv, SpawnsTyped, SpawnsTypeOK
  <2>2. OneEach' /\ OneCall' /\ CallsVacant' /\ CheckFar'
    BY <1>1, <1>7 DEF SpawnsInv, OneEach, OneCall, CallsVacant, CheckFar
  <2>3. Untouched' /\ CheckPending'
    BY <1>1, <1>4, <1>7 DEF SpawnsInv, Untouched, CheckPending, Spawned
  <2> QED BY <2>1, <2>2, <2>3 DEF SpawnsInv
<1>8. CASE /\ d.tries < Warnings
           /\ delayed' = (delayed \ {d}) \cup {Warn(d.block, d.tries + 1)}
           /\ UNCHANGED <<key, place, age>>
  <2>. DEFINE next == Warn(d.block, d.tries + 1)
  <2>1. d.tries = 1 /\ d.tries + 1 \in 1..Warnings
    BY <1>2, <1>8 DEF Warnings
  <2>2. next \in Call /\ next.block = d.block /\ Elapsed(next) = Elapsed(d)
    BY <1>2, <2>1, WarnFacts
  <2>. HIDE DEF next
  <2>3. SpawnsTyped'
    BY <1>1, <1>8, <2>2 DEF SpawnsInv, SpawnsTyped, SpawnsTypeOK, next
  <2>4. OneEach'
    BY <1>8 DEF SpawnsInv, OneEach
  <2>5. OneCall'
    BY <1>5, <1>8, <2>2 DEF SpawnsInv, OneCall, next
  <2>6. CallsVacant'
    BY <1>8, <2>2 DEF SpawnsInv, CallsVacant, next
  <2>7. CheckFar'
    BY <1>1, <1>8, <2>2 DEF SpawnsInv, CheckFar, next
  <2>8. Untouched' /\ CheckPending'
    BY <1>1, <1>4, <1>8 DEF SpawnsInv, Untouched, CheckPending, Spawned
  <2> QED BY <2>3, <2>4, <2>5, <2>6, <2>7, <2>8 DEF SpawnsInv
<1> QED BY <1>6, <1>7, <1>8 DEF SpawnMonster

LEMMA RemoveMonsterKeeps ==
  ASSUME SpawnsInv, NEW m \in Monster, RemoveMonster(m)
  PROVE  SpawnsInv'
<1>1. /\ key[m] # NotAtAll /\ place' = [place EXCEPT ![m] = "removed"]
      /\ checkIn' = IF checkIn = NotAtAll THEN CheckInterval ELSE checkIn
      /\ woken' = TRUE /\ UNCHANGED <<startedUp, key, age, delayed>>
  BY DEF RemoveMonster
<1>2. CheckInterval \in Nat /\ checkIn \in -1 .. CheckInterval
  BY CheckIntervalIsLong DEF SpawnsInv, SpawnsTyped, SpawnsTypeOK
<1>3. checkIn' \in 0 .. CheckInterval
  BY <1>1, <1>2 DEF NotAtAll
<1>4. SpawnsTyped'
  BY <1>1, <1>2, <1>3 DEF SpawnsInv, SpawnsTyped, SpawnsTypeOK
<1>5. OneEach' /\ OneCall' /\ CallsVacant'
  BY <1>1 DEF SpawnsInv, OneEach, OneCall, CallsVacant
<1>6. CheckFar'
  <2>. SUFFICES ASSUME NEW d \in delayed
                PROVE  age[d.block] <= Elapsed(d) \/ checkIn' >= CheckInterval - Elapsed(d)
    BY <1>1 DEF CheckFar
  <2>1. Elapsed(d) \in 0..2
    BY CallFacts
  <2>2. CASE checkIn = NotAtAll
    BY <1>1, <1>2, <2>1, <2>2
  <2>3. CASE checkIn # NotAtAll
    BY <1>1, <2>3 DEF SpawnsInv, CheckFar
  <2> QED BY <2>2, <2>3
<1>7. Untouched'
  BY <1>1 DEF SpawnsInv, Untouched
<1>8. CheckPending'
  BY <1>3 DEF CheckPending, NotAtAll
<1> QED BY <1>4, <1>5, <1>6, <1>7, <1>8 DEF SpawnsInv

LEMMA WanderKeeps ==
  ASSUME SpawnsInv, NEW m \in Monster, Wander(m)
  PROVE  SpawnsInv'
<1>1. /\ place[m] # "removed" /\ UNCHANGED <<startedUp, key, checkIn, age, delayed, woken>>
      /\ place' = [place EXCEPT ![m] = IF @ = "zone" THEN "away" ELSE "zone"]
  BY DEF Wander
<1>2. place \in [Monster -> {"zone", "away", "removed"}]
  BY DEF SpawnsInv, SpawnsTyped, SpawnsTypeOK
<1>3. place' \in [Monster -> {"zone", "away", "removed"}] /\ \A n \in Monster : place'[n] = "removed" => place[n] = "removed"
  BY <1>1, <1>2
<1>4. SpawnsTyped'
  BY <1>1, <1>3 DEF SpawnsInv, SpawnsTyped, SpawnsTypeOK
<1>5. OneEach' /\ OneCall' /\ CallsVacant' /\ CheckFar' /\ Untouched'
  BY <1>1 DEF SpawnsInv, OneEach, OneCall, CallsVacant, CheckFar, Untouched
<1>6. CheckPending'
  BY <1>1, <1>3 DEF SpawnsInv, CheckPending, Spawned
<1> QED BY <1>4, <1>5, <1>6 DEF SpawnsInv

\* Two seconds pass: for the check, for the blocks and for every warning.
LEMMA SpawnTickKeeps ==
  ASSUME SpawnsInv, SpawnTick
  PROVE  SpawnsInv'
<1>. DEFINE sooner(d) == [d EXCEPT !.in = @ - 1]
<1>1. /\ startedUp /\ checkIn # 0 /\ \A d \in delayed : d.in # 0
      /\ checkIn' = IF checkIn = NotAtAll THEN NotAtAll ELSE checkIn - 1
      /\ age' = [b \in Block |-> Min({age[b] + 1, BlockInterval[b]})]
      /\ delayed' = {sooner(d) : d \in delayed}
      /\ UNCHANGED <<startedUp, key, place, woken>>
  BY DEF SpawnTick
<1>2. CheckInterval \in Nat /\ checkIn \in -1 .. CheckInterval /\ age \in [Block -> Nat]
  BY CheckIntervalIsLong DEF SpawnsInv, SpawnsTyped, SpawnsTypeOK
<1>3. checkIn' \in -1 .. CheckInterval /\ (checkIn' = NotAtAll <=> checkIn = NotAtAll)
  BY <1>1, <1>2 DEF NotAtAll
<1>4. ASSUME NEW b \in Block PROVE age'[b] \in Nat /\ age'[b] <= age[b] + 1
  <2>. DEFINE T == {age[b] + 1, BlockInterval[b]}
  <2>1. T \subseteq Nat /\ T # {} /\ age[b] + 1 \in T
    BY <1>2, SpawnsAssumption
  <2>. HIDE DEF T
  <2>2. Min(T) \in Nat /\ Min(T) <= age[b] + 1
    BY <2>1, MinOfNumbers
  <2> QED BY <1>1, <2>2 DEF T
<1>5. ASSUME NEW d \in delayed
      PROVE  sooner(d) \in Call /\ sooner(d).block = d.block /\ Elapsed(sooner(d)) = Elapsed(d) + 1
  <2>1. d \in Call /\ d.in = 1
    BY <1>1, CallFacts DEF SpawnsInv, SpawnsTyped
  <2>2. sooner(d) = [block |-> d.block, tries |-> d.tries, in |-> 0]
    BY <2>1 DEF Call
  <2>3. d.tries \in {1, 2} /\ d.block \in Block
    BY CallFacts
  <2>. HIDE DEF sooner
  <2>4. sooner(d) \in Call /\ sooner(d).block = d.block /\ sooner(d).tries = d.tries /\ sooner(d).in = 0
    BY <2>2, <2>3 DEF Call, Warnings
  <2> QED BY <2>1, <2>3, <2>4 DEF Elapsed
<1>. HIDE DEF sooner
<1>6. SpawnsTyped'
  <2>1. age' \in [Block -> Nat]
    BY <1>1, <1>4
  <2> QED BY <1>1, <1>3, <1>5, <2>1 DEF SpawnsInv, SpawnsTyped, SpawnsTypeOK
<1>7. OneEach' /\ OneCall' /\ CallsVacant'
  BY <1>1, <1>5 DEF SpawnsInv, OneEach, OneCall, CallsVacant
<1>8. CheckFar'
  <2>. SUFFICES ASSUME NEW d \in delayed
                PROVE  \/ age'[d.block] <= Elapsed(d) + 1
                       \/ checkIn' = NotAtAll
                       \/ checkIn' >= CheckInterval - (Elapsed(d) + 1)
    BY <1>1, <1>5 DEF CheckFar
  <2>1. /\ Elapsed(d) \in 0..2 /\ d.block \in Block /\ age[d.block] \in Nat
        /\ age'[d.block] \in Nat /\ age'[d.block] <= age[d.block] + 1
    BY <1>4, CallFacts
  <2>2. \/ age[d.block] <= Elapsed(d)
        \/ checkIn = NotAtAll
        \/ checkIn >= CheckInterval - Elapsed(d)
    BY DEF SpawnsInv, CheckFar
  <2>3. CASE age[d.block] <= Elapsed(d)
    BY <2>1, <2>3
  <2>4. CASE checkIn = NotAtAll
    BY <1>3, <2>4
  <2>5. CASE checkIn # NotAtAll /\ checkIn >= CheckInterval - Elapsed(d)
    BY <1>1, <1>2, <2>1, <2>5
  <2> QED BY <2>2, <2>3, <2>4, <2>5
<1>9. Untouched'
  BY <1>1 DEF Untouched
<1>10. CheckPending'
  BY <1>1, <1>3 DEF SpawnsInv, CheckPending, Spawned
<1> QED BY <1>6, <1>7, <1>8, <1>9, <1>10 DEF SpawnsInv

\* Each monster of the zone fills a block of its own, so if there are as many
\* monsters as blocks then as many have strayed as blocks are vacant.
LEMMA StraysCount ==
  ASSUME SpawnsTypeOK, OneEach, CheckPending
  PROVE  StraysStandIn
<1>. DEFINE S == {m \in Monster : key[m] = 0}
            H == {m \in Monster : key[m] \in Block}
            F == Block \ Vacant(key)
<1>. SUFFICES ASSUME checkIn = NotAtAll, woken
              PROVE  Cardinality(Vacant(key)) <= Cardinality(S)
  BY DEF StraysStandIn
<1>1. Cardinality(Spawned(key)) >= Cardinality(Block)
  BY DEF CheckPending
<1>2. /\ key \in [Monster -> Block \cup {0, NotAtAll}] /\ NotAtAll # 0
      /\ 0 \notin Block /\ NotAtAll \notin Block
  BY SpawnsAssumption DEF SpawnsTypeOK, NotAtAll
<1>3. Spawned(key) = S \cup H /\ S \cap H = {} /\ Vacant(key) \subseteq Block
  BY <1>2 DEF Spawned, Vacant
<1>4. /\ IsFiniteSet(S) /\ IsFiniteSet(H) /\ IsFiniteSet(Block)
      /\ IsFiniteSet(F) /\ IsFiniteSet(Vacant(key))
  BY <1>3, SpawnsAssumption, FS_Subset
<1>5. Cardinality(H) <= Cardinality(F)
  <2>. DEFINE f == [m \in H |-> key[m]]
  <2>1. f \in [H -> F]
    BY DEF Vacant
  <2>2. \A m, n \in H : f[m] = f[n] => m = n
    BY DEF OneEach
  <2>3. f \in Injection(H, F)
    BY <2>1, <2>2 DEF Injection, IsInjective
  <2> QED BY <1>4, <2>3, FS_Injection
<1>6. /\ Cardinality(S) \in Nat /\ Cardinality(H) \in Nat /\ Cardinality(F) \in Nat
      /\ Cardinality(Vacant(key)) \in Nat /\ Cardinality(Block) \in Nat
  BY <1>4, FS_CardinalityType
<1>7. Cardinality(S \cup H) = Cardinality(S) + Cardinality(H)
  <2>1. Cardinality(S \cap H) = 0
    BY <1>3, FS_EmptySet
  <2>2. Cardinality(S \cup H) = Cardinality(S) + Cardinality(H) - Cardinality(S \cap H)
    BY <1>4, FS_Union
  <2>. HIDE DEF S, H
  <2> QED BY <1>6, <2>1, <2>2
<1>8. Cardinality(Block) = Cardinality(Vacant(key)) + Cardinality(F)
  <2>1. Block = Vacant(key) \cup F /\ Vacant(key) \cap F = {}
    BY <1>3
  <2>2. Cardinality(Vacant(key) \cap F) = 0
    BY <2>1, FS_EmptySet
  <2>3. Cardinality(Vacant(key) \cup F) =
          Cardinality(Vacant(key)) + Cardinality(F) - Cardinality(Vacant(key) \cap F)
    BY <1>4, FS_Union
  <2>. HIDE DEF F
  <2> QED BY <1>6, <2>1, <2>2, <2>3
<1>. HIDE DEF S, H, F
<1>9. Cardinality(Spawned(key)) = Cardinality(S) + Cardinality(H)
  BY <1>3, <1>7
<1> QED BY <1>1, <1>5, <1>6, <1>8, <1>9

\* However many blocks and monsters, and whatever the intervals are that a map
\* may give: no block ever has two monsters, though a warning is not looked at
\* again before its monster is put there; the removal of a monster is never
\* overlooked; and once one was removed, no more blocks are vacant without a
\* check to come than monsters have strayed from the zone.
THEOREM SpawnsAreSound == SpawnsSpec => []SpawnsSound
<1>1. SpawnsInv /\ [SpawnsNext]_spawnVars => SpawnsInv'
  <2>. SUFFICES ASSUME SpawnsInv, [SpawnsNext]_spawnVars PROVE SpawnsInv'
    OBVIOUS
  <2>1. CASE SpawnStartup
    BY <2>1, SpawnStartupKeeps
  <2>2. CASE CheckSpawn
    BY <2>2, CheckSpawnKeeps
  <2>3. CASE SpawnTick
    BY <2>3, SpawnTickKeeps
  <2>4. ASSUME NEW d \in delayed, SpawnMonster(d) PROVE SpawnsInv'
    BY <2>4, SpawnMonsterKeeps
  <2>5. ASSUME NEW m \in Monster, RemoveMonster(m) \/ Wander(m) PROVE SpawnsInv'
    BY <2>5, RemoveMonsterKeeps, WanderKeeps
  <2>6. CASE UNCHANGED spawnVars
    BY <2>6 DEF spawnVars, SpawnsInv, SpawnsTyped, SpawnsTypeOK, OneEach, OneCall, CallsVacant, CheckFar,
                Untouched, CheckPending, Spawned
  <2> QED BY <2>1, <2>2, <2>3, <2>4, <2>5, <2>6 DEF SpawnsNext
<1>2. SpawnsInv => SpawnsSound
  BY StraysCount DEF SpawnsInv, SpawnsTyped, SpawnsSound
<1> QED BY InitSpawnsInv, <1>1, <1>2, PTL DEF SpawnsSpec

-----------------------------------------------------------------------------
(***************************************************************************)
(* Raids.  Besides the types, the invariant says that a load brings raids  *)
(* that were never there before.  The rest of RaidsSound is inductive: the *)
(* check that is remembered exists, so that a clear takes it away or       *)
(* counts it as missed.                                                    *)
(***************************************************************************)

AnyRaidEvent == [id : Nat \ {0}, of : Owner, step : Nat]

LoadedRaids ==
  /\ loads \in 0..MaxLoads
  /\ raidList \subseteq Raid \X (1..loads) /\ deleted \subseteq Raid \X (1..loads)

RaidsInv ==
  /\ IsFiniteSet(events) /\ started \in BOOLEAN /\ missed \in Nat
  /\ LoadedRaids
  /\ RaidsTypeOK /\ CheckedForEver /\ OneRaid

LEMMA OwnersDiffer == Check \in Owner /\ Check \notin RaidObject /\ NoRaid \notin Owner
  BY RaidsAssumption DEF Check, Owner, RaidObject, NoRaid

LEMMA RaidEventsFinite ==
  ASSUME IsFiniteSet(events), NEW o
  PROVE  IsFiniteSet(RaidEvents(o)) /\ Cardinality(RaidEvents(o)) \in Nat
<1>1. IsFiniteSet(RaidEvents(o))
  BY FS_Subset DEF RaidEvents
<1> QED BY <1>1, FS_CardinalityType

\* The id of a new event is a number, and no event of its owner has it.
LEMMA NewEventIsNew ==
  ASSUME IsFiniteSet(events), NEW o, NEW n
  PROVE  /\ NewEvent(o, n).id \in Nat \ {0}
         /\ NewEvent(o, n).of = o /\ NewEvent(o, n).step = n
         /\ NewEvent(o, n) = [id |-> NewEvent(o, n).id, of |-> o, step |-> n]
<1>. DEFINE taken == {e.id : e \in RaidEvents(o)} \cup {eventId[o]}
            fresh == CHOOSE m \in 1..Cardinality(taken) + 1 : m \notin taken
<1>1. IsFiniteSet({e.id : e \in RaidEvents(o)})
  BY RaidEventsFinite, IdsFinite
<1>2. IsFiniteSet(taken)
  BY <1>1, FS_AddElement
<1>3. Cardinality(taken) \in Nat
  BY <1>2, FS_CardinalityType
<1>4. \E m \in 1..Cardinality(taken) + 1 : m \notin taken
  <2>. HIDE DEF taken
  <2>1. Cardinality(taken) + 1 \in Nat /\ Cardinality(taken) + 1 > Cardinality(taken)
    BY <1>3
  <2> QED BY <1>2, <2>1, NumberFree
<1>5. fresh \in 1..Cardinality(taken) + 1
  BY <1>4
<1>6. NewEvent(o, n) = [id |-> fresh, of |-> o, step |-> n]
  BY DEF NewEvent
<1>. HIDE DEF fresh
<1> QED BY <1>3, <1>5, <1>6

LEMMA IdsOfAdded ==
  ASSUME NEW added, NEW x \in added, \A y \in added : y.of = x.of => y = x
  PROVE  Ids(added, x.of) = x.id
<1>1. (CHOOSE y \in added : y.of = x.of) = x
  OBVIOUS
<1> QED BY <1>1 DEF Ids

LEMMA IdsOfOthers ==
  ASSUME NEW added, NEW o, \A y \in added : y.of # o
  PROVE  Ids(added, o) = eventId[o]
  BY DEF Ids

\* A raid that starts adds its next event, which nextEventEvent remembers, or
\* nothing if it has none.
LEMMA FirstEventOfRaid ==
  ASSUME RaidsInv, NEW r \in raidList
  PROVE  /\ r \in RaidObject \ deleted
         /\ FirstEvent(r) \subseteq AnyRaidEvent
         /\ \A f \in FirstEvent(r) : f.of = r /\ f.step = nextEvent[r]
         /\ \A f, g \in FirstEvent(r) : f = g
         /\ IsFiniteSet(FirstEvent(r))
<1>1. r \in RaidObject \ deleted /\ nextEvent[r] \in Nat
  BY DEF RaidsInv, RaidsTypeOK
<1>2. /\ NewEvent(r, nextEvent[r]).id \in Nat \ {0}
      /\ NewEvent(r, nextEvent[r]).of = r /\ NewEvent(r, nextEvent[r]).step = nextEvent[r]
      /\ NewEvent(r, nextEvent[r]) = [id |-> NewEvent(r, nextEvent[r]).id, of |-> r, step |-> nextEvent[r]]
  BY NewEventIsNew DEF RaidsInv
<1>3. NewEvent(r, nextEvent[r]) \in AnyRaidEvent
  BY <1>1, <1>2 DEF AnyRaidEvent, Owner
<1>4. FirstEvent(r) = {} \/ FirstEvent(r) = {NewEvent(r, nextEvent[r])}
  BY DEF FirstEvent
<1>5. IsFiniteSet({}) /\ IsFiniteSet({NewEvent(r, nextEvent[r])})
  BY FS_EmptySet, FS_Singleton
<1> QED BY <1>1, <1>2, <1>3, <1>4, <1>5

\* What Schedule leaves of types and finiteness.
LEMMA ScheduleTyped ==
  ASSUME RaidsInv, NEW remaining \in SUBSET events, NEW added \in SUBSET AnyRaidEvent,
         IsFiniteSet(added), Schedule(remaining, added)
  PROVE  /\ IsFiniteSet(events') /\ events' \subseteq AnyRaidEvent
         /\ eventId' \in [Owner -> Nat]
         /\ \A o \in Owner : eventId'[o] = Ids(added, o)
<1>1. events' = remaining \cup added /\ eventId' = [o \in Owner |-> Ids(added, o)]
  BY DEF Schedule
<1>2. IsFiniteSet(remaining)
  BY FS_Subset DEF RaidsInv
<1>3. IsFiniteSet(events')
  BY <1>1, <1>2, FS_Union
<1>4. events' \subseteq AnyRaidEvent
  BY <1>1 DEF RaidsInv, RaidsTypeOK, AnyRaidEvent
<1>5. \A o \in Owner : Ids(added, o) \in Nat
  <2>. SUFFICES ASSUME NEW o \in Owner PROVE Ids(added, o) \in Nat
    OBVIOUS
  <2>1. CASE \E e \in added : e.of = o
    <3>1. (CHOOSE e \in added : e.of = o) \in added
      BY <2>1
    <3> QED BY <2>1, <3>1 DEF Ids, AnyRaidEvent
  <2>2. CASE ~\E e \in added : e.of = o
    BY <2>2 DEF Ids, RaidsInv, RaidsTypeOK
  <2> QED BY <2>1, <2>2
<1> QED BY <1>1, <1>3, <1>4, <1>5

\* The one event of raids is the next one of the raid that is running.
OnlyNext(e) == e.of = raiding /\ e.step = nextEvent[raiding] /\ e.of \notin deleted /\ e.id = eventId[raiding]

\* The check that runs comes again, and nothing else happens to checks.
LEMMA CheckComesAgain ==
  ASSUME RaidsInv, NEW e \in events, e.of = Check, NEW first \in SUBSET AnyRaidEvent,
         \A f \in first : f.of # Check,
         Schedule(events \ {e}, {NewEvent(Check, 0)} \cup first),
         UNCHANGED <<missed, started>>
  PROVE  /\ eventId'[Check] = NewEvent(Check, 0).id
         /\ CheckedForEver'
<1>. DEFINE N == NewEvent(Check, 0)
<1>1. N.of = Check
  BY NewEventIsNew DEF RaidsInv
<1>2. Check \in Owner
  BY OwnersDiffer
<1>3. eventId'[Check] = N.id
  <2>1. \A y \in {N} \cup first : y.of = N.of => y = N
    BY <1>1
  <2>2. Ids({N} \cup first, N.of) = N.id
    BY <2>1, IdsOfAdded
  <2> QED BY <1>1, <1>2, <2>2 DEF Schedule
<1>4. RaidEvents(Check)' = (RaidEvents(Check) \ {e}) \cup {N}
  BY <1>1 DEF Schedule, RaidEvents
<1>5. Cardinality(RaidEvents(Check)') <= Cardinality(RaidEvents(Check))
  <2>1. IsFiniteSet(RaidEvents(Check)) /\ Cardinality(RaidEvents(Check)) \in Nat
    BY RaidEventsFinite DEF RaidsInv
  <2>2. e \in RaidEvents(Check)
    BY DEF RaidEvents
  <2>3. /\ IsFiniteSet(RaidEvents(Check) \ {e})
        /\ Cardinality(RaidEvents(Check) \ {e}) = Cardinality(RaidEvents(Check)) - 1
    BY <2>1, <2>2, FS_RemoveElement
  <2>4. /\ Cardinality((RaidEvents(Check) \ {e}) \cup {N}) <= Cardinality(RaidEvents(Check) \ {e}) + 1
        /\ Cardinality((RaidEvents(Check) \ {e}) \cup {N}) \in Nat
    BY <2>3, CardinalityWith
  <2> QED BY <1>4, <2>1, <2>3, <2>4
<1>6. /\ Cardinality(RaidEvents(Check)) \in Nat /\ Cardinality(RaidEvents(Check)') \in Nat
      /\ Cardinality(RaidEvents(Check)) <= missed + (IF started THEN 1 ELSE 0)
  <2>1. IsFiniteSet(RaidEvents(Check)) /\ Cardinality(RaidEvents(Check)) \in Nat
    BY RaidEventsFinite DEF RaidsInv
  <2>2. IsFiniteSet(RaidEvents(Check) \ {e})
    BY <2>1, FS_RemoveElement
  <2> QED BY <1>4, <2>1, <2>2, CardinalityWith DEF RaidsInv, CheckedForEver
<1>7. Cardinality(RaidEvents(Check)') <= missed' + (IF started' THEN 1 ELSE 0)
  BY <1>5, <1>6 DEF RaidsInv
<1>8. N \in RaidEvents(Check)' /\ N.id = eventId'[Check]
  BY <1>3, <1>4
<1> QED BY <1>3, <1>7, <1>8 DEF CheckedForEver

\* A raid starts when none is running: then no event of a raid is scheduled.
LEMMA NoneWhileIdle ==
  ASSUME RaidsInv, raiding = NoRaid, stray = {}
  PROVE  \A e \in events : e.of = Check
<1>. SUFFICES ASSUME NEW e \in events, e.of # Check PROVE FALSE
  OBVIOUS
<1>1. e.of = NoRaid
  BY DEF RaidsInv, OneRaid
<1>2. e.of \in Owner
  BY DEF RaidsInv, RaidsTypeOK
<1> QED BY <1>1, <1>2, OwnersDiffer

\* What Schedule adds when it starts raid r.
LEMMA RaidStarts ==
  ASSUME RaidsInv, raiding = NoRaid, NEW r \in raidList,
         NEW remaining \in SUBSET events, NEW checks \in SUBSET AnyRaidEvent,
         \A c \in checks : c.of = Check,
         Schedule(remaining, checks \cup FirstEvent(r)),
         raiding' = r, UNCHANGED <<nextEvent, deleted, stray>>
  PROVE  OneRaid'
<1>1. /\ r \in RaidObject \ deleted
      /\ \A f \in FirstEvent(r) : f.of = r /\ f.step = nextEvent[r]
      /\ \A f, g \in FirstEvent(r) : f = g
  BY FirstEventOfRaid
<1>2. r # Check /\ r \in Owner
  BY <1>1, OwnersDiffer DEF Owner
<1>. SUFFICES ASSUME stray = {}, NEW e \in events', e.of # Check
              PROVE  OnlyNext(e)' /\ \A f \in events' : f.of # Check => f = e
  BY DEF OneRaid, OnlyNext
<1>3. \A f \in events' : f.of # Check => f \in FirstEvent(r)
  BY NoneWhileIdle DEF Schedule
<1>4. e \in FirstEvent(r) /\ \A f \in events' : f.of # Check => f = e
  BY <1>1, <1>3
<1>5. eventId'[r] = e.id
  <2>1. \A y \in checks \cup FirstEvent(r) : y.of = e.of => y = e
    BY <1>1, <1>2, <1>4
  <2>2. Ids(checks \cup FirstEvent(r), e.of) = e.id
    BY <1>4, <2>1, IdsOfAdded
  <2> QED BY <1>1, <1>2, <1>4, <2>2 DEF Schedule
<1> QED BY <1>1, <1>4, <1>5 DEF OnlyNext

LEMMA CheckRaidsKeeps ==
  ASSUME RaidsInv, NEW e \in events, CheckRaids(e)
  PROVE  RaidsInv'
<1>. DEFINE N == NewEvent(Check, 0)
<1>1. e.of = Check /\ UNCHANGED <<loads, started, nextEvent, deleted, missed, stray>>
  BY DEF CheckRaids
<1>2. N \in AnyRaidEvent /\ N.of = Check
  <2>1. N.id \in Nat \ {0} /\ N.of = Check /\ N.step = 0 /\ N = [id |-> N.id, of |-> Check, step |-> 0]
    BY NewEventIsNew DEF RaidsInv
  <2> QED BY <2>1, OwnersDiffer DEF AnyRaidEvent
<1>3. CASE Schedule(events \ {e}, {N}) /\ UNCHANGED <<raidList, raiding>>
  <2>1. PICK first \in SUBSET AnyRaidEvent : first = {}
    OBVIOUS
  <2>10. {N} \cup first = {N}
    BY <2>1
  <2>11. Schedule(events \ {e}, {N} \cup first) /\ \A f \in first : f.of # Check
    BY <1>3, <2>1, <2>10
  <2>2. CheckedForEver'
    BY <1>1, <2>11, CheckComesAgain
  <2>3. /\ IsFiniteSet(events') /\ events' \subseteq AnyRaidEvent
        /\ eventId' \in [Owner -> Nat]
        /\ \A o \in Owner : eventId'[o] = Ids({N}, o)
    <3>1. {N} \in SUBSET AnyRaidEvent /\ IsFiniteSet({N}) /\ events \ {e} \in SUBSET events
      BY <1>2, FS_Singleton
    <3> QED BY <1>3, <3>1, ScheduleTyped
  <2>4. OneRaid'
    <3>. SUFFICES ASSUME stray = {}, NEW f \in events', f.of # Check
                  PROVE  OnlyNext(f)' /\ \A g \in events' : g.of # Check => g = f
      BY <1>1 DEF OneRaid, OnlyNext
    <3>1. f \in events /\ \A g \in events' : g.of # Check => g \in events
      BY <1>2, <1>3 DEF Schedule
    <3>2. OnlyNext(f) /\ \A g \in events : g.of # Check => g = f
      BY <3>1 DEF RaidsInv, OneRaid, OnlyNext
    <3>3. raiding \in Owner /\ raiding # Check
      BY <3>1, <3>2 DEF OnlyNext, RaidsInv, RaidsTypeOK
    <3>4. eventId'[raiding] = eventId[raiding]
      BY <1>2, <2>3, <3>3, IdsOfOthers
    <3> QED BY <1>1, <1>3, <3>1, <3>2, <3>4 DEF OnlyNext
  <2> QED BY <1>1, <1>3, <2>2, <2>3, <2>4 DEF RaidsInv, RaidsTypeOK, LoadedRaids, AnyRaidEvent
<1>4. ASSUME raiding = NoRaid, NEW r \in raidList, raiding' = r,
             Schedule(events \ {e}, {N} \cup FirstEvent(r)),
             raidList' = IF r[1] \in Repeated THEN raidList ELSE raidList \ {r}
      PROVE  RaidsInv'
  <2>1. /\ r \in RaidObject /\ FirstEvent(r) \subseteq AnyRaidEvent /\ IsFiniteSet(FirstEvent(r))
        /\ \A f \in FirstEvent(r) : f.of # Check
    BY <1>4, FirstEventOfRaid, OwnersDiffer
  <2>2. CheckedForEver'
    BY <1>1, <1>4, <2>1, CheckComesAgain
  <2>3. IsFiniteSet({N} \cup FirstEvent(r))
    BY <2>1, FS_Singleton, FS_Union
  <2>4. /\ IsFiniteSet(events') /\ events' \subseteq AnyRaidEvent
        /\ eventId' \in [Owner -> Nat]
    BY <1>2, <1>4, <2>1, <2>3, ScheduleTyped
  <2>5. OneRaid'
    <3>1. {N} \in SUBSET AnyRaidEvent /\ \A c \in {N} : c.of = Check
      BY <1>2
    <3> QED BY <1>1, <1>4, <3>1, RaidStarts
  <2>6. raidList' \subseteq raidList /\ raiding' \in RaidObject
    BY <1>4, <2>1
  <2> QED BY <1>1, <2>2, <2>4, <2>5, <2>6 DEF RaidsInv, RaidsTypeOK, LoadedRaids, AnyRaidEvent
<1> QED BY <1>3, <1>4 DEF CheckRaids

\* Checks are untouched by what only concerns raids.
LEMMA ChecksUntouched ==
  ASSUME RaidsInv, RaidEvents(Check)' = RaidEvents(Check), eventId'[Check] = eventId[Check],
         UNCHANGED <<missed, started>>
  PROVE  CheckedForEver'
  BY DEF RaidsInv, CheckedForEver

LEMMA StartRaidKeeps ==
  ASSUME RaidsInv, NEW r \in raidList, StartRaid(r)
  PROVE  RaidsInv'
<1>1. /\ raiding = NoRaid /\ raiding' = r /\ Schedule(events, FirstEvent(r))
      /\ UNCHANGED <<loads, raidList, started, nextEvent, deleted, missed, stray>>
  BY DEF StartRaid
<1>2. /\ r \in RaidObject /\ FirstEvent(r) \subseteq AnyRaidEvent /\ IsFiniteSet(FirstEvent(r))
      /\ \A f \in FirstEvent(r) : f.of # Check
  BY FirstEventOfRaid, OwnersDiffer
<1>3. /\ IsFiniteSet(events') /\ events' \subseteq AnyRaidEvent
      /\ eventId' \in [Owner -> Nat]
      /\ \A o \in Owner : eventId'[o] = Ids(FirstEvent(r), o)
  BY <1>1, <1>2, ScheduleTyped
<1>4. OneRaid'
  <2>1. PICK checks \in SUBSET AnyRaidEvent : checks = {}
    OBVIOUS
  <2>2. checks \cup FirstEvent(r) = FirstEvent(r) /\ \A c \in checks : c.of = Check
    BY <2>1
  <2>3. Schedule(events, checks \cup FirstEvent(r))
    BY <1>1, <2>2
  <2> QED BY <1>1, <2>2, <2>3, RaidStarts
<1>5. CheckedForEver'
  <2>1. RaidEvents(Check)' = RaidEvents(Check)
    BY <1>1, <1>2 DEF Schedule, RaidEvents
  <2>2. eventId'[Check] = eventId[Check]
    BY <1>2, <1>3, OwnersDiffer, IdsOfOthers
  <2> QED BY <1>1, <2>1, <2>2, ChecksUntouched
<1> QED BY <1>1, <1>2, <1>3, <1>4, <1>5 DEF RaidsInv, RaidsTypeOK, LoadedRaids, AnyRaidEvent

LEMMA ExecuteRaidEventKeeps ==
  ASSUME RaidsInv, NEW e \in events, ExecuteRaidEvent(e)
  PROVE  RaidsInv'
<1>. DEFINE r == e.of
            next == nextEvent[r] + 1
            N == NewEvent(r, next)
<1>1. r \in RaidObject \ deleted /\ UNCHANGED <<loads, raidList, started, deleted, missed, stray>>
  BY DEF ExecuteRaidEvent
<1>2. r \in Owner /\ r # Check /\ next \in Nat
  BY <1>1, OwnersDiffer DEF Owner, RaidsInv, RaidsTypeOK
<1>3. N \in AnyRaidEvent /\ N.of = r /\ N.step = next
  <2>1. N.id \in Nat \ {0} /\ N.of = r /\ N.step = next /\ N = [id |-> N.id, of |-> r, step |-> next]
    BY NewEventIsNew DEF RaidsInv
  <2> QED BY <1>2, <2>1 DEF AnyRaidEvent
<1>4. PICK added \in SUBSET AnyRaidEvent :
        /\ Schedule(events \ {e}, added)
        /\ nextEvent' \in [RaidObject -> Nat]
        /\ raiding' \in RaidObject \cup {NoRaid}
        /\ \/ added = {N} /\ nextEvent' = [nextEvent EXCEPT ![r] = next] /\ raiding' = raiding
           \/ added = {}
  <2>1. CASE /\ nextEvent' = [nextEvent EXCEPT ![r] = next]
             /\ Schedule(events \ {e}, {N}) /\ UNCHANGED raiding
    <3>1. PICK added \in SUBSET AnyRaidEvent : added = {N}
      BY <1>3
    <3>2. nextEvent' \in [RaidObject -> Nat] /\ raiding' \in RaidObject \cup {NoRaid}
      BY <1>2, <2>1 DEF RaidsInv, RaidsTypeOK
    <3> QED BY <2>1, <3>1, <3>2
  <2>2. CASE /\ nextEvent' = [nextEvent EXCEPT ![r] = 1]
             /\ Schedule(events \ {e}, {}) /\ raiding' = NoRaid
    <3>1. PICK added \in SUBSET AnyRaidEvent : added = {}
      OBVIOUS
    <3>2. nextEvent' \in [RaidObject -> Nat]
      BY <2>2 DEF RaidsInv, RaidsTypeOK
    <3> QED BY <2>2, <3>1, <3>2
  <2> QED BY <2>1, <2>2 DEF ExecuteRaidEvent
<1>5. IsFiniteSet(added) /\ \A f \in added : f.of = r /\ f = N
  <2>1. added = {N} \/ added = {}
    BY <1>4
  <2>2. IsFiniteSet({N}) /\ IsFiniteSet({})
    BY FS_EmptySet, FS_Singleton
  <2> QED BY <1>3, <2>1, <2>2
<1>6. /\ IsFiniteSet(events') /\ events' \subseteq AnyRaidEvent
      /\ eventId' \in [Owner -> Nat]
      /\ \A o \in Owner : eventId'[o] = Ids(added, o)
  BY <1>4, <1>5, ScheduleTyped
<1>7. CheckedForEver'
  <2>1. RaidEvents(Check)' = RaidEvents(Check)
    BY <1>2, <1>4, <1>5 DEF Schedule, RaidEvents
  <2>2. eventId'[Check] = eventId[Check]
    BY <1>2, <1>5, <1>6, OwnersDiffer, IdsOfOthers
  <2> QED BY <1>1, <2>1, <2>2, ChecksUntouched
<1>8. OneRaid'
  <2>. SUFFICES ASSUME stray = {}, NEW f \in events', f.of # Check
                PROVE  OnlyNext(f)' /\ \A g \in events' : g.of # Check => g = f
    BY <1>1 DEF OneRaid, OnlyNext
  <2>1. OnlyNext(e) /\ \A g \in events : g.of # Check => g = e
    BY <1>2 DEF RaidsInv, OneRaid, OnlyNext
  <2>2. \A g \in events' : g.of # Check => g \in added
    BY <1>4, <2>1 DEF Schedule
  <2>3. f \in added /\ \A g \in events' : g.of # Check => g = f
    BY <1>5, <2>2
  <2>4. f = N /\ nextEvent' = [nextEvent EXCEPT ![r] = next] /\ raiding' = raiding
    BY <1>4, <1>5, <2>3
  <2>5. eventId'[r] = f.id
    <3>1. \A y \in added : y.of = f.of => y = f
      BY <1>5, <2>3
    <3>2. Ids(added, f.of) = f.id
      BY <2>3, <3>1, IdsOfAdded
    <3> QED BY <1>2, <1>3, <1>6, <2>4, <3>2
  <2>6. nextEvent'[r] = next
    BY <1>1, <2>4 DEF RaidsInv, RaidsTypeOK
  <2> QED BY <1>1, <1>3, <2>1, <2>3, <2>4, <2>5, <2>6 DEF OnlyNext
<1> QED BY <1>1, <1>4, <1>6, <1>7, <1>8 DEF RaidsInv, RaidsTypeOK, LoadedRaids, AnyRaidEvent

LEMMA TouchDeletedKeeps ==
  ASSUME RaidsInv, NEW e \in events, TouchDeleted(e)
  PROVE  RaidsInv'
<1>1. /\ e.of \in deleted /\ events' = events \ {e}
      /\ UNCHANGED <<eventId, loads, raidList, raiding, started, nextEvent, deleted, missed, stray>>
  BY DEF TouchDeleted
<1>2. deleted \subseteq RaidObject
  BY RaidsAssumption DEF RaidsInv, LoadedRaids, RaidObject
<1>3. e.of # Check
  BY <1>1, <1>2, OwnersDiffer
<1>4. RaidEvents(Check)' = RaidEvents(Check)
  BY <1>1, <1>3 DEF RaidEvents
<1>5. CheckedForEver'
  BY <1>1, <1>4, ChecksUntouched
<1>6. stray # {}
  BY <1>1, <1>3 DEF RaidsInv, OneRaid
<1>7. IsFiniteSet(events')
  BY <1>1, FS_RemoveElement DEF RaidsInv
<1> QED BY <1>1, <1>5, <1>6, <1>7 DEF RaidsInv, RaidsTypeOK, LoadedRaids, OneRaid

LEMMA ReloadRaidsKeeps ==
  ASSUME RaidsInv, NEW found \in BOOLEAN, NEW tooLate \in SUBSET Asked, ReloadRaids(found, tooLate)
  PROVE  RaidsInv'
<1>. DEFINE kept == events \ (Asked \ tooLate)
            N == NewEvent(Check, 0)
            S == RaidEvents(Check)
            A == {e \in Asked : e.of = Check}
            B == {e \in tooLate : e.of = Check}
<1>1. /\ loads < MaxLoads /\ loads' = loads + 1 /\ raiding' = NoRaid
      /\ deleted' = deleted \cup raidList
      /\ raidList' = IF found THEN Raid \X {loads + 1} ELSE {}
      /\ started' = found
      /\ events' = kept \cup (IF found THEN {N} ELSE {})
      /\ eventId' = [eventId EXCEPT ![Check] = IF found THEN N.id ELSE 0]
      /\ missed' = missed + Cardinality(B)
      /\ stray' = stray \cup ({e.of : e \in kept} \ {Check})
      /\ nextEvent' = nextEvent
  BY DEF ReloadRaids
<1>2. N \in AnyRaidEvent /\ N.of = Check /\ N.id \in Nat
  <2>1. N.id \in Nat \ {0} /\ N.of = Check /\ N.step = 0 /\ N = [id |-> N.id, of |-> Check, step |-> 0]
    BY NewEventIsNew DEF RaidsInv
  <2> QED BY <2>1, OwnersDiffer DEF AnyRaidEvent
<1>3. IsFiniteSet(kept) /\ kept \subseteq AnyRaidEvent
  BY FS_Subset DEF RaidsInv, RaidsTypeOK, AnyRaidEvent
<1>4. IsFiniteSet(events') /\ events' \subseteq AnyRaidEvent
  BY <1>1, <1>2, <1>3, FS_AddElement
<1>5. eventId' \in [Owner -> Nat] /\ eventId'[Check] = IF found THEN N.id ELSE 0
  BY <1>1, <1>2, OwnersDiffer DEF RaidsInv, RaidsTypeOK
<1>6. LoadedRaids' /\ raidList' \subseteq RaidObject \ deleted'
  <2>1. loads \in Nat /\ loads + 1 \in 1..MaxLoads
    BY <1>1, RaidsAssumption DEF RaidsInv, LoadedRaids
  <2>2. deleted' \subseteq Raid \X (1..loads) /\ raidList' \subseteq Raid \X {loads + 1}
    BY <1>1 DEF RaidsInv, LoadedRaids
  <2>3. /\ 1..loads \subseteq 1..(loads + 1) /\ loads + 1 \in 1..(loads + 1)
        /\ loads + 1 \notin 1..loads
    BY <2>1
  <2>4. raidList' \subseteq RaidObject
    BY <2>1, <2>2 DEF RaidObject
  <2>5. raidList' \cap deleted' = {}
    BY <2>2, <2>3
  <2>6. loads' \in 0..MaxLoads
    BY <1>1, <2>1
  <2> QED BY <1>1, <2>2, <2>3, <2>4, <2>5, <2>6 DEF LoadedRaids
<1>7. /\ IsFiniteSet(S) /\ A \subseteq S /\ B \subseteq A
      /\ {e \in kept : e.of = Check} = S \ (A \ B)
  <2>1. IsFiniteSet(S)
    BY RaidEventsFinite DEF RaidsInv
  <2> QED BY <2>1 DEF RaidEvents, Asked
<1>8. started => A # {}
  BY DEF RaidsInv, CheckedForEver, RaidEvents, Asked
<1>9. RaidEvents(Check)' = {e \in kept : e.of = Check} \cup (IF found THEN {N} ELSE {})
  BY <1>1, <1>2 DEF RaidEvents
<1>10. /\ Cardinality(S) <= missed + (IF started THEN 1 ELSE 0)
       /\ missed \in Nat /\ started \in BOOLEAN
  BY DEF RaidsInv, CheckedForEver
<1>11. stray' = {} => \A e \in kept : e.of = Check
  BY <1>1
<1>. HIDE DEF kept, S, A, B
<1>12. /\ Cardinality(S) \in Nat /\ Cardinality(B) \in Nat
       /\ Cardinality(S \ (A \ B)) \in Nat
       /\ Cardinality(S \ (A \ B)) <= Cardinality(S)
       /\ A # {} => Cardinality(S \ (A \ B)) < Cardinality(S) + Cardinality(B)
       /\ A = {} => Cardinality(B) = 0
       /\ IsFiniteSet(S \ (A \ B))
  BY <1>7, CardinalityWithout
<1>13. missed' \in Nat /\ Cardinality(S \ (A \ B)) <= missed'
  <2>1. CASE started
    <3>1. Cardinality(S) <= missed + 1
      BY <1>10, <2>1
    <3> QED BY <1>1, <1>8, <1>10, <1>12, <2>1, <3>1
  <2>2. CASE ~started
    <3>1. Cardinality(S) <= missed
      BY <1>10, <1>12, <2>2
    <3> QED BY <1>1, <1>10, <1>12, <3>1
  <2> QED BY <1>10, <2>1, <2>2
<1>14. CheckedForEver'
  <2>1. CASE found
    <3>1. RaidEvents(Check)' = (S \ (A \ B)) \cup {N}
      BY <1>7, <1>9, <2>1
    <3>2. Cardinality(RaidEvents(Check)') <= Cardinality(S \ (A \ B)) + 1 /\ Cardinality(RaidEvents(Check)') \in Nat
      BY <1>12, <3>1, CardinalityWith
    <3>3. Cardinality(RaidEvents(Check)') <= missed' + 1
      BY <1>12, <1>13, <3>2
    <3>4. N \in RaidEvents(Check)' /\ N.id = eventId'[Check]
      BY <1>5, <2>1, <3>1
    <3> QED BY <1>1, <2>1, <3>3, <3>4 DEF CheckedForEver
  <2>2. CASE ~found
    <3>1. RaidEvents(Check)' = S \ (A \ B)
      BY <1>7, <1>9, <2>2
    <3>2. Cardinality(RaidEvents(Check)') <= missed' + 0
      BY <1>12, <1>13, <3>1
    <3> QED BY <1>1, <2>2, <3>2 DEF CheckedForEver
  <2> QED BY <2>1, <2>2
<1>15. OneRaid'
  <2>. SUFFICES ASSUME stray' = {} PROVE \A e \in events' : e.of = Check
    BY DEF OneRaid
  <2> QED BY <1>1, <1>2, <1>11
<1>16. raiding' \in RaidObject \cup {NoRaid} /\ nextEvent' \in [RaidObject -> Nat] /\ started' \in BOOLEAN
  BY <1>1 DEF RaidsInv, RaidsTypeOK
<1> QED BY <1>4, <1>5, <1>6, <1>13, <1>14, <1>15, <1>16 DEF RaidsInv, RaidsTypeOK, AnyRaidEvent

\* However many raids, steps and loads: the check that checkRaidsEvent names is
\* always there, a second chain comes from a stop that was too late, and as
\* long as no event of a raid outlived a clear there is one event of raids, the
\* next one of the raid that is running.
THEOREM RaidsAreSound == RaidsSpec => []RaidsSound
<1>1. RaidsInit => RaidsInv
  <2>. SUFFICES ASSUME RaidsInit PROVE RaidsInv
    OBVIOUS
  <2>1. RaidEvents(Check) = {} /\ Cardinality({}) = 0 /\ IsFiniteSet({})
    BY FS_EmptySet DEF RaidsInit, RaidEvents
  <2>2. CheckedForEver
    BY <2>1 DEF CheckedForEver, RaidsInit
  <2>3. LoadedRaids
    BY RaidsAssumption DEF LoadedRaids, RaidsInit
  <2>4. RaidsTypeOK /\ OneRaid
    BY DEF RaidsTypeOK, OneRaid, RaidsInit
  <2> QED BY <2>1, <2>2, <2>3, <2>4 DEF RaidsInv, RaidsInit
<1>2. RaidsInv /\ [RaidsNext]_raidVars => RaidsInv'
  <2>. SUFFICES ASSUME RaidsInv, [RaidsNext]_raidVars PROVE RaidsInv'
    OBVIOUS
  <2>1. ASSUME NEW e \in events, CheckRaids(e) PROVE RaidsInv'
    BY <2>1, CheckRaidsKeeps
  <2>2. ASSUME NEW e \in events, ExecuteRaidEvent(e) PROVE RaidsInv'
    BY <2>2, ExecuteRaidEventKeeps
  <2>3. ASSUME NEW e \in events, TouchDeleted(e) PROVE RaidsInv'
    BY <2>3, TouchDeletedKeeps
  <2>4. ASSUME NEW r \in raidList, StartRaid(r) PROVE RaidsInv'
    BY <2>4, StartRaidKeeps
  <2>5. ASSUME NEW found \in BOOLEAN, NEW tooLate \in SUBSET Asked, ReloadRaids(found, tooLate)
        PROVE  RaidsInv'
    BY <2>5, ReloadRaidsKeeps
  <2>6. CASE UNCHANGED raidVars
    BY <2>6 DEF raidVars, RaidsInv, LoadedRaids, RaidsTypeOK, CheckedForEver, OneRaid, RaidEvents
  <2> QED BY <2>1, <2>2, <2>3, <2>4, <2>5, <2>6 DEF RaidsNext
<1>3. RaidsInv => RaidsSound
  BY DEF RaidsInv, RaidsSound
<1> QED BY <1>1, <1>2, <1>3, PTL DEF RaidsSpec

-----------------------------------------------------------------------------
(***************************************************************************)
(* Services.  A port is opened again by one retry at a time (Single), and  *)
(* only while it is marked (Marked).  While the dispatcher takes tasks no  *)
(* stop is under way (Orderly), and when main runs the accept loops every  *)
(* port of the manager has a service (Staged).  All of it is needed for    *)
(* Listening: an accept that is not renewed, a stop or a second retry would *)
(* leave a port alone.                                                     *)
(***************************************************************************)

Task == Port \cup {"signal", "shutdown", "end"}
PortState == [open : BOOLEAN, accepting : BOOLEAN, services : BOOLEAN, pendingStart : BOOLEAN]

In(t, s) == \E i \in 1..Len(s) : s[i] = t
Once(s) == \A i, j \in 1..Len(s) : s[i] = s[j] /\ s[i] \in Port => i = j

Waits(p) == p \in retries \/ In(p, tasks)

ServicesTyped == tasks \in Seq(Task) /\ port \in [Port -> PortState] /\ ServicesTypeOK

Single == Once(tasks) /\ \A p \in retries : ~In(p, tasks)

Marked == \A p \in Port : Waits(p) => port[p].pendingStart

Orderly == taking => stops = {} /\ ~In("shutdown", tasks)

Staged ==
  /\ loader \in {"config", "early", "late"} => acceptors = {}
  /\ loader = "done" => \A p \in acceptors : port[p].services
  /\ ~astray /\ main \notin {"started", "waiting"} => loader = "done"

Watched ==
  taking /\ ~astray =>
    \A p \in acceptors : port[p].accepting # port[p].pendingStart /\ (port[p].pendingStart => Waits(p))

ServicesInv == ServicesTyped /\ Single /\ Marked /\ Orderly /\ Staged /\ Watched

-----------------------------------------------------------------------------
(* The tasks of the dispatcher *)

LEMMA TaskAppended ==
  ASSUME NEW s \in Seq(Task), NEW x \in Task
  PROVE  /\ Append(s, x) \in Seq(Task)
         /\ \A t : In(t, Append(s, x)) <=> In(t, s) \/ t = x
         /\ Once(s) /\ (x \in Port => ~In(x, s)) => Once(Append(s, x))
<1>. DEFINE a == Append(s, x)
<1>1. /\ a \in Seq(Task) /\ Len(s) \in Nat /\ Len(a) = Len(s) + 1
      /\ \A i \in 1..Len(s) : a[i] = s[i]
      /\ a[Len(s) + 1] = x
  OBVIOUS
<1>. HIDE DEF a
<1>2. 1..Len(a) = (1..Len(s)) \cup {Len(s) + 1}
  BY <1>1
<1>3. \A t : In(t, a) <=> In(t, s) \/ t = x
  BY <1>1, <1>2 DEF In
<1>4. ASSUME Once(s), x \in Port => ~In(x, s) PROVE Once(a)
  BY <1>1, <1>2, <1>4 DEF Once, In
<1> QED BY <1>1, <1>3, <1>4 DEF a

LEMMA TaskTaken ==
  ASSUME NEW s \in Seq(Task), s # <<>>
  PROVE  /\ Head(s) \in Task /\ Tail(s) \in Seq(Task) /\ In(Head(s), s)
         /\ \A t : In(t, Tail(s)) => In(t, s)
         /\ \A t : In(t, s) /\ t # Head(s) => In(t, Tail(s))
         /\ Once(s) => Once(Tail(s)) /\ (Head(s) \in Port => ~In(Head(s), Tail(s)))
<1>. DEFINE r == Tail(s)
            h == Head(s)
<1>1. /\ r \in Seq(Task) /\ Len(s) \in Nat \ {0} /\ Len(r) = Len(s) - 1
      /\ h = s[1] /\ h \in Task
      /\ \A i \in 1..Len(r) : r[i] = s[i + 1]
  OBVIOUS
<1>. HIDE DEF r, h
<1>2. \A i \in 1..Len(r) : i + 1 \in 1..Len(s) /\ i + 1 # 1
  BY <1>1
<1>3. \A i \in 1..Len(s) : i # 1 => i - 1 \in 1..Len(r) /\ r[i - 1] = s[i]
  BY <1>1
<1>4. 1 \in 1..Len(s)
  BY <1>1
<1>5. In(h, s)
  BY <1>1, <1>4 DEF In
<1>6. \A t : In(t, r) => In(t, s)
  BY <1>1, <1>2 DEF In
<1>7. \A t : In(t, s) /\ t # h => In(t, r)
  BY <1>1, <1>3 DEF In
<1>8. ASSUME Once(s) PROVE Once(r)
  <2>. SUFFICES ASSUME NEW i \in 1..Len(r), NEW j \in 1..Len(r), r[i] = r[j], r[i] \in Port
                PROVE  i = j
    BY DEF Once
  <2>1. s[i + 1] = s[j + 1] /\ s[i + 1] \in Port
    BY <1>1
  <2>2. i + 1 = j + 1
    BY <1>2, <1>8, <2>1 DEF Once
  <2> QED BY <1>1, <2>2
<1>9. ASSUME Once(s), h \in Port, In(h, r) PROVE FALSE
  <2>1. PICK i \in 1..Len(r) : r[i] = h
    BY <1>9 DEF In
  <2>2. s[i + 1] = s[1] /\ s[1] \in Port /\ i + 1 \in 1..Len(s)
    BY <1>1, <1>2, <1>9, <2>1
  <2>3. i + 1 = 1
    BY <1>4, <1>9, <2>2 DEF Once
  <2> QED BY <1>2, <2>3
<1> QED BY <1>1, <1>5, <1>6, <1>7, <1>8, <1>9 DEF r, h

\* The named tasks are no ports.
LEMMA NamesDiffer == {"signal", "shutdown", "end"} \cap Port = {} /\ {"signal", "shutdown", "end"} \subseteq Task
  BY PortAssumption DEF Task

\* A task that is no port comes or goes: nothing changes for the ports.
LEMMA PortsUntouched ==
  ASSUME ServicesInv, UNCHANGED <<port, retries>>,
         tasks' \in Seq(Task), Once(tasks'), \A p \in Port : In(p, tasks') <=> In(p, tasks),
         taking' => taking, astray => astray',
         taking' /\ ~astray' => UNCHANGED acceptors
  PROVE  Single' /\ Marked' /\ Watched'
<1>. USE DEF ServicesInv, Waits
<1>1. retries \subseteq Port /\ acceptors \subseteq Port
  BY DEF ServicesTyped, ServicesTypeOK
<1>2. Single'
  BY <1>1 DEF Single
<1>3. Marked'
  BY DEF Marked
<1>4. Watched'
  BY <1>1 DEF Watched
<1> QED BY <1>2, <1>3, <1>4

LEMMA OtherTaskComes ==
  ASSUME ServicesInv, NEW x \in {"signal", "shutdown", "end"}
  PROVE  /\ Append(tasks, x) \in Seq(Task) /\ Once(Append(tasks, x))
         /\ \A p \in Port : In(p, Append(tasks, x)) <=> In(p, tasks)
         /\ In("shutdown", Append(tasks, x)) => In("shutdown", tasks) \/ x = "shutdown"
<1>1. tasks \in Seq(Task) /\ Once(tasks) /\ x \in Task /\ x \notin Port
  BY NamesDiffer DEF ServicesInv, ServicesTyped, Single
<1>2. \A p \in Port : p # x
  BY <1>1
<1> QED BY <1>1, <1>2, TaskAppended

LEMMA OtherTaskGoes ==
  ASSUME ServicesInv, tasks # <<>>, Head(tasks) \in {"signal", "shutdown", "end"}
  PROVE  /\ Tail(tasks) \in Seq(Task) /\ Once(Tail(tasks))
         /\ \A p \in Port : In(p, Tail(tasks)) <=> In(p, tasks)
         /\ In("shutdown", Tail(tasks)) => In("shutdown", tasks)
         /\ \A x \in {"signal", "shutdown", "end"} :
              /\ Append(Tail(tasks), x) \in Seq(Task) /\ Once(Append(Tail(tasks), x))
              /\ \A p \in Port : In(p, Append(Tail(tasks), x)) <=> In(p, tasks)
<1>1. tasks \in Seq(Task) /\ Once(tasks) /\ Head(tasks) \notin Port
  BY NamesDiffer DEF ServicesInv, ServicesTyped, Single
<1>2. \A p \in Port : p # Head(tasks)
  BY <1>1
<1>3. /\ Tail(tasks) \in Seq(Task) /\ Once(Tail(tasks))
      /\ \A t : In(t, Tail(tasks)) => In(t, tasks)
      /\ \A p \in Port : In(p, Tail(tasks)) <=> In(p, tasks)
  BY <1>1, <1>2, TaskTaken
<1>4. ASSUME NEW x \in {"signal", "shutdown", "end"}
      PROVE  /\ Append(Tail(tasks), x) \in Seq(Task) /\ Once(Append(Tail(tasks), x))
             /\ \A p \in Port : In(p, Append(Tail(tasks), x)) <=> In(p, tasks)
  <2>1. x \in Task /\ x \notin Port
    BY NamesDiffer
  <2>2. \A p \in Port : p # x
    BY <2>1
  <2> QED BY <1>3, <2>1, <2>2, TaskAppended
<1> QED BY <1>3, <1>4

-----------------------------------------------------------------------------
(* The steps of the ports and of the process *)

\* Main and the loader before it opens ports: the dispatcher takes its tasks as
\* it did, and nothing happens to a port.
LEMMA MainKeeps ==
  ASSUME ServicesInv,
         \/ MainWaits \/ MainWakesAlone \/ MainLooks \/ MainRuns \/ Die \/ MainJoins
         \/ Load \/ LoaderReturns \/ LoaderFails \/ LoaderEnds
  PROVE  ServicesInv'
<1>. USE DEF gameVars, portVars, Notify
<1>1. UNCHANGED <<acceptors, port, retries, stops, taking>> /\ (astray => astray')
  <2>1. CASE MainWaits \/ MainWakesAlone \/ MainLooks \/ MainRuns \/ Die \/ MainJoins
    BY <2>1 DEF MainWaits, MainWakesAlone, MainLooks, MainRuns, Die, MainJoins
  <2>2. CASE Load \/ LoaderReturns
    BY <2>2 DEF Load, LoaderReturns
  <2>3. CASE LoaderFails \/ LoaderEnds
    BY <2>3, ZenonT(60) DEF LoaderFails, LoaderEnds
  <2> QED BY <2>1, <2>2, <2>3
<1>2. tasks' = tasks \/ tasks' = Append(tasks, "end")
  BY DEF MainWaits, MainWakesAlone, MainLooks, MainRuns, Die, MainJoins, Load, LoaderReturns,
         LoaderFails, LoaderEnds
<1>3. tasks \in Seq(Task) /\ Once(tasks)
  BY DEF ServicesInv, ServicesTyped, Single
<1>4. tasks' \in Seq(Task) /\ Once(tasks') /\ (\A p \in Port : In(p, tasks') <=> In(p, tasks))
      /\ (In("shutdown", tasks') => In("shutdown", tasks))
  BY <1>2, <1>3, OtherTaskComes
<1>5. Single' /\ Marked' /\ Watched'
  BY <1>1, <1>4, PortsUntouched
<1>6. Orderly' /\ ServicesTyped'
  BY <1>1, <1>4 DEF Orderly, ServicesInv, ServicesTyped, ServicesTypeOK
<1>7. Staged'
  <2>1. Staged /\ Marked
    BY DEF ServicesInv
  <2>2. CASE MainWaits \/ MainWakesAlone \/ MainLooks \/ MainRuns \/ Die \/ MainJoins
    <3>1. loader' = loader /\ (~astray' => main \notin {"started", "waiting"} \/ main' \in {"started", "waiting"})
      BY <2>2 DEF MainWaits, MainWakesAlone, MainLooks, MainRuns, Die, MainJoins
    <3> QED BY <1>1, <2>1, <3>1 DEF Staged
  <2>3. CASE Load
    BY <1>1, <2>1, <2>3 DEF Staged, Load
  <2>4. CASE LoaderReturns \/ LoaderFails
    BY <1>1, <2>1, <2>4 DEF Staged, LoaderReturns, LoaderFails
  <2>5. CASE LoaderEnds
    <3>1. acceptors \subseteq Port
      BY DEF ServicesInv, ServicesTyped, ServicesTypeOK
    <3> QED BY <1>1, <2>5, <3>1 DEF Staged, LoaderEnds
  <2> QED BY <2>2, <2>3, <2>4, <2>5
<1> QED BY <1>5, <1>6, <1>7 DEF ServicesInv

\* What shuts the server down, and the end of the dispatcher.
LEMMA DispatcherKeeps ==
  ASSUME ServicesInv, StartupScript \/ Interrupt \/ Interrupted \/ Shutdown \/ DispatcherEnds
  PROVE  ServicesInv'
<1>. USE DEF AskShutdown, DispatcherFree, portVars
<1>1. UNCHANGED <<port, retries, main, loader>> /\ (taking' => taking) /\ (astray => astray')
  BY DEF StartupScript, Interrupt, Interrupted, Shutdown, DispatcherEnds
<1>2. tasks' \in Seq(Task) /\ Once(tasks') /\ (\A p \in Port : In(p, tasks') <=> In(p, tasks))
  BY OtherTaskComes, OtherTaskGoes DEF StartupScript, Interrupt, Interrupted, Shutdown, DispatcherEnds
<1>3. ASSUME Shutdown PROVE ~taking /\ ~taking'
  <2>1. In("shutdown", tasks)
    BY <1>3, TaskTaken DEF Shutdown, ServicesInv, ServicesTyped
  <2> QED BY <1>3, <2>1 DEF Shutdown, ServicesInv, Orderly
<1>4. (UNCHANGED <<acceptors, stops>>) \/ (~taking' /\ acceptors' \in {acceptors, {}} /\ stops' \in {stops, acceptors})
  BY <1>3 DEF StartupScript, Interrupt, Interrupted, Shutdown, DispatcherEnds
<1>5. taking' => (In("shutdown", tasks') => In("shutdown", tasks))
  BY <1>3, OtherTaskComes, OtherTaskGoes DEF StartupScript, Interrupt, Interrupted, DispatcherEnds
<1>6. Single' /\ Marked' /\ Watched'
  BY <1>1, <1>2, <1>4, PortsUntouched
<1>7. Orderly'
  BY <1>1, <1>4, <1>5 DEF Orderly, ServicesInv
<1>8. ServicesTyped'
  BY <1>1, <1>2, <1>4 DEF ServicesInv, ServicesTyped, ServicesTypeOK
<1>9. Staged'
  BY <1>1, <1>4 DEF Staged, ServicesInv
<1> QED BY <1>6, <1>7, <1>8, <1>9 DEF ServicesInv

\* What a step that only changes ports has to see to.
LEMMA PortsChange ==
  ASSUME ServicesInv, UNCHANGED <<main, loader, tasks, taking, astray>>,
         port' \in [Port -> PortState], \A p \in Port : port'[p].accepting => port'[p].open,
         acceptors' \subseteq Port, retries' \subseteq Port, stops' \subseteq stops,
         \A p \in retries' : p \in retries \/ ~In(p, tasks),
         Marked', Staged', Watched'
  PROVE  ServicesInv'
<1>1. ServicesTyped'
  BY DEF ServicesInv, ServicesTyped, ServicesTypeOK
<1>2. Single'
  BY DEF ServicesInv, Single
<1>3. Orderly'
  BY DEF ServicesInv, Orderly
<1> QED BY <1>1, <1>2, <1>3 DEF ServicesInv

\* An accept is renewed, since the ports of the manager have services by now.
LEMMA OnAcceptKeeps ==
  ASSUME ServicesInv, NEW p \in Port, OnAccept(p)
  PROVE  ServicesInv'
<1>1. /\ port \in [Port -> PortState] /\ acceptors \subseteq Port /\ retries \subseteq Port
      /\ \A q \in Port : port[q].accepting => port[q].open
  BY DEF ServicesInv, ServicesTyped, ServicesTypeOK
<1>2. /\ UNCHANGED <<main, loader, tasks, taking, astray, acceptors, retries, stops>>
      /\ port' = [port EXCEPT ![p].accepting = port[p].services]
      /\ main = "running" /\ port[p].accepting
  BY DEF OnAccept, gameVars
<1>3. /\ port' \in [Port -> PortState]
      /\ \A q \in Port : /\ port'[q].open = port[q].open /\ port'[q].services = port[q].services
                         /\ port'[q].pendingStart = port[q].pendingStart
                         /\ q # p => port'[q].accepting = port[q].accepting
      /\ port'[p].accepting = port[p].services
  BY <1>1, <1>2 DEF PortState
<1>4. \A q \in Port : port'[q].accepting => port'[q].open
  BY <1>1, <1>2, <1>3
<1>5. Marked'
  BY <1>2, <1>3 DEF ServicesInv, Marked, Waits
<1>6. Staged'
  BY <1>1, <1>2, <1>3 DEF ServicesInv, Staged
<1>7. Watched'
  <2>1. ~astray /\ p \in acceptors => port[p].services
    BY <1>2 DEF ServicesInv, Staged
  <2>2. ~astray => \A q \in acceptors : port'[q].accepting = port[q].accepting
    BY <1>1, <1>2, <1>3, <2>1 DEF PortState
  <2> QED BY <1>1, <1>2, <1>3, <2>2 DEF ServicesInv, Watched, Waits
<1> QED BY <1>1, <1>2, <1>3, <1>4, <1>5, <1>6, <1>7, PortsChange

\* A port that accepts and is in the manager does not wait for a retry yet.
LEMMA OnAcceptErrorKeeps ==
  ASSUME ServicesInv, NEW p \in Port, OnAcceptError(p)
  PROVE  ServicesInv'
<1>1. /\ port \in [Port -> PortState] /\ acceptors \subseteq Port /\ retries \subseteq Port
      /\ \A q \in Port : port[q].accepting => port[q].open
  BY DEF ServicesInv, ServicesTyped, ServicesTypeOK
<1>2. /\ UNCHANGED <<main, loader, tasks, taking, astray, acceptors, stops>>
      /\ main = "running" /\ port[p].accepting
  BY DEF OnAcceptError, gameVars
<1>3. CASE port[p].pendingStart
  <2>1. port' = [port EXCEPT ![p].accepting = FALSE] /\ retries' = retries
    BY <1>3 DEF OnAcceptError
  <2>2. /\ port' \in [Port -> PortState]
        /\ \A q \in Port : /\ port'[q].open = port[q].open /\ port'[q].services = port[q].services
                           /\ port'[q].pendingStart = port[q].pendingStart
                           /\ q # p => port'[q].accepting = port[q].accepting
        /\ port'[p].accepting = FALSE
    BY <1>1, <2>1 DEF PortState
  <2>3. \A q \in Port : port'[q].accepting => port'[q].open
    BY <1>1, <2>2
  <2>4. Marked'
    BY <1>2, <2>1, <2>2 DEF ServicesInv, Marked, Waits
  <2>5. Staged'
    BY <1>1, <1>2, <2>2 DEF ServicesInv, Staged
  <2>6. Watched'
    <3>1. taking /\ ~astray => p \notin acceptors
      BY <1>1, <1>2, <1>3 DEF ServicesInv, Watched, PortState
    <3> QED BY <1>1, <1>2, <2>1, <2>2, <3>1 DEF ServicesInv, Watched, Waits
  <2> QED BY <1>1, <1>2, <2>1, <2>2, <2>3, <2>4, <2>5, <2>6, PortsChange
<1>4. CASE ~port[p].pendingStart
  <2>1. /\ port' = [port EXCEPT ![p].accepting = FALSE, ![p].open = FALSE, ![p].pendingStart = TRUE]
        /\ retries' = retries \cup {p}
    BY <1>4 DEF OnAcceptError
  <2>2. /\ port' \in [Port -> PortState]
        /\ \A q \in Port : /\ port'[q].services = port[q].services
                           /\ q # p => port'[q] = port[q]
        /\ port'[p].accepting = FALSE /\ port'[p].pendingStart = TRUE
    BY <1>1, <2>1 DEF PortState
  <2>3. \A q \in Port : port'[q].accepting => port'[q].open
    BY <1>1, <2>2
  <2>4. ~In(p, tasks)
    BY <1>4 DEF ServicesInv, Marked, Waits
  <2>5. Marked'
    BY <1>2, <2>1, <2>2 DEF ServicesInv, Marked, Waits
  <2>6. Staged'
    BY <1>1, <1>2, <2>2 DEF ServicesInv, Staged
  <2>7. Watched'
    BY <1>1, <1>2, <2>1, <2>2 DEF ServicesInv, Watched, Waits
  <2> QED BY <1>1, <1>2, <2>1, <2>2, <2>3, <2>4, <2>5, <2>6, <2>7, PortsChange
<1> QED BY <1>3, <1>4

\* A stop comes only when the dispatcher takes no tasks any more.
LEMMA OnStopServerKeeps ==
  ASSUME ServicesInv, NEW p \in Port, OnStopServer(p)
  PROVE  ServicesInv'
<1>1. /\ port \in [Port -> PortState] /\ acceptors \subseteq Port /\ retries \subseteq Port
      /\ \A q \in Port : port[q].accepting => port[q].open
  BY DEF ServicesInv, ServicesTyped, ServicesTypeOK
<1>2. /\ UNCHANGED <<main, loader, tasks, taking, astray, acceptors, retries>>
      /\ stops' = stops \ {p} /\ p \in stops
      /\ port' = [port EXCEPT ![p].open = FALSE, ![p].accepting = FALSE]
  BY DEF OnStopServer, gameVars
<1>3. /\ port' \in [Port -> PortState]
      /\ \A q \in Port : /\ port'[q].services = port[q].services
                         /\ port'[q].pendingStart = port[q].pendingStart
                         /\ q # p => port'[q] = port[q]
      /\ port'[p].accepting = FALSE
  BY <1>1, <1>2 DEF PortState
<1>4. \A q \in Port : port'[q].accepting => port'[q].open
  BY <1>1, <1>3
<1>5. Marked'
  BY <1>2, <1>3 DEF ServicesInv, Marked, Waits
<1>6. Staged'
  BY <1>1, <1>2, <1>3 DEF ServicesInv, Staged
<1>7. Watched'
  BY <1>2 DEF ServicesInv, Orderly, Watched
<1> QED BY <1>1, <1>2, <1>3, <1>4, <1>5, <1>6, <1>7, PortsChange

\* A retry that expires becomes the task of the dispatcher that opens the port.
LEMMA RetryExpiresKeeps ==
  ASSUME ServicesInv, NEW p \in Port, RetryExpires(p)
  PROVE  ServicesInv'
<1>1. tasks \in Seq(Task) /\ p \in Task /\ acceptors \subseteq Port /\ retries \subseteq Port
  BY DEF ServicesInv, ServicesTyped, ServicesTypeOK, Task
<1>2. /\ UNCHANGED <<main, loader, taking, astray, acceptors, stops, port>>
      /\ retries' = retries \ {p} /\ p \in retries
      /\ tasks' = IF taking THEN Append(tasks, p) ELSE tasks
  BY DEF RetryExpires
<1>3. Once(tasks) /\ ~In(p, tasks)
  BY <1>2 DEF ServicesInv, Single
<1>4. p # "shutdown"
  BY NamesDiffer
<1>5. /\ tasks' \in Seq(Task) /\ Once(tasks') /\ (taking => In(p, tasks'))
      /\ \A t : t # p => (In(t, tasks') <=> In(t, tasks))
  BY <1>1, <1>2, <1>3, TaskAppended
<1>6. ServicesTyped'
  BY <1>2, <1>5 DEF ServicesInv, ServicesTyped, ServicesTypeOK
<1>7. Single'
  BY <1>2, <1>5 DEF ServicesInv, Single
<1>8. Marked'
  BY <1>2, <1>5 DEF ServicesInv, Marked, Waits
<1>9. Orderly'
  BY <1>2, <1>4, <1>5 DEF ServicesInv, Orderly
<1>10. Staged'
  BY <1>2 DEF ServicesInv, Staged
<1>11. Watched'
  BY <1>1, <1>2, <1>5 DEF ServicesInv, Watched, Waits
<1> QED BY <1>6, <1>7, <1>8, <1>9, <1>10, <1>11 DEF ServicesInv

\* What opening a port, with success or without, makes of it.
LEMMA OpenedOrNot ==
  ASSUME ServicesInv, NEW p \in Port
  PROVE  /\ Opened(p) \in [Port -> PortState] /\ NotOpened(p) \in [Port -> PortState]
         /\ \A q \in Port : /\ Opened(p)[q].services = port[q].services
                            /\ NotOpened(p)[q].services = port[q].services
                            /\ Opened(p)[q].accepting => Opened(p)[q].open
                            /\ NotOpened(p)[q].accepting => NotOpened(p)[q].open
                            /\ q # p => Opened(p)[q] = port[q] /\ NotOpened(p)[q] = port[q]
         /\ Opened(p)[p].accepting = TRUE /\ Opened(p)[p].pendingStart = FALSE
         /\ NotOpened(p)[p].accepting = FALSE /\ NotOpened(p)[p].pendingStart = TRUE
<1>1. port \in [Port -> PortState] /\ \A q \in Port : port[q].accepting => port[q].open
  BY DEF ServicesInv, ServicesTyped, ServicesTypeOK
<1>2. \A q \in Port \ {p} : Opened(p)[q] = port[q] /\ NotOpened(p)[q] = port[q]
  BY <1>1 DEF Opened, NotOpened
<1>3. /\ Opened(p)[p].open = TRUE /\ Opened(p)[p].accepting = TRUE
      /\ Opened(p)[p].pendingStart = FALSE /\ Opened(p)[p].services = port[p].services
      /\ NotOpened(p)[p].accepting = FALSE
      /\ NotOpened(p)[p].pendingStart = TRUE /\ NotOpened(p)[p].services = port[p].services
  BY <1>1 DEF Opened, NotOpened, PortState
<1>4. Opened(p) \in [Port -> PortState] /\ NotOpened(p) \in [Port -> PortState]
  BY <1>1 DEF Opened, NotOpened, PortState
<1> QED BY <1>1, <1>2, <1>3, <1>4

\* A port that is added waits for no retry, and one whose opening failed is not
\* added.
LEMMA OpenPortKeeps ==
  ASSUME ServicesInv, NEW p \in Port, OpenPort(p)
  PROVE  ServicesInv'
<1>1. acceptors \subseteq Port /\ retries \subseteq Port
  BY DEF ServicesInv, ServicesTyped, ServicesTypeOK
<1>2. /\ UNCHANGED <<main, loader, tasks, taking, astray, stops>>
      /\ loader = "ports" /\ p \notin acceptors /\ ~port[p].pendingStart
      /\ \/ acceptors' = acceptors \cup {p} /\ port' = Opened(p) /\ retries' = retries
         \/ port' = NotOpened(p) /\ retries' = retries \cup {p} /\ acceptors' = acceptors
  BY DEF OpenPort, gameVars
<1>3. ~Waits(p)
  BY <1>2 DEF ServicesInv, Marked
<1>4. port' \in [Port -> PortState] /\ \A q \in Port : port'[q].accepting => port'[q].open
  BY <1>2, OpenedOrNot
<1>5. Staged'
  BY <1>2 DEF ServicesInv, Staged
<1>6. CASE acceptors' = acceptors \cup {p} /\ port' = Opened(p) /\ retries' = retries
  <2>1. Marked'
    BY <1>2, <1>3, <1>6, OpenedOrNot DEF ServicesInv, Marked, Waits
  <2>2. Watched'
    <3>. SUFFICES ASSUME taking, ~astray, NEW q \in acceptors'
                  PROVE  /\ port'[q].accepting # port'[q].pendingStart
                         /\ port'[q].pendingStart => q \in retries' \/ In(q, tasks')
      BY <1>2 DEF Watched, Waits
    <3>1. CASE q = p
      BY <1>1, <1>2, <1>6, <3>1, OpenedOrNot
    <3>2. CASE q # p
      <4>1. q \in acceptors /\ q \in Port /\ port'[q] = port[q]
        BY <1>1, <1>2, <1>6, <3>2, OpenedOrNot
      <4>2. port[q].accepting # port[q].pendingStart /\ (port[q].pendingStart => q \in retries \/ In(q, tasks))
        BY <4>1 DEF ServicesInv, Watched, Waits
      <4> QED BY <1>1, <1>2, <1>6, <3>2, <4>1, <4>2
    <3> QED BY <3>1, <3>2
  <2> QED BY <1>1, <1>2, <1>4, <1>5, <1>6, <2>1, <2>2, PortsChange
<1>7. CASE port' = NotOpened(p) /\ retries' = retries \cup {p} /\ acceptors' = acceptors
  <2>1. Marked'
    BY <1>2, <1>7, OpenedOrNot DEF ServicesInv, Marked, Waits
  <2>2. Watched'
    <3>. SUFFICES ASSUME taking, ~astray, NEW q \in acceptors'
                  PROVE  /\ port'[q].accepting # port'[q].pendingStart
                         /\ port'[q].pendingStart => q \in retries' \/ In(q, tasks')
      BY <1>2 DEF Watched, Waits
    <3>1. CASE q = p
      BY <1>1, <1>2, <1>7, <3>1, OpenedOrNot
    <3>2. CASE q # p
      <4>1. q \in acceptors /\ q \in Port /\ port'[q] = port[q]
        BY <1>1, <1>2, <1>7, <3>2, OpenedOrNot
      <4>2. port[q].accepting # port[q].pendingStart /\ (port[q].pendingStart => q \in retries \/ In(q, tasks))
        BY <4>1 DEF ServicesInv, Watched, Waits
      <4> QED BY <1>1, <1>2, <1>7, <3>2, <4>1, <4>2
    <3> QED BY <3>1, <3>2
  <2>3. ~In(p, tasks)
    BY <1>3 DEF Waits
  <2> QED BY <1>1, <1>2, <1>4, <1>5, <1>7, <2>1, <2>2, <2>3, PortsChange
<1> QED BY <1>2, <1>6, <1>7

LEMMA AddServiceKeeps ==
  ASSUME ServicesInv, NEW p \in Port, AddService(p)
  PROVE  ServicesInv'
<1>1. /\ port \in [Port -> PortState] /\ acceptors \subseteq Port /\ retries \subseteq Port
      /\ \A q \in Port : port[q].accepting => port[q].open
  BY DEF ServicesInv, ServicesTyped, ServicesTypeOK
<1>2. /\ UNCHANGED <<main, loader, tasks, taking, astray, acceptors, retries, stops>>
      /\ loader = "ports" /\ port' = [port EXCEPT ![p].services = TRUE]
  BY DEF AddService, gameVars
<1>3. /\ port' \in [Port -> PortState]
      /\ \A q \in Port : /\ port'[q].open = port[q].open /\ port'[q].accepting = port[q].accepting
                         /\ port'[q].pendingStart = port[q].pendingStart
  BY <1>1, <1>2 DEF PortState
<1>4. \A q \in Port : port'[q].accepting => port'[q].open
  BY <1>1, <1>3
<1>5. Marked'
  BY <1>2, <1>3 DEF ServicesInv, Marked, Waits
<1>6. Staged'
  BY <1>2 DEF ServicesInv, Staged
<1>7. Watched'
  BY <1>1, <1>2, <1>3 DEF ServicesInv, Watched, Waits
<1> QED BY <1>1, <1>2, <1>3, <1>4, <1>5, <1>6, <1>7, PortsChange

\* The dispatcher opens a port again: if it fails once more the next retry is
\* the only one, for the task that is done was the only one.
LEMMA OpenAcceptorKeeps ==
  ASSUME ServicesInv, OpenAcceptor
  PROVE  ServicesInv'
<1>. DEFINE p == Head(tasks)
<1>1. /\ tasks \in Seq(Task) /\ Once(tasks) /\ tasks # <<>> /\ p \in Port
      /\ acceptors \subseteq Port /\ retries \subseteq Port /\ port \in [Port -> PortState]
      /\ \A q \in Port : port[q].accepting => port[q].open
  BY DEF OpenAcceptor, DispatcherFree, ServicesInv, ServicesTyped, ServicesTypeOK, Single
<1>2. /\ UNCHANGED <<main, loader, taking, astray, acceptors, stops>> /\ tasks' = Tail(tasks)
      /\ \/ ~Held(p) /\ port' = port /\ retries' = retries
         \/ Held(p) /\ port' = Opened(p) /\ retries' = retries
         \/ Held(p) /\ port' = NotOpened(p) /\ retries' = retries \cup {p}
  BY DEF OpenAcceptor
<1>3. /\ tasks' \in Seq(Task) /\ Once(tasks') /\ ~In(p, tasks') /\ In(p, tasks)
      /\ \A t : In(t, tasks') => In(t, tasks)
      /\ \A t : In(t, tasks) /\ t # p => In(t, tasks')
  BY <1>1, <1>2, TaskTaken
<1>4. p \notin retries /\ port[p].pendingStart
  BY <1>1, <1>3 DEF ServicesInv, Single, Marked, Waits
<1>. HIDE DEF p
<1>5. port' \in [Port -> PortState] /\ \A q \in Port : port'[q].accepting => port'[q].open
  BY <1>1, <1>2, OpenedOrNot
<1>6. ServicesTyped'
  BY <1>1, <1>2, <1>3, <1>5 DEF ServicesInv, ServicesTyped, ServicesTypeOK
<1>7. Single'
  BY <1>1, <1>2, <1>3 DEF ServicesInv, Single
<1>8. Marked'
  <2>1. CASE port' = port /\ retries' = retries
    BY <1>3, <2>1 DEF ServicesInv, Marked, Waits
  <2>2. CASE port' = Opened(p) /\ retries' = retries
    BY <1>1, <1>3, <1>4, <2>2, OpenedOrNot DEF ServicesInv, Marked, Waits
  <2>3. CASE port' = NotOpened(p) /\ retries' = retries \cup {p}
    BY <1>1, <1>3, <2>3, OpenedOrNot DEF ServicesInv, Marked, Waits
  <2> QED BY <1>2, <2>1, <2>2, <2>3
<1>9. Orderly'
  BY <1>2, <1>3 DEF ServicesInv, Orderly
<1>10. Staged'
  BY <1>1, <1>2, OpenedOrNot DEF ServicesInv, Staged
<1>11. Watched'
  <2>1. CASE ~Held(p) /\ port' = port /\ retries' = retries
    BY <1>1, <1>2, <1>3, <2>1 DEF ServicesInv, Watched, Waits, Held
  <2>2. CASE port' = Opened(p) /\ retries' = retries
    <3>. SUFFICES ASSUME taking, ~astray, NEW q \in acceptors'
                  PROVE  /\ port'[q].accepting # port'[q].pendingStart
                         /\ port'[q].pendingStart => q \in retries' \/ In(q, tasks')
      BY <1>2 DEF Watched, Waits
    <3>1. CASE q = p
      BY <1>1, <1>2, <1>3, <2>2, <3>1, OpenedOrNot
    <3>2. CASE q # p
      <4>1. q \in acceptors /\ q \in Port /\ port'[q] = port[q]
        BY <1>1, <1>2, <1>3, <2>2, <3>2, OpenedOrNot
      <4>2. port[q].accepting # port[q].pendingStart /\ (port[q].pendingStart => q \in retries \/ In(q, tasks))
        BY <4>1 DEF ServicesInv, Watched, Waits
      <4> QED BY <1>1, <1>2, <1>3, <2>2, <3>2, <4>1, <4>2
    <3> QED BY <3>1, <3>2
  <2>3. CASE port' = NotOpened(p) /\ retries' = retries \cup {p}
    <3>. SUFFICES ASSUME taking, ~astray, NEW q \in acceptors'
                  PROVE  /\ port'[q].accepting # port'[q].pendingStart
                         /\ port'[q].pendingStart => q \in retries' \/ In(q, tasks')
      BY <1>2 DEF Watched, Waits
    <3>1. CASE q = p
      BY <1>1, <1>2, <1>3, <2>3, <3>1, OpenedOrNot
    <3>2. CASE q # p
      <4>1. q \in acceptors /\ q \in Port /\ port'[q] = port[q]
        BY <1>1, <1>2, <1>3, <2>3, <3>2, OpenedOrNot
      <4>2. port[q].accepting # port[q].pendingStart /\ (port[q].pendingStart => q \in retries \/ In(q, tasks))
        BY <4>1 DEF ServicesInv, Watched, Waits
      <4> QED BY <1>1, <1>2, <1>3, <2>3, <3>2, <4>1, <4>2
    <3> QED BY <3>1, <3>2
  <2> QED BY <1>2, <2>1, <2>2, <2>3
<1> QED BY <1>6, <1>7, <1>8, <1>9, <1>10, <1>11 DEF ServicesInv

\* Until the server shuts down, every port of the manager either waits for the
\* next connection or is to be opened again, by one retry, never both and never
\* neither: for any ports and whatever fails, unless main went on without the
\* loader or the shutdown came before run.
THEOREM PortsAreSound == ServicesSpec => []PortsSound
<1>1. ServicesInit => ServicesInv
  <2>. SUFFICES ASSUME ServicesInit PROVE ServicesInv
    OBVIOUS
  <2>1. tasks = <<>> /\ tasks \in Seq(Task) /\ \A t : ~In(t, tasks)
    BY DEF ServicesInit, In
  <2>2. Once(tasks)
    BY <2>1 DEF Once, In
  <2>3. ServicesTyped
    BY <2>1 DEF ServicesTyped, ServicesTypeOK, ServicesInit, PortState
  <2>4. Single /\ Marked /\ Orderly /\ Watched
    BY <2>1, <2>2 DEF Single, Marked, Orderly, Watched, Waits, ServicesInit
  <2>5. Staged
    BY DEF Staged, ServicesInit
  <2> QED BY <2>3, <2>4, <2>5 DEF ServicesInv
<1>2. ServicesInv /\ [ServicesNext]_serviceVars => ServicesInv'
  <2>. SUFFICES ASSUME ServicesInv, [ServicesNext]_serviceVars PROVE ServicesInv'
    OBVIOUS
  <2>1. CASE \/ MainWaits \/ MainWakesAlone \/ MainLooks \/ MainRuns \/ Die \/ MainJoins
             \/ Load \/ LoaderReturns \/ LoaderFails \/ LoaderEnds
    BY <2>1, MainKeeps
  <2>2. CASE StartupScript \/ Interrupt \/ Interrupted \/ Shutdown \/ DispatcherEnds
    BY <2>2, DispatcherKeeps
  <2>3. CASE OpenAcceptor
    BY <2>3, OpenAcceptorKeeps
  <2>4. ASSUME NEW p \in Port, OpenPort(p) \/ AddService(p) PROVE ServicesInv'
    BY <2>4, OpenPortKeeps, AddServiceKeeps
  <2>5. ASSUME NEW p \in Port, OnAccept(p) \/ OnAcceptError(p) \/ OnStopServer(p) \/ RetryExpires(p)
        PROVE  ServicesInv'
    BY <2>5, OnAcceptKeeps, OnAcceptErrorKeeps, OnStopServerKeeps, RetryExpiresKeeps
  <2>6. CASE UNCHANGED serviceVars
    BY <2>6 DEF serviceVars, ServicesInv, ServicesTyped, ServicesTypeOK, Single, Marked, Orderly, Staged,
                Watched, Waits
  <2> QED BY <2>1, <2>2, <2>3, <2>4, <2>5, <2>6 DEF ServicesNext, LoaderStep, DispatcherStep
<1>3. ServicesInv => PortsSound
  <2>. SUFFICES ASSUME ServicesInv PROVE PortsSound
    OBVIOUS
  <2>1. ServicesTypeOK /\ tasks \in Seq(Task)
    BY DEF ServicesInv, ServicesTyped
  <2>2. \A t : In(t, tasks) <=> \E i \in DOMAIN tasks : tasks[i] = t
    BY <2>1 DEF In
  <2>3. Listening
    BY <2>1, <2>2 DEF Listening, ServicesInv, ServicesTypeOK, Watched, Marked, Waits
  <2> QED BY <2>1, <2>3 DEF PortsSound
<1> QED BY <1>1, <1>2, <1>3, PTL DEF ServicesSpec

-----------------------------------------------------------------------------
(***************************************************************************)
(* Walk.  The functions of the player turn one record into another, and    *)
(* on the way the walk event that runs may still be remembered.  While it  *)
(* runs there are no more walk events than late stops (NotTooMany); when   *)
(* it has run, one more if it is the remembered one (OneChainEach).        *)
(*                                                                         *)
(* Of a task, every event that still waits is the remembered one           *)
(* (WaitingKnown), and none waits while walkTask holds the request.        *)
(***************************************************************************)

WalkEvent == [kind : Kind, id : Nat \ {0}, request : Nat, queued : BOOLEAN]

Walker ==
  [list : 0 .. MaxPath, id : [Kind -> Nat], events : SUBSET WalkEvent,
   cancelNextWalk : BOOLEAN, speed : BOOLEAN, resting : BOOLEAN, busy : BOOLEAN,
   movementBlocked : BOOLEAN, walkTask : Nat, late : Nat, teleported : BOOLEAN]

WalkerOK(s) == s \in Walker /\ IsFiniteSet(s.events)

TaskKind == {"walkTask", "action"}

WaitingKnown(s) ==
  \A k \in TaskKind :
    /\ \A e \in EventsOf(s, k) : ~e.queued => e.id = s.id[k]
    /\ \A d, e \in EventsOf(s, k) : d.id = e.id => d = e

AllQueued(s, k) == \A e \in EventsOf(s, k) : e.queued

TasksOK(s) == WaitingKnown(s) /\ (s.walkTask # NoRequest => AllQueued(s, "walkTask"))

Goes(s) == s.list > 0 /\ s.speed /\ ~s.teleported => s.id["walk"] # 0

KnownWalk(s) == \E e \in EventsOf(s, "walk") : e.id = s.id["walk"]

NotTooMany(s) == Cardinality(EventsOf(s, "walk")) <= s.late

OneChainEach(s) == Cardinality(EventsOf(s, "walk")) <= s.late + (IF KnownWalk(s) THEN 1 ELSE 0)

WalkOK(s) == OneChainEach(s) /\ (s.id["walk"] # 0 => KnownWalk(s))

WalkInv == WalkerOK(w) /\ TasksOK(w) /\ WalkOK(w) /\ Goes(w) /\ acts \in Nat

\* All that these depend on.
SameEvents(s, t) ==
  t.events = s.events /\ t.id = s.id /\ t.walkTask = s.walkTask /\ t.late = s.late

\* The part of a task is as it was, and so is that of the walk.
SameTasks(s, t) ==
  /\ \A k \in TaskKind : EventsOf(t, k) = EventsOf(s, k) /\ t.id[k] = s.id[k]
  /\ t.walkTask = s.walkTask

SameWalk(s, t) ==
  /\ EventsOf(t, "walk") = EventsOf(s, "walk") /\ t.id["walk"] = s.id["walk"] /\ t.late = s.late
  /\ t.list = s.list /\ t.speed = s.speed /\ t.teleported = s.teleported

LEMMA Alike ==
  ASSUME NEW s, NEW t
  PROVE  /\ SameTasks(s, t) => (TasksOK(t) <=> TasksOK(s))
         /\ SameWalk(s, t) => /\ WalkOK(t) <=> WalkOK(s)
                              /\ NotTooMany(t) <=> NotTooMany(s)
                              /\ Goes(t) <=> Goes(s)
         /\ SameEvents(s, t) => /\ TasksOK(t) <=> TasksOK(s)
                                /\ WalkOK(t) <=> WalkOK(s)
                                /\ NotTooMany(t) <=> NotTooMany(s)
<1>1. SameTasks(s, t) => (TasksOK(t) <=> TasksOK(s))
  BY DEF SameTasks, TasksOK, WaitingKnown, AllQueued, TaskKind
<1>2. SameWalk(s, t) => /\ WalkOK(t) <=> WalkOK(s)
                        /\ NotTooMany(t) <=> NotTooMany(s)
                        /\ Goes(t) <=> Goes(s)
  BY DEF SameWalk, WalkOK, OneChainEach, NotTooMany, KnownWalk, Goes
<1>3. ASSUME SameEvents(s, t) PROVE \A k : EventsOf(t, k) = EventsOf(s, k)
  BY <1>3 DEF SameEvents, EventsOf
<1>4. ASSUME SameEvents(s, t) PROVE TasksOK(t) <=> TasksOK(s)
  BY <1>3, <1>4 DEF SameEvents, TasksOK, WaitingKnown, AllQueued
<1>5. ASSUME SameEvents(s, t) PROVE (WalkOK(t) <=> WalkOK(s)) /\ (NotTooMany(t) <=> NotTooMany(s))
  BY <1>3, <1>5 DEF SameEvents, WalkOK, OneChainEach, NotTooMany, KnownWalk
<1> QED BY <1>1, <1>2, <1>4, <1>5

LEMMA WalkerFacts ==
  ASSUME NEW s, WalkerOK(s), NEW k \in Kind
  PROVE  /\ s.id[k] \in Nat /\ s.late \in Nat /\ s.list \in 0 .. MaxPath
         /\ EventsOf(s, k) \subseteq s.events
         /\ IsFiniteSet(EventsOf(s, k)) /\ Cardinality(EventsOf(s, k)) \in Nat
         /\ \A e \in s.events : e \in WalkEvent /\ e.id \in Nat \ {0} /\ e.queued \in BOOLEAN
<1>1. s \in Walker /\ IsFiniteSet(s.events)
  BY DEF WalkerOK
<1>2. EventsOf(s, k) \subseteq s.events
  BY DEF EventsOf
<1>3. IsFiniteSet(EventsOf(s, k)) /\ Cardinality(EventsOf(s, k)) \in Nat
  BY <1>1, <1>2, FS_Subset, FS_CardinalityType
<1>4. \A e \in s.events : e \in WalkEvent /\ e.id \in Nat \ {0} /\ e.queued \in BOOLEAN
  BY <1>1 DEF Walker, WalkEvent
<1> QED BY <1>1, <1>2, <1>3, <1>4 DEF Walker

LEMMA FreshIdIsFree ==
  ASSUME NEW s, WalkerOK(s), NEW k \in Kind
  PROVE  /\ FreshId(s, k) \in Nat \ {0}
         /\ \A e \in EventsOf(s, k) : e.id # FreshId(s, k)
<1>. DEFINE ids == {e.id : e \in EventsOf(s, k)}
            taken == ids \cup {0, s.id[k]}
<1>1. IsFiniteSet(ids)
  BY WalkerFacts, IdsFinite
<1>2. IsFiniteSet(taken) /\ 0 \in taken
  <2>1. taken = (ids \cup {0}) \cup {s.id[k]}
    OBVIOUS
  <2>. HIDE DEF taken, ids
  <2>2. IsFiniteSet((ids \cup {0}) \cup {s.id[k]})
    BY <1>1, FS_AddElement
  <2> QED BY <2>1, <2>2
<1>3. \E n \in 1..Cardinality(taken) : n \notin taken
  BY <1>2, PositiveNumberFree
<1>4. Cardinality(taken) \in Nat
  BY <1>2, FS_CardinalityType
<1>5. FreshId(s, k) \in 1..Cardinality(taken) /\ FreshId(s, k) \notin taken
  BY <1>3 DEF FreshId
<1> QED BY <1>4, <1>5

AddedEvent(s, k, r) == [kind |-> k, id |-> FreshId(s, k), request |-> r, queued |-> FALSE]

\* A new event of a kind is the remembered one of its kind.
LEMMA AddEventDoes ==
  ASSUME NEW s, WalkerOK(s), NEW k \in Kind, NEW r \in Nat
  PROVE  LET t == AddEvent(s, k, r)
             e == AddedEvent(s, k, r)
         IN  /\ WalkerOK(t) /\ e \in WalkEvent
             /\ t.id[k] = FreshId(s, k)
             /\ EventsOf(t, k) = EventsOf(s, k) \cup {e}
             /\ \A l \in Kind \ {k} : EventsOf(t, l) = EventsOf(s, l) /\ t.id[l] = s.id[l]
             /\ t.walkTask = s.walkTask /\ t.late = s.late /\ t.list = s.list
             /\ t.speed = s.speed /\ t.teleported = s.teleported
<1>. DEFINE t == AddEvent(s, k, r)
            e == AddedEvent(s, k, r)
<1>1. s \in Walker /\ IsFiniteSet(s.events)
  BY DEF WalkerOK
<1>2. e \in WalkEvent /\ e.kind = k
  BY FreshIdIsFree DEF WalkEvent, AddedEvent
<1>. HIDE DEF e
<1>3. t = [s EXCEPT !.events = s.events \cup {e}, !.id = [s.id EXCEPT ![k] = FreshId(s, k)]]
  BY <1>1 DEF AddEvent, AddedEvent, e, Walker
<1>. HIDE DEF t
<1>4. /\ t \in Walker /\ t.events = s.events \cup {e} /\ t.id = [s.id EXCEPT ![k] = FreshId(s, k)]
      /\ t.walkTask = s.walkTask /\ t.late = s.late /\ t.list = s.list
      /\ t.speed = s.speed /\ t.teleported = s.teleported
  BY <1>1, <1>2, <1>3, FreshIdIsFree DEF Walker
<1>5. IsFiniteSet(t.events)
  BY <1>1, <1>4, FS_AddElement
<1>6. t.id[k] = FreshId(s, k) /\ \A l \in Kind \ {k} : t.id[l] = s.id[l]
  BY <1>1, <1>4 DEF Walker
<1>7. EventsOf(t, k) = EventsOf(s, k) \cup {e} /\ \A l \in Kind \ {k} : EventsOf(t, l) = EventsOf(s, l)
  BY <1>2, <1>4 DEF EventsOf
<1> QED BY <1>2, <1>4, <1>5, <1>6, <1>7 DEF WalkerOK, t, e

LEMMA StopEventDoes ==
  ASSUME NEW s, WalkerOK(s), NEW k \in Kind
  PROVE  LET t == StopEvent(s, k)
         IN  /\ WalkerOK(t) /\ t.id[k] = 0
             /\ EventsOf(t, k) = {e \in EventsOf(s, k) : e.id = s.id[k] => e.queued}
             /\ \A l \in Kind \ {k} : EventsOf(t, l) = EventsOf(s, l) /\ t.id[l] = s.id[l]
             /\ t.walkTask = s.walkTask /\ t.list = s.list
             /\ t.speed = s.speed /\ t.teleported = s.teleported
             /\ t.late = IF k = "walk" /\ \E e \in EventsOf(s, k) : e.id = s.id[k] /\ e.queued
                           THEN s.late + 1 ELSE s.late
<1>. DEFINE t == StopEvent(s, k)
            kept == s.events \ {e \in {d \in EventsOf(s, k) : d.id = s.id[k]} : ~e.queued}
            n == IF k = "walk" /\ \E e \in EventsOf(s, k) : e.id = s.id[k] /\ e.queued
                   THEN s.late + 1 ELSE s.late
<1>1. s \in Walker /\ IsFiniteSet(s.events)
  BY DEF WalkerOK
<1>2. kept \subseteq s.events /\ n \in Nat
  BY <1>1 DEF Walker
<1>3. /\ EventsOf(s, k) \ {e \in {d \in EventsOf(s, k) : d.id = s.id[k]} : ~e.queued}
           = {e \in EventsOf(s, k) : e.id = s.id[k] => e.queued}
      /\ \A e \in kept : e.kind = k => e \in EventsOf(s, k)
      /\ \A e \in EventsOf(s, k) : (e.id = s.id[k] => e.queued) <=> e \in kept
      /\ \A e \in s.events : e.kind # k => e \in kept
  BY DEF EventsOf
<1>4. t = [s EXCEPT !.events = kept, !.id = [s.id EXCEPT ![k] = 0], !.late = n]
  <2>1. (\E e \in {d \in EventsOf(s, k) : d.id = s.id[k]} : e.queued)
          <=> \E e \in EventsOf(s, k) : e.id = s.id[k] /\ e.queued
    OBVIOUS
  <2> QED BY <1>1, <2>1 DEF StopEvent, Walker
<1>. HIDE DEF kept, n, t
<1>5. /\ t \in Walker /\ t.events = kept /\ t.id = [s.id EXCEPT ![k] = 0] /\ t.late = n
      /\ t.walkTask = s.walkTask /\ t.list = s.list
      /\ t.speed = s.speed /\ t.teleported = s.teleported
  BY <1>1, <1>2, <1>4 DEF Walker
<1>6. IsFiniteSet(t.events)
  BY <1>1, <1>2, <1>5, FS_Subset
<1>7. t.id[k] = 0 /\ \A l \in Kind \ {k} : t.id[l] = s.id[l]
  BY <1>1, <1>5 DEF Walker
<1>8. /\ EventsOf(t, k) = {e \in EventsOf(s, k) : e.id = s.id[k] => e.queued}
      /\ \A l \in Kind \ {k} : EventsOf(t, l) = EventsOf(s, l)
  BY <1>2, <1>3, <1>5 DEF EventsOf
<1> QED BY <1>5, <1>6, <1>7, <1>8 DEF WalkerOK, t, n

\* A task gets an event when none waits.
LEMMA AddTaskEvent ==
  ASSUME NEW s, WalkerOK(s), WaitingKnown(s), NEW k \in TaskKind, AllQueued(s, k), NEW r \in Nat
  PROVE  /\ WalkerOK(AddEvent(s, k, r)) /\ WaitingKnown(AddEvent(s, k, r))
         /\ SameWalk(s, AddEvent(s, k, r)) /\ AddEvent(s, k, r).walkTask = s.walkTask
         /\ \A l \in TaskKind \ {k} : EventsOf(AddEvent(s, k, r), l) = EventsOf(s, l)
<1>. DEFINE t == AddEvent(s, k, r)
            e == AddedEvent(s, k, r)
<1>1. k \in Kind /\ "walk" \in Kind \ {k} /\ TaskKind \subseteq Kind
  BY DEF TaskKind, Kind
<1>2. /\ WalkerOK(t) /\ e \in WalkEvent /\ t.id[k] = FreshId(s, k)
      /\ EventsOf(t, k) = EventsOf(s, k) \cup {e}
      /\ \A l \in Kind \ {k} : EventsOf(t, l) = EventsOf(s, l) /\ t.id[l] = s.id[l]
      /\ t.walkTask = s.walkTask /\ t.late = s.late /\ t.list = s.list
      /\ t.speed = s.speed /\ t.teleported = s.teleported
  BY <1>1, AddEventDoes
<1>3. e.id = FreshId(s, k) /\ \A d \in EventsOf(s, k) : d.id # FreshId(s, k)
  BY <1>1, FreshIdIsFree DEF AddedEvent
<1>. HIDE DEF t, e
<1>4. SameWalk(s, t)
  BY <1>1, <1>2 DEF SameWalk
<1>5. WaitingKnown(t)
  <2>. SUFFICES ASSUME NEW l \in TaskKind
                PROVE  /\ \A d \in EventsOf(t, l) : ~d.queued => d.id = t.id[l]
                       /\ \A c, d \in EventsOf(t, l) : c.id = d.id => c = d
    BY DEF WaitingKnown
  <2>1. CASE l = k
    BY <1>2, <1>3, <2>1 DEF WaitingKnown, AllQueued
  <2>2. CASE l # k
    BY <1>1, <1>2, <2>2 DEF WaitingKnown
  <2> QED BY <2>1, <2>2
<1> QED BY <1>1, <1>2, <1>4, <1>5 DEF t

\* No event of a task waits when it has been stopped.
LEMMA StopTaskEvent ==
  ASSUME NEW s, WalkerOK(s), WaitingKnown(s), NEW k \in TaskKind
  PROVE  /\ WalkerOK(StopEvent(s, k)) /\ WaitingKnown(StopEvent(s, k))
         /\ AllQueued(StopEvent(s, k), k)
         /\ SameWalk(s, StopEvent(s, k)) /\ StopEvent(s, k).walkTask = s.walkTask
         /\ \A l \in TaskKind \ {k} : EventsOf(StopEvent(s, k), l) = EventsOf(s, l)
<1>. DEFINE t == StopEvent(s, k)
<1>1. k \in Kind /\ k # "walk" /\ "walk" \in Kind \ {k} /\ TaskKind \subseteq Kind
  BY DEF TaskKind, Kind
<1>2. /\ WalkerOK(t) /\ t.id[k] = 0
      /\ EventsOf(t, k) = {e \in EventsOf(s, k) : e.id = s.id[k] => e.queued}
      /\ \A l \in Kind \ {k} : EventsOf(t, l) = EventsOf(s, l) /\ t.id[l] = s.id[l]
      /\ t.walkTask = s.walkTask /\ t.list = s.list
      /\ t.speed = s.speed /\ t.teleported = s.teleported /\ t.late = s.late
  BY <1>1, StopEventDoes
<1>. HIDE DEF t
<1>3. SameWalk(s, t)
  BY <1>1, <1>2 DEF SameWalk
<1>4. AllQueued(t, k)
  BY <1>2 DEF WaitingKnown, AllQueued
<1>5. WaitingKnown(t)
  <2>. SUFFICES ASSUME NEW l \in TaskKind
                PROVE  /\ \A d \in EventsOf(t, l) : ~d.queued => d.id = t.id[l]
                       /\ \A c, d \in EventsOf(t, l) : c.id = d.id => c = d
    BY DEF WaitingKnown
  <2>1. CASE l = k
    BY <1>2, <1>4, <2>1 DEF WaitingKnown, AllQueued
  <2>2. CASE l # k
    BY <1>1, <1>2, <2>2 DEF WaitingKnown
  <2> QED BY <2>1, <2>2
<1> QED BY <1>1, <1>2, <1>3, <1>4, <1>5 DEF t

\* A change of the record that leaves the events, ids and requests alone.
LEMMA Touched ==
  ASSUME NEW s, WalkerOK(s), NEW t \in Walker, SameEvents(s, t)
  PROVE  /\ WalkerOK(t) /\ TasksOK(t) <=> TasksOK(s)
         /\ WalkOK(t) <=> WalkOK(s)
         /\ NotTooMany(t) <=> NotTooMany(s)
  BY Alike DEF WalkerOK, SameEvents

\* walkTask is assigned: nothing else changes.
LEMMA WalkTaskSet ==
  ASSUME NEW s, WalkerOK(s), WaitingKnown(s), AllQueued(s, "walkTask") , NEW r \in Nat
  PROVE  LET t == [s EXCEPT !.walkTask = r]
         IN  WalkerOK(t) /\ TasksOK(t) /\ SameWalk(s, t)
<1>. DEFINE t == [s EXCEPT !.walkTask = r]
<1>1. /\ t \in Walker /\ t.events = s.events /\ t.id = s.id /\ t.late = s.late
      /\ t.list = s.list /\ t.speed = s.speed /\ t.teleported = s.teleported
  BY DEF WalkerOK, Walker
<1>. HIDE DEF t
<1>2. WalkerOK(t) /\ \A k : EventsOf(t, k) = EventsOf(s, k)
  BY <1>1 DEF WalkerOK, EventsOf
<1>3. TasksOK(t) /\ SameWalk(s, t)
  BY <1>1, <1>2 DEF TasksOK, WaitingKnown, AllQueued, SameWalk
<1> QED BY <1>2, <1>3 DEF t

LEMMA SetNextWalkActionTaskDoes ==
  ASSUME NEW s, WalkerOK(s), TasksOK(s), NEW r \in Nat
  PROVE  LET t == SetNextWalkActionTask(s, r)
         IN  WalkerOK(t) /\ TasksOK(t) /\ SameWalk(s, t)
<1>. DEFINE u == StopEvent(s, "walkTask")
<1>1. WalkerOK(u) /\ WaitingKnown(u) /\ AllQueued(u, "walkTask") /\ SameWalk(s, u)
  BY StopTaskEvent DEF TasksOK, TaskKind
<1>2. SetNextWalkActionTask(s, r) = [u EXCEPT !.walkTask = r]
  BY DEF SetNextWalkActionTask
<1>. HIDE DEF u
<1>3. WalkerOK([u EXCEPT !.walkTask = r]) /\ TasksOK([u EXCEPT !.walkTask = r])
      /\ SameWalk(u, [u EXCEPT !.walkTask = r])
  BY <1>1, WalkTaskSet
<1> QED BY <1>1, <1>2, <1>3 DEF SameWalk

LEMMA SetNextActionTaskDoes ==
  ASSUME NEW s, WalkerOK(s), TasksOK(s), NEW r \in Nat
  PROVE  LET t == SetNextActionTask(s, r)
         IN  WalkerOK(t) /\ TasksOK(t) /\ SameWalk(s, t)
<1>. DEFINE u == StopEvent(s, "action")
<1>1. "action" \in TaskKind /\ "walkTask" \in TaskKind \ {"action"} /\ NoRequest = 0
  BY DEF TaskKind, NoRequest
<1>2. /\ WalkerOK(u) /\ WaitingKnown(u) /\ AllQueued(u, "action") /\ SameWalk(s, u)
      /\ u.walkTask = s.walkTask /\ EventsOf(u, "walkTask") = EventsOf(s, "walkTask")
  BY <1>1, StopTaskEvent DEF TasksOK
<1>3. SetNextActionTask(s, r) = IF r = NoRequest THEN u ELSE AddEvent(u, "action", r)
  BY DEF SetNextActionTask
<1>. HIDE DEF u
<1>4. TasksOK(u)
  BY <1>2 DEF TasksOK, AllQueued
<1>5. CASE r = NoRequest
  BY <1>2, <1>3, <1>4, <1>5
<1>6. CASE r # NoRequest
  <2>. DEFINE t == AddEvent(u, "action", r)
  <2>1. /\ WalkerOK(t) /\ WaitingKnown(t) /\ SameWalk(u, t)
        /\ t.walkTask = u.walkTask /\ EventsOf(t, "walkTask") = EventsOf(u, "walkTask")
    BY <1>1, <1>2, AddTaskEvent
  <2>. HIDE DEF t
  <2>2. TasksOK(t) /\ SameWalk(s, t)
    BY <1>2, <1>4, <2>1 DEF TasksOK, AllQueued, SameWalk
  <2> QED BY <1>3, <1>6, <2>1, <2>2 DEF t
<1> QED BY <1>5, <1>6

LEMMA OnWalkCompleteDoes ==
  ASSUME NEW s, WalkerOK(s), TasksOK(s)
  PROVE  WalkerOK(OnWalkComplete(s)) /\ TasksOK(OnWalkComplete(s)) /\ SameWalk(s, OnWalkComplete(s))
<1>1. CASE s.walkTask = NoRequest
  BY <1>1 DEF OnWalkComplete, SameWalk
<1>2. CASE s.walkTask # NoRequest
  <2>. DEFINE u == AddEvent(s, "walkTask", s.walkTask)
  <2>1. "walkTask" \in TaskKind /\ "walkTask" \in Kind /\ s.walkTask \in Nat /\ NoRequest = 0
    BY DEF TaskKind, Kind, NoRequest, WalkerOK, Walker
  <2>2. WaitingKnown(s) /\ AllQueued(s, "walkTask")
    BY <1>2 DEF TasksOK
  <2>3. WalkerOK(u) /\ WaitingKnown(u) /\ SameWalk(s, u)
    BY <2>1, <2>2, AddTaskEvent
  <2>4. OnWalkComplete(s) = [u EXCEPT !.walkTask = NoRequest]
    BY <1>2 DEF OnWalkComplete
  <2>. HIDE DEF u
  <2>. DEFINE t == [u EXCEPT !.walkTask = NoRequest]
  <2>5. /\ t \in Walker /\ t.events = u.events /\ t.id = u.id /\ t.late = u.late /\ t.walkTask = 0
        /\ t.list = u.list /\ t.speed = u.speed /\ t.teleported = u.teleported
    BY <2>1, <2>3 DEF WalkerOK, Walker
  <2>. HIDE DEF t
  <2>6. WalkerOK(t) /\ \A k : EventsOf(t, k) = EventsOf(u, k)
    BY <2>3, <2>5 DEF WalkerOK, EventsOf
  <2>7. TasksOK(t) /\ SameWalk(s, t)
    BY <2>1, <2>3, <2>5, <2>6 DEF TasksOK, WaitingKnown, SameWalk
  <2> QED BY <2>4, <2>6, <2>7 DEF t
<1> QED BY <1>1, <1>2

\* When the walk event is stopped, there are no more than late stops.
LEMMA StopWalkDoes ==
  ASSUME NEW s, WalkerOK(s), TasksOK(s), NotTooMany(s) \/ WalkOK(s)
  PROVE  LET t == StopEvent(s, "walk")
         IN  /\ WalkerOK(t) /\ TasksOK(t) /\ NotTooMany(t) /\ t.id["walk"] = 0
             /\ t.list = s.list /\ t.speed = s.speed /\ t.teleported = s.teleported
<1>. DEFINE t == StopEvent(s, "walk")
            S == EventsOf(s, "walk")
            T == EventsOf(t, "walk")
<1>1. "walk" \in Kind /\ TaskKind \subseteq Kind \ {"walk"}
  BY DEF Kind, TaskKind
<1>2. /\ WalkerOK(t) /\ t.id["walk"] = 0
      /\ T = {e \in S : e.id = s.id["walk"] => e.queued}
      /\ \A l \in Kind \ {"walk"} : EventsOf(t, l) = EventsOf(s, l) /\ t.id[l] = s.id[l]
      /\ t.walkTask = s.walkTask /\ t.list = s.list
      /\ t.speed = s.speed /\ t.teleported = s.teleported
      /\ t.late = IF \E e \in S : e.id = s.id["walk"] /\ e.queued THEN s.late + 1 ELSE s.late
  BY <1>1, StopEventDoes
<1>3. s.late \in Nat /\ IsFiniteSet(S) /\ Cardinality(S) \in Nat
  BY <1>1, WalkerFacts
<1>4. NotTooMany(s) => Cardinality(S) <= s.late
  BY DEF NotTooMany
<1>5. WalkOK(s) => Cardinality(S) <= s.late + (IF \E e \in S : e.id = s.id["walk"] THEN 1 ELSE 0)
  BY DEF WalkOK, OneChainEach, KnownWalk
<1>6. SameTasks(s, t)
  BY <1>1, <1>2 DEF SameTasks
<1>7. TasksOK(t)
  BY <1>6, Alike
<1>. HIDE DEF t, S, T
<1>8. IsFiniteSet(T) /\ Cardinality(T) \in Nat /\ Cardinality(T) <= Cardinality(S)
  <2>1. T \subseteq S
    BY <1>2
  <2> QED BY <1>3, <2>1, FS_Subset, FS_CardinalityType
<1>9. Cardinality(T) <= t.late
  <2>1. CASE \E e \in S : e.id = s.id["walk"] /\ e.queued
    <3>1. Cardinality(S) <= s.late + 1 /\ t.late = s.late + 1
      BY <1>2, <1>3, <1>4, <1>5, <2>1
    <3> QED BY <1>3, <1>8, <3>1
  <2>2. CASE \A e \in S : e.id = s.id["walk"] => ~e.queued
    <3>1. t.late = s.late
      BY <1>2, <2>2
    <3>2. CASE \A e \in S : e.id # s.id["walk"]
      BY <1>3, <1>4, <1>5, <1>8, <3>1, <3>2
    <3>3. CASE \E e \in S : e.id = s.id["walk"]
      <4>1. PICK e \in S : e.id = s.id["walk"]
        BY <3>3
      <4>2. e \notin T /\ T \subseteq S
        BY <1>2, <2>2, <4>1
      <4>3. Cardinality(T) # Cardinality(S)
        BY <1>3, <4>1, <4>2, FS_Subset
      <4>4. Cardinality(S) <= s.late + 1
        BY <1>3, <1>4, <1>5
      <4> QED BY <1>3, <1>8, <3>1, <4>3, <4>4
    <3> QED BY <3>2, <3>3
  <2> QED BY <2>1, <2>2
<1> QED BY <1>2, <1>7, <1>9 DEF t, T, NotTooMany

\* The walk gets a new event, which is remembered.
LEMMA AddWalkDoes ==
  ASSUME NEW s, WalkerOK(s), TasksOK(s), NotTooMany(s), NEW r \in Nat
  PROVE  LET t == AddEvent(s, "walk", r)
         IN  WalkerOK(t) /\ TasksOK(t) /\ WalkOK(t) /\ Goes(t)
<1>. DEFINE t == AddEvent(s, "walk", r)
            e == AddedEvent(s, "walk", r)
<1>1. "walk" \in Kind /\ TaskKind \subseteq Kind \ {"walk"}
  BY DEF Kind, TaskKind
<1>2. /\ WalkerOK(t) /\ t.id["walk"] = FreshId(s, "walk")
      /\ EventsOf(t, "walk") = EventsOf(s, "walk") \cup {e}
      /\ \A l \in Kind \ {"walk"} : EventsOf(t, l) = EventsOf(s, l) /\ t.id[l] = s.id[l]
      /\ t.walkTask = s.walkTask /\ t.late = s.late
  BY <1>1, AddEventDoes
<1>3. e.id = FreshId(s, "walk") /\ FreshId(s, "walk") \in Nat \ {0}
  BY <1>1, FreshIdIsFree DEF AddedEvent
<1>. HIDE DEF t, e
<1>4. SameTasks(s, t)
  BY <1>1, <1>2 DEF SameTasks
<1>5. TasksOK(t)
  BY <1>4, Alike
<1>6. KnownWalk(t) /\ Goes(t)
  BY <1>2, <1>3 DEF KnownWalk, Goes
<1>7. OneChainEach(t)
  <2>1. /\ IsFiniteSet(EventsOf(s, "walk")) /\ Cardinality(EventsOf(s, "walk")) <= s.late /\ s.late \in Nat
    BY <1>1, WalkerFacts DEF NotTooMany
  <2>2. /\ Cardinality(EventsOf(s, "walk") \cup {e}) <= Cardinality(EventsOf(s, "walk")) + 1
        /\ Cardinality(EventsOf(s, "walk") \cup {e}) \in Nat /\ Cardinality(EventsOf(s, "walk")) \in Nat
    BY <2>1, CardinalityWith
  <2>3. Cardinality(EventsOf(t, "walk")) <= s.late + 1
    <3>1. Cardinality(EventsOf(s, "walk") \cup {e}) <= s.late + 1
      BY <2>1, <2>2
    <3> QED BY <1>2, <3>1
  <2> QED BY <1>2, <1>6, <2>3 DEF OneChainEach
<1> QED BY <1>2, <1>5, <1>6, <1>7 DEF t, WalkOK

\* While the walk event runs.
Steady(s) == WalkerOK(s) /\ TasksOK(s) /\ NotTooMany(s)

\* A step keeps the walk going, or ends in a teleport or without speed.
LEMMA StepDoes ==
  ASSUME NEW s, Steady(s), s.list > 0, NEW u \in Step(s)
  PROVE  /\ Steady(u)
         /\ Goes(s) => Goes(u)
         /\ s.id["walk"] = 0 => u.id["walk"] = 0
<1>. DEFINE a == SetNextActionTask(s, NoRequest)
            t == [a EXCEPT !.list = @ - 1, !.busy = TRUE]
            moved == [t EXCEPT !.resting = TRUE]
            halted == StopEvent(moved, "walk")
            gone == [halted EXCEPT !.teleported = TRUE]
            slow == [halted EXCEPT !.speed = FALSE, !.cancelNextWalk = TRUE]
<1>1. u \in {t, moved, gone, slow}
  BY DEF Step
<1>2. PICK r \in Nat : r = NoRequest
  BY DEF NoRequest
<1>3. WalkerOK(a) /\ TasksOK(a) /\ SameWalk(s, a)
  BY <1>2, SetNextActionTaskDoes DEF Steady
<1>4. NotTooMany(a) /\ a.list = s.list /\ a.id["walk"] = s.id["walk"] /\ a.speed = s.speed
      /\ a.teleported = s.teleported
  BY <1>3, Alike DEF Steady, SameWalk
<1>. HIDE DEF a
<1>5. a.list - 1 \in 0 .. MaxPath
  BY <1>3, <1>4, WalkAssumption DEF WalkerOK, Walker
<1>6. t \in Walker /\ SameEvents(a, t) /\ t.list = a.list - 1 /\ t.speed = a.speed /\ t.teleported = a.teleported
  BY <1>3, <1>5 DEF WalkerOK, Walker, SameEvents
<1>7. Steady(t)
  BY <1>3, <1>4, <1>6, Touched DEF Steady
<1>. HIDE DEF t
<1>8. /\ moved \in Walker /\ SameEvents(t, moved) /\ moved.list = t.list
      /\ moved.speed = t.speed /\ moved.teleported = t.teleported
  BY <1>6 DEF Walker, SameEvents
<1>9. Steady(moved)
  BY <1>7, <1>8, Touched DEF Steady
<1>. HIDE DEF moved
<1>10. WalkerOK(halted) /\ TasksOK(halted) /\ NotTooMany(halted) /\ halted.id["walk"] = 0
  BY <1>9, StopWalkDoes DEF Steady
<1>. HIDE DEF halted
<1>11. gone \in Walker /\ SameEvents(halted, gone) /\ gone.teleported = TRUE
  BY <1>10 DEF WalkerOK, Walker, SameEvents
<1>12. slow \in Walker /\ SameEvents(halted, slow) /\ slow.speed = FALSE
  BY <1>10 DEF WalkerOK, Walker, SameEvents
<1>13. Steady(gone) /\ Steady(slow)
  BY <1>10, <1>11, <1>12, Touched DEF Steady
<1>14. Goes(gone) /\ Goes(slow) /\ gone.id["walk"] = 0 /\ slow.id["walk"] = 0
  BY <1>10, <1>11, <1>12 DEF Goes, SameEvents
<1>15. t.id["walk"] = s.id["walk"] /\ moved.id["walk"] = s.id["walk"]
  BY <1>4, <1>6, <1>8 DEF SameEvents
<1>16. Goes(s) => Goes(t) /\ Goes(moved)
  BY <1>4, <1>6, <1>8, <1>15 DEF Goes
<1>17. CASE u = t
  BY <1>7, <1>15, <1>16, <1>17
<1>18. CASE u = moved
  BY <1>9, <1>15, <1>16, <1>18
<1>19. CASE u = gone
  BY <1>13, <1>14, <1>19
<1>20. CASE u = slow
  BY <1>13, <1>14, <1>20
<1>. HIDE DEF gone, slow
<1> QED BY <1>1, <1>17, <1>18, <1>19, <1>20

\* So does what onWalk does before it asks for the next event.
LEMMA WalkedDoes ==
  ASSUME NEW s, Steady(s), NEW v \in Walked(s)
  PROVE  /\ Steady(v)
         /\ Goes(s) => Goes(v)
         /\ s.id["walk"] = 0 => v.id["walk"] = 0
<1>. DEFINE stepped == IF s.resting THEN {s}
                       ELSE IF s.list > 0 THEN Step(s)
                       ELSE {OnWalkComplete(StopEvent(s, "walk"))}
            aborted(t) == [SetNextWalkActionTask(t, NoRequest) EXCEPT !.list = 0, !.cancelNextWalk = FALSE]
<1>1. PICK u \in stepped : v = IF u.cancelNextWalk THEN aborted(u) ELSE u
  BY DEF Walked
<1>2. Steady(u) /\ (Goes(s) => Goes(u)) /\ (s.id["walk"] = 0 => u.id["walk"] = 0)
  <2>1. CASE s.resting
    BY <1>1, <2>1
  <2>2. CASE ~s.resting /\ s.list > 0
    BY <1>1, <2>2, StepDoes
  <2>3. CASE ~s.resting /\ ~(s.list > 0)
    <3>. DEFINE h == StopEvent(s, "walk")
    <3>1. u = OnWalkComplete(h)
      BY <1>1, <2>3
    <3>2. WalkerOK(h) /\ TasksOK(h) /\ NotTooMany(h) /\ h.id["walk"] = 0 /\ h.list = s.list
      BY StopWalkDoes DEF Steady
    <3>. HIDE DEF h
    <3>3. WalkerOK(u) /\ TasksOK(u) /\ SameWalk(h, u)
      BY <3>1, <3>2, OnWalkCompleteDoes
    <3>4. NotTooMany(u) /\ u.id["walk"] = 0 /\ u.list = s.list
      BY <3>2, <3>3, Alike DEF SameWalk
    <3> QED BY <2>3, <3>3, <3>4 DEF Steady, Goes
  <2> QED BY <2>1, <2>2, <2>3
<1>. HIDE DEF stepped
<1>3. CASE ~u.cancelNextWalk
  BY <1>1, <1>2, <1>3
<1>4. CASE u.cancelNextWalk
  <2>. DEFINE a == SetNextWalkActionTask(u, NoRequest)
              b == [a EXCEPT !.list = 0, !.cancelNextWalk = FALSE]
  <2>1. v = b
    BY <1>1, <1>4
  <2>2. PICK r \in Nat : r = NoRequest
    BY DEF NoRequest
  <2>3. WalkerOK(a) /\ TasksOK(a) /\ SameWalk(u, a)
    BY <1>2, <2>2, SetNextWalkActionTaskDoes DEF Steady
  <2>4. NotTooMany(a) /\ a.id["walk"] = u.id["walk"]
    BY <1>2, <2>3, Alike DEF Steady, SameWalk
  <2>. HIDE DEF a
  <2>5. b \in Walker /\ SameEvents(a, b) /\ b.list = 0
    <3>1. 0 \in 0 .. MaxPath
      BY WalkAssumption
    <3>2. a \in Walker
      BY <2>3 DEF WalkerOK
    <3> QED BY <3>1, <3>2 DEF Walker, SameEvents
  <2>6. Steady(b)
    BY <2>3, <2>4, <2>5, Touched DEF Steady
  <2>7. Goes(b) /\ b.id["walk"] = u.id["walk"]
    BY <2>4, <2>5 DEF Goes, SameEvents
  <2>. HIDE DEF b
  <2> QED BY <1>2, <2>1, <2>6, <2>7
<1> QED BY <1>3, <1>4

\* A chain of walk events is asked for: there is one unless the player cannot
\* move.
LEMMA AddEventWalkDoes ==
  ASSUME NEW s, WalkerOK(s), TasksOK(s), WalkOK(s), NEW firstStep \in BOOLEAN,
         NEW v \in AddEventWalk(s, firstStep)
  PROVE  WalkerOK(v) /\ TasksOK(v) /\ WalkOK(v) /\ Goes(v)
<1>. DEFINE t == [s EXCEPT !.cancelNextWalk = FALSE]
<1>1. t \in Walker /\ SameEvents(s, t)
  BY DEF WalkerOK, Walker, SameEvents
<1>2. WalkerOK(t) /\ TasksOK(t) /\ WalkOK(t)
  BY <1>1, Touched
<1>3. CASE ~t.speed \/ t.id["walk"] # 0
  <2>1. v = t
    BY <1>3 DEF AddEventWalk
  <2> QED BY <1>2, <1>3, <2>1 DEF Goes
<1>4. CASE ~(~t.speed \/ t.id["walk"] # 0)
  <2>1. PICK u \in IF firstStep /\ ~t.resting THEN Walked(t) ELSE {t} : v = AddEvent(u, "walk", NoRequest)
    BY <1>4 DEF AddEventWalk
  <2>. HIDE DEF t
  <2>2. NotTooMany(t)
    <3>1. "walk" \in Kind
      BY DEF Kind
    <3>2. ~KnownWalk(t)
      BY <1>2, <1>4, <3>1, WalkerFacts DEF KnownWalk
    <3>3. Cardinality(EventsOf(t, "walk")) <= t.late + 0 /\ t.late \in Nat
      BY <1>2, <3>1, <3>2, WalkerFacts DEF WalkOK, OneChainEach
    <3>4. Cardinality(EventsOf(t, "walk")) <= t.late
      BY <3>3
    <3> QED BY <3>4 DEF NotTooMany
  <2>3. Steady(u)
    <3>1. Steady(t)
      BY <1>2, <2>2 DEF Steady
    <3> QED BY <2>1, <3>1, WalkedDoes
  <2>4. PICK r \in Nat : r = NoRequest
    BY DEF NoRequest
  <2> QED BY <2>1, <2>3, <2>4, AddWalkDoes DEF Steady
<1> QED BY <1>3, <1>4

\* The walk event that runs is forgotten, and there is a next one when the walk
\* is to go on.
LEMMA OnWalkDoes ==
  ASSUME NEW s, Steady(s), Goes(s), NEW v \in OnWalk(s)
  PROVE  WalkerOK(v) /\ TasksOK(v) /\ WalkOK(v) /\ Goes(v)
<1>1. PICK t \in Walked(s) :
        v \in IF t.id["walk"] # 0 THEN AddEventWalk([t EXCEPT !.id["walk"] = 0], FALSE) ELSE {t}
  BY DEF OnWalk
<1>2. Steady(t) /\ Goes(t)
  BY WalkedDoes
<1>3. "walk" \in Kind /\ t.late \in Nat /\ Cardinality(EventsOf(t, "walk")) \in Nat
  <2>1. "walk" \in Kind
    BY DEF Kind
  <2> QED BY <1>2, <2>1, WalkerFacts DEF Steady
<1>4. CASE t.id["walk"] # 0
  <2>. DEFINE b == [t EXCEPT !.id["walk"] = 0]
  <2>1. v \in AddEventWalk(b, FALSE)
    BY <1>1, <1>4
  <2>2. /\ b \in Walker /\ b.events = t.events /\ b.id = [t.id EXCEPT !["walk"] = 0]
        /\ b.walkTask = t.walkTask /\ b.late = t.late
    BY <1>2 DEF Steady, WalkerOK, Walker, Kind
  <2>. HIDE DEF b
  <2>3. /\ \A k : EventsOf(b, k) = EventsOf(t, k)
        /\ b.id["walk"] = 0 /\ \A k \in TaskKind : b.id[k] = t.id[k]
    BY <1>2, <2>2 DEF EventsOf, TaskKind, Kind, Steady, WalkerOK, Walker
  <2>4. SameTasks(t, b)
    BY <2>2, <2>3 DEF SameTasks
  <2>5. WalkerOK(b) /\ TasksOK(b)
    BY <1>2, <2>2, <2>4, Alike DEF Steady, WalkerOK
  <2>6. WalkOK(b)
    <3>1. Cardinality(EventsOf(b, "walk")) <= b.late
      BY <1>2, <2>2, <2>3 DEF Steady, NotTooMany
    <3>2. Cardinality(EventsOf(b, "walk")) <= b.late + (IF KnownWalk(b) THEN 1 ELSE 0)
      <4>1. b.late \in Nat /\ Cardinality(EventsOf(b, "walk")) \in Nat
        BY <1>3, <2>2, <2>3
      <4> QED BY <3>1, <4>1
    <3> QED BY <2>3, <3>2 DEF WalkOK, OneChainEach
  <2>7. FALSE \in BOOLEAN
    OBVIOUS
  <2> QED BY <2>1, <2>5, <2>6, <2>7, AddEventWalkDoes
<1>5. CASE t.id["walk"] = 0
  <2>1. v = t
    BY <1>1, <1>5
  <2>2. Cardinality(EventsOf(t, "walk")) <= t.late + (IF KnownWalk(t) THEN 1 ELSE 0)
    BY <1>2, <1>3 DEF Steady, NotTooMany
  <2> QED BY <1>2, <1>5, <2>1, <2>2 DEF Steady, WalkOK, OneChainEach
<1> QED BY <1>4, <1>5

\* Between two tasks of the dispatcher.
Settled(s) == WalkerOK(s) /\ TasksOK(s) /\ WalkOK(s) /\ Goes(s)

LEMMA StoppedWalk ==
  ASSUME NEW s, WalkerOK(s), NotTooMany(s), s.id["walk"] = 0
  PROVE  WalkOK(s)
<1>1. "walk" \in Kind
  BY DEF Kind
<1>2. s.late \in Nat /\ Cardinality(EventsOf(s, "walk")) \in Nat
  BY <1>1, WalkerFacts
<1>3. Cardinality(EventsOf(s, "walk")) <= s.late + (IF KnownWalk(s) THEN 1 ELSE 0)
  BY <1>2 DEF NotTooMany
<1>4. OneChainEach(s)
  BY <1>3 DEF OneChainEach
<1> QED BY <1>4 DEF WalkOK

LEMMA StartAutoWalkDoes ==
  ASSUME NEW s, Settled(s), NEW n \in 1 .. MaxPath, NEW v \in StartAutoWalk(s, n)
  PROVE  Settled(v)
<1>. DEFINE t == [s EXCEPT !.list = n, !.teleported = FALSE]
<1>1. t \in Walker /\ SameEvents(s, t)
  <2>1. n \in 0 .. MaxPath
    BY WalkAssumption
  <2> QED BY <2>1 DEF Settled, WalkerOK, Walker, SameEvents
<1>2. WalkerOK(t) /\ TasksOK(t) /\ WalkOK(t)
  BY <1>1, Touched DEF Settled
<1>3. v = s \/ v \in AddEventWalk(t, n = 1)
  BY DEF StartAutoWalk
<1>. HIDE DEF t
<1>4. (n = 1) \in BOOLEAN
  OBVIOUS
<1>5. CASE v \in AddEventWalk(t, n = 1)
  BY <1>2, <1>4, <1>5, AddEventWalkDoes DEF Settled
<1> QED BY <1>3, <1>5

LEMMA SetSpeedDoes ==
  ASSUME NEW s, Settled(s), NEW speed \in BOOLEAN, NEW v \in SetSpeed(s, speed)
  PROVE  Settled(v)
<1>. DEFINE t == [s EXCEPT !.speed = speed]
<1>1. t \in Walker /\ SameEvents(s, t) /\ t.speed = speed /\ t.list = s.list /\ t.teleported = s.teleported
  BY DEF Settled, WalkerOK, Walker, SameEvents
<1>2. WalkerOK(t) /\ TasksOK(t) /\ WalkOK(t)
  BY <1>1, Touched DEF Settled
<1>3. CASE ~speed
  <2>. DEFINE h == StopEvent(t, "walk")
              b == [h EXCEPT !.cancelNextWalk = TRUE]
  <2>1. v = b
    BY <1>3 DEF SetSpeed
  <2>. HIDE DEF t
  <2>2. WalkerOK(h) /\ TasksOK(h) /\ NotTooMany(h) /\ h.id["walk"] = 0 /\ h.speed = FALSE
    BY <1>1, <1>2, <1>3, StopWalkDoes
  <2>. HIDE DEF h
  <2>3. b \in Walker /\ SameEvents(h, b) /\ b.speed = FALSE
    BY <2>2 DEF WalkerOK, Walker, SameEvents
  <2>4. WalkOK(h)
    BY <2>2, StoppedWalk
  <2>5. WalkerOK(b) /\ TasksOK(b) /\ WalkOK(b)
    BY <2>2, <2>3, <2>4, Touched
  <2>6. Goes(b)
    BY <2>3 DEF Goes
  <2> QED BY <2>1, <2>5, <2>6 DEF Settled
<1>4. CASE speed /\ ~s.speed /\ s.list > 0
  <2>1. v \in AddEventWalk(t, FALSE)
    BY <1>1, <1>4 DEF SetSpeed
  <2>. HIDE DEF t
  <2>2. FALSE \in BOOLEAN
    OBVIOUS
  <2> QED BY <1>2, <2>1, <2>2, AddEventWalkDoes DEF Settled
<1>5. CASE speed /\ ~(~s.speed /\ s.list > 0)
  <2>1. v = t
    BY <1>1, <1>5 DEF SetSpeed
  <2>. HIDE DEF t
  <2>2. Goes(t)
    BY <1>1, <1>5 DEF Settled, Goes, SameEvents
  <2> QED BY <1>2, <2>1, <2>2 DEF Settled
<1> QED BY <1>3, <1>4, <1>5

\* An action is scheduled, or waits for the end of the walk.
LEMMA UseDoes ==
  ASSUME NEW s, Settled(s), NEW r \in Nat, NEW far \in BOOLEAN, Use(s, r, far)
  PROVE  Settled(w')
<1>1. PICK n \in Nat : w' = SetNextWalkActionTask(s, n) \/ w' = SetNextActionTask(s, n)
  BY DEF Use, NoRequest
<1>2. WalkerOK(w') /\ TasksOK(w') /\ SameWalk(s, w')
  BY <1>1, SetNextWalkActionTaskDoes, SetNextActionTaskDoes DEF Settled
<1> QED BY <1>2, Alike DEF Settled

LEMMA ExpireKeeps ==
  ASSUME Settled(w), NEW e \in w.events, Expire(e)
  PROVE  Settled(w')
<1>. DEFINE d == [e EXCEPT !.queued = TRUE]
            E(k) == EventsOf(w, k)
            F(k) == EventsOf(w', k)
<1>1. w \in Walker /\ IsFiniteSet(w.events) /\ e \in WalkEvent
  BY DEF Settled, WalkerOK, Walker
<1>2. d \in WalkEvent /\ d.kind = e.kind /\ d.id = e.id /\ d.queued = TRUE
  BY <1>1 DEF WalkEvent
<1>3. w' = [w EXCEPT !.events = (w.events \ {e}) \cup {d}] /\ ~e.queued
  BY DEF Expire
<1>. HIDE DEF d
<1>4. /\ w' \in Walker /\ w'.events = (w.events \ {e}) \cup {d} /\ w'.id = w.id
      /\ w'.walkTask = w.walkTask /\ w'.late = w.late /\ w'.list = w.list
      /\ w'.speed = w.speed /\ w'.teleported = w.teleported
  BY <1>1, <1>2, <1>3 DEF Walker
<1>5. WalkerOK(w')
  <2>1. IsFiniteSet(w.events \ {e}) /\ IsFiniteSet((w.events \ {e}) \cup {d})
    BY <1>1, FS_RemoveElement, FS_AddElement
  <2> QED BY <1>4, <2>1 DEF WalkerOK
<1>6. \A k \in Kind : F(k) = IF k = e.kind THEN (E(k) \ {e}) \cup {d} ELSE E(k)
  BY <1>2, <1>4 DEF EventsOf
<1>7. e.kind \in Kind /\ e \in E(e.kind)
  BY <1>1 DEF WalkEvent, EventsOf
<1>. HIDE DEF E, F
<1>8. TasksOK(w')
  <2>1. TaskKind \subseteq Kind /\ "walkTask" \in TaskKind
    BY DEF TaskKind, Kind
  <2>2. WaitingKnown(w')
    <3>. SUFFICES ASSUME NEW k \in TaskKind
                  PROVE  /\ \A c \in F(k) : ~c.queued => c.id = w.id[k]
                         /\ \A b, c \in F(k) : b.id = c.id => b = c
      BY <1>4 DEF WaitingKnown, F
    <3>1. /\ \A c \in E(k) : ~c.queued => c.id = w.id[k]
          /\ \A b, c \in E(k) : b.id = c.id => b = c
      BY DEF Settled, TasksOK, WaitingKnown, E
    <3>2. CASE k = e.kind
      BY <1>2, <1>6, <1>7, <2>1, <3>1, <3>2
    <3>3. CASE k # e.kind
      BY <1>6, <2>1, <3>1, <3>3
    <3> QED BY <3>2, <3>3
  <2>3. w.walkTask # NoRequest => AllQueued(w', "walkTask")
    <3>1. w.walkTask # NoRequest => \A c \in E("walkTask") : c.queued
      BY DEF Settled, TasksOK, AllQueued, E
    <3>2. w.walkTask # NoRequest => \A c \in F("walkTask") : c.queued
      BY <1>2, <1>6, <2>1, <3>1
    <3> QED BY <3>2 DEF AllQueued, F
  <2> QED BY <1>4, <2>2, <2>3 DEF TasksOK
<1>9. WalkOK(w')
  <2>1. "walk" \in Kind
    BY DEF Kind
  <2>2. /\ IsFiniteSet(E("walk")) /\ Cardinality(E("walk")) \in Nat
        /\ Cardinality(F("walk")) \in Nat /\ w.late \in Nat
    BY <1>5, <2>1, WalkerFacts DEF Settled, E, F
  <2>3. Cardinality(F("walk")) <= Cardinality(E("walk"))
    <3>1. CASE e.kind = "walk"
      <4>1. /\ IsFiniteSet(E("walk") \ {e}) /\ Cardinality(E("walk") \ {e}) = Cardinality(E("walk")) - 1
        BY <1>7, <2>2, <3>1, FS_RemoveElement
      <4>2. Cardinality((E("walk") \ {e}) \cup {d}) <= Cardinality(E("walk") \ {e}) + 1
        BY <4>1, CardinalityWith
      <4>3. F("walk") = (E("walk") \ {e}) \cup {d}
        BY <1>6, <2>1, <3>1
      <4>4. Cardinality(F("walk")) <= Cardinality(E("walk") \ {e}) + 1
        BY <4>2, <4>3
      <4> QED BY <2>2, <4>1, <4>4
    <3>2. CASE e.kind # "walk"
      <4>1. F("walk") = E("walk")
        BY <1>6, <2>1, <3>2
      <4> QED BY <2>2, <4>1
    <3> QED BY <3>1, <3>2
  <2>4. KnownWalk(w') <=> KnownWalk(w)
    <3>1. (\E c \in F("walk") : c.id = w.id["walk"]) <=> \E c \in E("walk") : c.id = w.id["walk"]
      BY <1>2, <1>6, <1>7, <2>1
    <3> QED BY <1>4, <3>1 DEF KnownWalk, E, F
  <2>5. Cardinality(E("walk")) <= w.late + (IF KnownWalk(w) THEN 1 ELSE 0)
    BY DEF Settled, WalkOK, OneChainEach, E
  <2>6. Cardinality(F("walk")) <= w.late + (IF KnownWalk(w) THEN 1 ELSE 0)
    BY <2>2, <2>3, <2>5
  <2>7. OneChainEach(w')
    BY <1>4, <2>4, <2>6 DEF OneChainEach, F
  <2> QED BY <1>4, <2>4, <2>7 DEF Settled, WalkOK
<1>10. Goes(w')
  BY <1>4 DEF Settled, Goes
<1> QED BY <1>5, <1>8, <1>9, <1>10 DEF Settled

\* What an event that runs finds.
LEMMA EventTaken ==
  ASSUME Settled(w), NEW e \in w.events
  PROVE  LET s == [w EXCEPT !.events = @ \ {e}]
         IN  /\ WalkerOK(s) /\ TasksOK(s) /\ Goes(s)
             /\ e.kind = "walk" => NotTooMany(s)
             /\ e.kind # "walk" => WalkOK(s)
<1>. DEFINE s == [w EXCEPT !.events = @ \ {e}]
            E(k) == EventsOf(w, k)
            F(k) == EventsOf(s, k)
<1>1. w \in Walker /\ IsFiniteSet(w.events) /\ e \in WalkEvent
  BY DEF Settled, WalkerOK, Walker
<1>2. /\ s \in Walker /\ s.events = w.events \ {e} /\ s.id = w.id
      /\ s.walkTask = w.walkTask /\ s.late = w.late /\ s.list = w.list
      /\ s.speed = w.speed /\ s.teleported = w.teleported
  BY <1>1 DEF Walker
<1>. HIDE DEF s
<1>3. WalkerOK(s)
  BY <1>1, <1>2, FS_RemoveElement DEF WalkerOK
<1>4. \A k : F(k) = E(k) \ {e}
  BY <1>2 DEF EventsOf
<1>5. e.kind = "walk" => e \in E("walk")
  BY DEF EventsOf
<1>6. e.kind # "walk" => F("walk") = E("walk")
  BY <1>4 DEF EventsOf
<1>7. TasksOK(s)
  BY <1>2, <1>4 DEF Settled, TasksOK, WaitingKnown, AllQueued
<1>8. Goes(s)
  BY <1>2 DEF Settled, Goes
<1>. HIDE DEF E, F
<1>9. ASSUME e.kind = "walk" PROVE NotTooMany(s)
  <2>1. "walk" \in Kind
    BY DEF Kind
  <2>2. IsFiniteSet(E("walk")) /\ Cardinality(E("walk")) \in Nat /\ w.late \in Nat
    BY <2>1, WalkerFacts DEF Settled, E
  <2>3. Cardinality(F("walk")) = Cardinality(E("walk")) - 1
    BY <1>4, <1>5, <1>9, <2>2, FS_RemoveElement
  <2>4. Cardinality(E("walk")) <= w.late + (IF KnownWalk(w) THEN 1 ELSE 0)
    BY DEF Settled, WalkOK, OneChainEach, E
  <2>5. Cardinality(F("walk")) <= w.late
    BY <2>2, <2>3, <2>4
  <2> QED BY <1>2, <2>5 DEF NotTooMany, F
<1>10. ASSUME e.kind # "walk" PROVE WalkOK(s)
  <2>1. EventsOf(s, "walk") = EventsOf(w, "walk")
    BY <1>6, <1>10 DEF E, F
  <2> QED BY <1>2, <2>1 DEF Settled, WalkOK, OneChainEach, KnownWalk
<1> QED BY <1>3, <1>7, <1>8, <1>9, <1>10 DEF s

LEMMA RunEventKeeps ==
  ASSUME Settled(w), NEW e \in w.events, RunEvent(e)
  PROVE  Settled(w')
<1>. DEFINE s == [w EXCEPT !.events = @ \ {e}]
<1>1. /\ WalkerOK(s) /\ TasksOK(s) /\ Goes(s)
      /\ e.kind = "walk" => NotTooMany(s)
      /\ e.kind # "walk" => WalkOK(s)
  BY EventTaken
<1>2. \/ e.kind = "walk" /\ w' \in OnWalk(s)
      \/ e.kind # "walk" /\ Use(s, e.request, FALSE)
      \/ e.kind # "walk" /\ Use(s, e.request, TRUE)
  BY DEF RunEvent
<1>3. e.request \in Nat /\ TRUE \in BOOLEAN /\ FALSE \in BOOLEAN
  BY DEF Settled, WalkerOK, Walker, WalkEvent
<1>. HIDE DEF s
<1>4. CASE e.kind = "walk" /\ w' \in OnWalk(s)
  BY <1>1, <1>4, OnWalkDoes DEF Steady, Settled
<1>5. CASE e.kind # "walk" /\ (Use(s, e.request, FALSE) \/ Use(s, e.request, TRUE))
  BY <1>1, <1>3, <1>5, UseDoes DEF Settled
<1> QED BY <1>2, <1>4, <1>5

\* However long the paths, and whatever is asked for in between: a player with
\* steps to go has a walk event unless he cannot move or was teleported, the
\* remembered event exists, there is one chain of walk events and one more for
\* every stop that came too late, and one action waits at most.
THEOREM WalksAreSound == WalkSpec => []WalkSound
<1>1. WalkInit => WalkInv
  <2>. SUFFICES ASSUME WalkInit PROVE WalkInv
    OBVIOUS
  <2>1. /\ w \in Walker /\ w.events = {} /\ w.walkTask = NoRequest /\ w.list = 0
        /\ w.id["walk"] = 0 /\ w.late = 0
    BY WalkAssumption DEF WalkInit, Walker, NoRequest, Kind
  <2>2. \A k : EventsOf(w, k) = {}
    BY <2>1 DEF EventsOf
  <2>3. WalkerOK(w) /\ TasksOK(w) /\ Goes(w) /\ ~KnownWalk(w)
    BY <2>1, <2>2, FS_EmptySet DEF WalkerOK, TasksOK, WaitingKnown, Goes, KnownWalk
  <2>4. WalkOK(w)
    BY <2>1, <2>2, <2>3, FS_EmptySet DEF WalkOK, OneChainEach
  <2> QED BY <2>3, <2>4 DEF WalkInv, WalkInit
<1>2. WalkInv /\ [WalkNext]_walkVars => WalkInv'
  <2>. SUFFICES ASSUME WalkInv, [WalkNext]_walkVars PROVE WalkInv'
    OBVIOUS
  <2>1. Settled(w) /\ w \in Walker /\ acts \in Nat /\ acts + 1 \in Nat
    BY DEF WalkInv, Settled, WalkerOK
  <2>2. acts' \in Nat
    BY <2>1 DEF WalkNext, walkVars, PlayerMove, PlayerAutoWalk, PlayerStopAutoWalk, PlayerUseItem,
                ChangeSpeed, SetMovementBlocked, Teleport, Expire, RunEvent, Rested, CanDoAction, Ask, Use
  <2>3. CASE PlayerMove
    <3>. DEFINE s == SetNextWalkActionTask(w, NoRequest)
    <3>1. PICK r \in Nat : r = NoRequest
      BY DEF NoRequest
    <3>2. WalkerOK(s) /\ TasksOK(s) /\ SameWalk(w, s)
      BY <2>1, <3>1, SetNextWalkActionTaskDoes DEF Settled
    <3>3. Settled(s)
      BY <2>1, <3>2, Alike DEF Settled
    <3>4. w' \in StartAutoWalk(s, 1) /\ 1 \in 1 .. MaxPath
      BY <2>3, WalkAssumption DEF PlayerMove
    <3>. HIDE DEF s
    <3>5. Settled(w')
      BY <3>3, <3>4, StartAutoWalkDoes
    <3> QED BY <2>2, <3>5 DEF WalkInv, Settled
  <2>4. CASE PlayerAutoWalk
    <3>1. PICK n \in 1 .. MaxPath : w' \in StartAutoWalk(w, n)
      BY <2>4 DEF PlayerAutoWalk
    <3>2. Settled(w')
      BY <2>1, <3>1, StartAutoWalkDoes
    <3> QED BY <2>2, <3>2 DEF WalkInv, Settled
  <2>5. CASE PlayerStopAutoWalk \/ SetMovementBlocked \/ Rested \/ CanDoAction
    <3>1. /\ w' \in Walker /\ SameEvents(w, w') /\ w'.list = w.list
          /\ w'.speed = w.speed /\ w'.teleported = w.teleported
      BY <2>1, <2>5 DEF PlayerStopAutoWalk, SetMovementBlocked, Rested, CanDoAction, Walker, SameEvents
    <3>2. WalkerOK(w') /\ TasksOK(w') /\ WalkOK(w')
      BY <2>1, <3>1, Touched DEF Settled
    <3>3. Goes(w')
      BY <2>1, <3>1 DEF Settled, Goes, SameEvents
    <3> QED BY <2>2, <3>2, <3>3 DEF WalkInv
  <2>6. CASE PlayerUseItem
    <3>1. PICK far \in BOOLEAN : Use(w, acts', far)
      BY <2>6 DEF PlayerUseItem
    <3>2. Settled(w')
      BY <2>1, <2>2, <3>1, UseDoes
    <3> QED BY <2>2, <3>2 DEF WalkInv, Settled
  <2>7. CASE ChangeSpeed
    <3>1. w' \in SetSpeed(w, ~w.speed) /\ (~w.speed) \in BOOLEAN
      BY <2>7 DEF ChangeSpeed
    <3>2. Settled(w')
      BY <2>1, <3>1, SetSpeedDoes
    <3> QED BY <2>2, <3>2 DEF WalkInv, Settled
  <2>8. CASE Teleport
    <3>. DEFINE h == StopEvent(w, "walk")
    <3>1. WalkerOK(h) /\ TasksOK(h) /\ NotTooMany(h) /\ h.id["walk"] = 0
      BY <2>1, StopWalkDoes DEF Settled
    <3>2. w' = [h EXCEPT !.teleported = TRUE, !.resting = TRUE]
      BY <2>8 DEF Teleport
    <3>. HIDE DEF h
    <3>3. w' \in Walker /\ SameEvents(h, w') /\ w'.teleported = TRUE
      BY <3>1, <3>2 DEF WalkerOK, Walker, SameEvents
    <3>4. WalkOK(h)
      BY <3>1, StoppedWalk
    <3>5. WalkerOK(w') /\ TasksOK(w') /\ WalkOK(w')
      BY <3>1, <3>3, <3>4, Touched
    <3>6. Goes(w')
      BY <3>3 DEF Goes
    <3> QED BY <2>2, <3>5, <3>6 DEF WalkInv
  <2>9. ASSUME NEW e \in w.events, Expire(e) \/ RunEvent(e) PROVE WalkInv'
    <3>1. Settled(w')
      BY <2>1, <2>9, ExpireKeeps, RunEventKeeps
    <3> QED BY <2>2, <3>1 DEF WalkInv, Settled
  <2>10. CASE UNCHANGED walkVars
    BY <2>1, <2>10 DEF walkVars, WalkInv, Settled
  <2> QED BY <2>3, <2>4, <2>5, <2>6, <2>7, <2>8, <2>9, <2>10 DEF WalkNext
<1>3. WalkInv => WalkSound
  <2>. SUFFICES ASSUME WalkInv PROVE WalkSound
    OBVIOUS
  <2>1. WalkTypeOK
    BY DEF WalkInv, WalkerOK, Walker, WalkEvent, WalkTypeOK
  <2>2. StillWalking
    BY DEF WalkInv, WalkOK, KnownWalk, Goes, StillWalking
  <2>3. WalkChains
    <3>1. "walk" \in Kind
      BY DEF Kind
    <3>2. w.late \in Nat /\ Cardinality(EventsOf(w, "walk")) \in Nat
      BY <3>1, WalkerFacts DEF WalkInv
    <3>3. Cardinality(EventsOf(w, "walk")) <= w.late + (IF KnownWalk(w) THEN 1 ELSE 0)
      BY DEF WalkInv, WalkOK, OneChainEach
    <3>4. Cardinality(EventsOf(w, "walk")) <= 1 + w.late
      BY <3>2, <3>3
    <3> QED BY <3>4 DEF WalkChains
  <2>4. OneIntention
    <3>. DEFINE waiting(k) == {e \in EventsOf(w, k) : ~e.queued}
    <3>1. ASSUME NEW k \in TaskKind PROVE waiting(k) = {} \/ \E e : waiting(k) = {e}
      <4>1. \A d, e \in waiting(k) : d = e
        BY DEF WalkInv, TasksOK, WaitingKnown
      <4> QED BY <4>1
    <3>. HIDE DEF waiting
    <3>2. \A k \in TaskKind : /\ Cardinality(waiting(k)) \in {0, 1}
                              /\ waiting(k) = {} => Cardinality(waiting(k)) = 0
      BY <3>1, FS_EmptySet, FS_Singleton
    <3>3. w.walkTask # NoRequest => waiting("walkTask") = {}
      BY DEF WalkInv, TasksOK, AllQueued, waiting
    <3>4. "walkTask" \in TaskKind /\ "action" \in TaskKind
      BY DEF TaskKind
    <3>5. Cardinality(waiting("walkTask")) + (IF w.walkTask = NoRequest THEN 0 ELSE 1) <= 1
      BY <3>2, <3>3, <3>4
    <3>6. Cardinality(waiting("action")) <= 1
      BY <3>2, <3>4
    <3> QED BY <3>5, <3>6 DEF OneIntention, waiting
  <2> QED BY <2>1, <2>2, <2>3, <2>4 DEF WalkSound
<1> QED BY <1>1, <1>2, <1>3, PTL DEF WalkSpec
==============================================================================
