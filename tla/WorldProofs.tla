----------------------------- MODULE WorldProofs -----------------------------
(***************************************************************************)
(* Proofs about two components of the world: Party and Decay.              *)
(***************************************************************************)
EXTENDS Party, Decay, TLAPS

-------------------------------------------------------------------------------
(***************************************************************************)
(* Proofs about Party: the parties, their players and their invitations    *)
(* agree after every request, for any number of players and addresses.     *)
(*                                                                         *)
(* A request is a sequence of steps on the record Now.  A step keeps Good, *)
(* what holds even in the middle of a request; what holds between requests *)
(* only, that nobody is invited twice and no party is alone, follows from  *)
(* Shrinks: most steps only take away.                                     *)
(***************************************************************************)

AnyParties ==
  [party : [Player -> Address \cup {None}], invitedBy : [Player -> SUBSET Address],
   leader : [Address -> Player \cup {None}], memberList : [Address -> Seq(Player)],
   inviteList : [Address -> SUBSET Player], ticks : [Address -> SUBSET Player]]

Live(s) == {a \in Address : s.leader[a] # None}

Pointers(s) ==
  /\ \A p \in Player, a \in Address : s.party[p] = a <=> a \in Live(s) /\ p \in InParty(s, a)
  /\ \A a \in Live(s) : IsInjective(s.memberList[a]) /\ s.leader[a] \notin ToSet(s.memberList[a])

\* An address is used again as if it had never been used.
Clean(s) ==
  \A a \in Address \ Live(s) : s.memberList[a] = <<>> /\ s.inviteList[a] = {} /\ s.ticks[a] = {}

Invited(s) == \A p \in Player, a \in Address : p \in s.inviteList[a] <=> a \in s.invitedBy[p]

Active(s) == \A a \in Live(s) : s.ticks[a] \subseteq InParty(s, a)

Good(s) == s \in AnyParties /\ Pointers(s) /\ Clean(s) /\ Invited(s) /\ Active(s)

NotTwice(s) ==
  \A a \in Live(s) : \A p \in InParty(s, a) :
    a \notin s.invitedBy[p] /\ (s.memberList[a] # <<>> => s.invitedBy[p] = {})

Accompanied(s) == \A a \in Live(s) : ~Alone(s, a)

Forgotten(s, on) ==
  \A p \in Player \ on : s.party[p] = None /\ \A a \in Address : p \notin s.inviteList[a] \cup s.ticks[a]

PartyInv ==
  /\ online \subseteq Player
  /\ Good(Now) /\ NotTwice(Now) /\ Accompanied(Now) /\ Forgotten(Now, online)

\* What a step that only takes away makes of s.
Shrinks(s, t) ==
  /\ Live(t) \subseteq Live(s)
  /\ \A a \in Live(t) : InParty(t, a) \subseteq InParty(s, a)
  /\ \A a \in Live(t) : t.memberList[a] # <<>> => s.memberList[a] # <<>>
  /\ \A a \in Address : t.inviteList[a] \subseteq s.inviteList[a] /\ t.ticks[a] \subseteq s.ticks[a]
  /\ \A p \in Player : t.invitedBy[p] \subseteq s.invitedBy[p] /\ t.party[p] \in {None, s.party[p]}

-----------------------------------------------------------------------------
(* Sequences without repetition *)

LEMMA AppendOnce ==
  ASSUME NEW q \in Seq(Player), NEW p \in Player, IsInjective(q), p \notin ToSet(q)
  PROVE  /\ Append(q, p) \in Seq(Player) /\ IsInjective(Append(q, p))
         /\ ToSet(Append(q, p)) = ToSet(q) \cup {p}
         /\ Append(q, p) # <<>>
<1> DEFINE r == Append(q, p)
<1>1. /\ r \in Seq(Player) /\ Len(r) = Len(q) + 1 /\ Len(q) \in Nat
      /\ \A i \in 1 .. Len(q) : r[i] = q[i]
      /\ r[Len(q) + 1] = p
      /\ DOMAIN r = 1 .. Len(q) + 1 /\ DOMAIN q = 1 .. Len(q)
  OBVIOUS
<1> HIDE DEF r
<1>2. ToSet(r) = ToSet(q) \cup {p}
  <2>1. \A i \in DOMAIN r : r[i] \in ToSet(q) \cup {p}
    BY <1>1 DEF ToSet
  <2>2. \A x \in ToSet(q) \cup {p} : \E i \in DOMAIN r : r[i] = x
    BY <1>1 DEF ToSet
  <2> QED BY <2>1, <2>2 DEF ToSet
<1>3. IsInjective(r)
  <2> SUFFICES ASSUME NEW i \in DOMAIN r, NEW j \in DOMAIN r, r[i] = r[j] PROVE i = j
    BY DEF IsInjective
  <2>1. \A k \in 1 .. Len(q) : q[k] # p
    BY <1>1 DEF ToSet
  <2>2. CASE i \in 1 .. Len(q) /\ j \in 1 .. Len(q)
    BY <1>1, <2>2 DEF IsInjective
  <2>3. CASE i = Len(q) + 1 \/ j = Len(q) + 1
    BY <1>1, <2>1, <2>3
  <2> QED BY <1>1, <2>2, <2>3
<1>4. r # <<>>
  BY <1>1
<1> QED BY <1>1, <1>2, <1>3, <1>4 DEF r

LEMMA FrontOnce ==
  ASSUME NEW q \in Seq(Player), NEW p \in Player, IsInjective(q), p \notin ToSet(q)
  PROVE  /\ <<p>> \o q \in Seq(Player) /\ IsInjective(<<p>> \o q)
         /\ ToSet(<<p>> \o q) = ToSet(q) \cup {p}
         /\ <<p>> \o q # <<>>
<1> DEFINE r == <<p>> \o q
<1>1. /\ r \in Seq(Player) /\ Len(r) = Len(q) + 1 /\ Len(q) \in Nat
      /\ \A i \in 1 .. Len(q) : r[i + 1] = q[i]
      /\ r[1] = p
      /\ DOMAIN r = 1 .. Len(q) + 1 /\ DOMAIN q = 1 .. Len(q)
  OBVIOUS
<1> HIDE DEF r
<1>2. \A i \in DOMAIN r : i = 1 \/ (i - 1 \in DOMAIN q /\ r[i] = q[i - 1])
  BY <1>1
<1>3. ToSet(r) = ToSet(q) \cup {p}
  <2>1. \A i \in DOMAIN r : r[i] \in ToSet(q) \cup {p}
    BY <1>1, <1>2 DEF ToSet
  <2>2. \A x \in ToSet(q) \cup {p} : \E i \in DOMAIN r : r[i] = x
    BY <1>1 DEF ToSet
  <2> QED BY <2>1, <2>2 DEF ToSet
<1>4. IsInjective(r)
  <2> SUFFICES ASSUME NEW i \in DOMAIN r, NEW j \in DOMAIN r, r[i] = r[j] PROVE i = j
    BY DEF IsInjective
  <2>1. \A k \in DOMAIN q : q[k] # p
    BY <1>1 DEF ToSet
  <2>2. CASE i # 1 /\ j # 1
    <3>1. i - 1 = j - 1
      BY <1>2, <2>2 DEF IsInjective
    <3> QED BY <1>1, <3>1
  <2>3. CASE i = 1 \/ j = 1
    BY <1>1, <1>2, <2>1, <2>3
  <2> QED BY <2>2, <2>3
<1>5. r # <<>>
  BY <1>1
<1> QED BY <1>1, <1>3, <1>4, <1>5 DEF r

LEMMA Concatenation ==
  ASSUME NEW u \in Seq(Player), NEW v \in Seq(Player)
  PROVE  /\ u \o v \in Seq(Player) /\ Len(u \o v) = Len(u) + Len(v)
         /\ \A i \in 1 .. Len(u) + Len(v) : (u \o v)[i] = IF i <= Len(u) THEN u[i] ELSE v[i - Len(u)]
OBVIOUS

\* The first p is the only one.
LEMMA RemoveOnce ==
  ASSUME NEW q \in Seq(Player), NEW p \in ToSet(q), IsInjective(q)
  PROVE  /\ RemoveFirst(q, p) \in Seq(Player) /\ IsInjective(RemoveFirst(q, p))
         /\ ToSet(RemoveFirst(q, p)) = ToSet(q) \ {p}
<1>1. PICK n \in 1 .. Len(q) : q[n] = p
  BY DEF ToSet
<1>2. RemoveFirst(q, p) = RemoveAt(q, n)
  <2>1. {i \in 1 .. Len(q) : q[i] = p} = {n}
    BY <1>1 DEF IsInjective
  <2>2. Min({n}) = n
    BY <1>1 DEF Min
  <2> QED BY <1>1, <2>1, <2>2 DEF RemoveFirst, SelectInSeq
<1> DEFINE r == RemoveAt(q, n)
           From(i) == IF i < n THEN i ELSE i + 1
<1>3. /\ r \in Seq(Player) /\ Len(r) = Len(q) - 1 /\ Len(q) \in Nat /\ DOMAIN q = 1 .. Len(q)
      /\ DOMAIN r = 1 .. Len(q) - 1
      /\ \A i \in 1 .. Len(q) - 1 : r[i] = q[From(i)]
  <2> DEFINE u == SubSeq(q, 1, n - 1)
             v == SubSeq(q, n + 1, Len(q))
  <2>1. /\ u \in Seq(Player) /\ Len(u) = n - 1 /\ \A i \in 1 .. n - 1 : u[i] = q[i]
    BY <1>1
  <2>2. /\ v \in Seq(Player) /\ Len(v) = Len(q) - n /\ \A i \in 1 .. Len(q) - n : v[i] = q[n + i]
    BY <1>1
  <2>3. r = u \o v
    BY DEF RemoveAt
  <2> HIDE DEF u, v, r
  <2>4. /\ u \o v \in Seq(Player) /\ Len(u \o v) = Len(u) + Len(v)
        /\ \A i \in 1 .. Len(u) + Len(v) : (u \o v)[i] = IF i <= Len(u) THEN u[i] ELSE v[i - Len(u)]
    BY <2>1, <2>2, Concatenation
  <2>5. Len(q) \in Nat /\ DOMAIN q = 1 .. Len(q) /\ n \in 1 .. Len(q) /\ Len(u) + Len(v) = Len(q) - 1
    BY <1>1, <2>1, <2>2
  <2>6. \A i \in 1 .. Len(q) - 1 : r[i] = q[From(i)]
    <3> SUFFICES ASSUME NEW i \in 1 .. Len(q) - 1 PROVE r[i] = q[From(i)]
      OBVIOUS
    <3>1. CASE i < n
      BY <2>1, <2>3, <2>4, <2>5, <3>1
    <3>2. CASE ~(i < n)
      <4>1. r[i] = v[i - (n - 1)] /\ i - (n - 1) \in 1 .. Len(q) - n
        BY <2>1, <2>3, <2>4, <2>5, <3>2
      <4>2. v[i - (n - 1)] = q[n + (i - (n - 1))]
        BY <2>2, <4>1
      <4>3. n + (i - (n - 1)) = i + 1
        BY <2>5
      <4> QED BY <3>2, <4>1, <4>2, <4>3
    <3> QED BY <3>1, <3>2
  <2>7. r \in Seq(Player) /\ Len(r) = Len(q) - 1
    BY <2>3, <2>4, <2>5
  <2>8. DOMAIN r = 1 .. Len(q) - 1
    BY <2>7
  <2> QED BY <2>5, <2>6, <2>7, <2>8
<1> HIDE DEF r
<1>4. \A i \in DOMAIN r : From(i) \in DOMAIN q /\ From(i) # n
  BY <1>1, <1>3
<1>5. ToSet(r) = ToSet(q) \ {p}
  <2>1. \A i \in DOMAIN r : r[i] \in ToSet(q) \ {p}
    BY <1>1, <1>3, <1>4 DEF ToSet, IsInjective
  <2>2. ASSUME NEW x \in ToSet(q) \ {p} PROVE \E i \in DOMAIN r : r[i] = x
    <3>1. PICK k \in 1 .. Len(q) : q[k] = x
      BY DEF ToSet
    <3>2. k # n
      BY <1>1, <3>1
    <3>3. CASE k < n
      <4>1. k \in DOMAIN r /\ From(k) = k
        BY <1>1, <1>3, <3>3
      <4> QED BY <1>3, <3>1, <4>1
    <3>4. CASE k > n
      <4>1. k - 1 \in DOMAIN r /\ From(k - 1) = k
        BY <1>1, <1>3, <3>4
      <4> QED BY <1>3, <3>1, <4>1
    <3> QED BY <1>1, <3>2, <3>3, <3>4
  <2> QED BY <2>1, <2>2 DEF ToSet
<1>6. IsInjective(r)
  <2> SUFFICES ASSUME NEW i \in DOMAIN r, NEW j \in DOMAIN r, r[i] = r[j] PROVE i = j
    BY DEF IsInjective
  <2>1. From(i) = From(j)
    BY <1>3, <1>4 DEF IsInjective
  <2> QED BY <1>1, <1>3, <2>1
<1> QED BY <1>2, <1>3, <1>5, <1>6 DEF r

-----------------------------------------------------------------------------
(* Steps that take away *)

LEMMA Types ==
  ASSUME NEW s \in AnyParties
  PROVE  /\ s.party \in [Player -> Address \cup {None}] /\ s.invitedBy \in [Player -> SUBSET Address]
         /\ s.leader \in [Address -> Player \cup {None}] /\ s.memberList \in [Address -> Seq(Player)]
         /\ s.inviteList \in [Address -> SUBSET Player] /\ s.ticks \in [Address -> SUBSET Player]
BY DEF AnyParties

LEMMA ShrinksTwice ==
  ASSUME NEW s, NEW t, NEW u, Shrinks(s, t), Shrinks(t, u)
  PROVE  Shrinks(s, u)
BY DEF Shrinks

\* What holds between two requests is not broken by taking away.
LEMMA ShrinksKeeps ==
  ASSUME NEW s, NEW t, Shrinks(s, t), Good(s), Good(t)
  PROVE  /\ NotTwice(s) => NotTwice(t)
         /\ \A on : Forgotten(s, on) => Forgotten(t, on)
<1>1. ASSUME NotTwice(s) PROVE NotTwice(t)
  <2> SUFFICES ASSUME NEW a \in Live(t), NEW p \in InParty(t, a)
               PROVE  a \notin t.invitedBy[p] /\ (t.memberList[a] # <<>> => t.invitedBy[p] = {})
    BY DEF NotTwice
  <2>1. a \in Live(s) /\ p \in InParty(s, a) /\ p \in Player
    <3>1. t.leader[a] \in Player /\ ToSet(t.memberList[a]) \subseteq Player
      BY Types DEF Good, Live, ToSet
    <3> QED BY <3>1 DEF Shrinks, InParty
  <2>2. a \notin s.invitedBy[p] /\ (s.memberList[a] # <<>> => s.invitedBy[p] = {})
    BY <1>1, <2>1 DEF NotTwice
  <2> QED BY <2>1, <2>2 DEF Shrinks
<1>2. ASSUME NEW on, Forgotten(s, on) PROVE Forgotten(t, on)
  BY <1>2 DEF Forgotten, Shrinks
<1> QED BY <1>1, <1>2

LEMMA EndFacts ==
  ASSUME NEW s \in AnyParties, NEW A \in SUBSET Address, NEW t, t = End(s, A)
  PROVE  /\ t \in AnyParties
         /\ \A p \in Player : /\ t.party[p] = IF \E a \in A : p \in InParty(s, a) THEN None ELSE s.party[p]
                              /\ t.invitedBy[p] = s.invitedBy[p] \ A
         /\ \A a \in Address \ A :
              /\ t.leader[a] = s.leader[a] /\ t.memberList[a] = s.memberList[a]
              /\ t.inviteList[a] = s.inviteList[a] /\ t.ticks[a] = s.ticks[a]
         /\ \A a \in A :
              t.leader[a] = None /\ t.memberList[a] = <<>> /\ t.inviteList[a] = {} /\ t.ticks[a] = {}
<1> DEFINE parties == [p \in Player |-> IF \E a \in A : p \in InParty(s, a) THEN None ELSE s.party[p]]
           invitations == [p \in Player |-> s.invitedBy[p] \ A]
           leaders == [a \in Address |-> IF a \in A THEN None ELSE s.leader[a]]
           members == [a \in Address |-> IF a \in A THEN <<>> ELSE s.memberList[a]]
           invites == [a \in Address |-> IF a \in A THEN {} ELSE s.inviteList[a]]
           active == [a \in Address |-> IF a \in A THEN {} ELSE s.ticks[a]]
<1>1. t = [party |-> parties, invitedBy |-> invitations, leader |-> leaders,
           memberList |-> members, inviteList |-> invites, ticks |-> active]
  BY DEF End, AnyParties
<1>2. parties \in [Player -> Address \cup {None}] /\ invitations \in [Player -> SUBSET Address]
  BY Types
<1>3. leaders \in [Address -> Player \cup {None}] /\ members \in [Address -> Seq(Player)]
  BY Types
<1>4. invites \in [Address -> SUBSET Player] /\ active \in [Address -> SUBSET Player]
  BY Types
<1>5. t \in AnyParties
  <2> HIDE DEF parties, invitations, leaders, members, invites, active
  <2> QED BY <1>1, <1>2, <1>3, <1>4 DEF AnyParties
<1>6. \A p \in Player : /\ parties[p] = IF \E a \in A : p \in InParty(s, a) THEN None ELSE s.party[p]
                        /\ invitations[p] = s.invitedBy[p] \ A
  OBVIOUS
<1>7. \A a \in Address \ A : leaders[a] = s.leader[a] /\ members[a] = s.memberList[a]
                             /\ invites[a] = s.inviteList[a] /\ active[a] = s.ticks[a]
  OBVIOUS
<1>8. \A a \in A : leaders[a] = None /\ members[a] = <<>> /\ invites[a] = {} /\ active[a] = {}
  OBVIOUS
<1>9. /\ t.party = parties /\ t.invitedBy = invitations /\ t.leader = leaders
      /\ t.memberList = members /\ t.inviteList = invites /\ t.ticks = active
  BY <1>1
<1> HIDE DEF parties, invitations, leaders, members, invites, active
<1> QED BY <1>5, <1>6, <1>7, <1>8, <1>9

LEMMA EndKeeps ==
  ASSUME PartyAssumption, NEW s, Good(s), NEW A \in SUBSET Live(s), NEW t, t = End(s, A)
  PROVE  Good(t) /\ Shrinks(s, t) /\ Live(t) = Live(s) \ A
<1>0. s \in AnyParties /\ A \in SUBSET Address /\ None \notin Player \cup Address
  BY DEF Good, Live, PartyAssumption
<1>1. /\ t \in AnyParties
      /\ \A p \in Player : /\ t.party[p] = IF \E a \in A : p \in InParty(s, a) THEN None ELSE s.party[p]
                           /\ t.invitedBy[p] = s.invitedBy[p] \ A
      /\ \A a \in Address \ A :
           /\ t.leader[a] = s.leader[a] /\ t.memberList[a] = s.memberList[a]
           /\ t.inviteList[a] = s.inviteList[a] /\ t.ticks[a] = s.ticks[a]
      /\ \A a \in A :
           t.leader[a] = None /\ t.memberList[a] = <<>> /\ t.inviteList[a] = {} /\ t.ticks[a] = {}
  BY <1>0, EndFacts
<1>2. Live(t) = Live(s) \ A
  BY <1>0, <1>1 DEF Live
<1>3. \A a \in Address \ A : InParty(t, a) = InParty(s, a)
  BY <1>1 DEF InParty
<1>4. Pointers(t)
  <2>1. ASSUME NEW p \in Player, NEW a \in Address
        PROVE  t.party[p] = a <=> a \in Live(t) /\ p \in InParty(t, a)
    <3>1. \A b \in Address : s.party[p] = b <=> b \in Live(s) /\ p \in InParty(s, b)
      BY DEF Good, Pointers
    <3>2. CASE \E b \in A : p \in InParty(s, b)
      <4>1. PICK b \in A : p \in InParty(s, b)
        BY <3>2
      <4>2. s.party[p] = b /\ t.party[p] = None
        BY <1>0, <1>1, <3>1, <3>2, <4>1
      <4>3. a \in Live(t) => p \notin InParty(t, a)
        BY <1>0, <1>2, <1>3, <3>1, <4>1, <4>2
      <4> QED BY <1>0, <4>2, <4>3
    <3>3. CASE ~\E b \in A : p \in InParty(s, b)
      <4>1. t.party[p] = s.party[p]
        BY <1>1, <3>3
      <4>2. a \in A => s.party[p] # a
        BY <3>1, <3>3
      <4> QED BY <1>2, <1>3, <3>1, <4>1, <4>2
    <3> QED BY <3>2, <3>3
  <2>2. \A a \in Live(t) : IsInjective(t.memberList[a]) /\ t.leader[a] \notin ToSet(t.memberList[a])
    BY <1>1, <1>2 DEF Good, Pointers, Live
  <2> QED BY <2>1, <2>2 DEF Pointers
<1>5. Clean(t)
  BY <1>0, <1>1, <1>2 DEF Good, Clean, Live
<1>6. Invited(t)
  BY <1>0, <1>1, Types DEF Good, Invited
<1>7. Active(t)
  BY <1>1, <1>2, <1>3 DEF Good, Active, Live
<1>8. Shrinks(s, t)
  <2>1. \A a \in Address : t.inviteList[a] \subseteq s.inviteList[a] /\ t.ticks[a] \subseteq s.ticks[a]
    BY <1>0, <1>1
  <2>2. \A a \in Live(t) : InParty(t, a) = InParty(s, a) /\ t.memberList[a] = s.memberList[a]
    BY <1>1, <1>2, <1>3 DEF Live
  <2>3. \A p \in Player : t.invitedBy[p] \subseteq s.invitedBy[p] /\ t.party[p] \in {None, s.party[p]}
    BY <1>1
  <2> QED BY <1>2, <2>1, <2>2, <2>3 DEF Shrinks
<1> QED BY <1>1, <1>2, <1>4, <1>5, <1>6, <1>7, <1>8 DEF Good

\* The party a is the same in t as in s, but for invitations.
Kept(s, t, a) == t.leader[a] = s.leader[a] /\ t.memberList[a] = s.memberList[a] /\ t.ticks[a] = s.ticks[a]

\* What removeInvite, of the parties in A, leaves of s.
Withdrawn(s, t, A, p) ==
  /\ Good(t) /\ Shrinks(s, t)
  /\ Accompanied(s) => Accompanied(t)
  /\ t.invitedBy[p] \cap A = {}
  /\ \A a \in Address : s.memberList[a] # <<>> \/ a \notin A => Kept(s, t, a)
  /\ \A a \in Address \ A : t.inviteList[a] = s.inviteList[a]

LEMMA RemoveInvitesKeeps ==
  ASSUME PartyAssumption, NEW s, Good(s), NEW A \in SUBSET Address, NEW p \in Player,
         NEW t, t = RemoveInvites(s, A, p)
  PROVE  Withdrawn(s, t, A, p)
<1> DEFINE inviting == {a \in A : p \in s.inviteList[a]}
           w == [s EXCEPT !.inviteList = [a \in Address |-> IF a \in inviting THEN s.inviteList[a] \ {p}
                                                            ELSE s.inviteList[a]],
                          !.invitedBy[p] = s.invitedBy[p] \ inviting]
           ended == {a \in inviting : Alone(w, a)}
<1>1. s \in AnyParties /\ inviting \subseteq Live(s) /\ inviting \subseteq A
  BY DEF Good, Clean
<1>2. t = End(w, ended)
  BY DEF RemoveInvites
<1>3. /\ w \in AnyParties
      /\ w.party = s.party /\ w.leader = s.leader /\ w.memberList = s.memberList /\ w.ticks = s.ticks
      /\ \A a \in Address : w.inviteList[a] = IF a \in inviting THEN s.inviteList[a] \ {p} ELSE s.inviteList[a]
      /\ \A q \in Player : w.invitedBy[q] = IF q = p THEN s.invitedBy[q] \ inviting ELSE s.invitedBy[q]
  <2> DEFINE invites == [a \in Address |-> IF a \in inviting THEN s.inviteList[a] \ {p} ELSE s.inviteList[a]]
             invitations == [s.invitedBy EXCEPT ![p] = s.invitedBy[p] \ inviting]
  <2>1. w = [party |-> s.party, invitedBy |-> invitations, leader |-> s.leader,
             memberList |-> s.memberList, inviteList |-> invites, ticks |-> s.ticks]
    <3>1. w = [s EXCEPT !.inviteList = invites, !.invitedBy = invitations]
      BY <1>1 DEF AnyParties
    <3> HIDE DEF w, invites, invitations
    <3> QED BY <1>1, <3>1 DEF AnyParties
  <2>2. invites \in [Address -> SUBSET Player] /\ invitations \in [Player -> SUBSET Address]
    BY <1>1, Types
  <2>3. \A q \in Player : invitations[q] = IF q = p THEN s.invitedBy[q] \ inviting ELSE s.invitedBy[q]
    BY <1>1, Types
  <2>4. \A a \in Address : invites[a] = IF a \in inviting THEN s.inviteList[a] \ {p} ELSE s.inviteList[a]
    OBVIOUS
  <2> HIDE DEF w, invites, invitations, inviting
  <2> QED BY <1>1, <2>1, <2>2, <2>3, <2>4 DEF AnyParties
<1> HIDE DEF w, inviting
<1>4. Live(w) = Live(s) /\ \A a : InParty(w, a) = InParty(s, a)
  BY <1>3 DEF Live, InParty
<1>5. Good(w)
  <2>1. Pointers(w)
    BY <1>3, <1>4 DEF Good, Pointers
  <2>2. Clean(w)
    BY <1>3, <1>4 DEF Good, Clean
  <2>3. Invited(w)
    <3> SUFFICES ASSUME NEW q \in Player, NEW a \in Address
                 PROVE  q \in w.inviteList[a] <=> a \in w.invitedBy[q]
      BY DEF Invited
    <3>1. q \in s.inviteList[a] <=> a \in s.invitedBy[q]
      BY DEF Good, Invited
    <3> QED BY <1>3, <3>1
  <2>4. Active(w)
    BY <1>3, <1>4 DEF Good, Active
  <2> QED BY <1>3, <2>1, <2>2, <2>3, <2>4 DEF Good
<1>6. Shrinks(s, w)
  BY <1>3, <1>4 DEF Shrinks
<1>7. ended \subseteq inviting /\ ended \in SUBSET Live(w) /\ ended \in SUBSET Address
  BY <1>1, <1>4
<1>8. \A a \in ended : s.memberList[a] = <<>> /\ a \in A
  BY <1>1, <1>3 DEF Alone
<1>9. \A a \in Live(w) \ ended : Alone(w, a) => a \notin inviting
  OBVIOUS
<1> HIDE DEF ended
<1>10. Good(t) /\ Shrinks(w, t) /\ Live(t) = Live(w) \ ended
  BY <1>2, <1>5, <1>7, EndKeeps
<1>11. /\ \A q \in Player : t.invitedBy[q] = w.invitedBy[q] \ ended
       /\ \A a \in Address \ ended : /\ t.leader[a] = w.leader[a] /\ t.memberList[a] = w.memberList[a]
                                     /\ t.inviteList[a] = w.inviteList[a] /\ t.ticks[a] = w.ticks[a]
  BY <1>2, <1>3, <1>7, EndFacts
<1>12. ASSUME Accompanied(s) PROVE Accompanied(t)
  <2> SUFFICES ASSUME NEW a \in Live(t), Alone(t, a) PROVE FALSE
    BY DEF Accompanied
  <2>1. a \in Live(w) \ ended /\ a \in Address /\ Alone(w, a)
    BY <1>10, <1>11 DEF Alone, Live
  <2>2. Alone(s, a) /\ a \in Live(s)
    BY <1>3, <1>4, <1>9, <2>1 DEF Alone
  <2> QED BY <1>12, <2>2 DEF Accompanied
<1>13. t.invitedBy[p] \cap A = {}
  <2>1. \A a \in A : a \in s.invitedBy[p] => a \in inviting
    BY DEF Good, Invited, inviting
  <2> QED BY <1>3, <1>11, <2>1
<1>14. \A a \in Address : s.memberList[a] # <<>> \/ a \notin A => Kept(s, t, a)
  BY <1>3, <1>8, <1>11 DEF Kept
<1>15. \A a \in Address \ A : t.inviteList[a] = s.inviteList[a]
  BY <1>1, <1>3, <1>8, <1>11
<1> QED BY <1>6, <1>10, <1>12, <1>13, <1>14, <1>15, ShrinksTwice DEF Withdrawn

\* After clearPartyInvitations, p is invited nowhere.
Cleared(s, t, p) ==
  /\ Good(t) /\ Shrinks(s, t)
  /\ Accompanied(s) => Accompanied(t)
  /\ t.invitedBy[p] = {}
  /\ \A a \in Address : s.memberList[a] # <<>> \/ a \notin s.invitedBy[p] => Kept(s, t, a)
  /\ \A a \in Address \ s.invitedBy[p] : t.inviteList[a] = s.inviteList[a]

LEMMA ClearKeeps ==
  ASSUME PartyAssumption, NEW s, Good(s), NEW p \in Player, NEW t, t = ClearPartyInvitations(s, p)
  PROVE  Cleared(s, t, p)
<1>0. PICK u : u = RemoveInvites(s, s.invitedBy[p], p)
  OBVIOUS
<1>1. s.invitedBy[p] \in SUBSET Address
  BY Types DEF Good
<1>2. Withdrawn(s, u, s.invitedBy[p], p)
  BY <1>0, <1>1, RemoveInvitesKeeps
<1>3. u.invitedBy[p] = {}
  BY <1>2 DEF Withdrawn, Shrinks
<1>4. t = u
  <2>1. u \in AnyParties /\ u.invitedBy \in [Player -> SUBSET Address]
    BY <1>2, Types DEF Withdrawn, Good
  <2>2. [u.invitedBy EXCEPT ![p] = {}] = u.invitedBy
    BY <1>3, <2>1
  <2>3. t = [u EXCEPT !.invitedBy = [u.invitedBy EXCEPT ![p] = {}]]
    BY <1>0 DEF ClearPartyInvitations
  <2>4. [u EXCEPT !.invitedBy = u.invitedBy] = u
    BY <2>1 DEF AnyParties
  <2> QED BY <2>2, <2>3, <2>4
<1> QED BY <1>2, <1>3, <1>4 DEF Withdrawn, Cleared

\* The leadership is passed: the party and its invitations stay the same.
Passed(s, t, a, q) ==
  /\ Good(t) /\ Shrinks(s, t)
  /\ Live(t) = Live(s) /\ t.leader[a] = q /\ s.leader[a] \in ToSet(t.memberList[a])
  /\ Accompanied(s) => Accompanied(t)

LEMMA PassKeeps ==
  ASSUME PartyAssumption, NEW s, Good(s), NEW a \in Live(s), NEW q \in ToSet(s.memberList[a]),
         NEW t, t = PassPartyLeadership(s, a, q)
  PROVE  Passed(s, t, a, q)
<1> DEFINE old == s.leader[a]
           rest == RemoveFirst(s.memberList[a], q)
           list == <<old>> \o rest
<1>0. s \in AnyParties /\ a \in Address /\ None \notin Player \cup Address
  BY DEF Good, Live, PartyAssumption
<1>1. /\ s.memberList[a] \in Seq(Player) /\ IsInjective(s.memberList[a])
      /\ old \in Player /\ old \notin ToSet(s.memberList[a]) /\ q \in Player
  <2>1. s.memberList[a] \in Seq(Player) /\ old \in Player
    BY <1>0, Types DEF Live
  <2>2. q \in Player
    BY <2>1 DEF ToSet
  <2> QED BY <2>1, <2>2 DEF Good, Pointers
<1>2. rest \in Seq(Player) /\ IsInjective(rest) /\ ToSet(rest) = ToSet(s.memberList[a]) \ {q}
  BY <1>1, RemoveOnce
<1> HIDE DEF rest
<1>3. /\ list \in Seq(Player) /\ IsInjective(list) /\ list # <<>>
      /\ ToSet(list) = (ToSet(s.memberList[a]) \ {q}) \cup {old}
  BY <1>1, <1>2, FrontOnce
<1> HIDE DEF list
<1>4. /\ t \in AnyParties
      /\ t.party = s.party /\ t.invitedBy = s.invitedBy /\ t.inviteList = s.inviteList /\ t.ticks = s.ticks
      /\ t.leader[a] = q /\ t.memberList[a] = list
      /\ \A b \in Address \ {a} : t.leader[b] = s.leader[b] /\ t.memberList[b] = s.memberList[b]
  <2>1. t = [s EXCEPT !.leader = [s.leader EXCEPT ![a] = q], !.memberList = [s.memberList EXCEPT ![a] = list]]
    BY <1>0 DEF PassPartyLeadership, AnyParties, list, rest, old
  <2>2. /\ [s.leader EXCEPT ![a] = q] \in [Address -> Player \cup {None}]
        /\ [s.memberList EXCEPT ![a] = list] \in [Address -> Seq(Player)]
    BY <1>0, <1>1, <1>3, Types
  <2>3. t = [party |-> s.party, invitedBy |-> s.invitedBy, leader |-> [s.leader EXCEPT ![a] = q],
             memberList |-> [s.memberList EXCEPT ![a] = list], inviteList |-> s.inviteList, ticks |-> s.ticks]
    BY <1>0, <2>1 DEF AnyParties
  <2>4. t \in AnyParties
    BY <1>0, <2>2, <2>3 DEF AnyParties
  <2>5. t.leader = [s.leader EXCEPT ![a] = q] /\ t.memberList = [s.memberList EXCEPT ![a] = list]
    BY <2>3
  <2> QED BY <1>0, <2>3, <2>4, <2>5, Types
<1>5. Live(t) = Live(s) /\ \A b \in Live(s) : InParty(t, b) = InParty(s, b)
  <2>1. Live(t) = Live(s)
    BY <1>0, <1>1, <1>4 DEF Live
  <2>2. InParty(t, a) = InParty(s, a)
    BY <1>3, <1>4 DEF InParty, old
  <2>3. \A b \in Live(s) \ {a} : InParty(t, b) = InParty(s, b)
    BY <1>4 DEF InParty, Live
  <2> QED BY <2>1, <2>2, <2>3
<1>6. Good(t)
  <2>1. Pointers(t)
    <3>1. \A p \in Player, b \in Address : t.party[p] = b <=> b \in Live(t) /\ p \in InParty(t, b)
      BY <1>4, <1>5 DEF Good, Pointers
    <3>2. \A b \in Live(t) : IsInjective(t.memberList[b]) /\ t.leader[b] \notin ToSet(t.memberList[b])
      BY <1>1, <1>3, <1>4, <1>5 DEF Good, Pointers, Live
    <3> QED BY <3>1, <3>2 DEF Pointers
  <2>2. Clean(t)
    BY <1>4, <1>5 DEF Good, Clean
  <2>3. Invited(t) /\ Active(t)
    BY <1>4, <1>5 DEF Good, Invited, Active
  <2> QED BY <1>4, <2>1, <2>2, <2>3 DEF Good
<1>7. Shrinks(s, t)
  <2>1. s.memberList[a] # <<>>
    BY <1>1 DEF ToSet
  <2>2. \A b \in Live(t) : t.memberList[b] # <<>> => s.memberList[b] # <<>>
    BY <1>4, <2>1 DEF Live
  <2> QED BY <1>4, <1>5, <2>2 DEF Shrinks
<1>8. Accompanied(s) => Accompanied(t)
  BY <1>3, <1>4, <1>5 DEF Accompanied, Alone, Live
<1> QED BY <1>3, <1>4, <1>5, <1>6, <1>7, <1>8 DEF Passed, old

\* A member is taken off the list.
LEMMA WithoutKeeps ==
  ASSUME PartyAssumption, NEW s, Good(s), NEW a \in Live(s), NEW p \in ToSet(s.memberList[a]),
         NEW t, t = Without(s, a, p)
  PROVE  /\ Good(t) /\ Shrinks(s, t) /\ t.party[p] = None /\ Live(t) = Live(s)
         /\ Accompanied(s) => \A b \in Live(t) \ {a} : ~Alone(t, b)
<1> DEFINE list == RemoveFirst(s.memberList[a], p)
<1>0. s \in AnyParties /\ a \in Address /\ None \notin Player \cup Address
  BY DEF Good, Live, PartyAssumption
<1>1. s.memberList[a] \in Seq(Player) /\ IsInjective(s.memberList[a]) /\ p \in Player /\ p # s.leader[a]
  <2>1. s.memberList[a] \in Seq(Player)
    BY <1>0, Types
  <2>2. p \in Player
    BY <2>1 DEF ToSet
  <2> QED BY <2>1, <2>2 DEF Good, Pointers
<1>2. list \in Seq(Player) /\ IsInjective(list) /\ ToSet(list) = ToSet(s.memberList[a]) \ {p}
  BY <1>1, RemoveOnce
<1> HIDE DEF list
<1>3. /\ t \in AnyParties
      /\ t.leader = s.leader /\ t.invitedBy = s.invitedBy /\ t.inviteList = s.inviteList
      /\ t.memberList[a] = list /\ t.ticks[a] = s.ticks[a] \ {p} /\ t.party[p] = None
      /\ \A b \in Address \ {a} : t.memberList[b] = s.memberList[b] /\ t.ticks[b] = s.ticks[b]
      /\ \A q \in Player \ {p} : t.party[q] = s.party[q]
  <2> DEFINE lists == [s.memberList EXCEPT ![a] = list]
             parties == [s.party EXCEPT ![p] = None]
             active == [s.ticks EXCEPT ![a] = s.ticks[a] \ {p}]
  <2>1. t = [s EXCEPT !.memberList = lists, !.party = parties, !.ticks = active]
    BY <1>0 DEF Without, AnyParties, list
  <2>2. /\ lists \in [Address -> Seq(Player)] /\ parties \in [Player -> Address \cup {None}]
        /\ active \in [Address -> SUBSET Player]
    BY <1>0, <1>1, <1>2, Types
  <2>3. /\ lists[a] = list /\ active[a] = s.ticks[a] \ {p} /\ parties[p] = None
        /\ \A b \in Address \ {a} : lists[b] = s.memberList[b] /\ active[b] = s.ticks[b]
        /\ \A q \in Player \ {p} : parties[q] = s.party[q]
    BY <1>0, <1>1, Types
  <2> HIDE DEF lists, parties, active
  <2>4. t = [party |-> parties, invitedBy |-> s.invitedBy, leader |-> s.leader,
             memberList |-> lists, inviteList |-> s.inviteList, ticks |-> active]
    BY <1>0, <2>1 DEF AnyParties
  <2>5. t \in AnyParties
    BY <1>0, <2>2, <2>4 DEF AnyParties
  <2> QED BY <2>3, <2>4, <2>5
<1>4. /\ Live(t) = Live(s) /\ InParty(t, a) = InParty(s, a) \ {p}
      /\ \A b \in Live(s) \ {a} : InParty(t, b) = InParty(s, b)
  BY <1>1, <1>2, <1>3 DEF Live, InParty
<1>5. Good(t)
  <2>1. Pointers(t)
    <3>1. ASSUME NEW q \in Player, NEW b \in Address
          PROVE  t.party[q] = b <=> b \in Live(t) /\ q \in InParty(t, b)
      <4>1. \A c \in Address : s.party[q] = c <=> c \in Live(s) /\ q \in InParty(s, c)
        BY DEF Good, Pointers
      <4>2. CASE q = p
        <5>1. p \in InParty(s, a)
          BY DEF InParty
        <5>2. s.party[q] = a
          BY <1>0, <4>1, <4>2, <5>1
        <5> QED BY <1>0, <1>3, <1>4, <4>1, <4>2, <5>2
      <4>3. CASE q # p
        BY <1>3, <1>4, <4>1, <4>3
      <4> QED BY <4>2, <4>3
    <3>2. \A b \in Live(t) : IsInjective(t.memberList[b]) /\ t.leader[b] \notin ToSet(t.memberList[b])
      BY <1>0, <1>2, <1>3, <1>4 DEF Good, Pointers, Live
    <3> QED BY <3>1, <3>2 DEF Pointers
  <2>2. Clean(t)
    BY <1>3, <1>4 DEF Good, Clean
  <2>3. Invited(t)
    BY <1>3 DEF Good, Invited
  <2>4. Active(t)
    BY <1>3, <1>4 DEF Good, Active, Live
  <2> QED BY <1>3, <2>1, <2>2, <2>3, <2>4 DEF Good
<1>6. Shrinks(s, t)
  <2>1. s.memberList[a] # <<>>
    BY <1>1 DEF ToSet
  <2>2. \A b \in Live(t) : t.memberList[b] # <<>> => s.memberList[b] # <<>>
    BY <1>3, <2>1 DEF Live
  <2>3. \A b \in Address : t.ticks[b] \subseteq s.ticks[b]
    BY <1>3
  <2>4. \A q \in Player : t.party[q] \in {None, s.party[q]}
    BY <1>3
  <2> QED BY <1>3, <1>4, <2>2, <2>3, <2>4 DEF Shrinks
<1>7. Accompanied(s) => \A b \in Live(t) \ {a} : ~Alone(t, b)
  BY <1>3, <1>4 DEF Accompanied, Alone, Live
<1> QED BY <1>3, <1>4, <1>5, <1>6, <1>7

\* Of a party that loses its last member, or its leader and has no other, nothing is left.
LEMMA LeaveKeeps ==
  ASSUME PartyAssumption, NEW s, Good(s), Accompanied(s), NEW p \in Player, s.party[p] # None,
         NEW t, t = LeaveParty(s, s.party[p], p)
  PROVE  Good(t) /\ Shrinks(s, t) /\ Accompanied(t) /\ t.party[p] = None
<1>0. PICK a : a = s.party[p]
  OBVIOUS
<1>1. /\ s \in AnyParties /\ a \in Address /\ a \in Live(s) /\ p \in InParty(s, a)
      /\ None \notin Player \cup Address /\ s.memberList[a] \in Seq(Player)
      /\ s.leader[a] \notin ToSet(s.memberList[a])
  <2>1. s \in AnyParties /\ None \notin Player \cup Address
    BY DEF Good, PartyAssumption
  <2>2. a \in Address /\ s.memberList \in [Address -> Seq(Player)]
    BY <1>0, <2>1, Types
  <2>3. a \in Live(s) /\ p \in InParty(s, a)
    BY <1>0, <2>2 DEF Good, Pointers
  <2> QED BY <2>1, <2>2, <2>3 DEF Good, Pointers
<1> DEFINE missing == /\ s.leader[a] = p
                      /\ \/ s.memberList[a] = <<>>
                         \/ Len(s.memberList[a]) = 1 /\ s.inviteList[a] = {}
\* A party that has lost p, from u.
<1>2. ASSUME NEW u, Good(u), Shrinks(s, u), a \in Live(u), p \in ToSet(u.memberList[a]),
             Accompanied(u), NEW v, v = Without(u, a, p), NEW x, x = IF Alone(v, a) THEN End(v, {a}) ELSE v
      PROVE  Good(x) /\ Shrinks(s, x) /\ Accompanied(x) /\ x.party[p] = None
  <2>1. /\ Good(v) /\ Shrinks(u, v) /\ v.party[p] = None /\ Live(v) = Live(u)
        /\ \A b \in Live(v) \ {a} : ~Alone(v, b)
    BY <1>2, WithoutKeeps
  <2>2. Shrinks(s, v)
    BY <1>2, <2>1, ShrinksTwice
  <2>3. CASE ~Alone(v, a)
    BY <1>2, <2>1, <2>2, <2>3 DEF Accompanied
  <2>4. CASE Alone(v, a)
    <3>1. {a} \in SUBSET Live(v) /\ {a} \in SUBSET Address /\ v \in AnyParties
      BY <1>1, <1>2, <2>1 DEF Good
    <3>2. x = End(v, {a})
      BY <1>2, <2>4
    <3>3. Good(x) /\ Shrinks(v, x) /\ Live(x) = Live(v) \ {a}
      BY <2>1, <3>1, <3>2, EndKeeps
    <3>4. \A b \in Address \ {a} : x.memberList[b] = v.memberList[b] /\ x.inviteList[b] = v.inviteList[b]
      BY <3>1, <3>2, EndFacts
    <3>5. Accompanied(x)
      BY <2>1, <3>3, <3>4 DEF Accompanied, Alone, Live
    <3>6. x.party[p] = None
      BY <2>1, <3>3 DEF Shrinks
    <3> QED BY <2>2, <3>3, <3>5, <3>6, ShrinksTwice
  <2> QED BY <2>3, <2>4
<1>3. CASE missing
  <2>1. PICK v : v = Without(s, a, p)
    OBVIOUS
  <2>2. t = End(v, {a})
    BY <1>0, <1>3, <2>1 DEF LeaveParty
  <2>3. p \notin ToSet(s.memberList[a])
    BY <1>1, <1>3
  <2>4. RemoveFirst(s.memberList[a], p) = s.memberList[a]
    BY <1>1, <2>3 DEF RemoveFirst, ToSet
  <2>5. /\ v \in AnyParties
        /\ v.leader = s.leader /\ v.invitedBy = s.invitedBy /\ v.inviteList = s.inviteList
        /\ v.memberList = s.memberList
        /\ v.ticks = [s.ticks EXCEPT ![a] = s.ticks[a] \ {p}]
        /\ v.party = [s.party EXCEPT ![p] = None]
    <3> DEFINE parties == [s.party EXCEPT ![p] = None]
               active == [s.ticks EXCEPT ![a] = s.ticks[a] \ {p}]
    <3>1. v = [s EXCEPT !.memberList = [s.memberList EXCEPT ![a] = s.memberList[a]],
                        !.party = parties, !.ticks = active]
      BY <1>1, <2>1, <2>4 DEF Without, AnyParties
    <3>2. [s.memberList EXCEPT ![a] = s.memberList[a]] = s.memberList
      BY <1>1, Types
    <3>3. parties \in [Player -> Address \cup {None}] /\ active \in [Address -> SUBSET Player]
      BY <1>1, Types
    <3> HIDE DEF parties, active
    <3>4. v = [party |-> parties, invitedBy |-> s.invitedBy, leader |-> s.leader,
               memberList |-> s.memberList, inviteList |-> s.inviteList, ticks |-> active]
      BY <1>1, <3>1, <3>2 DEF AnyParties
    <3>5. v \in AnyParties
      BY <1>1, <3>3, <3>4 DEF AnyParties
    <3> QED BY <3>4, <3>5 DEF parties, active
  <2>6. t = End(s, {a})
    <3>1. InParty(v, a) = InParty(s, a)
      BY <2>5 DEF InParty
    <3>2. \A q \in Player : (IF q \in InParty(v, a) THEN None ELSE v.party[q])
                              = IF q \in InParty(s, a) THEN None ELSE s.party[q]
      BY <1>1, <2>5, <3>1, Types
    <3>3. \A b \in Address : (IF b \in {a} THEN {} ELSE v.ticks[b]) = IF b \in {a} THEN {} ELSE s.ticks[b]
      BY <1>1, <2>5, Types
    <3>4. PICK y : y = End(s, {a})
      OBVIOUS
    <3>5. {a} \in SUBSET Address
      BY <1>1
    <3>6. t \in AnyParties /\ y \in AnyParties
      BY <1>1, <2>2, <2>5, <3>4, <3>5, EndFacts
    <3>7. t.party = y.party
      BY <2>2, <3>2, <3>4 DEF End
    <3>8. t.ticks = y.ticks
      BY <2>2, <3>3, <3>4 DEF End
    <3>9. t.invitedBy = y.invitedBy /\ t.leader = y.leader /\ t.memberList = y.memberList
          /\ t.inviteList = y.inviteList
      BY <2>2, <2>5, <3>4 DEF End
    <3>10. t = [party |-> t.party, invitedBy |-> t.invitedBy, leader |-> t.leader,
                memberList |-> t.memberList, inviteList |-> t.inviteList, ticks |-> t.ticks]
      BY <3>6 DEF AnyParties
    <3>11. y = [party |-> y.party, invitedBy |-> y.invitedBy, leader |-> y.leader,
                memberList |-> y.memberList, inviteList |-> y.inviteList, ticks |-> y.ticks]
      BY <3>6 DEF AnyParties
    <3> QED BY <3>4, <3>7, <3>8, <3>9, <3>10, <3>11
  <2>7. {a} \in SUBSET Live(s) /\ {a} \in SUBSET Address
    BY <1>1
  <2>8. Good(t) /\ Shrinks(s, t) /\ Live(t) = Live(s) \ {a}
    BY <2>6, <2>7, EndKeeps
  <2>9. /\ \A b \in Address \ {a} : t.memberList[b] = s.memberList[b] /\ t.inviteList[b] = s.inviteList[b]
        /\ t.party[p] = None
    BY <1>1, <2>6, <2>7, EndFacts
  <2>10. Accompanied(t)
    BY <2>8, <2>9 DEF Accompanied, Alone, Live
  <2> QED BY <2>8, <2>9, <2>10
<1>4. CASE s.leader[a] = p /\ ~missing
  <2>1. PICK q, u, v : q = Head(s.memberList[a]) /\ u = PassPartyLeadership(s, a, q) /\ v = Without(u, a, p)
    OBVIOUS
  <2>2. q \in ToSet(s.memberList[a])
    BY <1>1, <1>4, <2>1 DEF ToSet
  <2>3. Passed(s, u, a, q)
    BY <1>1, <2>1, <2>2, PassKeeps
  <2>4. t = IF Alone(v, a) THEN End(v, {a}) ELSE v
    BY <1>0, <1>4, <2>1 DEF LeaveParty
  <2> QED BY <1>1, <1>2, <1>4, <2>1, <2>3, <2>4 DEF Passed
<1>5. CASE s.leader[a] # p
  <2>1. PICK v : v = Without(s, a, p)
    OBVIOUS
  <2>2. t = IF Alone(v, a) THEN End(v, {a}) ELSE v
    BY <1>0, <1>5, <2>1 DEF LeaveParty
  <2>3. p \in ToSet(s.memberList[a])
    BY <1>1, <1>5 DEF InParty
  <2>4. Shrinks(s, s)
    BY <1>1 DEF Shrinks
  <2> QED BY <1>1, <1>2, <2>1, <2>2, <2>3, <2>4
<1> QED BY <1>3, <1>4, <1>5

-----------------------------------------------------------------------------
(* The specification *)

LEMMA NowFacts ==
  /\ Now.party = party /\ Now.invitedBy = invitedBy /\ Now.leader = leader
  /\ Now.memberList = memberList /\ Now.inviteList = inviteList /\ Now.ticks = ticks
BY DEF Now

LEMMA BecomeNow ==
  ASSUME NEW s \in AnyParties, Become(s)
  PROVE  Now' = s
BY DEF Become, Now, AnyParties

LEMMA Initially ==
  ASSUME PartyAssumption, Init
  PROVE  PartyInv
<1>1. Now \in AnyParties
  BY DEF Init, Now, AnyParties
<1>2. Live(Now) = {}
  BY NowFacts DEF Init, Live
<1>3. Good(Now)
  BY <1>1, <1>2, NowFacts DEF Init, Good, Pointers, Clean, Invited, Active, PartyAssumption
<1>4. NotTwice(Now) /\ Accompanied(Now)
  BY <1>2 DEF NotTwice, Accompanied
<1>5. Forgotten(Now, online)
  BY DEF Init, Forgotten
<1> QED BY <1>3, <1>4, <1>5 DEF PartyInv, Init

\* A request that only takes away.
LEMMA ShrinkStep ==
  ASSUME PartyInv, NEW s, Become(s), Good(s), Shrinks(Now, s), Accompanied(s), UNCHANGED online
  PROVE  PartyInv'
<1>1. Now' = s
  BY BecomeNow DEF Good
<1>2. NotTwice(s) /\ Forgotten(s, online)
  BY ShrinksKeeps DEF PartyInv
<1> QED BY <1>1, <1>2 DEF PartyInv

LEMMA InviteStep ==
  ASSUME PartyAssumption, PartyInv, NEW p \in Player, NEW q \in Player, Invite(p, q)
  PROVE  PartyInv'
<1>1. PICK a \in Address :
        /\ IF party[p] = None THEN leader[a] = None ELSE a = party[p] /\ leader[a] = p
        /\ q \notin inviteList[a]
        /\ Become([Now EXCEPT !.party[p] = a, !.leader[a] = p,
                              !.inviteList[a] = @ \cup {q}, !.invitedBy[q] = @ \cup {a}])
  BY DEF Invite
<1>2. PICK s : s = Now
  OBVIOUS
<1>3. PICK t : t = [s EXCEPT !.party[p] = a, !.leader[a] = p,
                             !.inviteList[a] = @ \cup {q}, !.invitedBy[q] = @ \cup {a}]
  OBVIOUS
<1>4. /\ Become(t) /\ p # q /\ p \in online /\ q \in online /\ online' = online /\ s.party[q] = None
      /\ IF s.party[p] = None THEN s.leader[a] = None ELSE a = s.party[p] /\ s.leader[a] = p
      /\ q \notin s.inviteList[a]
  BY <1>1, <1>2, <1>3, NowFacts DEF Invite
<1>5. /\ s \in AnyParties /\ Good(s) /\ NotTwice(s) /\ Accompanied(s) /\ Forgotten(s, online)
      /\ online \subseteq Player /\ None \notin Player \cup Address
  BY <1>2 DEF PartyInv, Good, PartyAssumption
<1>6. /\ t \in AnyParties
      /\ t.memberList = s.memberList /\ t.ticks = s.ticks
      /\ t.party[p] = a /\ \A x \in Player \ {p} : t.party[x] = s.party[x]
      /\ t.leader[a] = p /\ t.inviteList[a] = s.inviteList[a] \cup {q}
      /\ \A b \in Address \ {a} : t.leader[b] = s.leader[b] /\ t.inviteList[b] = s.inviteList[b]
      /\ t.invitedBy[q] = s.invitedBy[q] \cup {a}
      /\ \A x \in Player \ {q} : t.invitedBy[x] = s.invitedBy[x]
  <2> DEFINE parties == [s.party EXCEPT ![p] = a]
             leaders == [s.leader EXCEPT ![a] = p]
             invites == [s.inviteList EXCEPT ![a] = s.inviteList[a] \cup {q}]
             invitations == [s.invitedBy EXCEPT ![q] = s.invitedBy[q] \cup {a}]
  <2>1. t = [s EXCEPT !.party = parties, !.leader = leaders, !.inviteList = invites, !.invitedBy = invitations]
    BY <1>3, <1>5 DEF AnyParties
  <2>2. /\ parties \in [Player -> Address \cup {None}] /\ leaders \in [Address -> Player \cup {None}]
        /\ invites \in [Address -> SUBSET Player] /\ invitations \in [Player -> SUBSET Address]
    BY <1>5, Types
  <2>3. /\ parties[p] = a /\ \A x \in Player \ {p} : parties[x] = s.party[x]
        /\ leaders[a] = p /\ invites[a] = s.inviteList[a] \cup {q}
        /\ \A b \in Address \ {a} : leaders[b] = s.leader[b] /\ invites[b] = s.inviteList[b]
        /\ invitations[q] = s.invitedBy[q] \cup {a}
        /\ \A x \in Player \ {q} : invitations[x] = s.invitedBy[x]
    BY <1>5, Types
  <2> HIDE DEF parties, leaders, invites, invitations
  <2>4. t = [party |-> parties, invitedBy |-> invitations, leader |-> leaders,
             memberList |-> s.memberList, inviteList |-> invites, ticks |-> s.ticks]
    BY <1>5, <2>1 DEF AnyParties
  <2>5. t \in AnyParties
    BY <1>5, <2>2, <2>4 DEF AnyParties
  <2> QED BY <2>3, <2>4, <2>5
<1>7. Live(t) = Live(s) \cup {a}
  BY <1>5, <1>6 DEF Live
\* A new party has its leader only.
<1>8. /\ s.party[p] = None => InParty(t, a) = {p} /\ s.memberList[a] = <<>> /\ s.ticks[a] = {} /\ a \notin Live(s)
      /\ s.party[p] # None => InParty(t, a) = InParty(s, a) /\ a \in Live(s)
      /\ \A b \in Live(s) \ {a} : InParty(t, b) = InParty(s, b)
  <2>1. CASE s.party[p] = None
    <3>1. a \notin Live(s)
      BY <1>4, <2>1 DEF Live
    <3>2. s.memberList[a] = <<>> /\ s.ticks[a] = {}
      BY <1>5, <3>1 DEF Good, Clean
    <3>3. ToSet(t.memberList[a]) = {}
      BY <1>6, <3>2 DEF ToSet
    <3>4. InParty(t, a) = {p}
      BY <1>6, <3>3 DEF InParty
    <3> QED BY <1>6, <2>1, <3>1, <3>2, <3>4 DEF InParty, Live
  <2>2. CASE s.party[p] # None
    BY <1>4, <1>5, <1>6, <2>2 DEF InParty, Live
  <2> QED BY <2>1, <2>2
<1>9. Pointers(t)
  <2>1. ASSUME NEW x \in Player, NEW b \in Address
        PROVE  t.party[x] = b <=> b \in Live(t) /\ x \in InParty(t, b)
    <3>1. \A c \in Address : s.party[x] = c <=> c \in Live(s) /\ x \in InParty(s, c)
      BY <1>5 DEF Good, Pointers
    <3>2. CASE s.party[p] = None
      BY <1>5, <1>6, <1>7, <1>8, <3>1, <3>2
    <3>3. CASE s.party[p] # None
      BY <1>4, <1>5, <1>6, <1>7, <1>8, <3>1, <3>3
    <3> QED BY <3>2, <3>3
  <2>2. ASSUME NEW b \in Live(t) PROVE IsInjective(t.memberList[b]) /\ t.leader[b] \notin ToSet(t.memberList[b])
    <3>1. CASE b \in Live(s)
      BY <1>4, <1>5, <1>6, <1>8, <3>1 DEF Good, Pointers, Live
    <3>2. CASE b \notin Live(s)
      BY <1>6, <1>7, <1>8, <3>2 DEF IsInjective, ToSet
    <3> QED BY <3>1, <3>2
  <2> QED BY <2>1, <2>2 DEF Pointers
<1>10. Good(t)
  <2>1. Clean(t)
    BY <1>5, <1>6, <1>7 DEF Good, Clean
  <2>2. Invited(t)
    <3> SUFFICES ASSUME NEW x \in Player, NEW b \in Address
                 PROVE  x \in t.inviteList[b] <=> b \in t.invitedBy[x]
      BY DEF Invited
    <3>1. x \in s.inviteList[b] <=> b \in s.invitedBy[x]
      BY <1>5 DEF Good, Invited
    <3> QED BY <1>6, <3>1
  <2>3. Active(t)
    BY <1>5, <1>6, <1>7, <1>8 DEF Good, Active
  <2> QED BY <1>6, <1>9, <2>1, <2>2, <2>3 DEF Good
<1>11. NotTwice(t)
  <2> SUFFICES ASSUME NEW b \in Live(t), NEW x \in InParty(t, b)
               PROVE  b \notin t.invitedBy[x] /\ (t.memberList[b] # <<>> => t.invitedBy[x] = {})
    BY DEF NotTwice
  <2>1. t.party[x] = b /\ x \in Player
    <3>1. x \in Player
      BY <1>6, Types DEF InParty, Live, ToSet
    <3> QED BY <1>9, <3>1 DEF Pointers, Live
  <2>2. x # q /\ t.invitedBy[x] = s.invitedBy[x]
    BY <1>4, <1>5, <1>6, <2>1 DEF Live
  <2>3. CASE b \in Live(s)
    BY <1>5, <1>6, <1>8, <2>2, <2>3 DEF NotTwice
  <2>4. CASE b \notin Live(s)
    <3>1. s.inviteList[b] = {} /\ s.memberList[b] = <<>> /\ b \in Address
      BY <1>5, <2>4 DEF Good, Clean, Live
    <3>2. b \notin s.invitedBy[x]
      BY <1>5, <2>1, <3>1 DEF Good, Invited
    <3> QED BY <1>6, <2>2, <3>1, <3>2
  <2> QED BY <2>3, <2>4
<1>12. Accompanied(t)
  BY <1>5, <1>6, <1>7 DEF Accompanied, Alone, Live
<1>13. Forgotten(t, online)
  BY <1>4, <1>5, <1>6 DEF Forgotten
<1> QED BY <1>4, <1>5, <1>6, <1>10, <1>11, <1>12, <1>13, BecomeNow DEF PartyInv

\* p becomes a member of a, where it is invited, and is withdrawn elsewhere: first its
\* leader was, if that makes a a party.
LEMMA JoinStep ==
  ASSUME PartyAssumption, PartyInv, NEW p \in Player, NEW l \in Player, Join(p, l)
  PROVE  PartyInv'
<1>1. PICK s, a, f, j, t :
        /\ s = Now /\ a = s.party[l]
        /\ f = IF s.memberList[a] = <<>> THEN ClearPartyInvitations(s, l) ELSE s
        /\ j = [f EXCEPT !.memberList[a] = Append(@, p), !.party[p] = a]
        /\ t = ClearPartyInvitations(j, p)
  OBVIOUS
<1>2. /\ Become(t) /\ UNCHANGED online /\ p \in online /\ l \in online
      /\ s.party[l] # None /\ s.leader[a] = l /\ p \in s.inviteList[a] /\ s.party[p] = None
  BY <1>1, NowFacts DEF Join, IsInviting
<1>3. /\ s \in AnyParties /\ Good(s) /\ NotTwice(s) /\ Accompanied(s) /\ Forgotten(s, online)
      /\ online \subseteq Player /\ None \notin Player \cup Address
  BY <1>1 DEF PartyInv, Good, PartyAssumption
<1>4. /\ a \in Address /\ a \in Live(s) /\ l \in InParty(s, a) /\ p \notin InParty(s, a)
      /\ p # l
  <2>1. a \in Address
    <3>1. s.party[l] \in Address \cup {None}
      BY <1>3, Types
    <3> QED BY <1>1, <1>2, <3>1
  <2> QED BY <1>1, <1>2, <1>3, <2>1 DEF Good, Pointers
<1>5. /\ Good(f) /\ Shrinks(s, f) /\ Accompanied(f) /\ NotTwice(f) /\ Forgotten(f, online)
      /\ Kept(s, f, a) /\ f.inviteList[a] = s.inviteList[a]
      /\ f.invitedBy[l] = {}
  <2>1. CASE s.memberList[a] = <<>>
    <3>1. f = ClearPartyInvitations(s, l)
      BY <1>1, <2>1
    <3>2. a \notin s.invitedBy[l]
      BY <1>3, <1>4 DEF NotTwice
    <3>3. /\ Good(f) /\ Shrinks(s, f) /\ Accompanied(f)
          /\ Kept(s, f, a) /\ f.inviteList[a] = s.inviteList[a] /\ f.invitedBy[l] = {}
      BY <1>3, <1>4, <3>1, <3>2, ClearKeeps DEF Cleared
    <3> QED BY <1>3, <3>3, ShrinksKeeps
  <2>2. CASE s.memberList[a] # <<>>
    <3>1. f = s /\ Shrinks(s, f)
      BY <1>1, <2>2 DEF Shrinks
    <3>2. f.invitedBy[l] = {}
      BY <1>3, <1>4, <2>2, <3>1 DEF NotTwice
    <3> QED BY <1>3, <3>1, <3>2 DEF Kept
  <2> QED BY <2>1, <2>2
<1>6. /\ f \in AnyParties /\ a \in Live(f) /\ f.leader[a] = l
      /\ InParty(f, a) = InParty(s, a) /\ f.party[p] = None /\ p \in f.inviteList[a]
      /\ f.memberList[a] \in Seq(Player)
  <2>1. f \in AnyParties /\ f.memberList[a] \in Seq(Player)
    BY <1>4, <1>5, Types DEF Good
  <2>2. f.leader[a] = l /\ InParty(f, a) = InParty(s, a) /\ p \in f.inviteList[a]
    BY <1>2, <1>5 DEF Kept, InParty
  <2>3. f.party[p] = None
    BY <1>2, <1>5 DEF Shrinks
  <2> QED BY <1>3, <1>4, <2>1, <2>2, <2>3 DEF Live
<1> DEFINE list == Append(f.memberList[a], p)
<1>7. /\ list \in Seq(Player) /\ IsInjective(list) /\ list # <<>>
      /\ ToSet(list) = ToSet(f.memberList[a]) \cup {p}
  <2>1. IsInjective(f.memberList[a]) /\ p \notin ToSet(f.memberList[a])
    BY <1>4, <1>5, <1>6 DEF Good, Pointers, InParty
  <2> QED BY <1>6, <2>1, AppendOnce
<1> HIDE DEF list
<1>8. /\ j \in AnyParties
      /\ j.leader = f.leader /\ j.invitedBy = f.invitedBy /\ j.inviteList = f.inviteList /\ j.ticks = f.ticks
      /\ j.memberList[a] = list /\ j.party[p] = a
      /\ \A b \in Address \ {a} : j.memberList[b] = f.memberList[b]
      /\ \A x \in Player \ {p} : j.party[x] = f.party[x]
  <2> DEFINE lists == [f.memberList EXCEPT ![a] = list]
             parties == [f.party EXCEPT ![p] = a]
  <2>1. j = [f EXCEPT !.memberList = lists, !.party = parties]
    BY <1>1, <1>6 DEF AnyParties, list
  <2>2. lists \in [Address -> Seq(Player)] /\ parties \in [Player -> Address \cup {None}]
    BY <1>4, <1>6, <1>7, Types
  <2>3. /\ lists[a] = list /\ parties[p] = a
        /\ \A b \in Address \ {a} : lists[b] = f.memberList[b]
        /\ \A x \in Player \ {p} : parties[x] = f.party[x]
    BY <1>4, <1>6, Types
  <2> HIDE DEF lists, parties
  <2>4. j = [party |-> parties, invitedBy |-> f.invitedBy, leader |-> f.leader,
             memberList |-> lists, inviteList |-> f.inviteList, ticks |-> f.ticks]
    BY <1>6, <2>1 DEF AnyParties
  <2>5. j \in AnyParties
    BY <1>6, <2>2, <2>4 DEF AnyParties
  <2> QED BY <2>3, <2>4, <2>5
<1>9. /\ Live(j) = Live(f) /\ InParty(j, a) = InParty(f, a) \cup {p}
      /\ \A b \in Live(f) \ {a} : InParty(j, b) = InParty(f, b)
  BY <1>7, <1>8 DEF Live, InParty
<1>10. Good(j)
  <2>1. Pointers(j)
    <3>1. ASSUME NEW x \in Player, NEW b \in Address
          PROVE  j.party[x] = b <=> b \in Live(j) /\ x \in InParty(j, b)
      <4>1. f.party[x] = b <=> b \in Live(f) /\ x \in InParty(f, b)
        BY <1>5 DEF Good, Pointers
      <4>2. CASE x = p
        BY <1>3, <1>6, <1>8, <1>9, <4>1, <4>2
      <4>3. CASE x # p
        BY <1>8, <1>9, <4>1, <4>3
      <4> QED BY <4>2, <4>3
    <3>2. \A b \in Live(j) : IsInjective(j.memberList[b]) /\ j.leader[b] \notin ToSet(j.memberList[b])
      BY <1>4, <1>5, <1>6, <1>7, <1>8, <1>9 DEF Good, Pointers, Live
    <3> QED BY <3>1, <3>2 DEF Pointers
  <2>2. Clean(j)
    BY <1>5, <1>6, <1>8, <1>9 DEF Good, Clean
  <2>3. Invited(j) /\ Active(j)
    BY <1>5, <1>8, <1>9 DEF Good, Invited, Active
  <2> QED BY <1>8, <2>1, <2>2, <2>3 DEF Good
<1>11. Accompanied(j)
  BY <1>5, <1>7, <1>8, <1>9 DEF Accompanied, Alone, Live
<1>12. Good(t) /\ Shrinks(j, t) /\ Accompanied(t) /\ t.invitedBy[p] = {}
  <2>1. Cleared(j, t, p)
    BY <1>1, <1>10, ClearKeeps
  <2> QED BY <1>11, <2>1 DEF Cleared
\* All but p were as they should be before.
<1>13. NotTwice(t)
  <2> SUFFICES ASSUME NEW b \in Live(t), NEW x \in InParty(t, b)
               PROVE  b \notin t.invitedBy[x] /\ (t.memberList[b] # <<>> => t.invitedBy[x] = {})
    BY DEF NotTwice
  <2>1. b \in Live(f) /\ x \in InParty(j, b) /\ b \in Address /\ x \in Player
    <3>1. x \in Player
      BY <1>12, Types DEF Good, InParty, Live, ToSet
    <3> QED BY <1>9, <1>12, <3>1 DEF Shrinks, Live
  <2>2. CASE x = p
    BY <1>12, <2>2
  <2>3. CASE x # p /\ b # a
    <3>1. b \notin f.invitedBy[x] /\ (f.memberList[b] # <<>> => f.invitedBy[x] = {})
      BY <1>5, <1>9, <2>1, <2>3 DEF NotTwice
    <3> QED BY <1>8, <1>12, <2>1, <2>3, <3>1 DEF Shrinks
  <2>4. CASE x # p /\ b = a
    <3>1. x \in InParty(f, a) /\ a \notin f.invitedBy[x] /\ (f.memberList[a] # <<>> => f.invitedBy[x] = {})
      BY <1>5, <1>6, <1>9, <2>1, <2>4 DEF NotTwice
    <3>2. f.memberList[a] = <<>> => x = l
      BY <1>6, <3>1 DEF InParty, ToSet
    <3>3. f.invitedBy[x] = {}
      BY <1>5, <3>1, <3>2
    <3> QED BY <1>8, <1>12, <2>1, <2>4, <3>3 DEF Shrinks
  <2> QED BY <2>2, <2>3, <2>4
<1>14. Forgotten(t, online)
  <2>1. Forgotten(j, online)
    BY <1>2, <1>3, <1>5, <1>8 DEF Forgotten
  <2> QED BY <1>10, <1>12, <2>1, ShrinksKeeps
<1> QED BY <1>2, <1>3, <1>12, <1>13, <1>14, BecomeNow DEF PartyInv, Good

LEMMA RevokeStep ==
  ASSUME PartyAssumption, PartyInv, NEW p \in Player, NEW q \in Player, Revoke(p, q)
  PROVE  PartyInv'
<1>1. PICK A, s : A = {party[p]} /\ s = RemoveInvites(Now, A, q)
  OBVIOUS
<1>2. Good(Now) /\ A \in SUBSET Address /\ Become(s) /\ UNCHANGED online
  BY <1>1, NowFacts, Types DEF Revoke, IsInviting, PartyInv, Good
<1>3. Withdrawn(Now, s, A, q)
  BY <1>1, <1>2, RemoveInvitesKeeps
<1> QED BY <1>2, <1>3, ShrinkStep DEF Withdrawn, PartyInv

LEMMA PassStep ==
  ASSUME PartyAssumption, PartyInv, NEW p \in Player, NEW q \in Player, Pass(p, q)
  PROVE  PartyInv'
<1>1. PICK a, s : a = party[p] /\ s = PassPartyLeadership(Now, a, q)
  OBVIOUS
<1>2. /\ Good(Now) /\ Become(s) /\ UNCHANGED online
      /\ p # q /\ a # None /\ party[q] = a /\ leader[a] = p
  BY <1>1 DEF Pass, PartyInv
<1>3. a \in Live(Now) /\ q \in ToSet(memberList[a])
  BY <1>1, <1>2, NowFacts, Types DEF Good, Pointers, InParty
<1>4. Passed(Now, s, a, q)
  BY <1>1, <1>2, <1>3, NowFacts, PassKeeps
<1> QED BY <1>2, <1>4, ShrinkStep DEF Passed, PartyInv

LEMMA LeaveStep ==
  ASSUME PartyAssumption, PartyInv, NEW p \in Player, Leave(p)
  PROVE  PartyInv'
<1>1. PICK n, s : n = Now /\ s = LeaveParty(n, n.party[p], p)
  OBVIOUS
<1>2. Good(n) /\ Accompanied(n) /\ n.party[p] # None /\ Become(s) /\ UNCHANGED online
  BY <1>1, NowFacts DEF Leave, PartyInv
<1>3. Good(s) /\ Shrinks(n, s) /\ Accompanied(s)
  BY <1>1, <1>2, LeaveKeeps
<1> QED BY <1>1, <1>2, <1>3, ShrinkStep

LEMMA LogoutStep ==
  ASSUME PartyAssumption, PartyInv, NEW p \in Player, Logout(p)
  PROVE  PartyInv'
<1>1. PICK n, c, s :
        /\ n = Now /\ c = ClearPartyInvitations(n, p)
        /\ s = IF c.party[p] # None THEN LeaveParty(c, c.party[p], p) ELSE c
  OBVIOUS
<1>2. /\ Good(n) /\ Accompanied(n) /\ NotTwice(n) /\ Forgotten(n, online) /\ Become(s)
      /\ online' = online \ {p} /\ online \subseteq Player
  BY <1>1 DEF Logout, PartyInv
<1>3. Good(c) /\ Shrinks(n, c) /\ Accompanied(c) /\ c.invitedBy[p] = {}
  BY <1>1, <1>2, ClearKeeps DEF Cleared
<1>4. Good(s) /\ Shrinks(c, s) /\ Accompanied(s) /\ s.party[p] = None
  <2>1. CASE c.party[p] # None
    BY <1>1, <1>3, <2>1, LeaveKeeps
  <2>2. CASE c.party[p] = None
    <3>1. s = c /\ Shrinks(c, s)
      BY <1>1, <2>2 DEF Shrinks
    <3> QED BY <1>3, <2>2, <3>1
  <2> QED BY <2>1, <2>2
<1>5. Shrinks(n, s)
  BY <1>3, <1>4, ShrinksTwice
<1>6. NotTwice(s) /\ Forgotten(s, online)
  BY <1>2, <1>4, <1>5, ShrinksKeeps
<1>7. \A a \in Address : p \notin s.inviteList[a] \cup s.ticks[a]
  <2> SUFFICES ASSUME NEW a \in Address PROVE p \notin s.inviteList[a] /\ p \notin s.ticks[a]
    OBVIOUS
  <2>1. s.invitedBy[p] = {}
    BY <1>3, <1>4 DEF Shrinks
  <2>2. p \notin s.inviteList[a]
    BY <1>4, <2>1 DEF Good, Invited
  <2>3. a \in Live(s) => p \notin InParty(s, a)
    BY <1>4 DEF Good, Pointers, PartyAssumption
  <2>4. p \notin s.ticks[a]
    BY <1>4, <2>3 DEF Good, Clean, Active
  <2> QED BY <2>2, <2>4
<1>8. Forgotten(s, online \ {p})
  BY <1>4, <1>6, <1>7 DEF Forgotten
<1> QED BY <1>2, <1>4, <1>6, <1>8, BecomeNow DEF PartyInv, Good

LEMMA LoginStep ==
  ASSUME PartyInv, NEW p \in Player, Login(p)
  PROVE  PartyInv'
<1>1. Now' = Now /\ online' = online \cup {p}
  BY DEF Login, state, Now
<1>2. Forgotten(Now, online') /\ online' \subseteq Player
  BY <1>1 DEF Forgotten, PartyInv
<1> QED BY <1>1, <1>2 DEF PartyInv

LEMMA TicksStep ==
  ASSUME PartyAssumption, PartyInv, NEW p \in Player, UpdatePlayerTicks(p)
  PROVE  PartyInv'
<1>1. PICK s, a, t : s = Now /\ a = s.party[p] /\ t = [s EXCEPT !.ticks[a] = @ \cup {p}]
  OBVIOUS
<1>2. /\ s \in AnyParties /\ Good(s) /\ NotTwice(s) /\ Accompanied(s) /\ Forgotten(s, online)
      /\ Become(t) /\ UNCHANGED online /\ p \in online /\ a # None /\ online \subseteq Player
  BY <1>1, NowFacts DEF UpdatePlayerTicks, PartyInv, Good
<1>3. a \in Address /\ a \in Live(s) /\ p \in InParty(s, a)
  <2>1. a \in Address
    BY <1>1, <1>2, Types
  <2> QED BY <1>1, <1>2, <2>1 DEF Good, Pointers
<1>4. /\ t \in AnyParties
      /\ t.party = s.party /\ t.leader = s.leader /\ t.memberList = s.memberList
      /\ t.inviteList = s.inviteList /\ t.invitedBy = s.invitedBy
      /\ t.ticks[a] = s.ticks[a] \cup {p} /\ \A b \in Address \ {a} : t.ticks[b] = s.ticks[b]
  <2> DEFINE active == [s.ticks EXCEPT ![a] = s.ticks[a] \cup {p}]
  <2>1. t = [s EXCEPT !.ticks = active]
    BY <1>1, <1>2 DEF AnyParties
  <2>2. /\ active \in [Address -> SUBSET Player]
        /\ active[a] = s.ticks[a] \cup {p} /\ \A b \in Address \ {a} : active[b] = s.ticks[b]
    BY <1>2, <1>3, Types
  <2> HIDE DEF active
  <2>3. t = [party |-> s.party, invitedBy |-> s.invitedBy, leader |-> s.leader,
             memberList |-> s.memberList, inviteList |-> s.inviteList, ticks |-> active]
    BY <1>2, <2>1 DEF AnyParties
  <2>4. t \in AnyParties
    BY <1>2, <2>2, <2>3 DEF AnyParties
  <2> QED BY <2>2, <2>3, <2>4
<1>5. Live(t) = Live(s) /\ \A b : InParty(t, b) = InParty(s, b)
  BY <1>4 DEF Live, InParty
<1>6. Good(t)
  <2>1. Pointers(t) /\ Invited(t)
    BY <1>2, <1>4, <1>5 DEF Good, Pointers, Invited
  <2>2. Clean(t)
    BY <1>2, <1>3, <1>4, <1>5 DEF Good, Clean
  <2>3. Active(t)
    BY <1>2, <1>3, <1>4, <1>5 DEF Good, Active, Live
  <2> QED BY <1>4, <2>1, <2>2, <2>3 DEF Good
<1>7. NotTwice(t) /\ Accompanied(t)
  BY <1>2, <1>4, <1>5 DEF NotTwice, Accompanied, Alone
<1>8. Forgotten(t, online)
  BY <1>2, <1>4 DEF Forgotten
<1> QED BY <1>2, <1>4, <1>6, <1>7, <1>8, BecomeNow DEF PartyInv

LEMMA NextStep ==
  ASSUME PartyAssumption, PartyInv, [Next]_vars
  PROVE  PartyInv'
<1>1. CASE UNCHANGED vars
  <2>1. Now' = Now /\ online' = online
    BY <1>1 DEF vars, state, Now
  <2> QED BY <2>1 DEF PartyInv
<1>2. CASE Next
  BY <1>2, InviteStep, JoinStep, RevokeStep, PassStep, LeaveStep, LogoutStep, LoginStep, TicksStep DEF Next
<1> QED BY <1>1, <1>2

LEMMA PartyInvariance == Spec => []PartyInv
<1>1. Init => PartyInv
  BY Initially, PartyAssumption
<1>2. PartyInv /\ [Next]_vars => PartyInv'
  BY NextStep, PartyAssumption
<1> QED BY <1>1, <1>2, PTL DEF Spec

\* Between two requests, whatever players there are: a player points at a party exactly
\* if it is in it, invitations are known to both sides, no party is alone, nobody who is
\* offline is known to one, and nobody is invited to a second one (party.cpp).
THEOREM PartiesAreSound == Spec => []PartiesSound
<1>1. ASSUME PartyInv PROVE PartiesSound
  <2>1. Parties = Live(Now) /\ Good(Now) /\ Now \in AnyParties
    BY <1>1 DEF Parties, Live, Now, PartyInv, Good
  <2>2. TypeOK
    BY <1>1, <2>1, NowFacts, Types DEF TypeOK, PartyInv
  <2>3. PointersMatch
    BY <2>1, NowFacts DEF PointersMatch, Good, Pointers
  <2>4. OnlineOnly
    BY <1>1, NowFacts DEF OnlineOnly, PartyInv, Forgotten
  <2>5. TicksOfParty
    BY <2>1, NowFacts DEF TicksOfParty, Good, Clean, Active
  <2>6. InvitationsMatch
    BY <2>1, NowFacts DEF InvitationsMatch, Good, Invited
  <2>7. NoneInvitedTwice
    BY <1>1, <2>1, NowFacts DEF NoneInvitedTwice, PartyInv, NotTwice
  <2>8. NoneAlone
    BY <1>1, <2>1 DEF NoneAlone, PartyInv, Accompanied
  <2> QED BY <2>2, <2>3, <2>4, <2>5, <2>6, <2>7, <2>8
          DEF PartiesSound, PartiesConsistent, InvitationsConsistent
<1> QED BY <1>1, PartyInvariance, PTL

-------------------------------------------------------------------------------
(***************************************************************************)
(* Proofs about Decay: references are exact, and what is marked as         *)
(* decaying is tended to, for any items, kinds and times.                  *)
(*                                                                         *)
(* An entry is visited once in four rounds.  The invariant says of each    *)
(* bucket how many rounds off its next visit is (Wait), and that an item   *)
(* listed once has at least that long: what a visit takes off its time, up *)
(* to a second, is what the rounds since the last one took off due.  An    *)
(* item that is being put into a list, visited or cleaned is a record that *)
(* goes through steps; owed counts the references it has for an entry that *)
(* the visit has already erased.                                           *)
(***************************************************************************)

AnyItem ==
  [kind : Kind \cup {Never}, placed : BOOLEAN, left : Int, marked : BOOLEAN,
   refs : Int, in : [Bucket -> Nat], fresh : Nat, release : Nat,
   due : Int, twice : BOOLEAN, stuck : BOOLEAN]

One(b) == IF b THEN 1 ELSE 0

Sum(f) == f[0] + f[1] + f[2] + f[3]

\* The bucket that is visited, or was last.
At == IF busy THEN Here ELSE last

\* Rounds until bucket b is visited, after bucket h.
Ahead(h, b) == IF b > h THEN b - h ELSE b - h + 4

\* The same, when t entries of bucket h are still to visit in an open round.
Wait(b, t, h, open) == IF open /\ b = h /\ t > 0 THEN 0 ELSE Ahead(h, b)

\* What may be left of due when an entry of an item is visited.
Slack(l) == IF l >= Round THEN l - Round - Interval ELSE l - 2 * Interval

Counted(r, t, owed, h, open) ==
  /\ r.refs = Sum(r.in) + r.fresh + r.release + One(r.placed) + owed
  /\ r.kind \in Kind \/ r = Free
  /\ r.left >= NoTime
  /\ r.left = NoTime /\ r.kind \in Kind => Time[r.kind] = 0 /\ ~r.marked
  /\ ~r.twice => Sum(r.in) + r.fresh <= 1
  /\ IF open THEN t <= r.in[h] ELSE t = 0

InTime(r, t, h, open) ==
  /\ r.fresh > 0 => r.due >= r.left - Interval * One(open)
  /\ \A b \in Bucket : r.in[b] > 0 => r.due - Interval * Wait(b, t, h, open) >= Slack(r.left)

TendedTo(r, t, h, open) ==
  r.placed /\ r.marked /\ ~r.stuck =>
    /\ Sum(r.in) + r.fresh > 0
    /\ r.left > 0
    /\ ~r.twice => InTime(r, t, h, open)

Sound(r, t, h, open) == r \in AnyItem /\ Counted(r, t, 0, h, open) /\ TendedTo(r, t, h, open)

DecayInv ==
  /\ item \in [Item -> AnyItem]
  /\ last \in Bucket /\ busy \in BOOLEAN
  /\ todo \in [Item -> Nat]
  /\ \A i \in Item : Sound(item[i], todo[i], At, busy)

-----------------------------------------------------------------------------
(* Buckets *)

LEMMA Sums ==
  ASSUME NEW f \in [Bucket -> Nat]
  PROVE  Sum(f) \in Nat /\ \A b \in Bucket : f[b] <= Sum(f)
BY DEF Sum, Bucket

LEMMA SumChanged ==
  ASSUME NEW f \in [Bucket -> Nat], NEW h \in Bucket, NEW v \in Nat, NEW g,
         g = [f EXCEPT ![h] = v]
  PROVE  /\ g \in [Bucket -> Nat] /\ g[h] = v
         /\ \A b \in Bucket : b # h => g[b] = f[b]
         /\ Sum(g) = Sum(f) - f[h] + v
<1>1. g \in [Bucket -> Nat] /\ g[h] = v /\ \A b \in Bucket : b # h => g[b] = f[b]
  OBVIOUS
<1>2. h = 0 \/ h = 1 \/ h = 2 \/ h = 3
  BY DEF Bucket
<1>3. 0 \in Bucket /\ 1 \in Bucket /\ 2 \in Bucket /\ 3 \in Bucket
  BY DEF Bucket
<1>4. f[0] \in Nat /\ f[1] \in Nat /\ f[2] \in Nat /\ f[3] \in Nat
  BY <1>3
<1> QED BY <1>1, <1>2, <1>3, <1>4 DEF Sum

LEMMA Circle ==
  ASSUME NEW h \in Bucket
  PROVE  /\ (h + 1) % 4 \in Bucket /\ (h + 1) % 4 # h
         /\ Ahead(h, (h + 1) % 4) = 1 /\ Ahead(h, h) = 4
         /\ \A b \in Bucket : Ahead(h, b) \in 1 .. 4
         /\ \A b \in Bucket : b # (h + 1) % 4 => Ahead((h + 1) % 4, b) = Ahead(h, b) - 1
<1>1. h = 0 \/ h = 1 \/ h = 2 \/ h = 3
  BY DEF Bucket
<1>2. (h + 1) % 4 = IF h = 3 THEN 0 ELSE h + 1
  BY <1>1
<1> QED BY <1>1, <1>2 DEF Bucket, Ahead

-----------------------------------------------------------------------------
(* What the functions do to the fields of an item                          *)

\* What decides whether an item is tended to in time is the same.
SameTimes(x, r) ==
  x.left = r.left /\ x.in = r.in /\ x.fresh = r.fresh /\ x.due = r.due /\ x.twice = r.twice

LEMMA FreeFields ==
  /\ Free \in AnyItem /\ Sum(Free.in) = 0
  /\ Free.kind = Never /\ Free.placed = FALSE /\ Free.left = NoTime /\ Free.marked = FALSE
  /\ Free.refs = 0 /\ Free.fresh = 0 /\ Free.release = 0 /\ Free.twice = FALSE
  /\ \A b \in Bucket : Free.in[b] = 0
BY DEF Free, AnyItem, NoTime, Sum, Bucket

LEMMA EntriesAre ==
  ASSUME NEW r
  PROVE  Entries(r) = Sum(r.in) + r.fresh
BY DEF Entries, Sum

LEMMA ListedFields ==
  ASSUME NEW r \in AnyItem, NEW x, x = Listed(r)
  PROVE  /\ x \in AnyItem
         /\ x.kind = r.kind /\ x.placed = r.placed /\ x.left = r.left /\ x.marked = TRUE
         /\ x.refs = r.refs + 1 /\ x.in = r.in /\ x.fresh = r.fresh + 1 /\ x.release = r.release
         /\ x.due = r.left /\ (x.twice <=> Entries(r) > 0) /\ x.stuck = FALSE
<1> DEFINE again == Entries(r) > 0
           n == r.refs + 1
           f == r.fresh + 1
           l == r.left
<1>1. again \in BOOLEAN /\ n \in Int /\ f \in Nat /\ l \in Int
  BY DEF AnyItem
<1>2. x = [r EXCEPT !.refs = n, !.marked = TRUE, !.fresh = f,
                    !.due = l, !.twice = again, !.stuck = FALSE]
  BY DEF Listed
<1> HIDE DEF again, n, f, l
<1>3. /\ x \in AnyItem
      /\ x.kind = r.kind /\ x.placed = r.placed /\ x.left = r.left /\ x.marked = TRUE
      /\ x.refs = n /\ x.in = r.in /\ x.fresh = f /\ x.release = r.release
      /\ x.due = l /\ x.twice = again /\ x.stuck = FALSE
  BY <1>1, <1>2 DEF AnyItem
<1> QED BY <1>3 DEF again, n, f, l

OwnTime(k) == IF Time[k] = 0 THEN NoTime ELSE Time[k]

LEMMA CreatedFields ==
  ASSUME NEW k \in Kind, NEW x, x = Created(k)
  PROVE  /\ x \in AnyItem
         /\ x.kind = k /\ x.placed = TRUE /\ x.left = OwnTime(k)
         /\ x.marked = FALSE /\ x.refs = 1 /\ x.in = Free.in /\ x.fresh = 0 /\ x.release = 0
         /\ x.twice = FALSE /\ x.stuck = FALSE /\ x.due = 0
<1>1. Time[k] \in Int
  BY KindAssumption
<1> DEFINE l == OwnTime(k)
<1>2. l \in Int
  BY <1>1 DEF NoTime, OwnTime
<1>3. x = [Free EXCEPT !.kind = k, !.refs = 1, !.placed = TRUE, !.left = l]
  BY DEF Created, OwnTime
<1> HIDE DEF l
<1>4. /\ x \in AnyItem
      /\ x.kind = k /\ x.placed = TRUE /\ x.left = l
      /\ x.marked = FALSE /\ x.refs = 1 /\ x.in = Free.in /\ x.fresh = 0 /\ x.release = 0
      /\ x.twice = FALSE /\ x.stuck = FALSE /\ x.due = 0
  <2>1. Free.due = 0 /\ Free.stuck = FALSE
    BY DEF Free
  <2>2. PICK g : g = Free
    OBVIOUS
  <2>3. /\ g \in AnyItem
        /\ g.marked = FALSE /\ g.fresh = 0 /\ g.release = 0 /\ g.twice = FALSE
        /\ g.due = 0 /\ g.stuck = FALSE
    BY <2>1, <2>2, FreeFields
  <2> DEFINE n == 1
  <2>4. x = [g EXCEPT !.kind = k, !.refs = n, !.placed = TRUE, !.left = l] /\ n \in Int
    BY <1>3, <2>2
  <2> HIDE DEF n
  <2>5. /\ x \in AnyItem
        /\ x.kind = k /\ x.placed = TRUE /\ x.left = l
        /\ x.marked = g.marked /\ x.refs = n /\ x.in = g.in /\ x.fresh = g.fresh
        /\ x.release = g.release /\ x.twice = g.twice /\ x.stuck = g.stuck /\ x.due = g.due
    <3>1. g \in AnyItem
      BY <2>3
    <3> QED BY <1>2, <2>4, <3>1 DEF AnyItem
  <2> QED BY <2>2, <2>3, <2>5 DEF n
<1> QED BY <1>4 DEF l

LEMMA SetIDFields ==
  ASSUME NEW r \in AnyItem, NEW k \in Kind, NEW x, x = SetID(r, k)
  PROVE  LET bare  == Time[k] = 0 /\ k \notin Stop /\ To[k] = Never
             fresh == Time[k] > 0 /\ (r.kind \notin Stop \/ r.left = NoTime)
         IN  /\ x \in AnyItem
             /\ x.kind = k /\ x.placed = r.placed
             /\ x.left = (IF bare THEN NoTime ELSE IF fresh THEN Time[k] ELSE r.left)
             /\ x.marked <=> r.marked /\ ~bare /\ ~fresh
             /\ x.refs = r.refs /\ x.in = r.in /\ x.fresh = r.fresh /\ x.release = r.release
             /\ x.due = (IF fresh THEN Time[k] ELSE r.due)
             /\ x.twice = r.twice /\ x.stuck = r.stuck
<1>1. Time[k] \in Int
  BY KindAssumption
<1> DEFINE bare == Time[k] = 0 /\ k \notin Stop /\ To[k] = Never
           fresh == Time[k] > 0 /\ (r.kind \notin Stop \/ r.left = NoTime)
           m == r.marked /\ ~bare /\ ~fresh
           l == IF bare THEN NoTime ELSE IF fresh THEN Time[k] ELSE r.left
           d == IF fresh THEN Time[k] ELSE r.due
<1>2. m \in BOOLEAN
  OBVIOUS
<1>3. l \in Int /\ d \in Int
  BY <1>1 DEF NoTime, AnyItem
<1>4. x = [r EXCEPT !.kind = k, !.marked = m, !.left = l, !.due = d]
  BY DEF SetID
<1> HIDE DEF m, l, d
<1>5. /\ x \in AnyItem
      /\ x.kind = k /\ x.placed = r.placed /\ x.left = l /\ x.marked = m
      /\ x.refs = r.refs /\ x.in = r.in /\ x.fresh = r.fresh /\ x.release = r.release
      /\ x.due = d /\ x.twice = r.twice /\ x.stuck = r.stuck
  BY <1>2, <1>3, <1>4 DEF AnyItem
<1> QED BY <1>5 DEF m, l, d

LEMMA ReleasedFields ==
  ASSUME NEW r \in AnyItem, NEW x, x = Released(r)
  PROVE  /\ x \in AnyItem /\ SameTimes(x, r)
         /\ x.kind = r.kind /\ x.placed = r.placed /\ x.marked = r.marked
         /\ x.refs = r.refs /\ x.release = r.release + 1 /\ x.stuck = r.stuck
BY DEF Released, AnyItem, SameTimes

LEMMA RemovedFields ==
  ASSUME NEW r \in AnyItem, NEW x, x = Removed(r)
  PROVE  /\ x \in AnyItem /\ SameTimes(x, r)
         /\ x.kind = r.kind /\ x.placed = FALSE /\ x.marked = r.marked
         /\ x.refs = r.refs /\ x.release = r.release + 1 /\ x.stuck = r.stuck
<1>1. PICK y : y = [r EXCEPT !.placed = FALSE]
  OBVIOUS
<1>2. y \in AnyItem /\ SameTimes(y, r) /\ y.kind = r.kind /\ y.placed = FALSE
      /\ y.marked = r.marked /\ y.refs = r.refs /\ y.release = r.release /\ y.stuck = r.stuck
  BY <1>1 DEF AnyItem, SameTimes
<1>3. x = Released(y)
  BY <1>1 DEF Removed
<1> QED BY <1>2, <1>3, ReleasedFields DEF SameTimes

-----------------------------------------------------------------------------
(* What they do to an item that is Sound                                   *)

\* An item that is listed, and had time left.
LEMMA ListedSound ==
  ASSUME NEW r \in AnyItem, NEW t \in Nat, NEW owed \in Int, NEW h \in Bucket, NEW open \in BOOLEAN,
         Counted(r, t, owed, h, open), r.kind \in Kind, r.left > 0, NEW x, x = Listed(r)
  PROVE  x \in AnyItem /\ Counted(x, t, owed, h, open) /\ TendedTo(x, t, h, open)
<1>1. /\ x \in AnyItem
      /\ x.kind = r.kind /\ x.placed = r.placed /\ x.left = r.left
      /\ x.refs = r.refs + 1 /\ x.in = r.in /\ x.fresh = r.fresh + 1 /\ x.release = r.release
      /\ x.due = r.left /\ (x.twice <=> Entries(r) > 0) /\ x.stuck = FALSE
  BY ListedFields
<1>2. /\ r.in \in [Bucket -> Nat] /\ r.fresh \in Nat /\ r.refs \in Int /\ r.left \in Int
      /\ r.release \in Nat
  BY DEF AnyItem
<1>3. /\ Sum(r.in) \in Nat /\ \A b \in Bucket : r.in[b] <= Sum(r.in) /\ r.in[b] \in Nat
  BY <1>2, Sums
<1>4. Entries(r) = Sum(r.in) + r.fresh
  BY EntriesAre
<1>5. Counted(x, t, owed, h, open)
  <2>1. One(r.placed) \in Int
    BY DEF One
  <2>2. x.refs = Sum(x.in) + x.fresh + x.release + One(x.placed) + owed
    BY <1>1, <1>2, <1>3, <2>1 DEF Counted
  <2>3. ~x.twice => Sum(x.in) + x.fresh <= 1
    BY <1>1, <1>2, <1>3, <1>4
  <2> QED BY <1>1, <1>2, <2>2, <2>3 DEF Counted, NoTime
<1>6. InTime(x, t, h, open) \/ x.twice
  <2> SUFFICES ASSUME ~x.twice PROVE InTime(x, t, h, open)
    OBVIOUS
  <2>1. \A b \in Bucket : ~(x.in[b] > 0)
    BY <1>1, <1>2, <1>3, <1>4
  <2> QED BY <1>1, <1>2, <2>1 DEF InTime, One, Interval
<1>7. Sum(x.in) + x.fresh > 0 /\ x.left > 0
  BY <1>1, <1>2, <1>3
<1> QED BY <1>1, <1>5, <1>6, <1>7 DEF TendedTo

LEMMA FreeSound ==
  ASSUME NEW h \in Bucket, NEW open \in BOOLEAN
  PROVE  Sound(Free, 0, h, open)
<1>1. PICK x : x = Free
  OBVIOUS
<1>2. /\ x \in AnyItem /\ Sum(x.in) = 0 /\ x.in[h] = 0
      /\ x.kind = Never /\ x.placed = FALSE /\ x.left = NoTime
      /\ x.refs = 0 /\ x.fresh = 0 /\ x.release = 0
  BY <1>1, FreeFields
<1>3. Never \notin Kind
  BY KindAssumption
<1> QED BY <1>1, <1>2, <1>3 DEF Sound, Counted, TendedTo, One, NoTime

\* An item that was just made, with the time it has of its kind or with another.
LEMMA CreatedSound ==
  ASSUME NEW k \in Kind, NEW h \in Bucket, NEW x, x = Created(k)
  PROVE  Sound(x, 0, h, FALSE)
<1>2. Time[k] \in Nat
  BY KindAssumption
<1>3. /\ x \in AnyItem
      /\ x.kind = k /\ x.placed = TRUE /\ x.left = OwnTime(k)
      /\ x.marked = FALSE /\ x.refs = 1 /\ x.in = Free.in /\ x.fresh = 0 /\ x.release = 0
      /\ x.twice = FALSE
  BY CreatedFields
<1>4. Sum(x.in) = 0
  BY <1>3, FreeFields
<1> QED BY <1>2, <1>3, <1>4 DEF Sound, Counted, TendedTo, One, NoTime, OwnTime

LEMMA SetIDCounted ==
  ASSUME NEW r \in AnyItem, NEW t \in Nat, NEW owed \in Int, NEW h \in Bucket, NEW open \in BOOLEAN,
         Counted(r, t, owed, h, open), r.kind \in Kind, NEW k \in Kind, NEW x, x = SetID(r, k)
  PROVE  /\ x \in AnyItem /\ Counted(x, t, owed, h, open)
         /\ x.kind = k /\ x.placed = r.placed /\ x.stuck = r.stuck
         /\ x.marked => r.marked /\ SameTimes(x, r)
<1> DEFINE bare == Time[k] = 0 /\ k \notin Stop /\ To[k] = Never
           fresh == Time[k] > 0 /\ (r.kind \notin Stop \/ r.left = NoTime)
<1>1. /\ x \in AnyItem
      /\ x.kind = k /\ x.placed = r.placed
      /\ x.left = (IF bare THEN NoTime ELSE IF fresh THEN Time[k] ELSE r.left)
      /\ x.marked <=> r.marked /\ ~bare /\ ~fresh
      /\ x.refs = r.refs /\ x.in = r.in /\ x.fresh = r.fresh /\ x.release = r.release
      /\ x.due = (IF fresh THEN Time[k] ELSE r.due)
      /\ x.twice = r.twice /\ x.stuck = r.stuck
  BY SetIDFields
<1>2. Time[k] \in Nat
  BY KindAssumption
<1>3. x.left >= NoTime /\ (x.left = NoTime => Time[k] = 0 /\ ~x.marked)
  <2>1. r.left >= NoTime /\ r.left \in Int /\ (r.left = NoTime => ~r.marked)
    BY DEF Counted, AnyItem
  <2>2. CASE bare
    BY <1>1, <2>2 DEF NoTime
  <2>3. CASE ~bare /\ fresh
    BY <1>1, <1>2, <2>3 DEF NoTime
  <2>4. CASE ~bare /\ ~fresh
    BY <1>1, <1>2, <2>1, <2>4 DEF NoTime
  <2> QED BY <2>2, <2>3, <2>4
<1>4. x.marked => r.marked /\ SameTimes(x, r)
  BY <1>1 DEF SameTimes
<1>5. Counted(x, t, owed, h, open)
  BY <1>1, <1>3 DEF Counted
<1> QED BY <1>1, <1>4, <1>5

\* A new kind leaves an item as well tended to as it was.
LEMMA SetIDSound ==
  ASSUME NEW r, NEW t \in Nat, NEW h \in Bucket, NEW open \in BOOLEAN,
         Sound(r, t, h, open), r.kind \in Kind, NEW k \in Kind, NEW x, x = SetID(r, k)
  PROVE  Sound(x, t, h, open) /\ x.kind = k
<1>1. r \in AnyItem /\ Counted(r, t, 0, h, open)
  BY DEF Sound
<1>2. /\ x \in AnyItem /\ Counted(x, t, 0, h, open)
      /\ x.kind = k /\ x.placed = r.placed /\ x.stuck = r.stuck
      /\ x.marked => r.marked /\ SameTimes(x, r)
  BY <1>1, SetIDCounted
<1>3. TendedTo(x, t, h, open)
  BY <1>2 DEF Sound, TendedTo, SameTimes, InTime
<1> QED BY <1>2, <1>3 DEF Sound

\* startDecay, of an item that needs no tending to or has it.
LEMMA StartDecayTends ==
  ASSUME NEW r \in AnyItem, NEW t \in Nat, NEW owed \in Int, NEW h \in Bucket, NEW open \in BOOLEAN,
         Counted(r, t, owed, h, open), TendedTo(r, t, h, open), r.kind \in Kind,
         NEW x, x = StartDecay(r)
  PROVE  /\ x \in AnyItem /\ Counted(x, t, owed, h, open) /\ TendedTo(x, t, h, open)
         /\ x.kind = r.kind
<1>1. x = r \/ (r.left > 0 /\ x = Listed(r))
  BY DEF StartDecay
<1>2. CASE x = r
  BY <1>2
<1>3. CASE r.left > 0 /\ x = Listed(r)
  BY <1>3, ListedSound, ListedFields
<1> QED BY <1>1, <1>2, <1>3

LEMMA StartDecaySound ==
  ASSUME NEW r, NEW t \in Nat, NEW h \in Bucket, NEW open \in BOOLEAN,
         Sound(r, t, h, open), r.kind \in Kind, NEW x, x = StartDecay(r)
  PROVE  Sound(x, t, h, open)
BY StartDecayTends DEF Sound

LEMMA TendedSound ==
  ASSUME NEW r, NEW t \in Nat, NEW h \in Bucket, NEW open \in BOOLEAN,
         Sound(r, t, h, open), r.kind \in Kind, NEW x, x = Tended(r)
  PROVE  Sound(x, t, h, open)
<1>1. r \in AnyItem /\ Counted(r, t, 0, h, open)
  BY DEF Sound
<1>2. x = r \/ (r.left > 0 /\ x = Listed(r))
  BY DEF Tended, Duration
<1>3. CASE x = r
  BY <1>3
<1>4. CASE r.left > 0 /\ x = Listed(r)
  BY <1>1, <1>4, ListedSound DEF Sound
<1> QED BY <1>2, <1>3, <1>4

\* The reference for its place becomes one for ToReleaseItems.
LEMMA RemovedCounted ==
  ASSUME NEW r \in AnyItem, NEW t \in Nat, NEW owed \in Int, NEW h \in Bucket, NEW open \in BOOLEAN,
         Counted(r, t, owed, h, open), r.placed, r.kind \in Kind, NEW x, x = Removed(r)
  PROVE  x \in AnyItem /\ Counted(x, t, owed, h, open) /\ TendedTo(x, t, h, open)
<1>1. /\ x \in AnyItem /\ SameTimes(x, r)
      /\ x.kind = r.kind /\ x.placed = FALSE /\ x.marked = r.marked
      /\ x.refs = r.refs /\ x.release = r.release + 1
  BY RemovedFields
<1>2. r.in \in [Bucket -> Nat] /\ r.fresh \in Nat /\ r.refs \in Int /\ r.release \in Nat
  BY DEF AnyItem
<1>3. Sum(r.in) \in Nat
  BY <1>2, Sums
<1>4. One(r.placed) = 1 /\ One(x.placed) = 0
  BY <1>1 DEF One
<1>5. x.refs = Sum(x.in) + x.fresh + x.release + One(x.placed) + owed
  <2>1. r.refs = Sum(r.in) + r.fresh + r.release + 1 + owed
    BY <1>4 DEF Counted
  <2> QED BY <1>1, <1>2, <1>3, <1>4, <2>1 DEF SameTimes
<1>6. Counted(x, t, owed, h, open)
  BY <1>1, <1>5 DEF Counted, SameTimes
<1> QED BY <1>1, <1>6 DEF TendedTo

\* The reference of an entry that was erased, too.
LEMMA ReleasedSound ==
  ASSUME NEW r \in AnyItem, NEW t \in Nat, NEW owed \in Int, NEW h \in Bucket, NEW open \in BOOLEAN,
         Counted(r, t, owed, h, open), owed = 1, TendedTo(r, t, h, open), r.kind \in Kind,
         NEW x, x = Released(r)
  PROVE  Sound(x, t, h, open)
<1>1. /\ x \in AnyItem /\ SameTimes(x, r)
      /\ x.kind = r.kind /\ x.placed = r.placed /\ x.marked = r.marked
      /\ x.refs = r.refs /\ x.release = r.release + 1 /\ x.stuck = r.stuck
  BY ReleasedFields
<1>2. r.in \in [Bucket -> Nat] /\ r.fresh \in Nat /\ r.refs \in Int /\ r.release \in Nat
  BY DEF AnyItem
<1>3. Sum(r.in) \in Nat /\ One(r.placed) \in Int
  BY <1>2, Sums DEF One
<1>4. x.refs = Sum(x.in) + x.fresh + x.release + One(x.placed) + 0
  BY <1>1, <1>2, <1>3 DEF Counted, SameTimes
<1>5. Counted(x, t, 0, h, open)
  BY <1>1, <1>4 DEF Counted, SameTimes
<1>6. TendedTo(x, t, h, open)
  BY <1>1 DEF TendedTo, SameTimes, InTime
<1> QED BY <1>1, <1>5, <1>6 DEF Sound

\* An item whose time is over, in the middle of the visit of its entry.  What it
\* decays to is listed, has no time to keep, or is stuck.
LEMMA DecayedSound ==
  ASSUME NEW r \in AnyItem, NEW t \in Nat, NEW owed \in Int, NEW h \in Bucket, NEW open \in BOOLEAN,
         Counted(r, t, owed, h, open), r.placed, r.kind \in Kind, To[r.kind] # Never,
         NEW x, x = Decayed(r)
  PROVE  /\ x \in AnyItem /\ Counted(x, t, owed, h, open) /\ TendedTo(x, t, h, open)
         /\ x.kind \in Kind
<1>1. CASE To[r.kind] = Gone
  <2>1. x = Removed(r)
    BY <1>1 DEF Decayed
  <2>2. x.kind = r.kind
    BY <2>1, RemovedFields
  <2> QED BY <2>1, <2>2, RemovedCounted
<1>2. CASE To[r.kind] # Gone
  <2>1. PICK k : k = To[r.kind]
    OBVIOUS
  <2>2. k \in Kind /\ k \notin Stop /\ r.kind \notin Stop
    BY <1>2, <2>1, KindAssumption, DataAssumption
  <2>3. PICK y : y = SetID(r, k)
    OBVIOUS
  <2>4. y \in AnyItem /\ Counted(y, t, owed, h, open) /\ y.kind = k
    BY <2>2, <2>3, SetIDCounted
  <2> DEFINE b == y.stuck \/ Timeless(k)
  <2>5. PICK z : z = [y EXCEPT !.stuck = b]
    OBVIOUS
  <2>6. x = StartDecay(z)
    BY <1>2, <2>1, <2>3, <2>5 DEF Decayed
  <2>7. b \in BOOLEAN
    OBVIOUS
  <2>8. Timeless(k) => b
    OBVIOUS
  <2> HIDE DEF b
  <2>9. /\ z \in AnyItem /\ z.stuck = b
        /\ z.kind = y.kind /\ z.placed = y.placed /\ z.left = y.left /\ z.marked = y.marked
        /\ z.refs = y.refs /\ z.in = y.in /\ z.fresh = y.fresh /\ z.release = y.release
        /\ z.twice = y.twice
    BY <2>4, <2>5, <2>7 DEF AnyItem
  <2>10. Counted(z, t, owed, h, open)
    <3>1. Never \notin Kind
      BY KindAssumption
    <3> QED BY <2>2, <2>4, <2>9, <3>1 DEF Counted
  <2>11. TendedTo(z, t, h, open)
    <3> SUFFICES ASSUME z.marked PROVE z.stuck
      BY DEF TendedTo
    <3>1. y.marked <=> r.marked
             /\ ~(Time[k] = 0 /\ k \notin Stop /\ To[k] = Never)
             /\ ~(Time[k] > 0 /\ (r.kind \notin Stop \/ r.left = NoTime))
      BY <2>2, <2>3, SetIDFields
    <3>2. Time[k] \in Nat
      BY <2>2, KindAssumption
    <3>3. Time[k] = 0 /\ To[k] # Never
      BY <2>2, <2>9, <3>1, <3>2
    <3> QED BY <2>8, <2>9, <3>3 DEF Timeless
  <2> QED BY <2>2, <2>4, <2>6, <2>9, <2>10, <2>11, StartDecayTends
<1> QED BY <1>1, <1>2

\* cleanup, in a closed round or at its end: what was listed is put where it is
\* visited in time.
LEMMA CleanedSound ==
  ASSUME NEW r, NEW h \in Bucket, NEW open \in BOOLEAN, Sound(r, 0, h, open),
         NEW x, x = Cleaned(r, h)
  PROVE  Sound(x, 0, h, FALSE)
<1> DEFINE to == IF r.left >= Round THEN h ELSE (h + 1 + Duration(r) \div 1000) % 4
<1>1. r \in AnyItem /\ Counted(r, 0, 0, h, open) /\ TendedTo(r, 0, h, open)
  BY DEF Sound
<1>2. /\ r.in \in [Bucket -> Nat] /\ r.fresh \in Nat /\ r.refs \in Int /\ r.release \in Nat
      /\ r.left \in Int /\ r.due \in Int
  BY <1>1 DEF AnyItem
<1>3. to = (IF r.left >= Round THEN h ELSE (h + 1) % 4)
  <2> SUFFICES ASSUME ~(r.left >= Round) PROVE Duration(r) \div 1000 = 0
    BY DEF Bucket
  <2>1. Duration(r) \in 0 .. 999
    <3>1. r.left \in Int /\ r.left >= -1 /\ r.left < 1000
      BY <1>1, <1>2 DEF Counted, Round, Interval, NoTime
    <3> QED BY <3>1 DEF Duration, NoTime
  <2> QED BY <2>1
<1>4. to \in Bucket
  BY <1>3, Circle
<1> HIDE DEF to
<1> DEFINE n == r.refs - r.release
           g == [r.in EXCEPT ![to] = r.in[to] + r.fresh]
<1>5. n \in Int /\ r.in[to] \in Nat /\ r.in[to] + r.fresh \in Nat
  BY <1>2, <1>4
<1>6. /\ g \in [Bucket -> Nat] /\ g[to] = r.in[to] + r.fresh
      /\ \A b \in Bucket : b # to => g[b] = r.in[b]
      /\ Sum(g) = Sum(r.in) + r.fresh
  <2>1. /\ g \in [Bucket -> Nat] /\ g[to] = r.in[to] + r.fresh
        /\ \A b \in Bucket : b # to => g[b] = r.in[b]
        /\ Sum(g) = Sum(r.in) - r.in[to] + (r.in[to] + r.fresh)
    BY <1>2, <1>4, <1>5, SumChanged
  <2> QED BY <1>2, <1>5, <2>1, Sums
<1>7. PICK j : j = [r EXCEPT !.refs = n, !.release = 0, !.in = g, !.fresh = 0]
  OBVIOUS
<1>8. x = IF j.refs = 0 THEN Free ELSE j
  BY <1>7 DEF Cleaned, to
<1> HIDE DEF n, g
<1>9. /\ j \in AnyItem
      /\ j.kind = r.kind /\ j.placed = r.placed /\ j.left = r.left /\ j.marked = r.marked
      /\ j.refs = n /\ j.in = g /\ j.fresh = 0 /\ j.release = 0
      /\ j.due = r.due /\ j.twice = r.twice /\ j.stuck = r.stuck
  BY <1>1, <1>5, <1>6, <1>7 DEF AnyItem
<1>10. Sum(r.in) \in Nat /\ r.refs = Sum(r.in) + r.fresh + r.release + One(r.placed)
      /\ One(r.placed) \in Nat
  BY <1>1, <1>2, Sums DEF Counted, One
<1>11. CASE j.refs = 0
  BY <1>8, <1>11, FreeSound
<1>12. CASE j.refs # 0
  <2>1. r.kind \in Kind
    <3>1. r # Free
      <4>1. CASE r = Free
        <5>1. r.refs = 0 /\ r.release = 0
          BY <4>1, FreeFields
        <5> QED BY <1>9, <1>12, <5>1 DEF n
      <4> QED BY <4>1
    <3> QED BY <1>1, <3>1 DEF Counted
  <2>2. Counted(j, 0, 0, h, FALSE)
    <3>1. j.refs = Sum(j.in) + j.fresh + j.release + One(j.placed) + 0
      BY <1>2, <1>6, <1>9, <1>10 DEF n
    <3>2. ~j.twice => Sum(j.in) + j.fresh <= 1
      BY <1>1, <1>2, <1>6, <1>9, <1>10 DEF Counted
    <3> QED BY <1>1, <1>9, <2>1, <3>1, <3>2 DEF Counted
  <2>3. TendedTo(j, 0, h, FALSE)
    <3> SUFFICES ASSUME j.placed, j.marked, ~j.stuck
                 PROVE  /\ Sum(j.in) + j.fresh > 0 /\ j.left > 0
                        /\ ~j.twice => InTime(j, 0, h, FALSE)
      BY DEF TendedTo
    <3>1. /\ Sum(r.in) + r.fresh > 0 /\ r.left > 0
          /\ ~r.twice => InTime(r, 0, h, open)
      BY <1>1, <1>9 DEF TendedTo
    <3>2. Sum(j.in) + j.fresh > 0 /\ j.left > 0
      BY <1>2, <1>6, <1>9, <1>10, <3>1
    <3>3. ASSUME ~j.twice PROVE InTime(j, 0, h, FALSE)
      <4>1. /\ r.fresh > 0 => r.due >= r.left - Interval * One(open)
            /\ \A b \in Bucket : r.in[b] > 0 =>
                 r.due - Interval * Wait(b, 0, h, open) >= Slack(r.left)
        BY <1>9, <3>1, <3>3 DEF InTime
      <4>2. ASSUME NEW b \in Bucket, j.in[b] > 0
            PROVE  j.due - Interval * Wait(b, 0, h, FALSE) >= Slack(j.left)
        <5>1. Wait(b, 0, h, open) = Ahead(h, b) /\ Wait(b, 0, h, FALSE) = Ahead(h, b)
          BY DEF Wait
        <5>2. CASE r.in[b] > 0
          BY <1>9, <4>1, <5>1, <5>2
        <5>3. CASE ~(r.in[b] > 0)
          <6>1. b = to /\ r.fresh > 0
            BY <1>2, <1>6, <1>9, <4>2, <5>3
          <6>2. r.due >= r.left - 250
            BY <1>2, <4>1, <6>1 DEF Interval, One
          <6>3. CASE r.left >= Round
            <7>1. Ahead(h, b) = 4
              BY <1>3, <6>1, <6>3, Circle
            <7>2. Wait(b, 0, h, FALSE) = 4 /\ j.left = r.left /\ j.due = r.due
              BY <1>9, <5>1, <7>1
            <7>3. r.due - 250 * 4 >= r.left - 1000 - 250
              BY <1>2, <6>2
            <7>4. Slack(r.left) = r.left - 1000 - 250
              BY <1>2, <6>3 DEF Slack, Round, Interval
            <7>5. r.due - 250 * 4 >= Slack(r.left)
              BY <7>3, <7>4
            <7> QED BY <7>2, <7>5 DEF Interval
          <6>4. CASE ~(r.left >= Round)
            <7>1. Ahead(h, b) = 1
              BY <1>3, <6>1, <6>4, Circle
            <7>2. Wait(b, 0, h, FALSE) = 1 /\ j.left = r.left /\ j.due = r.due
              BY <1>9, <5>1, <7>1
            <7>3. r.due - 250 * 1 >= r.left - 2 * 250
              BY <1>2, <6>2
            <7> QED BY <1>2, <6>4, <7>2, <7>3 DEF Slack, Round, Interval
          <6> QED BY <6>3, <6>4
        <5> QED BY <5>2, <5>3
      <4>3. ~(j.fresh > 0)
        BY <1>9
      <4> QED BY <4>2, <4>3 DEF InTime
    <3> QED BY <3>2, <3>3
  <2> QED BY <1>8, <1>9, <1>12, <2>2, <2>3 DEF Sound
<1> QED BY <1>11, <1>12

\* The begin of a round takes an interval off due, and every bucket is one closer.
LEMMA RoundSound ==
  ASSUME NEW r, NEW h \in Bucket, Sound(r, 0, h, FALSE), NEW n \in Bucket, n = (h + 1) % 4,
         NEW x, x = IF r.kind \in Kind /\ r.due > -Round THEN [r EXCEPT !.due = r.due - Interval] ELSE r
  PROVE  Sound(x, r.in[n], n, TRUE)
<1>1. r \in AnyItem /\ Counted(r, 0, 0, h, FALSE) /\ TendedTo(r, 0, h, FALSE)
  BY DEF Sound
<1>2. /\ r.in \in [Bucket -> Nat] /\ r.fresh \in Nat /\ r.left \in Int /\ r.due \in Int
      /\ r.in[n] \in Nat
  BY <1>1 DEF AnyItem
<1> DEFINE d == IF r.kind \in Kind /\ r.due > -Round THEN r.due - Interval ELSE r.due
<1>3. d \in Int
  BY <1>2 DEF Interval
<1>4. x = r \/ x = [r EXCEPT !.due = d]
  OBVIOUS
<1>5. x = r => d = r.due
  <2>1. CASE r.kind \in Kind /\ r.due > -Round
    <3>1. x = r => x.due = r.due
      OBVIOUS
    <3>2. x.due = r.due - Interval
      BY <1>1, <2>1 DEF AnyItem
    <3> QED BY <2>1, <3>1, <3>2
  <2> QED BY <2>1
<1> HIDE DEF d
<1>6. /\ x \in AnyItem
      /\ x.kind = r.kind /\ x.placed = r.placed /\ x.left = r.left /\ x.marked = r.marked
      /\ x.refs = r.refs /\ x.in = r.in /\ x.fresh = r.fresh /\ x.release = r.release
      /\ x.due = d /\ x.twice = r.twice /\ x.stuck = r.stuck
  BY <1>1, <1>3, <1>4, <1>5 DEF AnyItem
<1>7. r = Free => x = r
  <2>1. Never \notin Kind
    BY KindAssumption
  <2> QED BY <2>1, FreeFields
<1>8. Counted(x, r.in[n], 0, n, TRUE)
  BY <1>1, <1>2, <1>6, <1>7 DEF Counted
<1>9. TendedTo(x, r.in[n], n, TRUE)
  <2> SUFFICES ASSUME x.placed, x.marked, ~x.stuck
               PROVE  /\ Sum(x.in) + x.fresh > 0 /\ x.left > 0
                      /\ ~x.twice => InTime(x, r.in[n], n, TRUE)
    BY DEF TendedTo
  <2>1. /\ Sum(r.in) + r.fresh > 0 /\ r.left > 0
        /\ ~r.twice => InTime(r, 0, h, FALSE)
    BY <1>1, <1>6 DEF TendedTo
  <2>2. r.kind \in Kind
    <3>1. r # Free
      BY <1>6, FreeFields
    <3> QED BY <1>1, <3>1 DEF Counted
  <2>3. ASSUME ~x.twice PROVE InTime(x, r.in[n], n, TRUE)
    <3>1. /\ r.fresh > 0 => r.due >= r.left
          /\ \A b \in Bucket : r.in[b] > 0 => r.due - Interval * Ahead(h, b) >= Slack(r.left)
      BY <1>2, <1>6, <2>1, <2>3 DEF InTime, Wait, One, Interval
    <3>2. x.fresh > 0 => x.due >= x.left - Interval * One(TRUE)
      BY <1>2, <1>6, <2>1, <2>2, <3>1 DEF d, One, Interval, Round
    <3>3. ASSUME NEW b \in Bucket, x.in[b] > 0
          PROVE  x.due - Interval * Wait(b, r.in[n], n, TRUE) >= Slack(x.left)
      <4>1. r.due - Interval * Ahead(h, b) >= Slack(r.left) /\ Ahead(h, b) \in 1 .. 4
        BY <1>6, <3>1, <3>3, Circle
      <4>2. Slack(r.left) > -500 /\ Slack(r.left) \in Int
        BY <1>2, <2>1 DEF Slack, Round, Interval
      <4>3. x.due = r.due - Interval
        <5>1. r.due > -Round
          BY <1>2, <4>1, <4>2 DEF Interval, Round
        <5> QED BY <1>6, <2>2, <5>1 DEF d
      <4>4. Wait(b, r.in[n], n, TRUE) = Ahead(h, b) - 1
        <5>1. CASE b = n
          <6>1. Ahead(h, b) = 1
            BY <5>1, Circle
          <6> QED BY <1>6, <3>3, <5>1, <6>1 DEF Wait
        <5>2. CASE b # n
          BY <5>2, Circle DEF Wait
        <5> QED BY <5>1, <5>2
      <4>5. PICK a \in 1 .. 4 : a = Ahead(h, b)
        BY <4>1
      <4>6. PICK l \in Int : l = Slack(r.left)
        BY <4>2
      <4>7. (r.due - 250) - 250 * (a - 1) >= l
        BY <1>2, <4>1, <4>5, <4>6 DEF Interval
      <4>8. x.left = r.left /\ x.due = r.due - 250
        BY <1>6, <4>3 DEF Interval
      <4>9. Wait(b, r.in[n], n, TRUE) = a - 1
        BY <4>4, <4>5
      <4> QED BY <4>6, <4>7, <4>8, <4>9 DEF Interval
    <3> QED BY <3>2, <3>3 DEF InTime
  <2> QED BY <1>6, <2>1, <2>3
<1> QED BY <1>6, <1>8, <1>9 DEF Sound

-----------------------------------------------------------------------------
(* A visit *)

Erased(r, h, l, m) == [r EXCEPT !.left = l, !.marked = m, !.in = [r.in EXCEPT ![h] = r.in[h] - 1]]

ErasedOf(x, r, h) ==
  /\ x.kind = r.kind /\ r.kind \in Kind /\ x.placed = r.placed
  /\ x.due = r.due /\ x.twice = r.twice /\ x.stuck = r.stuck
  /\ x.fresh = r.fresh /\ x.in \in [Bucket -> Nat]
  /\ x.in[h] = r.in[h] - 1 /\ \A b \in Bucket : b # h => x.in[b] = r.in[b]
  /\ Sum(x.in) = Sum(r.in) - 1

Erasable(r, t, u, l, m, h, open) ==
  /\ r \in AnyItem /\ h \in Bucket /\ open = TRUE
  /\ t \in Nat /\ t > 0 /\ u = t - 1
  /\ Counted(r, t, 0, h, open)
  /\ l \in Int /\ (l >= 0 \/ l = r.left)
  /\ m \in BOOLEAN /\ (m => r.marked)

\* The entry is erased: the item has a reference too many until it is given back.
LEMMA ErasedCounted ==
  ASSUME NEW r, NEW t, NEW u, NEW l, NEW m, NEW h, NEW open,
         Erasable(r, t, u, l, m, h, open), NEW x, x = Erased(r, h, l, m)
  PROVE  /\ x \in AnyItem /\ Counted(x, u, 1, h, open)
         /\ x.left = l /\ x.marked = m /\ ErasedOf(x, r, h)
<1> USE DEF Erasable
<1> DEFINE g == [r.in EXCEPT ![h] = r.in[h] - 1]
<1>1. /\ r.in \in [Bucket -> Nat] /\ r.fresh \in Nat /\ r.refs \in Int /\ r.release \in Nat
      /\ r.left \in Int /\ r.in[h] \in Nat
  BY DEF AnyItem
<1>2. t <= r.in[h]
  BY DEF Counted
<1>3. r.in[h] - 1 \in Nat
  BY <1>1, <1>2
<1>4. /\ g \in [Bucket -> Nat] /\ g[h] = r.in[h] - 1
      /\ \A b \in Bucket : b # h => g[b] = r.in[b]
      /\ Sum(g) = Sum(r.in) - 1
  <2>1. /\ g \in [Bucket -> Nat] /\ g[h] = r.in[h] - 1
        /\ \A b \in Bucket : b # h => g[b] = r.in[b]
        /\ Sum(g) = Sum(r.in) - r.in[h] + (r.in[h] - 1)
    BY <1>1, <1>3, SumChanged
  <2> QED BY <1>1, <2>1, Sums
<1> HIDE DEF g
<1>5. x = [r EXCEPT !.left = l, !.marked = m, !.in = g]
  BY DEF g, Erased
<1>6. /\ x \in AnyItem
      /\ x.kind = r.kind /\ x.placed = r.placed /\ x.left = l /\ x.marked = m
      /\ x.refs = r.refs /\ x.in = g /\ x.fresh = r.fresh /\ x.release = r.release
      /\ x.due = r.due /\ x.twice = r.twice /\ x.stuck = r.stuck
  BY <1>4, <1>5 DEF AnyItem
<1>7. r.kind \in Kind
  <2>1. r # Free
    <3>1. r = Free => r.in[h] = 0
      BY FreeFields
    <3> QED BY <1>1, <1>2, <3>1
  <2> QED BY <2>1 DEF Counted
<1>8. Sum(r.in) \in Nat /\ One(r.placed) \in Nat
  BY <1>1, Sums DEF One
<1>9. x.refs = Sum(x.in) + x.fresh + x.release + One(x.placed) + 1
  <2>1. r.refs = Sum(r.in) + r.fresh + r.release + One(r.placed)
    BY <1>1, <1>8 DEF Counted
  <2> QED BY <1>1, <1>4, <1>6, <1>8, <2>1
<1>10. x.left >= NoTime /\ (x.left = NoTime => Time[x.kind] = 0 /\ ~x.marked)
  <2>1. r.left >= NoTime /\ (r.left = NoTime => Time[r.kind] = 0 /\ ~r.marked)
    BY <1>7 DEF Counted
  <2>2. CASE l >= 0
    BY <1>6, <2>2 DEF NoTime
  <2>3. CASE l = r.left
    BY <1>6, <2>1, <2>3
  <2> QED BY <2>2, <2>3
<1>11. ~x.twice => Sum(x.in) + x.fresh <= 1
  <2>1. ~r.twice => Sum(r.in) + r.fresh <= 1
    BY DEF Counted
  <2> QED BY <1>1, <1>4, <1>6, <1>8, <2>1
<1>12. u <= x.in[h]
  BY <1>1, <1>2, <1>4, <1>6
<1> QED BY <1>4, <1>6, <1>7, <1>9, <1>10, <1>11, <1>12 DEF Counted, ErasedOf

LEMMA VisitedSound ==
  ASSUME NEW r, NEW t \in Nat, t > 0, NEW u \in Nat, u = t - 1, NEW h \in Bucket, NEW open \in BOOLEAN, open # FALSE,
         Sound(r, t, h, open), NEW x, x = Visited(r, h)
  PROVE  Sound(x, u, h, open)
<1> DEFINE left == IF Duration(r) < Round THEN 0 ELSE Duration(r) - Round
           less == [r EXCEPT !.left = left]
           off  == [less EXCEPT !.in[h] = @ - 1]
           next == (h + (left + Interval \div 2) \div 1000) % 4
           over == left = 0 \/ (left < Round /\ next = h)
           soon == left > 0 /\ left < Round /\ next # h
<1>1. r \in AnyItem /\ Counted(r, t, 0, h, open) /\ TendedTo(r, t, h, open)
  BY DEF Sound
<1>2. /\ r.in \in [Bucket -> Nat] /\ r.fresh \in Nat /\ r.left \in Int /\ r.due \in Int
      /\ r.marked \in BOOLEAN
  BY <1>1 DEF AnyItem
<1>3. t <= r.in[h] /\ (~r.twice => Sum(r.in) + r.fresh <= 1) /\ Sum(r.in) \in Nat
      /\ \A b \in Bucket : r.in[b] \in Nat /\ r.in[b] <= Sum(r.in)
  BY <1>1, <1>2, Sums DEF Counted
\* Listed once, the entry that is visited is the only one.
<1>4. ~r.twice => t = 1 /\ r.in[h] = 1 /\ r.fresh = 0 /\ \A b \in Bucket : b # h => r.in[b] = 0
  <2> SUFFICES ASSUME ~r.twice
               PROVE  t = 1 /\ r.in[h] = 1 /\ r.fresh = 0 /\ \A b \in Bucket : b # h => r.in[b] = 0
    OBVIOUS
  <2>1. t = 1 /\ r.in[h] = 1 /\ r.fresh = 0 /\ Sum(r.in) = 1
    BY <1>2, <1>3
  <2>2. ASSUME NEW b \in Bucket, b # h PROVE r.in[b] = 0
    <3>1. PICK v \in Nat : v = 0
      OBVIOUS
    <3>2. PICK g : g = [r.in EXCEPT ![h] = v]
      OBVIOUS
    <3>3. g \in [Bucket -> Nat] /\ g[b] = r.in[b] /\ Sum(g) = Sum(r.in) - r.in[h] + v
      BY <1>2, <2>2, <3>1, <3>2, SumChanged
    <3>4. r.in[b] <= Sum(g)
      BY <2>2, <3>3, Sums
    <3> QED BY <1>3, <2>1, <3>1, <3>3, <3>4
  <2> QED BY <2>1, <2>2
<1>5. CASE ~CanDecay(r)
  <2>1. PICK m \in BOOLEAN : m = FALSE
    OBVIOUS
  <2>2. PICK y : y = [r EXCEPT !.marked = FALSE, !.in[h] = @ - 1]
    OBVIOUS
  <2> PICK l \in Int : l = r.left
    BY <1>2
  <2>3. y = Erased(r, h, l, m)
    BY <1>1, <2>1, <2>2 DEF AnyItem, Erased
  <2>4. y \in AnyItem /\ Counted(y, u, 1, h, open) /\ y.marked = m /\ y.kind \in Kind
    <3>1. Erasable(r, t, u, l, m, h, open)
      BY <1>1, <2>1 DEF Erasable
    <3> QED BY <2>3, <3>1, ErasedCounted DEF ErasedOf
  <2>5. TendedTo(y, u, h, open)
    BY <2>1, <2>4 DEF TendedTo
  <2>6. x = Released(y)
    BY <1>5, <2>2 DEF Visited
  <2>7. PICK one \in Int : one = 1
    OBVIOUS
  <2> QED BY <1>2, <2>4, <2>5, <2>6, <2>7, ReleasedSound
<1>6. CASE CanDecay(r)
  <2>1. r.placed /\ To[r.kind] # Never /\ r.kind \in Kind
    <3>1. r # Free
      BY <1>6, FreeFields DEF CanDecay
    <3> QED BY <1>1, <1>6, <3>1 DEF CanDecay, Counted
  <2>2. r.left > 0
    <3>1. r.left # 0 /\ (r.left = NoTime => Time[r.kind] # 0)
      BY <1>6 DEF CanDecay
    <3>2. r.left >= NoTime /\ (r.left = NoTime => Time[r.kind] = 0)
      BY <1>1, <2>1 DEF Counted
    <3> QED BY <1>2, <3>1, <3>2 DEF NoTime
  <2>3. left = IF r.left < Round THEN 0 ELSE r.left - Round
    BY <1>2, <2>2 DEF Duration, NoTime
  <2>4. left \in Int /\ left >= 0 /\ (left > 0 => left = r.left - Round)
    BY <1>2, <2>3 DEF Round, Interval
  <2> HIDE DEF left
  <2>5. off = Erased(r, h, left, r.marked)
    BY <1>1, <2>4 DEF AnyItem, Erased
  <2>6. /\ off \in AnyItem /\ Counted(off, u, 1, h, open)
        /\ off.left = left /\ off.marked = r.marked /\ ErasedOf(off, r, h)
    <3>1. PICK y : y = off
      OBVIOUS
    <3>2. PICK l \in Int : l = left
      BY <2>4
    <3>3. PICK m \in BOOLEAN : m = r.marked
      BY <1>2
    <3>4. y = Erased(r, h, l, m) /\ Erasable(r, t, u, l, m, h, open)
      BY <1>1, <2>4, <2>5, <3>1, <3>2, <3>3 DEF Erasable
    <3> HIDE DEF off
    <3>5. y \in AnyItem /\ Counted(y, u, 1, h, open) /\ y.left = l /\ y.marked = m /\ ErasedOf(y, r, h)
      BY <3>4, ErasedCounted
    <3> QED BY <3>1, <3>2, <3>3, <3>5
\* Listed once, it was due for this visit.
  <2>7. r.marked /\ ~r.stuck /\ ~r.twice =>
           (r.left >= Round => r.due >= r.left - Round - Interval)
    <3> SUFFICES ASSUME r.marked, ~r.stuck, ~r.twice, r.left >= Round
                 PROVE  r.due >= r.left - Round - Interval
      OBVIOUS
    <3>1. r.due - Interval * Wait(h, t, h, open) >= Slack(r.left)
      BY <1>1, <1>4, <2>1 DEF TendedTo, InTime
    <3>2. Wait(h, t, h, open) = 0
      BY DEF Wait
    <3>3. Slack(r.left) = r.left - Round - Interval
      BY DEF Slack
    <3> QED BY <1>2, <3>1, <3>2, <3>3 DEF Interval, Round
  <2>8. CASE over
    <3>1. PICK y : y = Decayed(off)
      OBVIOUS
    <3>2. x = Released(y)
      BY <1>6, <2>8, <3>1 DEF Visited, left
    <3>3. PICK one \in Int : one = 1
      OBVIOUS
    <3> HIDE DEF off
    <3>4. /\ y \in AnyItem /\ Counted(y, u, one, h, open) /\ TendedTo(y, u, h, open)
          /\ y.kind \in Kind
      BY <1>2, <2>1, <2>6, <3>1, <3>3, DecayedSound DEF ErasedOf
    <3> QED BY <1>2, <3>2, <3>3, <3>4, ReleasedSound
  <2>9. CASE soon
    <3>1. next = (h + 1) % 4 /\ next # h /\ next \in Bucket
      <4>1. (left + 125) \div 1000 = 0 \/ (left + 125) \div 1000 = 1
        BY <2>4, <2>9 DEF Round, Interval
      <4>2. Interval \div 2 = 125
        BY DEF Interval
      <4>3. h \in 0 .. 3 /\ h % 4 = h
        BY DEF Bucket
      <4>4. next = (h + (left + 125) \div 1000) % 4
        BY <4>2
      <4>5. next # h
        BY <2>9
      <4>6. next = (h + 1) % 4
        BY <4>1, <4>3, <4>4, <4>5
      <4> QED BY <4>5, <4>6, Circle
    <3>2. x = [off EXCEPT !.in[next] = @ + 1]
      BY <1>6, <2>9 DEF Visited, left
    <3> HIDE DEF next, off
    <3> DEFINE g == [off.in EXCEPT ![next] = off.in[next] + 1]
    <3>3. /\ off.in \in [Bucket -> Nat] /\ off.fresh \in Nat /\ off.release \in Nat
          /\ off.refs \in Int /\ off.in[next] \in Nat
      BY <2>6, <3>1 DEF AnyItem
    <3>4. /\ g \in [Bucket -> Nat] /\ g[next] = off.in[next] + 1
          /\ \A b \in Bucket : b # next => g[b] = off.in[b]
          /\ Sum(g) = Sum(off.in) + 1
      <4>1. off.in[next] + 1 \in Nat
        BY <3>3
      <4>2. /\ g \in [Bucket -> Nat] /\ g[next] = off.in[next] + 1
            /\ \A b \in Bucket : b # next => g[b] = off.in[b]
            /\ Sum(g) = Sum(off.in) - off.in[next] + (off.in[next] + 1)
        BY <3>1, <3>3, <4>1, SumChanged
      <4> QED BY <3>3, <4>2, Sums
    <3>5. x = [off EXCEPT !.in = g]
      BY <3>2
    <3> HIDE DEF g
    <3>6. /\ x \in AnyItem
          /\ x.kind = off.kind /\ x.placed = off.placed /\ x.left = off.left /\ x.marked = off.marked
          /\ x.refs = off.refs /\ x.in = g /\ x.fresh = off.fresh /\ x.release = off.release
          /\ x.due = off.due /\ x.twice = off.twice /\ x.stuck = off.stuck
      BY <2>6, <3>4, <3>5 DEF AnyItem
    <3>7. /\ x.kind = r.kind /\ x.placed = r.placed /\ x.left = left /\ x.marked = r.marked
          /\ x.fresh = r.fresh /\ x.due = r.due /\ x.twice = r.twice /\ x.stuck = r.stuck
          /\ Sum(x.in) = Sum(r.in) /\ x.in[h] = r.in[h] - 1
          /\ x.in[next] = r.in[next] + 1
          /\ \A b \in Bucket : b # next /\ b # h => x.in[b] = r.in[b]
      BY <1>3, <2>6, <3>1, <3>4, <3>6 DEF ErasedOf
    <3>8. x.refs = Sum(x.in) + x.fresh + x.release + One(x.placed) + 0
      <4>1. off.refs = Sum(off.in) + off.fresh + off.release + One(off.placed) + 1
        BY <2>6 DEF Counted
      <4>2. Sum(off.in) \in Nat /\ One(off.placed) \in Nat
        BY <3>3, Sums DEF One
      <4> QED BY <3>3, <3>4, <3>6, <4>1, <4>2
    <3>9. u <= x.in[h]
      BY <1>3, <3>7
    <3>10. Counted(x, u, 0, h, open)
      <4>1. ~(x.left = NoTime) /\ x.left >= NoTime
        BY <2>4, <3>7 DEF NoTime
      <4> QED BY <1>3, <2>1, <3>7, <3>8, <3>9, <4>1 DEF Counted
    <3>11. ~r.twice /\ r.marked /\ ~r.stuck => InTime(x, u, h, open)
      <4> SUFFICES ASSUME ~r.twice, r.marked, ~r.stuck PROVE InTime(x, u, h, open)
        OBVIOUS
      <4>1. ~(x.fresh > 0)
        BY <1>4, <3>7
      <4>2. ASSUME NEW b \in Bucket, x.in[b] > 0
            PROVE  x.due - Interval * Wait(b, u, h, open) >= Slack(x.left)
        <5>1. b = next
          BY <1>3, <1>4, <3>7, <4>2
        <5>2. Wait(b, u, h, open) = 1
          BY <3>1, <5>1, Circle DEF Wait
        <5>3. Slack(x.left) = left - 500
          BY <2>4, <2>9, <3>7 DEF Slack, Interval, Round
        <5>4. r.due >= r.left - Round - Interval /\ left = r.left - Round
          BY <1>2, <2>4, <2>9, <2>7 DEF Round, Interval
        <5> QED BY <1>2, <2>4, <3>7, <5>2, <5>3, <5>4 DEF Round, Interval
      <4> QED BY <4>1, <4>2 DEF InTime
    <3>12. TendedTo(x, u, h, open)
      <4>1. r.placed /\ r.marked /\ ~r.stuck => Sum(r.in) + r.fresh > 0
        BY <1>1 DEF TendedTo
      <4>2. x.left > 0
        BY <2>9, <3>7
      <4> QED BY <3>7, <3>11, <4>1, <4>2 DEF TendedTo
    <3> QED BY <3>6, <3>10, <3>12 DEF Sound
  <2>10. CASE ~over /\ ~soon
    <3>1. left >= Round
      BY <2>4, <2>10 DEF Round, Interval
    <3>2. x = less
      BY <1>6, <2>10, <2>4 DEF Visited, left
    <3>3. /\ x \in AnyItem
          /\ x.kind = r.kind /\ x.placed = r.placed /\ x.left = left /\ x.marked = r.marked
          /\ x.refs = r.refs /\ x.in = r.in /\ x.fresh = r.fresh /\ x.release = r.release
          /\ x.due = r.due /\ x.twice = r.twice /\ x.stuck = r.stuck
      BY <1>1, <2>4, <3>2 DEF AnyItem
    <3>4. u <= x.in[h]
      BY <1>3, <3>3
    <3>5. Counted(x, u, 0, h, open)
      <4>1. ~(x.left = NoTime) /\ x.left >= NoTime
        BY <2>4, <3>3 DEF NoTime
      <4> QED BY <1>1, <2>1, <3>3, <3>4, <4>1 DEF Counted
    <3>6. ~r.twice /\ r.marked /\ ~r.stuck => InTime(x, u, h, open)
      <4> SUFFICES ASSUME ~r.twice, r.marked, ~r.stuck PROVE InTime(x, u, h, open)
        OBVIOUS
      <4>1. ~(x.fresh > 0)
        BY <1>4, <3>3
      <4>2. ASSUME NEW b \in Bucket, x.in[b] > 0
            PROVE  x.due - Interval * Wait(b, u, h, open) >= Slack(x.left)
        <5>1. b = h
          BY <1>3, <1>4, <3>3, <4>2
        <5>2. Wait(b, u, h, open) = 4
          BY <1>4, <5>1, Circle DEF Wait
        <5>3. Slack(x.left) = left - Round - Interval
          BY <3>1, <3>3 DEF Slack
        <5>4. r.due >= r.left - Round - Interval /\ left = r.left - Round
          BY <1>2, <2>4, <2>7, <3>1 DEF Round, Interval
        <5> QED BY <1>2, <2>4, <3>3, <5>2, <5>3, <5>4 DEF Round, Interval
      <4> QED BY <4>1, <4>2 DEF InTime
    <3>7. TendedTo(x, u, h, open)
      <4>1. r.placed /\ r.marked /\ ~r.stuck => Sum(r.in) + r.fresh > 0
        BY <1>1 DEF TendedTo
      <4>2. x.left > 0
        BY <2>4, <3>1, <3>3 DEF Round, Interval
      <4> QED BY <3>3, <3>6, <4>1, <4>2 DEF TendedTo
    <3> QED BY <3>3, <3>5, <3>7 DEF Sound
  <2> QED BY <2>8, <2>9, <2>10
<1> QED BY <1>5, <1>6

-----------------------------------------------------------------------------
(* All items *)

LEMMA InitHolds == DecayInit => DecayInv
<1> SUFFICES ASSUME DecayInit PROVE DecayInv
  OBVIOUS
<1>1. At \in Bucket /\ busy \in BOOLEAN /\ last \in Bucket
  <2>1. busy = FALSE /\ last = 0
    BY DEF DecayInit
  <2>2. At = last
    BY <2>1 DEF At
  <2>3. 0 \in Bucket
    BY DEF Bucket
  <2> QED BY <2>1, <2>2, <2>3
<1>2. \A i \in Item : Sound(Free, 0, At, busy)
  BY <1>1, FreeSound
<1>3. item \in [Item -> AnyItem] /\ todo \in [Item -> Nat]
  BY FreeFields DEF DecayInit
<1> QED BY <1>1, <1>2, <1>3 DEF DecayInv, DecayInit

\* Between two rounds.
LEMMA Resting ==
  ASSUME DecayInv, ~busy
  PROVE  /\ At = last /\ last \in Bucket /\ busy = FALSE
         /\ item \in [Item -> AnyItem] /\ todo \in [Item -> Nat]
         /\ \A i \in Item : todo[i] = 0 /\ Sound(item[i], 0, last, busy)
         /\ \A i \in Item : item[i].placed \/ Allocated(i) => item[i].kind \in Kind
<1>1. At = last /\ last \in Bucket /\ busy = FALSE
      /\ item \in [Item -> AnyItem] /\ todo \in [Item -> Nat]
  BY DEF DecayInv, At
<1>2. ASSUME NEW i \in Item PROVE todo[i] = 0 /\ Sound(item[i], 0, last, busy)
  <2>1. Sound(item[i], todo[i], last, busy)
    BY <1>1 DEF DecayInv
  <2>2. todo[i] = 0
    BY <1>1, <2>1 DEF Sound, Counted
  <2> QED BY <2>1, <2>2
<1>3. ASSUME NEW i \in Item, item[i].placed \/ Allocated(i) PROVE item[i].kind \in Kind
  <2>1. item[i].kind \in Kind \/ item[i] = Free
    BY <1>2 DEF Sound, Counted
  <2> QED BY <1>3, <2>1, FreeFields DEF Allocated
<1> QED BY <1>1, <1>2, <1>3

\* A step between rounds that leaves every item sound.
LEMMA RestingStep ==
  ASSUME DecayInv, ~busy, UNCHANGED <<last, todo, busy>>, NEW f,
         item' = [i \in Item |-> f[i]], \A i \in Item : Sound(f[i], 0, last, busy)
  PROVE  DecayInv'
<1>1. /\ At = last /\ last \in Bucket /\ busy = FALSE /\ todo \in [Item -> Nat]
      /\ \A i \in Item : todo[i] = 0
  BY Resting
<1>2. At' = last
  BY <1>1 DEF At
<1>3. \A i \in Item : f[i] \in AnyItem
  BY DEF Sound
<1> QED BY <1>1, <1>2, <1>3 DEF DecayInv

\* One item changes.
LEMMA ChangeHolds ==
  ASSUME DecayInv, NEW i \in Item, NEW new, Change(i, new), Sound(new, 0, last, busy)
  PROVE  DecayInv'
<1> DEFINE f == [item EXCEPT ![i] = new]
<1>1. ~busy /\ UNCHANGED <<last, todo, busy>> /\ item' = f
  BY DEF Change
<1>2. item \in [Item -> AnyItem] /\ \A j \in Item : Sound(item[j], 0, last, busy)
  BY <1>1, Resting
<1>3. f = [j \in Item |-> f[j]] /\ \A j \in Item : f[j] = IF j = i THEN new ELSE item[j]
  BY <1>2
<1>4. \A j \in Item : Sound(f[j], 0, last, busy)
  BY <1>2, <1>3
<1> HIDE DEF f
<1> QED BY <1>1, <1>3, <1>4, RestingStep

\* Two items change.
LEMMA BothHold ==
  ASSUME DecayInv, ~busy, UNCHANGED <<last, todo, busy>>, NEW i \in Item, NEW j \in Item,
         NEW new, NEW copy, item' = [item EXCEPT ![i] = new, ![j] = copy],
         Sound(new, 0, last, busy), Sound(copy, 0, last, busy)
  PROVE  DecayInv'
<1> DEFINE f == [item EXCEPT ![i] = new, ![j] = copy]
<1>1. item \in [Item -> AnyItem] /\ \A k \in Item : Sound(item[k], 0, last, busy)
  BY Resting
<1>2. f = [k \in Item |-> f[k]]
      /\ \A k \in Item : f[k] = IF k = j THEN copy ELSE IF k = i THEN new ELSE item[k]
  BY <1>1
<1>3. \A k \in Item : Sound(f[k], 0, last, busy)
  BY <1>1, <1>2
<1>4. item' = f
  OBVIOUS
<1> HIDE DEF f
<1> QED BY <1>2, <1>3, <1>4, RestingStep

-----------------------------------------------------------------------------
(* One lemma for each action *)

LEMMA CreateHolds == ASSUME DecayInv, NEW i \in Item, NEW k \in Kind, Create(i, k) PROVE DecayInv'
<1>1. ~busy
  BY DEF Create, Change
<1>2. PICK x : x = Created(k)
  OBVIOUS
<1>3. PICK y : y = Tended(x)
  OBVIOUS
<1>4. Sound(x, 0, last, busy) /\ x.kind = k
  BY <1>1, <1>2, CreatedSound, CreatedFields, Resting
<1>5. Sound(y, 0, last, busy)
  BY <1>1, <1>3, <1>4, TendedSound, Resting
<1>6. Change(i, y)
  BY <1>2, <1>3 DEF Create
<1> QED BY <1>5, <1>6, ChangeHolds

LEMMA LoadHolds ==
  ASSUME DecayInv, NEW i \in Item, NEW k \in Kind, NEW d \in Left, Load(i, k, d) PROVE DecayInv'
<1>1. ~busy
  BY DEF Load, Change
<1>2. PICK x : x = Created(k)
  OBVIOUS
<1>3. PICK y : y = [x EXCEPT !.left = d]
  OBVIOUS
<1>4. PICK z : z = StartDecay(y)
  OBVIOUS
<1>5. Sound(x, 0, last, busy) /\ x.kind = k /\ x.marked = FALSE
  BY <1>1, <1>2, CreatedSound, CreatedFields, Resting
<1>6. d \in Nat /\ d > 0
  BY KindAssumption
<1>7. /\ y \in AnyItem /\ y.left = d
      /\ y.kind = x.kind /\ y.placed = x.placed /\ y.marked = x.marked
      /\ y.refs = x.refs /\ y.in = x.in /\ y.fresh = x.fresh /\ y.release = x.release
      /\ y.twice = x.twice
  BY <1>3, <1>5, <1>6 DEF Sound, AnyItem
<1>8. Sound(y, 0, last, busy) /\ y.kind \in Kind
  <2>1. ~(y.left = NoTime) /\ y.left >= NoTime
    BY <1>6, <1>7 DEF NoTime
  <2> QED BY <1>5, <1>7, <2>1 DEF Sound, Counted, TendedTo
<1>9. Sound(z, 0, last, busy)
  BY <1>1, <1>4, <1>8, StartDecaySound, Resting
<1>10. Change(i, z)
  BY <1>2, <1>3, <1>4 DEF Load
<1> QED BY <1>9, <1>10, ChangeHolds

LEMMA MoveHolds == ASSUME DecayInv, NEW i \in Item, Move(i) PROVE DecayInv'
<1>1. ~busy
  BY DEF Move, Change
<1>2. PICK x : x = item[i]
  OBVIOUS
<1>3. PICK y : y = Tended(x)
  OBVIOUS
<1>4. Sound(x, 0, last, busy) /\ x.kind \in Kind
  BY <1>1, <1>2, Resting DEF Move
<1>5. Sound(y, 0, last, busy)
  BY <1>1, <1>3, <1>4, TendedSound, Resting
<1>6. Change(i, y)
  BY <1>2, <1>3 DEF Move
<1> QED BY <1>5, <1>6, ChangeHolds

LEMMA NewKind ==
  ASSUME DecayInv, ~busy, NEW i \in Item, item[i].placed, NEW k \in Kind, NEW new,
         new = SetID(item[i], k) \/ new = StartDecay(SetID(item[i], k)), Change(i, new)
  PROVE  DecayInv'
<1>1. PICK x : x = item[i]
  OBVIOUS
<1>2. PICK y : y = SetID(x, k)
  OBVIOUS
<1>3. PICK z : z = StartDecay(y)
  OBVIOUS
<1>4. Sound(x, 0, last, busy) /\ x.kind \in Kind
  BY <1>1, Resting
<1>5. Sound(y, 0, last, busy) /\ y.kind = k
  <2>1. last \in Bucket /\ busy \in BOOLEAN
    BY Resting
  <2> QED BY <1>2, <1>4, <2>1, SetIDSound
<1>6. Sound(z, 0, last, busy)
  BY <1>3, <1>5, StartDecaySound, Resting
<1>7. new = y \/ new = z
  BY <1>1, <1>2, <1>3
<1> QED BY <1>5, <1>6, <1>7, ChangeHolds

LEMMA TransformHolds == ASSUME DecayInv, NEW i \in Item, NEW k \in Kind, Transform(i, k) PROVE DecayInv'
<1>1. ~busy
  BY DEF Transform, Change
<1> QED BY <1>1, NewKind DEF Transform

LEMMA EquipHolds == ASSUME DecayInv, NEW i \in Item, Equip(i) PROVE DecayInv'
<1>1. ~busy /\ item[i].placed
  BY DEF Equip, Change
<1>2. Worn[item[i].kind] \in Kind
  BY <1>1, Resting, KindAssumption
<1> QED BY <1>1, <1>2, NewKind DEF Equip

LEMMA RemovedHolds ==
  ASSUME DecayInv, ~busy, NEW i \in Item, item[i].placed
  PROVE  Sound(Removed(item[i]), 0, last, busy)
<1>1. PICK x : x = item[i]
  OBVIOUS
<1>2. PICK y : y = Removed(x)
  OBVIOUS
<1>3. Sound(x, 0, last, busy) /\ x.kind \in Kind /\ x.placed
  BY <1>1, Resting
<1>4. Sound(y, 0, last, busy)
  <2>1. last \in Bucket /\ busy \in BOOLEAN
    BY Resting
  <2>2. x \in AnyItem /\ Counted(x, 0, 0, last, busy)
    BY <1>3 DEF Sound
  <2> QED BY <1>2, <1>3, <2>1, <2>2, RemovedCounted DEF Sound
<1> QED BY <1>1, <1>2, <1>4

LEMMA RemoveHolds == ASSUME DecayInv, NEW i \in Item, RemoveItem(i) PROVE DecayInv'
<1>1. ~busy /\ item[i].placed /\ Change(i, Removed(item[i]))
  BY DEF RemoveItem, Change
<1> QED BY <1>1, RemovedHolds, ChangeHolds

LEMMA ReplaceHolds ==
  ASSUME DecayInv, NEW i \in Item, NEW j \in Item, NEW k \in Kind, Replace(i, j, k)
  PROVE  DecayInv'
<1>1. ~busy /\ item[i].placed /\ ~Allocated(j) /\ UNCHANGED <<last, todo, busy>>
  BY DEF Replace
<1>2. PICK x : x = Created(k)
  OBVIOUS
<1>3. PICK y : y = Tended(x)
  OBVIOUS
<1>4. Sound(x, 0, last, busy) /\ x.kind = k
  BY <1>1, <1>2, CreatedSound, CreatedFields, Resting
<1>5. Sound(y, 0, last, busy)
  BY <1>1, <1>3, <1>4, TendedSound, Resting
<1>6. Sound(Removed(item[i]), 0, last, busy)
  BY <1>1, RemovedHolds
<1>7. item' = [item EXCEPT ![i] = Removed(item[i]), ![j] = y]
  BY <1>2, <1>3 DEF Replace
<1> QED BY <1>1, <1>5, <1>6, <1>7, BothHold

LEMMA SplitHolds == ASSUME DecayInv, NEW i \in Item, NEW j \in Item, Split(i, j) PROVE DecayInv'
<1>1. ~busy /\ item[i].placed
  BY DEF Split
<1>2. PICK r : r = item[i]
  OBVIOUS
<1>3. PICK x : x = Created(r.kind)
  OBVIOUS
<1>4. PICK y : y = [x EXCEPT !.left = r.left, !.marked = r.marked, !.stuck = r.stuck]
  OBVIOUS
<1>5. PICK z : z = IF Duration(y) > 0 THEN Listed(y) ELSE y
  OBVIOUS
<1>6. last \in Bucket /\ busy \in BOOLEAN /\ busy = FALSE
  BY <1>1, Resting
<1>7. Sound(r, 0, last, busy) /\ r.kind \in Kind /\ r.placed
  BY <1>1, <1>2, Resting
<1>8. Sound(x, 0, last, busy) /\ x.kind = r.kind
  BY <1>1, <1>3, <1>7, CreatedSound, CreatedFields, Resting
<1>9. r \in AnyItem /\ x \in AnyItem
  BY <1>7, <1>8 DEF Sound
<1>10. /\ y \in AnyItem /\ y.left = r.left /\ y.marked = r.marked /\ y.stuck = r.stuck
       /\ y.kind = x.kind /\ y.placed = x.placed
       /\ y.refs = x.refs /\ y.in = x.in /\ y.fresh = x.fresh /\ y.release = x.release
       /\ y.twice = x.twice
  <2>1. PICK l \in Int : l = r.left
    BY <1>9 DEF AnyItem
  <2>2. PICK m \in BOOLEAN : m = r.marked
    BY <1>9 DEF AnyItem
  <2>3. PICK k \in BOOLEAN : k = r.stuck
    BY <1>9 DEF AnyItem
  <2>4. y = [x EXCEPT !.left = l, !.marked = m, !.stuck = k]
    BY <1>4, <2>1, <2>2, <2>3
  <2>5. /\ y \in AnyItem /\ y.left = l /\ y.marked = m /\ y.stuck = k
        /\ y.kind = x.kind /\ y.placed = x.placed
        /\ y.refs = x.refs /\ y.in = x.in /\ y.fresh = x.fresh /\ y.release = x.release
        /\ y.twice = x.twice
    BY <1>9, <2>4 DEF AnyItem
  <2> QED BY <2>1, <2>2, <2>3, <2>5
<1>11. Counted(y, 0, 0, last, busy) /\ y.kind \in Kind
  BY <1>7, <1>8, <1>10 DEF Sound, Counted
<1>12. y.left > 0 \/ TendedTo(y, 0, last, busy)
  BY <1>7, <1>10 DEF Sound, TendedTo
<1>13. Sound(z, 0, last, busy)
  <2>1. Duration(y) > 0 <=> y.left > 0
    <3>1. y.left \in Int
      BY <1>10 DEF AnyItem
    <3> QED BY <3>1 DEF Duration, NoTime
  <2>2. CASE y.left > 0
    <3>1. z = Listed(y)
      BY <1>5, <2>1, <2>2
    <3> QED BY <1>6, <1>10, <1>11, <2>2, <3>1, ListedSound DEF Sound
  <2>3. CASE ~(y.left > 0)
    <3>1. z = y
      BY <1>5, <2>1, <2>3
    <3> QED BY <1>10, <1>11, <1>12, <2>3, <3>1 DEF Sound
  <2> QED BY <2>2, <2>3
<1>14. Change(j, z)
  BY <1>1, <1>2, <1>3, <1>4, <1>5 DEF Split, Change
<1> QED BY <1>13, <1>14, ChangeHolds

LEMMA CleanupHolds == ASSUME DecayInv, Cleanup PROVE DecayInv'
<1>1. ~busy /\ UNCHANGED <<last, todo, busy>>
  BY DEF Cleanup
<1> DEFINE f == [i \in Item |-> Cleaned(item[i], last)]
<1>2. ASSUME NEW i \in Item PROVE Sound(f[i], 0, last, busy)
  <2>1. PICK x : x = Cleaned(item[i], last)
    OBVIOUS
  <2>2. Sound(item[i], 0, last, busy) /\ last \in Bucket /\ busy \in BOOLEAN /\ busy = FALSE
    BY <1>1, Resting
  <2>3. Sound(x, 0, last, FALSE)
    BY <2>1, <2>2, CleanedSound
  <2> QED BY <2>1, <2>2, <2>3
<1>3. item' = [i \in Item |-> f[i]]
  BY DEF Cleanup
<1> HIDE DEF f
<1> QED BY <1>1, <1>2, <1>3, RestingStep

LEMMA HereIsNext == ASSUME last \in Bucket PROVE Here \in Bucket /\ Here = (last + 1) % 4
BY Circle DEF Here

LEMMA BeginRoundHolds == ASSUME DecayInv, BeginRound PROVE DecayInv'
<1>1. /\ ~busy /\ busy' = TRUE /\ last' = last
      /\ todo' = [i \in Item |-> item[i].in[Here]]
      /\ item' = [i \in Item |-> IF Allocated(i) /\ item[i].due > -Round
                                 THEN [item[i] EXCEPT !.due = item[i].due - Interval] ELSE item[i]]
  BY DEF BeginRound
<1>2. last \in Bucket /\ Here \in Bucket /\ Here = (last + 1) % 4
  BY <1>1, Resting, HereIsNext
<1>3. At' = Here
  BY <1>1 DEF At, Here
<1>4. ASSUME NEW i \in Item PROVE todo'[i] \in Nat /\ Sound(item'[i], todo'[i], Here, TRUE)
  <2>1. PICK r : r = item[i]
    OBVIOUS
  <2>2. PICK n \in Bucket : n = Here
    BY <1>2
  <2>3. PICK x : x = IF r.kind \in Kind /\ r.due > -Round THEN [r EXCEPT !.due = r.due - Interval] ELSE r
    OBVIOUS
  <2>4. Sound(r, 0, last, FALSE)
    <3>1. Sound(r, 0, last, busy) /\ busy = FALSE
      BY <1>1, <2>1, Resting
    <3> QED BY <3>1
  <2>5. Sound(x, r.in[n], n, TRUE)
    BY <1>2, <2>2, <2>3, <2>4, RoundSound
  <2>6. item'[i] = x /\ todo'[i] = r.in[n]
    BY <1>1, <2>1, <2>2, <2>3 DEF Allocated
  <2>7. r.in[n] \in Nat
    BY <2>4 DEF Sound, AnyItem
  <2> QED BY <2>2, <2>5, <2>6, <2>7
<1>5. item' = [i \in Item |-> item'[i]] /\ todo' = [i \in Item |-> todo'[i]]
  BY <1>1
<1>6. \A i \in Item : item'[i] \in AnyItem
  BY <1>4 DEF Sound
<1>7. item' \in [Item -> AnyItem] /\ todo' \in [Item -> Nat]
  BY <1>4, <1>5, <1>6
<1> QED BY <1>1, <1>2, <1>3, <1>4, <1>7 DEF DecayInv

LEMMA VisitHolds == ASSUME DecayInv, NEW i \in Item, Visit(i) PROVE DecayInv'
<1>1. /\ busy /\ todo[i] > 0 /\ last' = last /\ busy' = busy
      /\ todo' = [todo EXCEPT ![i] = todo[i] - 1]
      /\ item' = [item EXCEPT ![i] = Visited(item[i], Here)]
  BY DEF Visit
<1>2. /\ item \in [Item -> AnyItem] /\ todo \in [Item -> Nat] /\ last \in Bucket
      /\ busy \in BOOLEAN /\ busy = TRUE
      /\ At = Here /\ At' = Here /\ Here \in Bucket
  BY <1>1, HereIsNext DEF DecayInv, At, Here
<1>3. \A j \in Item : Sound(item[j], todo[j], Here, busy)
  BY <1>2 DEF DecayInv
<1>4. PICK x : x = Visited(item[i], Here)
  OBVIOUS
<1>5. PICK t \in Nat : t = todo[i]
  BY <1>2
<1>6. PICK u \in Nat : u = t - 1
  BY <1>1, <1>5
<1>7. Sound(x, u, Here, busy)
  <2>1. t > 0 /\ Sound(item[i], t, Here, busy) /\ busy # FALSE
    BY <1>1, <1>2, <1>3, <1>5
  <2> QED BY <1>2, <1>4, <1>6, <2>1, VisitedSound
<1>8. todo' = [todo EXCEPT ![i] = u] /\ item' = [item EXCEPT ![i] = x]
  BY <1>1, <1>4, <1>5, <1>6
<1>9. x \in AnyItem
  BY <1>7 DEF Sound
<1>10. item' \in [Item -> AnyItem] /\ todo' \in [Item -> Nat]
  BY <1>2, <1>8, <1>9
<1>11. \A j \in Item : Sound(item'[j], todo'[j], Here, busy)
  BY <1>2, <1>3, <1>7, <1>8
<1> QED BY <1>1, <1>2, <1>10, <1>11 DEF DecayInv

LEMMA EndRoundHolds == ASSUME DecayInv, EndRound PROVE DecayInv'
<1>1. /\ busy /\ busy' = FALSE /\ last' = Here /\ todo' = todo
      /\ \A i \in Item : todo[i] = 0
      /\ item' = [i \in Item |-> Cleaned(item[i], Here)]
  BY DEF EndRound
<1>2. last \in Bucket /\ Here \in Bucket /\ todo \in [Item -> Nat] /\ At = Here /\ At' = Here
  BY <1>1, HereIsNext DEF DecayInv, At
<1>3. ASSUME NEW i \in Item PROVE Sound(item'[i], todo'[i], Here, FALSE)
  <2>1. PICK x : x = Cleaned(item[i], Here)
    OBVIOUS
  <2>2. Sound(item[i], 0, Here, busy) /\ busy \in BOOLEAN
    BY <1>1, <1>2 DEF DecayInv
  <2>3. Sound(x, 0, Here, FALSE)
    BY <1>2, <2>1, <2>2, CleanedSound
  <2> QED BY <1>1, <2>1, <2>3
<1>4. item' \in [Item -> AnyItem]
  <2>1. item' = [i \in Item |-> item'[i]]
    BY <1>1
  <2>2. \A i \in Item : item'[i] \in AnyItem
    BY <1>3 DEF Sound
  <2> QED BY <2>1, <2>2
<1> QED BY <1>1, <1>2, <1>3, <1>4 DEF DecayInv

-----------------------------------------------------------------------------
LEMMA StepHolds == ASSUME DecayInv, [DecayNext]_decayVars PROVE DecayInv'
<1>1. CASE UNCHANGED decayVars
  BY <1>1 DEF decayVars, DecayInv, At, Here
<1>2. CASE DecayNext
  BY <1>2, CreateHolds, TransformHolds, LoadHolds, MoveHolds, EquipHolds, RemoveHolds, VisitHolds,
     SplitHolds, ReplaceHolds, CleanupHolds, BeginRoundHolds, EndRoundHolds DEF DecayNext
<1> QED BY <1>1, <1>2

LEMMA DecayInvSound == ASSUME DecayInv PROVE DecaySound
<1>1. ASSUME NEW i \in Item
      PROVE  /\ item[i].refs = Entries(item[i]) + item[i].release + (IF item[i].placed THEN 1 ELSE 0)
             /\ item[i].placed /\ item[i].marked /\ ~item[i].stuck =>
                  /\ Entries(item[i]) > 0
                  /\ ~item[i].twice => item[i].due > -2 * Interval
  <2>1. PICK r : r = item[i]
    OBVIOUS
  <2>2. PICK t \in Nat : t = todo[i]
    BY DEF DecayInv
  <2>3. Sound(r, t, At, busy)
    BY <2>1, <2>2 DEF DecayInv
  <2>4. At \in Bucket
    BY HereIsNext DEF DecayInv, At
  <2>5. /\ r.in \in [Bucket -> Nat] /\ r.fresh \in Nat /\ r.release \in Nat
        /\ r.left \in Int /\ r.due \in Int
    BY <2>3 DEF Sound, AnyItem
  <2>6. Sum(r.in) \in Nat /\ Entries(r) = Sum(r.in) + r.fresh
    BY <2>5, Sums, EntriesAre
  <2>7. r.refs = Entries(r) + r.release + (IF r.placed THEN 1 ELSE 0)
    <3>1. r.refs = Sum(r.in) + r.fresh + r.release + One(r.placed)
      <4>1. One(r.placed) \in Nat
        BY DEF One
      <4> QED BY <2>3, <2>5, <2>6, <4>1 DEF Sound, Counted
    <3> QED BY <2>6, <3>1 DEF One
  <2>8. ASSUME r.placed, r.marked, ~r.stuck
        PROVE  Entries(r) > 0 /\ (~r.twice => r.due > -2 * Interval)
    <3>1. Sum(r.in) + r.fresh > 0 /\ r.left > 0 /\ (~r.twice => InTime(r, t, At, busy))
      BY <2>3, <2>8 DEF Sound, TendedTo
    <3>2. ASSUME ~r.twice PROVE r.due > -2 * Interval
      <4>1. CASE r.fresh > 0
        <5>1. r.due >= r.left - Interval * One(busy)
          BY <3>1, <3>2, <4>1 DEF InTime
        <5> QED BY <2>5, <3>1, <5>1 DEF One, Interval
      <4>2. CASE ~(r.fresh > 0)
        <5>1. PICK b \in Bucket : r.in[b] > 0
          <6>1. Sum(r.in) > 0
            BY <2>5, <2>6, <3>1, <4>2
          <6> QED BY <2>5, <6>1 DEF Sum, Bucket
        <5>2. r.due - Interval * Wait(b, t, At, busy) >= Slack(r.left)
          BY <3>1, <3>2, <5>1 DEF InTime
        <5>3. PICK w \in 0 .. 4 : w = Wait(b, t, At, busy)
          <6>1. Ahead(At, b) \in 1 .. 4
            BY <2>4, Circle
          <6> QED BY <6>1 DEF Wait
        <5>4. Slack(r.left) \in Int /\ Slack(r.left) > -500
          BY <2>5, <3>1 DEF Slack, Round, Interval
        <5> QED BY <2>5, <5>2, <5>3, <5>4 DEF Interval
      <4> QED BY <4>1, <4>2
    <3> QED BY <2>6, <3>1, <3>2
  <2> QED BY <2>1, <2>7, <2>8
<1> QED BY <1>1 DEF DecaySound, RefsExact, MarkedIsTended

\* For any items and kinds, however long they last: an item is freed when nothing
\* refers to it any more and not before, what is marked as decaying is in a list
\* unless it is stuck, and what is listed once is visited in time.
THEOREM DecayingIsSound == DecaySpec => []DecaySound
<1>1. DecayInit => DecayInv
  BY InitHolds
<1>2. DecayInv /\ [DecayNext]_decayVars => DecayInv'
  BY StepHolds
<1>3. DecayInv => DecaySound
  BY DecayInvSound
<1> QED BY <1>1, <1>2, <1>3, PTL DEF DecaySpec
===============================================================================
