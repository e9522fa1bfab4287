-------------------------------- MODULE Party --------------------------------
(***************************************************************************)
(* Parties: class Party of src/src/party.cpp, the requests of players in   *)
(* src/src/game.cpp that lead to it, and the part of                       *)
(* Player::onRemoveCreature that takes a player out of it.                 *)
(*                                                                         *)
(* A party and its players point at each other four ways, a party deletes  *)
(* itself as soon as it is alone, and one request may end several          *)
(* parties.  All of it runs on the dispatcher thread.  A party is an       *)
(* address, used again once it is free.  Experience sharing is left out    *)
(* but for the record of who has been active; scripts (none is enabled by  *)
(* the data) refuse nothing.                                               *)
(***************************************************************************)
EXTENDS Naturals, FiniteSets, SequencesExt

CONSTANTS Player, Address, None

ASSUME PartyAssumption == None \notin Player \cup Address

VARIABLES
  online,
  party,      \* Player::party
  invitedBy,  \* Player::invitePartyList
  leader,     \* of the party at an address, None if there is none
  memberList,
  inviteList,
  ticks       \* the players in ticksMap

state == <<party, invitedBy, leader, memberList, inviteList, ticks>>
vars == <<online, state>>

Init ==
  /\ online = Player
  /\ party = [p \in Player |-> None]
  /\ invitedBy = [p \in Player |-> {}]
  /\ leader = [a \in Address |-> None]
  /\ memberList = [a \in Address |-> <<>>]
  /\ inviteList = [a \in Address |-> {}]
  /\ ticks = [a \in Address |-> {}]

\* What a request makes of the parties, a step of the request after the other.
Now ==
  [party |-> party, invitedBy |-> invitedBy, leader |-> leader,
   memberList |-> memberList, inviteList |-> inviteList, ticks |-> ticks]

Become(s) ==
  /\ party' = s.party /\ invitedBy' = s.invitedBy /\ leader' = s.leader
  /\ memberList' = s.memberList /\ inviteList' = s.inviteList /\ ticks' = s.ticks

Parties == {a \in Address : leader[a] # None}

InParty(s, a) == {s.leader[a]} \cup ToSet(s.memberList[a])

Alone(s, a) == s.memberList[a] = <<>> /\ s.inviteList[a] = {}

\* disband, of all parties in A: they are deleted.
End(s, A) ==
  [s EXCEPT !.party = [p \in Player |-> IF \E a \in A : p \in InParty(s, a) THEN None ELSE @[p]],
            !.invitedBy = [p \in Player |-> @[p] \ A],
            !.leader = [a \in Address |-> IF a \in A THEN None ELSE @[a]],
            !.memberList = [a \in Address |-> IF a \in A THEN <<>> ELSE @[a]],
            !.inviteList = [a \in Address |-> IF a \in A THEN {} ELSE @[a]],
            !.ticks = [a \in Address |-> IF a \in A THEN {} ELSE @[a]]]

\* What removeInvite does of each party in A: the invitation of p is withdrawn
\* where there is one, and a party that is left alone is disbanded.
RemoveInvites(s, A, p) ==
  LET inviting == {a \in A : p \in s.inviteList[a]}
      without ==
        [s EXCEPT !.inviteList = [a \in Address |-> IF a \in inviting THEN @[a] \ {p} ELSE @[a]],
                  !.invitedBy[p] = @ \ inviting]
  IN End(without, {a \in inviting : Alone(without, a)})

\* clearPartyInvitations: of all parties that have invited p.
ClearPartyInvitations(s, p) ==
  [RemoveInvites(s, s.invitedBy[p], p) EXCEPT !.invitedBy[p] = {}]

IsInviting(p, q) == party[p] # None /\ leader[party[p]] = p /\ q \in inviteList[party[p]]

\* playerInviteToParty and invitePlayer, in the party of p or in a new one.
Invite(p, q) ==
  /\ p # q /\ {p, q} \subseteq online
  /\ ~IsInviting(q, p)
  /\ party[q] = None
  /\ \E a \in Address :
       /\ IF party[p] = None THEN leader[a] = None ELSE a = party[p] /\ leader[a] = p
       /\ q \notin inviteList[a]
       /\ Become([Now EXCEPT !.party[p] = a, !.leader[a] = p,
                             !.inviteList[a] = @ \cup {q}, !.invitedBy[q] = @ \cup {a}])
  /\ UNCHANGED online

\* Mutant: the leader may still be invited elsewhere.
JoinKeeping(p, l) ==
  /\ {p, l} \subseteq online
  /\ IsInviting(l, p)
  /\ party[p] = None
  /\ LET a == party[l]
         joined == [Now EXCEPT !.memberList[a] = Append(@, p), !.party[p] = a]
     IN Become(ClearPartyInvitations(joined, p))
  /\ UNCHANGED online

\* playerJoinParty and joinParty: with its first member, a party's leader is no
\* longer invited anywhere, and p is not either.
Join(p, l) ==
  /\ {p, l} \subseteq online
  /\ IsInviting(l, p)
  /\ party[p] = None
  /\ LET a == party[l]
         formed == IF memberList[a] = <<>> THEN ClearPartyInvitations(Now, l) ELSE Now
         joined == [formed EXCEPT !.memberList[a] = Append(@, p), !.party[p] = a]
     IN Become(ClearPartyInvitations(joined, p))
  /\ UNCHANGED online

\* playerRevokePartyInvitation and revokeInvitation
Revoke(p, q) ==
  /\ {p, q} \subseteq online
  /\ IsInviting(p, q)
  /\ Become(RemoveInvites(Now, {party[p]}, q))
  /\ UNCHANGED online

\* passPartyLeadership: the old leader is the first member.
PassPartyLeadership(s, a, p) ==
  [s EXCEPT !.leader[a] = p, !.memberList[a] = <<s.leader[a]>> \o RemoveFirst(@, p)]

Pass(p, q) ==
  /\ p # q /\ {p, q} \subseteq online
  /\ party[p] # None /\ party[q] = party[p]
  /\ leader[party[p]] = p
  /\ Become(PassPartyLeadership(Now, party[p], q))
  /\ UNCHANGED online

Without(s, a, p) ==
  [s EXCEPT !.memberList[a] = RemoveFirst(@, p), !.party[p] = None, !.ticks[a] = @ \ {p}]

\* leaveParty: a leader passes the leadership on, unless nobody or only one member
\* would be left and no one is invited: then the party ends.
LeaveParty(s, a, p) ==
  LET missingLeader ==
        /\ s.leader[a] = p
        /\ \/ s.memberList[a] = <<>>
           \/ Len(s.memberList[a]) = 1 /\ s.inviteList[a] = {}
      passed == IF s.leader[a] = p /\ ~missingLeader
                THEN PassPartyLeadership(s, a, Head(s.memberList[a]))
                ELSE s
      left == Without(passed, a, p)
  IN IF missingLeader \/ Alone(left, a) THEN End(left, {a}) ELSE left

\* playerLeaveParty
Leave(p) ==
  /\ p \in online
  /\ party[p] # None
  /\ Become(LeaveParty(Now, party[p], p))
  /\ UNCHANGED online

\* onRemoveCreature
Logout(p) ==
  /\ p \in online
  /\ online' = online \ {p}
  /\ LET s == ClearPartyInvitations(Now, p)
     IN Become(IF s.party[p] # None THEN LeaveParty(s, s.party[p], p) ELSE s)

Login(p) ==
  /\ p \in Player \ online
  /\ online' = online \cup {p}
  /\ UNCHANGED state

\* updatePlayerTicks, when a player of a party fights or heals.
UpdatePlayerTicks(p) ==
  /\ p \in online
  /\ party[p] # None
  /\ Become([Now EXCEPT !.ticks[party[p]] = @ \cup {p}])
  /\ UNCHANGED online

Next ==
  \E p \in Player :
    \/ Leave(p) \/ Logout(p) \/ Login(p) \/ UpdatePlayerTicks(p)
    \/ \E q \in Player : Invite(p, q) \/ Join(p, q) \/ Revoke(p, q) \/ Pass(p, q)

Spec == Init /\ [][Next]_vars

-------------------------------------------------------------------------------
TypeOK ==
  /\ online \subseteq Player
  /\ party \in [Player -> Address \cup {None}]
  /\ invitedBy \in [Player -> SUBSET Address]
  /\ leader \in [Address -> Player \cup {None}]
  /\ memberList \in [Address -> Seq(Player)]
  /\ inviteList \in [Address -> SUBSET Player]
  /\ ticks \in [Address -> SUBSET Player]

\* A player points at a party exactly if it is its leader or one of its members,
\* and nobody is there twice: a pointer left behind would be to a deleted party.
PointersMatch ==
  /\ \A p \in Player, a \in Address : party[p] = a <=> a \in Parties /\ p \in InParty(Now, a)
  /\ \A a \in Parties : IsInjective(memberList[a]) /\ leader[a] \notin ToSet(memberList[a])

\* Invitations are known to both sides.
InvitationsMatch == \A p \in Player, a \in Address : p \in inviteList[a] <=> a \in invitedBy[p]

\* Between two requests, no party is alone.
NoneAlone == \A a \in Parties : ~Alone(Now, a)

\* Who is offline is in no party and invited to none: the Player is deleted.
OnlineOnly == \A p \in Player \ online : party[p] = None /\ \A a \in Address : p \notin inviteList[a] \cup ticks[a]

\* Who is in a party that has been formed is not invited to another, and never to its own.
NoneInvitedTwice ==
  \A a \in Parties : \A p \in InParty(Now, a) : a \notin invitedBy[p] /\ (memberList[a] # <<>> => invitedBy[p] = {})

\* Only players of a party count as active in it.
TicksOfParty == \A a \in Address : \A p \in ticks[a] : a \in Parties /\ p \in InParty(Now, a)

\* Parties, their players and the records of both agree.
PartiesConsistent == TypeOK /\ PointersMatch /\ OnlineOnly /\ TicksOfParty

\* Invitations agree with each other and with the parties players are in.
InvitationsConsistent == InvitationsMatch /\ NoneInvitedTwice

\* All of this, between two requests.
PartiesSound == PartiesConsistent /\ InvitationsConsistent /\ NoneAlone
===============================================================================
