------------------------------- MODULE WaitList -------------------------------
(***************************************************************************)
(* The waiting list of a full server: clientLogin and what it uses at the  *)
(* top of src/src/protocolgame.cpp.  A client that is not let in is told   *)
(* its place and tries again; an entry that is not renewed in time is      *)
(* dropped at the next attempt of anybody.                                 *)
(*                                                                         *)
(* A step is a login task of the dispatcher, a logout, or the passing of   *)
(* an entry's timeout.  Clients that may always log in are left out.       *)
(***************************************************************************)
EXTENDS Naturals, FiniteSets, SequencesExt

CONSTANTS
  Client,
  Premium,    \* the clients whose account is premium
  MaxPlayers  \* the configured maximum, 0 for none

ASSUME WaitListAssumption == Premium \subseteq Client /\ MaxPlayers \in Nat

VARIABLES
  online,
  waitList,
  expired,     \* the clients in the list whose timeout has passed
  priorityEnd, \* where the iterator of that name points, counted from 0
  valid        \* and whether it may be used: any other change of the deque invalidates it

waitListVars == <<online, waitList, expired, priorityEnd, valid>>

WaitListInit ==
  /\ online = {}
  /\ waitList = <<>>
  /\ expired = {}
  /\ priorityEnd = 0
  /\ valid = TRUE

\* The number of S that i numbers of S are not above.
Nth(S, i) == CHOOSE k \in S : Cardinality({j \in S : j <= k}) = i

\* The entries that are left when those that are gone are dropped, in their order.
Kept(list, gone) == {k \in 1..Len(list) : list[k] \notin gone}
Left(list, gone) ==
  [i \in 1..Cardinality(Kept(list, gone)) |-> list[Nth(Kept(list, gone), i)]]

Current == Left(waitList, expired)

\* The slot of a client in list, from 1, if it is there.
Slots(list, c) == {k \in 1..Len(list) : list[k] = c}

InsertBefore(list, k, c) == SubSeq(list, 1, k) \o <<c>> \o SubSeq(list, k + 1, Len(list))

Enter(c) == online' = online \cup {c}

\* Nobody waits and there is room: the list is not looked at.
Open == MaxPlayers = 0 \/ (waitList = <<>> /\ Cardinality(online) < MaxPlayers)

LetIn(c) ==
  /\ c \notin online
  /\ Open
  /\ Enter(c)
  /\ UNCHANGED <<waitList, expired, priorityEnd, valid>>

\* There is room for a client and all those before it.
RoomFor(slot) == Cardinality(online) + slot <= MaxPlayers

\* A client in the list, and its turn has come.
EnterFromList(c) ==
  /\ c \notin online
  /\ ~Open
  /\ \E slot \in Slots(Current, c) :
       /\ RoomFor(slot)
       /\ waitList' = RemoveAt(Current, slot)
  /\ expired' = {}
  /\ Enter(c)
  /\ valid' = FALSE
  /\ UNCHANGED priorityEnd

\* Mutant: whoever waits on goes to the end.
RenewAtEnd(c) ==
  /\ c \notin online
  /\ ~Open
  /\ \E slot \in Slots(Current, c) :
       /\ ~RoomFor(slot)
       /\ waitList' = Append(RemoveAt(Current, slot), c)
  /\ expired' = {}
  /\ valid' = FALSE
  /\ UNCHANGED <<online, priorityEnd>>

\* ... or it has not: the timeout is set anew.
Renew(c) ==
  /\ c \notin online
  /\ ~Open
  /\ \E slot \in Slots(Current, c) : ~RoomFor(slot)
  /\ waitList' = Current
  /\ expired' = {}
  /\ valid' = (valid /\ Current = waitList)
  /\ UNCHANGED <<online, priorityEnd>>

\* findClient
InList(c) == Slots(Current, c) # {}

\* A client that is not in the list goes to its end.
WaitAtEnd(c) ==
  /\ c \notin online \cup Premium
  /\ ~Open
  /\ ~InList(c)
  /\ waitList' = Append(Current, c)
  /\ expired' = {}
  /\ valid' = FALSE
  /\ UNCHANGED <<online, priorityEnd>>

\* A premium client goes where priorityEnd points, and where an iterator points
\* that has been invalidated is anybody's guess.  What is returned counts from 0,
\* and 0 says that the client is let in.
WaitWithPriority(c) ==
  /\ c \in Premium \ online
  /\ ~Open
  /\ ~InList(c)
  /\ \E k \in 0..Len(Current) :
       /\ valid /\ Current = waitList => k = priorityEnd
       /\ waitList' = InsertBefore(Current, k, c)
       /\ priorityEnd' = k
       /\ IF k = 0 THEN Enter(c) ELSE UNCHANGED online
  /\ expired' = {}
  /\ valid' = TRUE

Logout(c) ==
  /\ c \in online
  /\ online' = online \ {c}
  /\ UNCHANGED <<waitList, expired, priorityEnd, valid>>

\* Time passes.
Expire(c) ==
  /\ c \in ToSet(waitList) \ expired
  /\ expired' = expired \cup {c}
  /\ UNCHANGED <<online, waitList, priorityEnd, valid>>

WaitListNext ==
  \E c \in Client :
    \/ LetIn(c) \/ EnterFromList(c) \/ Renew(c) \/ WaitAtEnd(c) \/ WaitWithPriority(c)
    \/ Logout(c) \/ Expire(c)

WaitListSpec == WaitListInit /\ [][WaitListNext]_waitListVars

-------------------------------------------------------------------------------
Regular == Client \ Premium

WaitListTypeOK ==
  /\ online \subseteq Client
  /\ waitList \in Seq(Client)
  /\ expired \subseteq ToSet(waitList)
  /\ priorityEnd \in Nat
  /\ valid \in BOOLEAN

\* A client waits in one place.
OnePlaceEach == \A c \in Client : Cardinality(Slots(waitList, c)) <= 1

\* The list is well formed whatever came and went.
ListConsistent == WaitListTypeOK /\ OnePlaceEach

\* While nothing but time passes, those who renew their entries keep their order.
OrderKept ==
  [][\A c, d \in ToSet(waitList) \ expired :
       \A i \in Slots(waitList, c), j \in Slots(waitList, d) :
         i < j => \A k \in Slots(waitList', c), l \in Slots(waitList', d) : k < l]_waitListVars

\* Who could come in at the next attempt still can after another client has come
\* in by the list, from before or behind, or tries in vain; only priority and the
\* timeout take that away.
TurnKept ==
  [][(waitList' # waitList \/ online' # online) /\ ~(\E p \in Premium : WaitWithPriority(p)) =>
       \A c \in ToSet(Current) \cap ToSet(Current') : \A i \in Slots(Current, c), j \in Slots(Current', c) :
         RoomFor(i) => Cardinality(online') + j <= MaxPlayers]_waitListVars

\* Nobody without priority comes in past those who wait, or when the server is full.
NoOvertaking ==
  [][\A c \in Regular : c \in online' \ online =>
       /\ waitList = <<>> \/ c \in ToSet(waitList)
       /\ MaxPlayers # 0 => Cardinality(online') <= MaxPlayers]_waitListVars

\* A client waits in one place of the waiting list, which keeps its order and
\* its turns and is not overtaken.
NobodyOvertaken == []ListConsistent /\ OrderKept /\ TurnKept /\ NoOvertaking
===============================================================================
