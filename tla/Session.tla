------------------------------- MODULE Session -------------------------------
(***************************************************************************)
(* Game sessions: how the ProtocolGame objects of clients are linked to    *)
(* Player objects, and how long a Player lives.                            *)
(*                                                                         *)
(*   src/src/protocolgame.cpp   login, connect, fastRelog, logout, release *)
(*   src/src/game.cpp           place and remove, checkCreatures, cleanup, *)
(*                              setGameState(SHUTDOWN), executeDeath       *)
(*   src/src/player.cpp         kickPlayer, fastRelog, death               *)
(*                                                                         *)
(* The dispatcher thread runs one task at a time; a task is one step here, *)
(* except setGameState(SHUTDOWN), whose loop over the players is a step    *)
(* per kick.  The network thread posts tasks and closes connections at any *)
(* time.  A Player is deleted when its reference counter reaches zero.     *)
(*                                                                         *)
(* Data.  The characters all belong to one account.  Each test of the      *)
(* database, the map or a script has either outcome.  allowClones is off,  *)
(* its default, so the id of a player in the game is its character.        *)
(***************************************************************************)
EXTENDS Naturals, Sequences, FiniteSets

CONSTANTS
  Protocol,    \* ProtocolGame objects, one for each connection
  Name,        \* characters of the account
  Object,      \* memory for Player objects
  None,
  ReplaceKick, \* the values replaceKickOnLogin has, it is read at each login
  OnePlayerOnAccount, \* configuration: onePlayerOnlinePerAccount
  Relogin,     \* clients answer the death screen with "ok"
  FastRelogs,  \* scripts call Player:fastRelog
  MaxTasks,    \* bound on the queue when the network, a timer or a script posts
  MaxReleases  \* bound on the releases of one protocol queued at a time

ASSUME SessionAssumption ==
  /\ IsFiniteSet(Protocol)
  /\ None \notin Protocol \cup Name \cup Object
  /\ ReplaceKick \subseteq BOOLEAN /\ {OnePlayerOnAccount, Relogin, FastRelogs} \subseteq BOOLEAN
  /\ MaxTasks \in Nat \ {0} /\ MaxReleases \in Nat \ {0}

VARIABLES
  objects,   \* the Player objects
  player,    \* ProtocolGame::player, None or an object
  conn,      \* the connection: open, closed, or gone (the weak_ptr is expired)
  first,     \* the protocol has had its first message
  eventConnect, \* None, or the character the scheduled connect is for
  fired,     \* that event has fired and its task is queued
  acceptPackets, lastName,
  tasks,     \* the dispatcher's queue
  phase,     \* running, kicking (in setGameState), stopped, ended
  crashed,   \* a null pointer has been dereferenced
  raced      \* history: the protocols linked after their last release, or linked anew
             \* while their player stays in the game

net == <<conn, first>>
proto == <<eventConnect, fired, acceptPackets, lastName>>
vars == <<objects, player, net, proto, tasks, phase, crashed, raced>>

\* Memory that holds no Player.
Free == [name |-> None, client |-> None, ref |-> 0, online |-> FALSE, dying |-> FALSE,
         inCheck |-> FALSE, releases |-> 0]

Init ==
  /\ objects = [o \in Object |-> Free]
  /\ player = [p \in Protocol |-> None]
  /\ conn = [p \in Protocol |-> "open"]
  /\ first = [p \in Protocol |-> FALSE]
  /\ eventConnect = [p \in Protocol |-> None]
  /\ fired = [p \in Protocol |-> FALSE]
  /\ acceptPackets = [p \in Protocol |-> FALSE]
  /\ lastName = [p \in Protocol |-> None]
  /\ tasks = <<>>
  /\ phase = "running"
  /\ crashed = FALSE
  /\ raced = {}

(***************************************************************************)
(* Player objects                                                          *)
(***************************************************************************)
Holders(o) == {p \in Protocol : player[p] = o}

\* Whoever counts as a reference to o: the game (the map and the players
\* lists, then ToReleaseCreatures), the list of checkCreatures, protocols.
References(o) ==
  Cardinality(Holders(o)) + objects[o].releases
  + (IF objects[o].online THEN 1 ELSE 0) + (IF objects[o].inCheck THEN 1 ELSE 0)

\* The object is deleted and somebody still points to it.
Dangling(o) == objects[o].ref = 0 /\ References(o) > 0

Fresh == {o \in Object : objects[o] = Free /\ Holders(o) = {}}

Online(n) == {o \in Object : objects[o].online /\ objects[o].name = n}
PlayerByName(n) == IF Online(n) = {} THEN None ELSE CHOOSE o \in Online(n) : TRUE
PlayersOnline == {o \in Object : objects[o].online}

\* new Player, and a reference to it.
Create(objs, o, n, p) == [objs EXCEPT ![o] = [Free EXCEPT !.name = n, !.client = p, !.ref = 1]]

\* incrementReferenceCounter, and decrementReferenceCounter k times: zero deletes,
\* and those that come after that release a deleted object.
Ref(objs, o, k) == [objs EXCEPT ![o].ref = @ + k]
Lessened(r, k) ==
  IF r.ref > k THEN [r EXCEPT !.ref = @ - k]
               ELSE [Free EXCEPT !.online = r.online, !.inCheck = r.inCheck,
                            !.releases = k - r.ref]
Unref(objs, o) == [objs EXCEPT ![o] = Lessened(@, 1)]

\* placeCreature: in the lists of the game, and of checkCreatures.
Place(objs, o) == [Ref(objs, o, 2) EXCEPT ![o].online = TRUE, ![o].inCheck = TRUE]

\* removeCreature: the game's reference is given up by the next cleanup.
Remove(objs, o) ==
  IF objs[o].online
  THEN [objs EXCEPT ![o].online = FALSE, ![o].dying = FALSE, ![o].releases = @ + 1]
  ELSE objs

\* Game::cleanup, over ToReleaseCreatures.
Cleaned(objs) == [o \in Object |-> Lessened([objs[o] EXCEPT !.releases = 0], objs[o].releases)]

(***************************************************************************)
(* The task queue and connections                                          *)
(***************************************************************************)
Task(kind, p, n) == [kind |-> kind, who |-> p, name |-> n]
Release(p) == Task("release", p, None)

Queued(queue, t) == Cardinality({i \in DOMAIN queue : queue[i] = t})

\* addTask; the dispatcher refuses tasks once it is stopped.
Post(queue, t) == IF phase = "stopped" THEN queue ELSE Append(queue, t)

\* Mutant: the protocol is not told.
DisconnectQuietly(queue, p) == queue

\* Connection::close, if there is still a connection.  Every close posts a release.
Disconnect(queue, p) ==
  IF p = None \/ (p # None /\ conn[p] = "gone") \/ Queued(queue, Release(p)) = MaxReleases
  THEN queue
  ELSE Post(queue, Release(p))
Closed(P) == [p \in Protocol |-> IF p \in P /\ conn[p] = "open" THEN "closed" ELSE conn[p]]

Room == Len(tasks) < MaxTasks /\ phase \in {"running", "kicking"}

\* Bound: the tasks that may create a Player have the memory for one each.
Memory ==
  Cardinality(Fresh) > Cardinality({i \in DOMAIN tasks : tasks[i].kind \in {"login", "relog"}})

(***************************************************************************)
(* The network thread and the timers                                       *)
(***************************************************************************)
\* onRecvFirstMessage: the client has proved who it is and names a character.
FirstMessage(p, n) ==
  /\ Room /\ Memory /\ conn[p] = "open" /\ ~first[p]
  /\ first' = [first EXCEPT ![p] = TRUE]
  /\ tasks' = Post(tasks, Task("login", p, n))
  /\ UNCHANGED <<objects, player, conn, proto, phase, crashed, raced>>

\* The peer or a timeout ends the connection.
NetworkClose(p) ==
  /\ Room /\ conn[p] = "open"
  /\ conn' = Closed({p})
  /\ tasks' = Disconnect(tasks, p)
  /\ UNCHANGED <<objects, player, first, proto, phase, crashed, raced>>

\* The last handler of a closed connection returns.
ConnectionDestroyed(p) ==
  /\ conn[p] = "closed"
  /\ conn' = [conn EXCEPT ![p] = "gone"]
  /\ UNCHANGED <<objects, player, first, proto, tasks, phase, crashed, raced>>

\* parsePacket runs on the network thread and looks at the player.
Packet(p) == Room /\ conn[p] = "open" /\ acceptPackets[p]
Dead(p) == player[p] = None \/ ~objects[player[p]].online \/ objects[player[p]].dying

LogoutPacket(p) ==
  /\ Packet(p) /\ ~Dead(p)
  /\ tasks' = Post(tasks, Task("logout", p, None))
  /\ UNCHANGED <<objects, player, net, proto, phase, crashed, raced>>

\* The dead player's "ok": log in again.  The name is moved out of lastName.
ReloginPacket(p) ==
  /\ Relogin /\ Memory /\ Packet(p) /\ Dead(p)
  /\ tasks' = Post(tasks, Task("login", p, lastName[p]))
  /\ lastName' = [lastName EXCEPT ![p] = None]
  /\ UNCHANGED <<objects, player, net, eventConnect, fired, acceptPackets, phase, crashed, raced>>

\* The scheduler posts the event login has added.
ConnectFires(p) ==
  /\ Room /\ eventConnect[p] # None /\ ~fired[p]
  /\ fired' = [fired EXCEPT ![p] = TRUE]
  /\ tasks' = Post(tasks, Task("connect", p, eventConnect[p]))
  /\ UNCHANGED <<objects, player, net, eventConnect, acceptPackets, lastName, phase, crashed, raced>>

(***************************************************************************)
(* Tasks of the dispatcher                                                 *)
(***************************************************************************)
Idle == phase \in {"running", "stopped"}
Run(kind, p, n) == Idle /\ tasks # <<>> /\ Head(tasks) = Task(kind, p, n)
Rest == Tail(tasks)

\* Mutant: the reference is kept.
UnlinkedKeeping(o) == [objects EXCEPT ![o].client = None]

Unlinked(o) == Unref([objects EXCEPT ![o].client = None], o)

RunRelease(p) ==
  /\ Run("release", p, None)
  /\ IF player[p] # None /\ objects[player[p]].client = p
     THEN /\ objects' = Unlinked(player[p])
          /\ player' = [player EXCEPT ![p] = None]
     ELSE UNCHANGED <<objects, player>>
  /\ tasks' = Rest
  /\ UNCHANGED <<net, proto, phase, crashed, raced>>

\* p's connection is closed, and the last release for it has been run.
Late(p, queue) == conn[p] # "open" /\ Queued(queue, Release(p)) = 0

\* p's player stays in the game when p is linked to another.
Abandons(p) == player[p] # None /\ objects[player[p]].online /\ objects[player[p]].client = p

Raced(p, now) == IF now THEN raced \cup {p} ELSE raced

\* Mutant: a player who has a client is taken over.
AnyPlayer(o) == o # None

MayTakeOver(o) == o # None /\ objects[o].client = None

\* Mutant: a connection that is gone does not matter.
NeverExpired(p) == FALSE

IsConnectionExpired(p) == conn[p] = "gone"

\* connect, by its task or by login: link p to the player of n, unless that
\* has a client or p's connection is gone.
Connect(p, n) ==
  /\ eventConnect' = [eventConnect EXCEPT ![p] = None]
  /\ fired' = [fired EXCEPT ![p] = FALSE]
  /\ LET o == PlayerByName(n) IN
     IF ~MayTakeOver(o)
     THEN /\ tasks' = Disconnect(Rest, p)
          /\ conn' = Closed({p})
          /\ UNCHANGED <<objects, player, acceptPackets, raced>>
     ELSE /\ tasks' = Rest
          /\ IF IsConnectionExpired(p)
             THEN UNCHANGED <<objects, player, acceptPackets, raced>>
             ELSE /\ objects' = [Ref(objects, o, 1) EXCEPT ![o].client = p]
                  /\ player' = [player EXCEPT ![p] = o]
                  /\ acceptPackets' = [acceptPackets EXCEPT ![p] = TRUE]
                  /\ raced' = Raced(p, (conn[p] = "closed" /\ Late(p, Rest)) \/ Abandons(p))
          /\ UNCHANGED conn

RunConnect(p, n) ==
  /\ Run("connect", p, n)
  /\ Connect(p, n)
  /\ UNCHANGED <<first, lastName, phase, crashed>>

\* Mutant: a character in the game logs in once more.
AnyLogin(n) == TRUE

IsLogin(n) == PlayerByName(n) = None

\* login of a character who is not in the game.  It may be refused by the
\* account's bans, the waiting list or the map, must be if the account has a
\* player already, and onLogin may kick the player at once.
LoginNew(p, n, outcome) ==
  /\ Run("login", p, n)
  /\ IsLogin(n)
  /\ outcome # "refused" => n # None /\ (OnePlayerOnAccount => PlayersOnline = {})
  /\ \E o \in Fresh : LET made == Create(objects, o, n, p) IN
        /\ objects' = CASE outcome = "refused" -> made
                        [] outcome = "placed" -> Place(made, o)
                        [] outcome = "kicked" -> Remove(Place(made, o), o)
        /\ player' = [player EXCEPT ![p] = o]
  /\ IF outcome = "placed"
     THEN tasks' = Rest /\ UNCHANGED conn
     ELSE tasks' = Disconnect(Rest, p) /\ conn' = Closed({p})
  /\ IF outcome = "refused"
     THEN UNCHANGED <<acceptPackets, lastName>>
     ELSE /\ acceptPackets' = [acceptPackets EXCEPT ![p] = TRUE]
          /\ lastName' = [lastName EXCEPT ![p] = n]
  /\ raced' = Raced(p, Abandons(p))
  /\ UNCHANGED <<first, eventConnect, fired, phase, crashed>>

\* ... of one who is, when this protocol may not take over.
LoginTwice(p, n) ==
  /\ Run("login", p, n)
  /\ ~IsLogin(n)
  /\ eventConnect[p] # None \/ FALSE \in ReplaceKick
  /\ tasks' = Disconnect(Rest, p)
  /\ conn' = Closed({p})
  /\ UNCHANGED <<objects, player, first, proto, phase, crashed, raced>>

\* ... of one who has a client: disconnect that, and connect in a second.
LoginReplaces(p, n) ==
  /\ Run("login", p, n)
  /\ ~IsLogin(n)
  /\ eventConnect[p] = None /\ TRUE \in ReplaceKick
  /\ LET q == objects[PlayerByName(n)].client IN
     /\ q # None
     /\ tasks' = Disconnect(Rest, q)
     /\ conn' = Closed({q})
  /\ eventConnect' = [eventConnect EXCEPT ![p] = n]
  /\ lastName' = [lastName EXCEPT ![p] = n]
  /\ UNCHANGED <<objects, player, first, fired, acceptPackets, phase, crashed, raced>>

\* ... of one who has none.
LoginConnects(p, n) ==
  /\ Run("login", p, n)
  /\ ~IsLogin(n)
  /\ eventConnect[p] = None /\ TRUE \in ReplaceKick
  /\ objects[PlayerByName(n)].client = None
  /\ Connect(p, n)
  /\ lastName' = [lastName EXCEPT ![p] = n]
  /\ UNCHANGED <<first, phase, crashed>>

\* logout once nothing forbids it: the connection goes, and the player.
Leave(p, queue) ==
  /\ IF player[p] = None
     THEN tasks' = queue /\ UNCHANGED <<objects, conn>>
     ELSE /\ tasks' = Disconnect(queue, p)
          /\ conn' = Closed({p})
          /\ objects' = Remove(objects, player[p])
  /\ UNCHANGED <<player, first, proto, crashed, raced>>

\* The client's wish; the tile, a fight or a script may forbid it to a player
\* in the game.
RunLogout(p, allowed) ==
  /\ Run("logout", p, None)
  /\ ~allowed => player[p] # None /\ objects[player[p]].online
  /\ IF allowed
     THEN Leave(p, Rest)
     ELSE tasks' = Rest /\ UNCHANGED <<objects, conn, player, first, proto, crashed, raced>>
  /\ UNCHANGED phase

\* Player::kickPlayer
Kick(o) ==
  IF objects[o].client # None
  THEN Leave(objects[o].client, tasks)
  ELSE objects' = Remove(objects, o) /\ UNCHANGED <<tasks, player, net, proto, crashed, raced>>

\* ... of an idle player, one without pong, a banned one.
KickOne(o) == Idle /\ objects[o].online /\ Room /\ Kick(o) /\ UNCHANGED phase

\* A blow takes the last health of a player: the death is a task of its own.
Hit(o) ==
  /\ phase = "running" /\ Room
  /\ objects[o].online /\ ~objects[o].dying
  /\ objects' = [objects EXCEPT ![o].dying = TRUE]
  /\ tasks' = Post(tasks, Task("death", None, objects[o].name))
  /\ UNCHANGED <<player, net, proto, phase, crashed, raced>>

\* executeDeath, of whoever has the id now.  A death with losses uses the client
\* without a test; without a corpse the player revives in the temple.
RunDeath(n, outcome) ==
  /\ Run("death", None, n)
  /\ tasks' = Rest
  /\ LET o == PlayerByName(n) IN
     /\ o = None => outcome = "none"
     /\ o # None => outcome # "none"
     /\ objects' = CASE outcome = "none" -> objects
                     [] outcome = "revived" -> [objects EXCEPT ![o].dying = FALSE]
                     [] outcome \in {"losses", "corpse"} -> Remove(objects, o)
     /\ crashed' = (outcome = "losses" /\ objects[o].client = None)
  /\ UNCHANGED <<player, net, proto, phase, raced>>

(***************************************************************************)
(* fastRelog                                                               *)
(***************************************************************************)
\* Player::fastRelog posts a task that holds the object's address.
RequestFastRelog(o, n) ==
  /\ FastRelogs /\ phase = "running" /\ Room /\ Memory
  /\ objects[o].online /\ objects[o].client # None
  /\ tasks' = Post(tasks, Task("relog", o, n))
  /\ UNCHANGED <<objects, player, net, proto, phase, crashed, raced>>

\* The client is used without a test.
FastRelogCrashes(o, n) ==
  /\ Run("relog", o, n)
  /\ objects[o].client = None
  /\ crashed' = TRUE
  /\ tasks' = Rest
  /\ UNCHANGED <<objects, player, net, proto, phase, raced>>

\* p, the client, leaves its player x and is linked to the character n.
FastRelog(o, n, outcome) ==
  /\ Run("relog", o, n)
  /\ objects[o].client # None
  /\ LET p == objects[o].client
         x == player[p]
         other == PlayerByName(n)
         isRelog == x = other
         isLogin == other = None \/ isRelog
         left == Remove([objects EXCEPT ![x].client = None], x)
     IN /\ IF x = None \/ (x # None /\ ~objects[x].online)
           THEN /\ outcome = "return"
                /\ tasks' = Rest
                /\ UNCHANGED <<objects, player, conn, lastName>>
           ELSE IF isLogin
           THEN /\ outcome \in {"refused", "banned", "late", "placed", "kicked"}
                /\ TRUE \in ReplaceKick \/ isRelog \/ outcome \in {"refused", "banned"}
                \* a linked object whose login fails stays with the protocol
                /\ \E fresh \in Fresh :
                   LET stay == Create(objects, fresh, n, None)
                       linked == Create(left, fresh, n, p)
                       others == {y \in Object : left[y].online}
                   IN /\ outcome \in {"placed", "kicked"} => (OnePlayerOnAccount => others = {})
                      /\ objects' = CASE outcome = "refused" /\ ~isRelog -> stay
                                      [] outcome = "banned" /\ ~isRelog -> Remove(stay, x)
                                      [] outcome = "placed" -> Place(linked, fresh)
                                      [] outcome = "kicked" -> Remove(Place(linked, fresh), fresh)
                                      [] OTHER -> linked
                      /\ player' = IF outcome \in {"refused", "banned"} /\ ~isRelog
                                   THEN player ELSE [player EXCEPT ![p] = fresh]
                /\ IF outcome = "placed" \/ (outcome = "refused" /\ ~isRelog)
                   THEN tasks' = Rest /\ UNCHANGED conn
                   ELSE tasks' = Disconnect(Rest, p) /\ conn' = Closed({p})
                /\ lastName' = IF outcome \in {"placed", "kicked"}
                               THEN [lastName EXCEPT ![p] = n] ELSE lastName
           ELSE IF outcome = "return"
           THEN /\ objects[other].client # p /\ FALSE \in ReplaceKick
                /\ tasks' = Rest
                /\ UNCHANGED <<objects, player, conn, lastName>>
           ELSE LET q == objects[other].client IN
                /\ outcome = "taken" /\ (TRUE \in ReplaceKick \/ q = p)
                /\ tasks' = IF q = p THEN Rest ELSE Disconnect(Rest, q)
                /\ conn' = IF q = p THEN conn ELSE Closed({q})
                /\ objects' = [left EXCEPT ![other].client = p]
                /\ player' = [player EXCEPT ![p] = other]
                /\ lastName' = [lastName EXCEPT ![p] = n]
        /\ raced' = Raced(p, player'[p] # x /\ Late(p, Rest))
  /\ UNCHANGED <<first, eventConnect, fired, acceptPackets, phase, crashed>>

(***************************************************************************)
(* Memory, and the end of the game                                         *)
(***************************************************************************)
\* checkCreatures finds a removed player in its list, and cleans up.
CheckCreatures(o) ==
  /\ Idle
  /\ objects[o].inCheck /\ ~objects[o].online
  /\ objects' = Cleaned([objects EXCEPT ![o].inCheck = FALSE, ![o].releases = @ + 1])
  /\ UNCHANGED <<player, net, proto, tasks, phase, crashed, raced>>

\* checkCreatureWalk cleans up, too.
Cleanup ==
  /\ Idle
  /\ \E o \in Object : objects[o].releases > 0
  /\ objects' = Cleaned(objects)
  /\ UNCHANGED <<player, net, proto, tasks, phase, crashed, raced>>

ShutdownTask == Task("shutdown", None, None)
HaltTask == Task("halt", None, None)

\* A signal or a script; another would find the game in that state already.
RequestShutdown ==
  /\ Room /\ phase = "running" /\ Queued(tasks, ShutdownTask) = 0
  /\ tasks' = Post(tasks, ShutdownTask)
  /\ UNCHANGED <<objects, player, net, proto, phase, crashed, raced>>

\* setGameState(SHUTDOWN), which cannot be stopped or repeated
StartShutdown ==
  /\ Run("shutdown", None, None)
  /\ phase' = IF phase = "running" THEN "kicking" ELSE phase
  /\ tasks' = Rest
  /\ UNCHANGED <<objects, player, net, proto, crashed, raced>>

\* ... kicks the first of the players, until there is none ...
ShutdownKicks(o) ==
  /\ phase = "kicking"
  /\ objects[o].online
  /\ Kick(o)
  /\ UNCHANGED phase

\* ... saves, posts Game::shutdown, and lets the dispatcher refuse what comes later.
StopDispatcher ==
  /\ phase = "kicking"
  /\ PlayersOnline = {}
  /\ tasks' = Append(tasks, HaltTask)
  /\ phase' = "stopped"
  /\ UNCHANGED <<objects, player, net, proto, crashed, raced>>

\* Game::shutdown
Halt ==
  /\ Run("halt", None, None)
  /\ phase' = "ended"
  /\ tasks' = Rest
  /\ objects' = Cleaned(objects)
  /\ UNCHANGED <<player, net, proto, crashed, raced>>

\* What the program does next is not defined.
Undefined == crashed \/ \E o \in Object : Dangling(o)

NetworkStep ==
  \E p \in Protocol :
     \/ \E n \in Name : FirstMessage(p, n)
     \/ NetworkClose(p) \/ ConnectionDestroyed(p)
     \/ LogoutPacket(p) \/ ReloginPacket(p) \/ ConnectFires(p)

RunTask ==
  \/ \E p \in Protocol :
       \/ RunRelease(p)
       \/ \E allowed \in BOOLEAN : RunLogout(p, allowed)
       \/ \E n \in Name \cup {None} :
            \/ RunConnect(p, n)
            \/ \E outcome \in {"refused", "placed", "kicked"} : LoginNew(p, n, outcome)
            \/ LoginTwice(p, n) \/ LoginReplaces(p, n) \/ LoginConnects(p, n)
  \/ \E n \in Name :
       \/ \E outcome \in {"none", "revived", "losses", "corpse"} : RunDeath(n, outcome)
       \/ \E o \in Object :
            \/ FastRelogCrashes(o, n)
            \/ \E outcome \in {"return", "refused", "banned", "late", "placed", "kicked", "taken"} :
                 FastRelog(o, n, outcome)
  \/ StartShutdown \/ Halt

ShutdownStep == StopDispatcher \/ \E o \in Object : ShutdownKicks(o)

Next ==
  /\ ~Undefined
  /\ \/ NetworkStep \/ RunTask \/ ShutdownStep \/ RequestShutdown \/ Cleanup
     \/ \E o \in Object :
          \/ KickOne(o) \/ Hit(o) \/ CheckCreatures(o)
          \/ \E n \in Name : RequestFastRelog(o, n)

\* The dispatcher runs its tasks, setGameState goes on, and timers fire.
Fairness ==
  /\ WF_vars(~Undefined /\ RunTask)
  /\ WF_vars(~Undefined /\ ShutdownStep)
  /\ \A p \in Protocol : WF_vars(~Undefined /\ ConnectFires(p))

Spec == Init /\ [][Next]_vars /\ Fairness

-------------------------------------------------------------------------------
TypeOK ==
  /\ objects \in [Object -> [name : Name \cup {None}, client : Protocol \cup {None},
       ref : Nat, online : BOOLEAN, dying : BOOLEAN, inCheck : BOOLEAN, releases : Nat]]
  /\ player \in [Protocol -> Object \cup {None}]
  /\ conn \in [Protocol -> {"open", "closed", "gone"}]
  /\ {first, fired, acceptPackets} \subseteq [Protocol -> BOOLEAN]
  /\ {eventConnect, lastName} \subseteq [Protocol -> Name \cup {None}]
  /\ \A i \in DOMAIN tasks : tasks[i].kind \in {"login", "connect", "release", "logout",
       "death", "relog", "shutdown", "halt"}
  /\ phase \in {"running", "kicking", "stopped", "ended"}
  /\ raced \subseteq Protocol

\* A character is in the game once (login and fastRelog look it up by name,
\* protocolgame.cpp:137 and 287).
UniqueOnline == \A n \in Name : Cardinality(Online(n)) <= 1

OnePlayerEach == TypeOK /\ UniqueOnline

\* A step of fastRelog, or a login or connect of a protocol that has a player
\* already: one that answered the death screen.
Relog ==
  /\ Len(tasks') <= Len(tasks)  \* the head is run
  /\ \/ \E o \in Object, n \in Name : Run("relog", o, n)
     \/ \E p \in Protocol, n \in Name \cup {None}, kind \in {"login", "connect"} :
          player[p] # None /\ Run(kind, p, n)

\* A Player's reference counter says exactly who refers to it, so nobody is left
\* with a deleted Player and none is kept when the last has gone: only a relog
\* miscounts (incrementReferenceCounter and decrementReferenceCounter are called
\* by hand in login, connect, release, placeCreature, cleanup...).
RefsExact ==
  [][\/ Relog
     \/ \E o \in Object : Dangling(o)'
     \/ \A o \in Object : objects[o].ref - References(o) = (objects[o].ref - References(o))']_vars

\* A player in the game and its client point to each other; a protocol never
\* holds a player who is somebody else's.
Linked(o, p) ==
  /\ objects[o].online /\ objects[o].client = p => player[p] = o
  /\ player[p] = o => objects[o].client = p

\* ... and only a relog leaves two of them linked one way, or gives a player a
\* client in place of another (connect refuses a player that has one,
\* protocolgame.cpp:497).
LinkedBothWays ==
  [][\/ Relog
     \/ \E o \in Object : Dangling(o)'
     \/ /\ \A o \in Object, p \in Protocol : Linked(o, p) => Linked(o, p)'
        /\ \A o \in Object :
             objects[o].client # None => objects'[o].client \in {objects[o].client, None}]_vars

\* The player's client has no connection and its release has been run.
Ghost(o) ==
  LET p == objects[o].client IN
  objects[o].online /\ p # None /\ conn[p] # "open" /\ Queued(tasks, Release(p)) = 0

\* Only a race makes ghosts: a link after the last release for a closed
\* connection (fastRelog does not ask, and connect asks whether the object is
\* gone, which a handler that has not returned prevents), or a
\* second "ok" at the death screen, whose login without a name takes the
\* protocol from the player its first has put into the game.
OnlyRacedIsGhost ==
  \A o \in Object : Ghost(o) => objects[o].client \in raced \/ phase \in {"stopped", "ended"}

\* A player in the game whose connection is closed is given up by its client, and
\* can be taken over, unless the client was linked in the windows raced names.
ClosedClientLeaves ==
  \A o \in Object :
    LET p == objects[o].client
        lost == objects[o].online /\ p # None /\ conn[p] # "open"
    IN  lost ~> ~lost \/ p \in raced \/ phase # "running" \/ Undefined

\* A player whose client has no player or another: kickPlayer leaves it where it
\* is, for it logs out the client's player (player.cpp:2496, protocolgame.cpp:528).
Estranged(o) ==
  LET p == objects[o].client IN objects[o].online /\ p # None /\ player[p] # o

\* The loop of setGameState that kicks all players (game.cpp:129-134) comes to
\* its end, except over an estranged player, whom it kicks for ever; only a
\* relog leaves one: a client that has the "ok" of its death screen taken
\* twice, or a script's fastRelog.
KickingEnds ==
  phase = "kicking" ~> phase # "kicking" \/ Undefined \/ \E o \in Object : Estranged(o)
===============================================================================
