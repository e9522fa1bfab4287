-------------------------------- MODULE Company --------------------------------
(***************************************************************************)
(* Who talks to whom: chat channels (chat.cpp), the guilds of the players   *)
(* in the game (guild.cpp) and their lists of buddies (the VIP lists of     *)
(* player.cpp), while players come, go, lose their clients and come back.   *)
(*                                                                         *)
(* A channel is a normal one, a slot for a private one, or belongs to a     *)
(* guild or to the address of a party.  Its users are pointers to players.  *)
(***************************************************************************)
EXTENDS Integers, FiniteSets

CONSTANTS
  Player,
  Access,    \* those who see players in ghost mode
  account,   \* the account of each player
  Normal,    \* normal channels
  Private,   \* ids of private channels, 100 to 9999 in the code
  Address,   \* addresses of Party objects
  Guild,
  Rankless,  \* guilds without a rank of level 1
  Limits,    \* bound: what getMaxVIPEntries may be
  Themes,    \* bound: what a behaviour is about: players who log in, addresses of parties, and
             \* some of "normal", "private", "guild" and "vip"
  Null

Channel == Normal \cup Private \cup Address \cup Guild

ASSUME CompanyAssumption ==
  /\ Access \subseteq Player /\ Rankless \subseteq Guild /\ Limits \subseteq Nat
  /\ Normal \cap (Private \cup Address \cup Guild) = {}
  /\ Private \cap (Address \cup Guild) = {} /\ Address \cap Guild = {}
  /\ \A t \in Themes : t \subseteq Player \cup Address \cup {"normal", "private", "guild", "vip"}
  /\ {Null, "party", "guild"} \cap Channel = {} /\ Null \notin Player

VARIABLES
  state, \* the server and what clients show
  past,  \* history
  theme

\* state:
\*   on, linked      the players in the game, and those with a client
\*   users           of each channel
\*   made            the slots, parties and guilds that have a channel
\*   owner, invites  of each slot
\*   may             the players whom the scripts let into the normal channels
\*   party, leader   of players and of addresses
\*   guild           of players
\*   loaded, members the guilds in memory, and membersOnline
\*   windows         the channels a client shows, by the id it knows them by
\*   listed          VIPList
\*   rows            account_viplist
\*   shown           what a client shows of a buddy: "online", "offline" or "absent"
\*   ghost           players in ghost mode
\* past:
\*   left            <<player, id>>: the party or guild it left, the right it lost
\*   dropped         <<player, id>>: what it was put out of while scripts were loaded again
\*   slipped         <<player, guild>>: left for a guild without a first rank
\*   copied          guilds that were loaded for a player who is not in the game

companyVars == <<state, past, theme>>

Id(c) == IF c \in Address THEN "party" ELSE IF c \in Guild THEN "guild" ELSE c
Ids == Normal \cup Private \cup {"party", "guild"}
Heard(w, p) == {c \in Channel : p \in w.users[c]}

-----------------------------------------------------------------------------
(* Channels *)

IsInvited(w, p, i) == w.owner[i] = p \/ p \in w.invites[i]

GetChannel(w, p, id) ==
  CASE id = "party" -> {w.party[p]} \cap w.made
    [] id = "guild" -> {w.guild[p]} \cap w.made
    [] id \in Normal -> {c \in {id} : p \in w.may}
    [] OTHER -> {i \in {id} \cap w.made : IsInvited(w, p, i)}

Shows(w, p, id) == [w EXCEPT !.windows[p] = @ \cup {x \in {id} : p \in w.linked}]
Hides(w, P, id) == [w EXCEPT !.windows = [p \in Player |-> IF p \in P THEN @[p] \ {id} ELSE @[p]]]

AddUser(w, p, c) == Shows([w EXCEPT !.users[c] = @ \cup {p}], p, Id(c))

\* A private channel is closed at the clients of its users.
DeleteChannels(w, I) ==
  [w EXCEPT !.windows = [p \in Player |-> @[p] \ {i \in I : p \in w.users[i]}],
            !.made = @ \ I,
            !.users = [c \in Channel |-> IF c \in I THEN {} ELSE @[c]],
            !.owner = [i \in Private |-> IF i \in I THEN Null ELSE @[i]],
            !.invites = [i \in Private |-> IF i \in I THEN {} ELSE @[i]]]

Owned(w, p) == {i \in Private : w.owner[i] = p}

\* Players who may not have the channel are not put out of it.
RemoveUsers(w, P, id) ==
  [w EXCEPT !.users = [c \in Channel |-> @[c] \ {p \in P : c \in GetChannel(w, p, id)}]]

RemoveUserFromChannel(w, p, id) ==
  DeleteChannels(RemoveUsers(w, {p}, id), {i \in Owned(w, p) \cap {id} : p \in w.users[i]})

\* Mutant: invitations stay.
LeaveAllUsers(w, p) ==
  DeleteChannels([w EXCEPT !.users = [c \in Channel |-> @[c] \ {p}]], Owned(w, p))

RemoveUserFromAllChannels(w, p) ==
  DeleteChannels([w EXCEPT !.users = [c \in Channel |-> @[c] \ {p}],
                           !.invites = [i \in Private |-> @[i] \ {p}]],
                 Owned(w, p))

\* Of guilds and parties the channel is looked up again, which finds none when
\* the players have left them.
SendClosePrivate(w, P, id) == Hides(IF id \in Private THEN w ELSE RemoveUsers(w, P, id), P, id)

-----------------------------------------------------------------------------
(* Parties and guilds, as far as their channels go *)

Members(w, a) == {p \in Player : w.party[p] = a}

\* setParty(nullptr) comes first.
OutOfParty(w, P) ==
  SendClosePrivate([w EXCEPT !.party = [p \in Player |-> IF p \in P THEN Null ELSE @[p]]], P, "party")

Disband(w, a) == [OutOfParty(w, Members(w, a) \cup {w.leader[a]}) EXCEPT !.leader[a] = Null]

\* invited: somebody is still asked to join.
LeaveParty(w, p, invited) ==
  LET a == w.party[p]
      others == Members(w, a) \ {p}
      ends == others = {} \/ (Cardinality(others) = 1 /\ ~invited)
      next == IF w.leader[a] # p \/ ends THEN w.leader[a] ELSE CHOOSE q \in others : TRUE
      v == OutOfParty([w EXCEPT !.leader[a] = next], {p})
  IN  IF ends THEN Disband(v, a) ELSE v

RemoveMember(w, p, g) ==
  LET rest == w.members[g] \ {p}
  IN  [w EXCEPT !.members[g] = rest, !.loaded = IF rest = {} THEN @ \ {g} ELSE @]

\* A guild without a first rank is not joined, and the old one not told.
SetGuild(w, p, g) ==
  LET old == w.guild[p]
      out == [w EXCEPT !.guild[p] = Null]
      in == IF g = Null THEN out ELSE [out EXCEPT !.guild[p] = g, !.members[g] = @ \cup {p}]
  IN  IF g = old THEN w ELSE IF g \in Rankless THEN out
      ELSE IF old = Null THEN in ELSE RemoveMember(in, p, old)

-----------------------------------------------------------------------------
(* Buddies *)

Rows(w, p) == {q \in Player : <<account[p], q>> \in w.rows}
Visible(w, p, q) == q \in w.on /\ (q \in w.ghost => p \in Access)
Status(is) == IF is THEN "online" ELSE "offline"

NotifyStatusChange(w, q, is, P) ==
  [w EXCEPT !.shown = [p \in Player |->
     IF p \in P \cap w.linked /\ q \in w.listed[p] THEN [@[p] EXCEPT ![q] = Status(is)] ELSE @[p]]]

SendVIPEntries(w, p) ==
  [w EXCEPT !.shown[p] = [q \in Player |-> IF q \in Rows(w, p) THEN Status(Visible(w, p, q)) ELSE "absent"]]

-----------------------------------------------------------------------------
(* Steps *)

About(t) == t \in theme
Nothing == [q \in Player |-> "absent"]

Makes(w) == state' = w /\ UNCHANGED <<past, theme>>
Leaves(w, gone) ==
  /\ state' = w
  /\ past' = [past EXCEPT !.left = @ \cup gone]
  /\ UNCHANGED theme

\* The rows are read first, as many as the player may list; guilds are loaded
\* with the first of their members.
Login(p, g, list) ==
  /\ About(p) /\ p \notin state.on
  /\ \E n \in Limits : list \subseteq Rows(state, p)
                       /\ Cardinality(list) = IF Cardinality(Rows(state, p)) < n THEN Cardinality(Rows(state, p)) ELSE n
  /\ g # Null => About("guild")
  /\ LET w == [NotifyStatusChange(state, p, TRUE, Player) EXCEPT
                 !.on = @ \cup {p}, !.linked = @ \cup {p}, !.guild[p] = g, !.listed[p] = list,
                 !.loaded = @ \cup ({g} \ {Null}),
                 !.members = [h \in Guild |-> IF h = g THEN @[h] \cup {p} ELSE @[h]]]
     IN  Makes(SendVIPEntries(w, p))

Logout(p, invited) ==
  /\ p \in state.on
  /\ LET a == state.party[p]
         v == RemoveUserFromAllChannels(IF a = Null THEN state ELSE LeaveParty(state, p, invited), p)
         w == IF state.guild[p] = Null THEN v ELSE RemoveMember(v, p, state.guild[p])
         gone == IF a = Null \/ w.leader[a] # Null THEN {} ELSE Members(state, a) \ {p}
     IN  /\ state' = [NotifyStatusChange(w, p, FALSE, Player \ {p}) EXCEPT
                    !.on = @ \ {p}, !.linked = @ \ {p}, !.guild[p] = Null, !.ghost = @ \ {p},
                    !.windows[p] = {}, !.listed[p] = {}, !.shown[p] = Nothing]
         /\ past' = [past EXCEPT !.left = {x \in @ : x[1] # p} \cup {<<q, "party">> : q \in gone},
                                 !.dropped = {x \in @ : x[1] # p}]
  /\ UNCHANGED theme

LoseClient(p) ==
  /\ p \in state.linked
  /\ Makes([state EXCEPT !.linked = @ \ {p}, !.windows[p] = {}, !.shown[p] = Nothing])

Reconnect(p) ==
  /\ p \in state.on \ state.linked
  /\ state' = SendVIPEntries([RemoveUserFromAllChannels(state, p) EXCEPT !.linked = @ \cup {p}], p)
  /\ past' = [past EXCEPT !.left = {x \in @ : x[1] # p}, !.dropped = {x \in @ : x[1] # p}]
  /\ UNCHANGED theme

\* The list of channels makes those of the guild and the party.
RequestChannels(p) ==
  /\ p \in state.linked
  /\ Makes([state EXCEPT !.made = @ \cup ({state.guild[p], state.party[p]} \ {Null})])

\* Who is a user already is shown no window.
OpenChannel(p, c) ==
  /\ p \in state.linked \ state.users[c] /\ c \in GetChannel(state, p, Id(c))
  /\ Makes(AddUser(state, p, c))

CloseChannel(p, id) ==
  /\ p \in state.linked /\ id \in state.windows[p]
  /\ Makes(RemoveUserFromChannel(Hides(state, {p}, id), p, id))

CreatePrivateChannel(p, i) ==
  /\ About("private") /\ p \in state.linked
  /\ i \notin state.made /\ \A j \in Private : state.owner[j] # p
  /\ Makes(AddUser([state EXCEPT !.made = @ \cup {i}, !.owner[i] = p], p, i))

ChannelInvite(p, i, q) ==
  /\ p \in state.linked /\ state.owner[i] = p /\ q \in state.on \ {p}
  /\ Makes([state EXCEPT !.invites[i] = @ \cup {q}])

ChannelExclude(p, i, q) ==
  /\ p \in state.linked /\ state.owner[i] = p /\ q \in state.invites[i]
  /\ Makes(SendClosePrivate([state EXCEPT !.invites[i] = @ \ {q}, !.users[i] = @ \ {q}], {q}, i))

\* Levels, groups and storage values, by which scripts decide who may join
ChangeRights(p) ==
  /\ About("normal") /\ p \in state.on
  /\ Leaves([state EXCEPT !.may = IF p \in @ THEN @ \ {p} ELSE @ \cup {p}],
            IF p \in state.may THEN {<<p, c>> : c \in Normal} ELSE {})

\* A reload lets every user join again, or not.
Load(c, kept) ==
  /\ kept \subseteq state.users[c] /\ kept # state.users[c]
  /\ state' = [state EXCEPT !.users[c] = kept]
  /\ past' = [past EXCEPT !.dropped = @ \cup ((state.users[c] \ kept) \X {c})]
  /\ UNCHANGED theme

CreateParty(p, a) ==
  /\ About(a) /\ p \in state.on /\ state.party[p] = Null /\ state.leader[a] = Null
  /\ Makes([state EXCEPT !.party[p] = a, !.leader[a] = p])
JoinParty(p, a) ==
  /\ p \in state.on /\ state.party[p] = Null /\ state.leader[a] # Null
  /\ Makes([state EXCEPT !.party[p] = a])
QuitParty(p, invited) ==
  /\ state.party[p] # Null
  /\ LET w == LeaveParty(state, p, invited)
     IN  Leaves(w, {<<q, "party">> : q \in {r \in Player : w.party[r] # state.party[r]}})

\* player:setGuild, with a guild that is in memory
SetGuildOf(p, g) ==
  /\ About("guild") /\ p \in state.on /\ g \in state.loaded \cup {Null} /\ g # state.guild[p]
  /\ state' = SetGuild(state, p, g)
  /\ past' = [past EXCEPT !.left = @ \cup {<<p, "guild">> : h \in {state.guild[p]} \ {Null}},
                          !.slipped = @ \cup {<<p, h>> : h \in {h \in {state.guild[p]} \ {Null} : g \in Rankless}}]
  /\ UNCHANGED theme

\* loadPlayer of somebody who is not in the game
LoadCopy(g) ==
  /\ About("guild") /\ g \notin state.loaded
  /\ state' = [state EXCEPT !.loaded = @ \cup {g}]
  /\ past' = [past EXCEPT !.copied = @ \cup {g}]
  /\ UNCHANGED theme

RequestAddVip(p, q) ==
  /\ About("vip") /\ About(q) /\ p \in state.linked /\ q \notin state.listed[p]
  /\ \E n \in Limits : Cardinality(state.listed[p]) < n
  /\ Makes([state EXCEPT !.listed[p] = @ \cup {q}, !.rows = @ \cup {<<account[p], q>>},
                       !.shown[p][q] = Status(Visible(state, p, q))])

\* The client has taken it off already; what is not listed is not deleted.
RequestRemoveVip(p, q) ==
  /\ p \in state.linked /\ state.shown[p][q] # "absent"
  /\ Makes([state EXCEPT !.listed[p] = @ \ {q}, !.shown[p][q] = "absent",
                       !.rows = IF q \in state.listed[p] THEN @ \ {<<account[p], q>>} ELSE @])

SetGhostMode(p) ==
  /\ About("vip") /\ p \in state.on
  /\ LET w == [state EXCEPT !.ghost = IF p \in @ THEN @ \ {p} ELSE @ \cup {p}]
     IN  Makes(NotifyStatusChange(w, p, p \notin w.ghost, Player \ Access))

CompanyInit ==
  /\ theme \in Themes
  /\ state = [on |-> {}, linked |-> {}, users |-> [c \in Channel |-> {}], made |-> {},
          owner |-> [i \in Private |-> Null], invites |-> [i \in Private |-> {}], may |-> Player,
          party |-> [p \in Player |-> Null], leader |-> [a \in Address |-> Null],
          guild |-> [p \in Player |-> Null], loaded |-> {}, members |-> [g \in Guild |-> {}],
          windows |-> [p \in Player |-> {}], listed |-> [p \in Player |-> {}], rows |-> {},
          shown |-> [p \in Player |-> Nothing], ghost |-> {}]
  /\ past = [left |-> {}, dropped |-> {}, slipped |-> {}, copied |-> {}]

CompanyNext ==
  \/ \E p \in Player :
       \/ LoseClient(p) \/ Reconnect(p) \/ RequestChannels(p) \/ ChangeRights(p) \/ SetGhostMode(p)
       \/ \E g \in Guild \cup {Null}, list \in SUBSET Player : Login(p, g, list)
       \/ \E invited \in BOOLEAN : Logout(p, invited) \/ QuitParty(p, invited)
       \/ \E c \in Channel : OpenChannel(p, c) /\ (c \in Normal => About("normal"))
       \/ \E id \in Ids : CloseChannel(p, id)
       \/ \E i \in Private : CreatePrivateChannel(p, i) \/ \E q \in Player : ChannelInvite(p, i, q) \/ ChannelExclude(p, i, q)
       \/ \E a \in Address : CreateParty(p, a) \/ JoinParty(p, a)
       \/ \E g \in Guild \cup {Null} : SetGuildOf(p, g)
       \/ \E q \in Player : RequestAddVip(p, q) \/ RequestRemoveVip(p, q)
  \/ \E c \in Normal, kept \in SUBSET Player : Load(c, kept)
  \/ \E g \in Guild : LoadCopy(g)

CompanySpec == CompanyInit /\ [][CompanyNext]_companyVars

-----------------------------------------------------------------------------
(* What is checked *)

\* What a channel or a guild points at is in the game, whoever left and how,
\* but for who slipped out of a guild into one that has no first rank.
PointersLive ==
  /\ \A c \in Channel : state.users[c] \subseteq state.on
  /\ \A i \in Private : state.invites[i] \subseteq state.on
  /\ \A g \in Guild : \A p \in state.members[g] : state.guild[p] = g \/ <<p, g>> \in past.slipped

\* A guild is in memory as long as somebody points at it, and no longer unless
\* it was loaded for a player who never came.
GuildsKept ==
  /\ \A p \in Player : state.guild[p] # Null => state.guild[p] \in state.loaded /\ p \in state.members[state.guild[p]]
  /\ \A g \in state.loaded : state.members[g] # {} \/ g \in past.copied

\* Whoever hears a private channel owns it or is invited; its owner hears it.
PrivateKept ==
  \A i \in Private :
    /\ i \in state.made <=> state.owner[i] # Null
    /\ state.users[i] \subseteq state.invites[i] \cup {state.owner[i]}
    /\ i \in state.made => state.owner[i] \in state.users[i] /\ \A j \in Private \ {i} : state.owner[j] # state.owner[i]

\* Whoever hears a party or a guild is of it, or has left one since its client
\* came: leaving does not end the listening, and the next party at the same
\* address has it among its users.
HeardByMembers ==
  \A p \in Player : \A c \in Heard(state, p) :
    /\ c \in Address => state.party[p] = c \/ <<p, "party">> \in past.left
    /\ c \in Guild => state.guild[p] = c \/ <<p, "guild">> \in past.left

\* A client hears what it shows a window of, unless scripts that were loaded
\* again put it out; and has a window of what it hears, unless it left the
\* party or guild, or lost the right to the channel that closing it asks for.
WindowsMatch ==
  \A p \in state.linked, id \in Ids :
    /\ id \in state.windows[p] => id \in {Id(c) : c \in Heard(state, p)} \/ <<p, id>> \in past.dropped
    /\ id \in {Id(c) : c \in Heard(state, p)} => id \in state.windows[p] \/ <<p, id>> \in past.left

\* Of a buddy that is listed a client shows what the player may know.
StatusExact ==
  \A p \in state.linked : \A q \in state.listed[p] :
    state.shown[p][q] # "absent" => state.shown[p][q] = Status(Visible(state, p, q))

CompanySound ==
  PointersLive /\ GuildsKept /\ PrivateKept /\ HeardByMembers /\ WindowsMatch /\ StatusExact
==============================================================================
