# A TLA+ verification project for YourOTS (The Forgotten Server)

The repository is a game server in C++. A **dispatcher** thread runs all game
logic, one task after another; a **network** thread (boost::asio) reads, writes
and times client connections; a **scheduler** thread hands tasks to the
dispatcher after a delay; a **database** thread executes queries that nobody
waits for. The hard behaviour is in how these threads meet, in game objects that
are deleted by counters while tasks, lists and other objects name them, in
requests that are several steps of which one may fail, and in chains of timers
that must neither end nor multiply.

The modules here translate that code (`src/src/*.cpp`, `*.h`) into TLA+. TLC
checks them on small instances, and TLAPS proves for every instance what
section 6 lists. `PROJECT.json` maps each definition to the lines it stands for
and lists runs, mutants, hazards and theorems.

## 1 The system: inventory

### Threads and infrastructure

| component | state | operations | talks to |
|---|---|---|---|
| **Dispatcher** (`tasks.cpp`, `thread_holder_base.h`) | `taskList`, thread state, the batch being run | `addTask`, `threadMain`, `shutdown`, `stop` | everybody posts to it |
| **Scheduler** (`scheduler.cpp`) | `eventIdTimerMap`, `lastEventId`, the queue of its io_context | `addEvent`, `stopEvent`, `shutdown` | posts to the dispatcher |
| **Database tasks** (`databasetasks.cpp`) | `tasks`, thread state | `addTask`, `flush`, `shutdown` | executes queries, posts callbacks to the dispatcher |
| **Connections** (`connection.cpp`, `server.cpp`) | connection state, handshake flags, message queue, two timers | `accept`, `parseHeader`, `parsePacket`, `send`, `onWriteOperation`, `close`, `handleTimeout`, `closeAll` | posts `Protocol::release` and requests to the dispatcher |
| **Output buffers** (`outputmessage.cpp`, `protocol.cpp`) | `bufferedProtocols`, a buffer per protocol | `addProtocolToAutosend`, `sendAll`, `getOutputBuffer` | scheduler, connections |
| **Service manager, startup, signals** (`server.cpp`, `otserv.cpp`, `signals.cpp`) | ports and their retries, the loader's condition variable | `open`, `accept`, `close`, `stop`, `main`, `mainLoader` | starts, stops and joins all threads |

### Players and their clients

| component | state | operations |
|---|---|---|
| **Game sessions** (`protocolgame.cpp`, `player.cpp`, `game.cpp`) | `ProtocolGame::player`, `eventConnect`, `Player::client`, reference counters, `ToReleaseCreatures` | `login`, `connect`, `fastRelog`, `logout`, `release`, `kickPlayer`, `death`, `checkCreatures`, `cleanup`, `setGameState` |
| **Waiting list** (`protocolgame.cpp`) | `waitList`, `priorityEnd` | `clientLogin` |
| **Tiles and what clients see** (`tile.cpp`, `protocolgame.cpp`) | the things of a tile, known creatures | add, update, replace, remove, move a thing; `checkCreatureAsKnown` |
| **Open containers, browse fields** (`player.cpp`, `game.cpp`) | `openContainers`, `browseFields` | open, close, move up, browse, relog |
| **Walking, delayed actions** (`creature.cpp`, `player.cpp`) | `eventWalk`, `listWalkDir`, `walkTask`, `actionTaskEvent` | start, stop, fire |
| **Conditions, outfits, mounts** (`condition.cpp`, `player.cpp`) | the conditions of a player, speed, skills, outfit | add, renew, execute, dispel, save, load |
| **Equipment** (`movement.cpp`, `player.cpp`) | what is worn, `inventoryAbilities` | equip, unequip, transform, decay, use charges |

### Game logic

| component | state | operations |
|---|---|---|
| **Trades** (`game.cpp`, `player.cpp`) | trade state, partner and item of both sides, `Game::tradeItems` | request, accept, close, and the notifications that close a trade |
| **Items and money** (`game.cpp`, `container.cpp`, `tile.cpp`, `player.cpp`) | the tree of cylinders | move, add, remove, `removeMoney`, `addMoney` |
| **Market** (`game.cpp`, `iomarket.cpp`) | offers, bank balances, depots, store coins | create, cancel, accept, expire |
| **Houses and beds** (`house.cpp`, `bed.cpp`, `iomapserialize.cpp`) | owner, lists, sleepers, things, rent | assign, transfer, invite, sleep, wake, pay, save, crash |
| **Parties** (`party.cpp`) | leader, members, invitations, pointers in the players | invite, join, revoke, pass leadership, leave, disband |
| **Chat, guilds, buddies** (`chat.cpp`, `guild.cpp`, `player.cpp`) | users and invitations of channels, members in memory, VIP lists | create, open, close, invite, leave |
| **Decay** (`game.cpp`, `item.cpp`) | four buckets, `toDecayItems`, duration and state of items | `startDecay`, `checkDecay`, `internalDecayItem`, `cleanup` |
| **Creatures** (`creature.cpp`, `monster.cpp`, `game.cpp`) | targets, friends, masters, summons, check lists | appear, move, disappear, die, search targets |
| **Spawns, global events, raids** (`spawn.cpp`, `globalevent.cpp`, `raids.cpp`) | maps of events and the id of the event that is pending | start, register, fire, reload, clear |
| the rest | combat, spells, npcs, map, loaders, Lua bindings, parsing, configuration, database driver | out of scope, see section 8 |

### Which behaviour is hard, and what would be correct

* **Hand-over between threads.** Tasks keep their order, none is lost or run
  twice, no notification is lost, and nothing accepted is lost at shutdown
  (Dispatcher, DatabaseTasks, Services).
* **Timers against answers.** A stop may come when the wait is pending, when its
  completion is queued, or when the task is in the dispatcher's list already; ids
  wrap around (Scheduler, Connection, Walk, Raids, GlobalEvents).
* **Objects that die while somebody names them.** Players, items, creatures,
  parties, browse fields and connections are deleted by counters or by
  themselves; every pointer to them must be gone by then (Session, Decay,
  Creatures, Party, Company, OpenContainers, Connection).
* **One request in several steps.** A trade is two tests and two moves, a disbanded
  party tells each member, a house is given up in memory and in the database at
  different times (Trade, Party, Items, Market, Houses).
* **What is given has to be taken back.** Bonuses, speeds, pictures and flags are
  changed when something begins and must be changed back by whatever ends it
  (Conditions, Equipment).
* **Copies of the state.** A client is told changes only, and must end up with what
  is there (TileView, OpenContainers, Company).
* **The end.** Everybody is kicked, releases are posted, the dispatcher closes,
  events and queries come to an end, all threads are joined.

## 2 Modules

| module | models | a step is |
|---|---|---|
| `Dispatcher` | the task list, from the first post to the end of the thread | a stretch between two lock operations |
| `Scheduler` | the io_context, its handlers and timers | a handler, or a call that posts one |
| `EventService` | abstract: what a client of the scheduler may rely on | |
| `DatabaseTasks` | the worker and the flushing dispatcher on one queue | a stretch between two lock operations |
| `Connection` | one connection, from accept to destruction | a handler, or a call under `connectionLock` |
| `Services` | main, loader, ports, joins | a handler or a stretch between two waits |
| `Session` | protocols, players and their reference counts | a dispatcher task, a packet, a closing connection |
| `WaitList` | `clientLogin` | a login, a logout, the passing of a timeout |
| `Autosend` | the autosend list, its repeating task, buffers that two threads write | a dispatcher task; taking or filling a buffer on the network thread |
| `Trade` | trades and everything that disturbs one | a request, or a move or step that notifies |
| `Equipment` | what a player wears and what it gives | a change of a slot with all its notifications |
| `Items` | a player, a tile, nested bags, money | a call with all its partial moves |
| `Market` | offers, money, goods, store coins | a request, a login, a logout, the stages of expiry |
| `Houses` | a house, its beds and its rows in the database | a request, a save, a start after a crash |
| `Party` | parties and invitations | a request, a login, a logout |
| `Company` | channels, guilds, buddies | a request, a login, a logout, a reload |
| `Decay` | items with a time, four buckets | a call; `checkDecay` entry by entry |
| `Creatures` | who knows, attacks, follows and owns whom | a call with all its notifications |
| `Spawns` | one spawn | a check, a delayed call, a removal |
| `GlobalEvents` | timers and think events | a round, a registration, a clear |
| `Raids` | the chain of checks and the chain of a raid | an event of the scheduler, a reload |
| `Walk` | a player's walk and postponed actions | an event of the scheduler, a request |
| `TileView` | a tile and a client's picture of it | a change with the messages it sends |
| `Conditions` | conditions, outfit and mount of a player | a call |
| `OpenContainers` | windows and browse fields | a request, a move, a relog |
| `ThreadsProofs` | theorems about `Dispatcher` and `DatabaseTasks`, section 6 | |
| `SchedulerProofs` | theorems about `Scheduler` | |
| `PlayersProofs` | theorems about `Houses` and `Conditions` | |
| `SessionProofs` | theorems about `Session` and `Company` | |
| `TradeProofs` | theorems about `Trade` and `Market` | |
| `ConnectionProofs` | theorems about `Connection`, `Autosend` and `WaitList` | |
| `WorldProofs` | theorems about `Party` and `Decay` | |
| `TimersProofs` | theorems about `GlobalEvents`, `Spawns`, `Raids`, `Services` and `Walk` | |

An `MC...` module extends the modules whose theorems state the run's properties and
instantiates the others for TLC. Several of them put components side by side that share no state: a variable `which`, chosen in the
initial state, says whose behaviour this is, the others stay as they begin. A
behaviour of all of them would be an interleaving of such behaviours, and an
invariant of one component reads no other, so nothing is lost by that, and
sharing a run keeps the number of runs small. Fairness is stated for each component
by itself (`WF_xVars(which = "x" /\ A)`).

`Scheduler` implements `EventService` (`Scheduler!Service` is the instance with
its refinement mapping). The other modules that use timers take the scheduler as
`EventService` describes it: an event that was added fires once, some time later,
unless it is stopped in time.

Conventions. An action is the whole handler. History variables are marked as such
at their declaration and no guard reads them, except in `Trade`, where `traded` is
reset. An operator under a comment "Mutant:" is a plausible wrong version of the
definition after it; no specification uses it, and `PROJECT.json` says which
property it breaks. Where C++ leaves the behaviour undefined (a null or dangling
pointer is used) the model stops in a state that says so (`crashed`, `Dangling`,
`broken`), or the value is a free choice.

### How state and actions correspond to the code

* **Dispatcher.** `taskList` is the list under `taskLock`; `batch` the list
  `threadMain` has swapped out. `worker` is where `threadMain` stands. `AddTask` is
  the locked part of `addTask`, which remembers in `poster` whether the list was
  empty; `Notify` is `notify_one` after the unlock. The ordered shutdown is three
  tasks (`RequestShutdown`/`Stop`, `RunGameShutdown`, `RunTerminator`);
  `AbortStartup` is the path of `main` on which no service came up. The atomic
  thread state is read and written in single steps: every decision that relates it
  to the list is taken under `taskLock`.
* **Scheduler, EventService.** Handlers are queued in `ready` in the order they were
  posted. `keys` are the ids in `eventIdTimerMap`, `armed` the tasks whose timer
  waits. A completion that is queued keeps its result. `lastEventId` counts modulo
  `MaxId`, 2^32 - 1 in the code: two pending events may have one id, `emplace`
  keeps the older timer, and arming it again cancels the older wait. Delays are
  left out: an armed timer may complete at any time. `addEvent` is called on the
  dispatcher thread and, by a port whose accept fails, on the network thread
  (`server.cpp:113`), where nothing but the delay of 15 s keeps the task alive until its
  id is read: `IdRead` gives any id there. `kept` is what a caller keeps to stop its
  event with; that port keeps none.
* **DatabaseTasks.** Worker and flusher each have a `hand`, the query they have
  popped and not yet executed or answered. `missed` records the window in which the
  notification of `shutdown` is lost: the worker has tested the state and not yet
  locked.
* **Connection.** An asynchronous operation is pending, completed with a result but
  not handled, or absent. `timeouts` counts timer handlers that are queued and
  cannot be recalled. `closeSocket` makes pending operations fail and leaves queued
  completions alone.
* **Services.** The loader notifies or does not; a wait may wake without cause; a
  notification nobody waits for is lost. The other threads appear only as far as
  their ends go.
* **Session.** `objects` is the memory for `Player` objects with counter, and whether
  the game, the check list or the release list refers to them; `References` counts
  who does. `tasks` is the dispatcher's queue, whose head a `Run...` action runs.
  `conn` distinguishes a closed connection from one whose object is gone
  (`isConnectionExpired`). Left out: `allowClones` (off by default), the game states
  CLOSING and CLOSED and the waiting list, which are the outcome "refused" of a
  login.
* **WaitList.** `priorityEnd` is an iterator into a deque: after a change elsewhere its
  value is undefined, and the model lets it point anywhere (`valid`).
* **Autosend.** `bufferedProtocols` counts how often a protocol is listed, `sendAlls`
  the scheduled `sendAll` tasks. The network thread writes to the same buffers, unlocked:
  the first message of an otclient and the answers to a death screen
  (`protocolgame.cpp:613`, `765`, `779`, `783`). It takes a buffer in one step and appends
  in another; `torn` names the protocols whose buffer the dispatcher used in between, and
  what is written then may be lost or land anywhere. In the run the second protocol logs
  in once and is written to only by the dispatcher, once.
* **Trade.** `place` says where each item is, `near` who is in the game and in reach.
  `CanAdd` is the test `internalAddItem` makes, which allows stacking, `Destination`
  where `internalMoveItem` puts an item when stacking is not allowed.
* **Items, Market, Houses.** Quantities are small numbers and the containers a tree;
  `live` is a player in memory and `saved` its rows; a crash goes back to what was
  written, table by table.
* **Decay.** Lists are bags: `in[b]` counts the entries of an item in bucket b. Times
  are in milliseconds, a round of `checkDecay` every 250 of them. `due` is a history
  variable, the time an item should have left; `twice` marks an item that a script
  got a second entry for, `stuck` one that keeps its decaying mark without an entry.
* **Creatures.** Positions are points of a line; a step moves one creature and runs all
  the notifications it causes, in the order of the code. A new target goes from a creature
  to its summons and theirs only as far as each sees it (`Told`): one that does not attacks
  nobody, and its summons are not told (`creature.cpp:964`). `isMasterInRange`, which only
  chooses the next step of a walk, is left out, and so are the paths themselves.
* **Walk, Conditions, Equipment, OpenContainers, Company, Houses** keep their state
  in one record and are written as operators from states to states, in the order of
  the calls, because the functions of the code call each other.
* **Party.** A party is an address that is used again once it was freed.

## 3 Runs

| run | distinct states | what is in it | bounds |
|---|---|---|---|
| `threads` | 37 969 | `Dispatcher`, `DatabaseTasks` | 3 tasks, one of which expires, 2 posting threads; 3 queries, pushed by the dispatcher and one network thread |
| `scheduler` | 596 112 | `Scheduler` against `EventService` | 3 events added on 2 threads, `MaxId = 1`: 2 ids |
| `clients` | 92 592 | `Connection`, `Autosend`, `WaitList`, `Session` | 2 messages, 2 timer handlers queued; 2 protocols, the first with 2 logins and 3 messages of both threads over a buffer of 2; 4 clients, one premium, at a server for 2; 2 clients that compete for one character without relogs, and one client that answers the death screen and is relogged by scripts, with 3 `Player` objects |
| `session` | 507 176 | `Session` | 2 protocols, 2 characters, 3 objects, 2 tasks and 1 release waiting, relogs from the death screen and by script, both values of replaceKickOnLogin; symmetry in all three sets |
| `trade` | 217 907 | `Trade`, `Equipment` | 3 players, a helmet, a bag and a pouch that fit into each other, two stacks; a player with 3 slots and 12 kinds of things, 2 levels; symmetry in the players |
| `world` | 876 709 | `Decay`, `Party`, `Creatures` | 2 items of 3 kinds; 4 players and 3 addresses of parties; a player, 2 monsters, one of which changes its target, 4 places and 5 acts; symmetry in the items |
| `goods` | 256 553 | `Items`, `Market`, `Houses` | 2 bags, 2 kinds of coins; 2 traders, 2 offers, 1 round of expiry; 2 players, 2 beds, 1 thing, 1 crash |
| `timers` | 154 957 | `Raids`, `Walk`, `Services`, `Spawns`, `GlobalEvents` | 2 raids with 2 and 1 events, 2 loads; paths of 2 steps, 3 requests; 2 ports, 2 errors; a spawn of 2 blocks; 2 timers, 1 think event, 2 clears |
| `players` | 307 498 | `Conditions`, `TileView`, `OpenContainers`, `Company` | families of conditions that interfere; a tile with 3 visible things, a client that remembers 1 creature; 1 or 2 players, 2 containers, 2 windows; 3 friends, 1 normal and 2 private channels, 2 parties, 2 guilds |
| `trade_stack` | violation | `Trade` | as `trade`, with 2 players |
| `timers_come` | violation | `GlobalEvents` | 2 timers, one of a script, 1 think event |
| `startup_hangs` | violation | `Services` | 1 port |

What the properties say:

* **threads.** `InOrder`: accepted tasks are finished in their order, none lost and
  none twice. `NoLostWakeup`: the thread never waits on tasks without a notification
  on its way. `DrainedAtExit`: an ordered shutdown leaves neither list nor batch.
  `WorkEnds`: accepted tasks finish, shutdown ends the thread. `QueriesSound`: each
  accepted query is in one place and executed once, only one in a thread's hand is
  overtaken, the worker is woken, a shutdown has executed everything.
  `QueriesSettle`: each query is executed and answered, and the worker ends unless
  it missed the notification.
* **scheduler.** `TimersSound`: every task has one owner until it is handed over or
  deleted, the table agrees with the timers, a wait that was cancelled in time hands
  nothing on, `addEvent` on the dispatcher thread reads the id of a task that still
  exists, and the ids that are kept are those of their events.
  `ImplementsEventService`: the refinement. `EventsSettle`: no event is forgotten,
  and shutdown ends the thread.
* **clients.** `ConnectionSound`: a write is outstanding exactly while messages are
  queued, output is in order, reads and writes are watched by timers, a disconnected
  connection keeps its socket only for its queue and has told its protocol.
  `SilentPeersAreDropped`: a peer that does nothing is closed, and a closed
  connection is destroyed. `AutosendSound`: an autosend list that is not empty has a
  `sendAll` on its way, output is in order unless two threads used its buffer at once,
  which happens to nobody before a login, and a protocol that is released is listed
  no more unless it logged in twice. `Flushed`: what was written is sent.
  `NobodyOvertaken`: a client waits in one place of the waiting list, which keeps its
  order and its turns. `SessionsSettle`: a closed client gives its player up, and
  kicking all players ends, except over an estranged player (section 5).
* **session.** `OnePlayerEach`: a character is in the game once. `RefsExact`: no step
  but a relog changes the difference between a counter and the number of references.
  `LinkedBothWays`: players and clients stay linked both ways. `OnlyRacedIsGhost`:
  only `connect` in the window between release and the end of the connection object
  leaves a player with a dead client.
* **trade.** `TradesSound`: trades are pairs of players in reach, `Game::tradeItems`
  is what is offered, nothing is offered together with something in or around it,
  and what is traded holds what it held when shown. `FailedTradeMovesNothing`.
  `EquipmentSound`: bonuses, flags and suppressions are those of what is worn.
* **world.** `PartiesSound`: parties, members, leaders, invitations and records of
  activity agree, nobody is invited twice or while in the party, no party is alone.
  `DecaySound`: an item has a reference for each entry and for the game, and what is
  marked as decaying is in a list and never overdue by two intervals.
  `CreaturesSound`: references are exact, no pointer is left to a creature that is gone,
  monsters with targets are awake.
* **goods.** `GoodsKept`: money is conserved by every path of removal and addition, but
  lost while a trade is open, and bags nest and weigh what they hold. `Conserved`: the
  market neither makes nor loses money, goods or coins. `OthersNeverTake`: nobody gets
  poorer in the market by what others do. `ExpiredLeave`: old offers leave it.
  `HousesSound`: who is inside is invited, beds and
  sleepers agree, the owner is kept, and nothing in a house is lost or doubled but by
  the crash that `astray` names.
  `PutOutAfterLetters`: a house is lost over rent only after all warnings, but by an owner
  who came between the last save and a crash, and by one who cannot be loaded.
* **timers.** `RaidsSound`: there is one chain of raid checks, and one more for each stop
  that came too late, the check that is remembered exists, and what runs is the next
  event of the one raid that runs. `WalkSound`: a player with steps to go has a walk
  event, one chain of them but for stops that came too late, and one intention is kept
  for the end of the walk. `PortsSound`: a port either waits for a connection or will be
  tried again. `AllEnd`: raids and walks end, and the process does when it is told to.
  `SpawnsSound`: a block has one monster at most, the removal of a monster is never
  overlooked, and once one was removed, no more blocks are vacant without a check to come
  than monsters have strayed from the zone. The code compares numbers (`spawn.cpp:435`), so
  a stray stands for a vacant block; before the first removal nothing is claimed.
  `EventsSound`: each kind of global event has one chain of rounds, one more for each late
  stop, and none with events is without but by a clear, or by a registration after its
  last event had been erased (`left`).
* **players.** `ConditionsSound`: speed, skills, light, picture and mount are those of
  the conditions that are there. `ScreensSound`: a client shows what is on the tile, in
  its order, windows and browse fields agree with what is there, and counters of browse
  fields are exact. `CompanySound`: channels and guilds point at nobody who is gone, a
  private channel is heard by its owner and those it invited, clients show the channels
  they hear and of their buddies what they may know.

**Why the bounds are enough.** They are chosen so that what can overlap does: a push
to an empty list, one to a full list and one while both are under way (3 tasks, 2
posters); both drainers with a query in hand and one in the list (3 queries); one
event more than there are ids, so that the counter has come round while older events
wait; a message in flight and one queued; a character replaced while its predecessor
is being released, which takes a third object only for one client; a third player who
competes for a partner of a trade; three of four players in a party with an address
used again; a decay time that is no whole number of rounds, so that items change from
bucket to bucket. Symmetry is used only where no property tells the values apart and
no liveness is checked.

**Bounds in guards.** `MaxTimeouts` (Connection), `MaxTasks`, `MaxReleases` and `Memory`
(Session), `MaxWrites` and `MaxLogins` (Autosend), `MaxRefs` (Decay: items and
references before a call adds some), `Acts` (Creatures), `MaxClears` (GlobalEvents), `MaxLoads` (Raids), `MaxPath`
and `MaxActs` (Walk), `MaxErrors` (Services), `MaxOffers`, `MaxOffersEach` and
`MaxChecks` (Market), `Patience`, `Crashes` and `Kicks` (Houses), `Stack` and `Load`
(Items). `MaxTasks` holds back the network, timers and scripts while the queue is long;
tasks the code posts from a task are not held back. `Memory` holds back whoever would have a `Player` created when the
model's objects are used up, so that no login waits for memory. `Small` in `MCSession` restricts
the third object as its comment says. The `Themes` and `Casts` of Company, Houses and
OpenContainers, and the families of Conditions, choose which operations one behaviour
has: those that touch the same state.

**Deadlock** is checked in `threads` and `scheduler`, which have a step for the state in
which everything has ended. The other models really may stop: everybody may have left
for good, or a bound is used up. Their configurations say so.

## 4 Fairness

Weak fairness only, and only of what the runtime does without being asked:

* **Dispatcher, DatabaseTasks:** the thread, the flusher and each pending
  `notify_one`: a thread that can run is run by the operating system, and the database
  answers. Nobody need post anything.
* **Scheduler:** the handlers (`io_context::run` runs what is ready), armed timers (time
  passes), and the return of `addEvent`.
* **Connection:** handlers, armed timers, error completions on a closed socket, and the
  destructor. Nothing is assumed of the peer.
* **Session:** the dispatcher's tasks, the steps of `setGameState`, a scheduled `connect`.
* **Autosend, Raids, Walk, Market:** the events of the scheduler, by `EventService`, for
  the market the answers of the database, and for Autosend two tasks that are posted to
  the dispatcher: the login a first message asks for, and the release of a closed
  connection.
* **Services:** main, loader and dispatcher, and the retries of ports.
* Trade, Equipment, Party, Company, Decay, Creatures, Spawns, GlobalEvents, Items, Houses,
  WaitList, Conditions, TileView and OpenContainers have safety and step properties only:
  each of their calls returns.

## 5 What the models show about the code

### Where the code and its documentation disagree

* `trade_stack` violates `BothReceive`. `playerAcceptTrade` tests the room for both items
  with stacking allowed (`game.cpp:3176`), moves both with `FLAG_IGNOREAUTOSTACK` and does
  not look at the result of the second move (`game.cpp:3184`). A stack that fits only onto
  another stays with its owner, who has received the other item.
* `timers_come` violates `TimersCome`. The first half of `/reload scripts` stops the event of
  the timers and keeps the timers of the xml file (`globalevent.cpp:41`): they never come
  again unless a script registers a timer, the server save of
  `data/globalevents/globalevents.xml:5` among them.
* `startup_hangs` violates `StartupEnds`. A loader that cannot read its configuration returns
  without a notification (`otserv.cpp:197`, `206`), and main waits for ever.

### Behaviours allowed by name

They are reachable in the models. A property that would exclude them is weakened by exactly
that case, which a history variable or a flag in brackets names, or the model stops there.

* **Session.** A ghost: `connect` treats a connection as gone only when its object is
  destroyed, so a player may be linked to a protocol that will never release it, contrary
  to the comment at `protocolgame.cpp:503` (`raced`). A death or a fast relog without a
  client uses the client (`player.cpp:2370`, `2506`; `crashed`). A second answer to the death
  screen logs in with an empty name (`protocolgame.cpp:774`) and takes the client from the
  player its first has put into the game; a script's fast relog can do the same. That
  player is estranged (`Estranged`): `kickPlayer` logs out whom the client holds, so the
  loop at `game.cpp:130` kicks it for ever and the server never shuts down. `KickingEnds`
  holds but for this, and the run reaches it. A login behind the shutdown
  task puts a player into the game who is never saved (`game.cpp:129`). A relog to a player
  without client takes no reference (`protocolgame.cpp:416`).
* **Trade.** Who accepts before offering makes the script see a null item (`game.cpp:3114`;
  `crashed`).
* **Autosend.** A second login of a protocol lists it twice (`protocolgame.cpp:250`). An
  answer to a death screen is written by the network thread, and `sendAll` may move the
  buffer away under it (`protocolgame.cpp:765`, `779`, `783`; `torn`), although the
  comment in `getOutputBuffer` says "dispatcher thread" (`protocol.cpp:70`).
* **WaitList.** A premium client at the distance 0 of `priorityEnd` is let in past
  `maxPlayers`, because 0 is the answer that lets in (`protocolgame.cpp:108`).
* **DatabaseTasks.** The notification of `shutdown` may be missed (`databasetasks.cpp:87`;
  `missed`): `join` never returns.
* **Scheduler.** After the counter came round two events may have one id, and one is dropped
  although nobody stopped it (`mayDrop`).
* **Connection, Services.** A failed accept leaves its connection in the manager
  (`server.cpp:109`). A retry of a port that could not be opened finds a dead pointer. Main
  may wake for nothing, and `stop` before `run` leaves a process that never ends (`astray`).
* **Decay.** A listed item that a script transforms gets a second entry and decays twice as
  fast (`twice`). An item may decay up to 875 ms early, when its bucket is the next one.
  Some corpses keep their decaying mark in no list and never go (`stuck`: items.xml, a dead
  lion 2890 to 2891, and 8273 to 8274). The removal from the list at `game.cpp:1431` is never
  reached.
* **Market.** An expired offer is paid back with the amount selected earlier, although some of
  it was sold since (`iomarket.cpp:110`; `excess`). A crash between an offer and the saving
  of its owner doubles or loses goods.
* **Items.** Change and withdrawals are lost while the bag they go into is traded; a bag may
  get one thing more than it has room for (`player.cpp:3082`, `game.cpp:1139`).
* **Houses.** The owner is written at once, warnings, rent and lists at the next save
  (`inherited`). Rent that evicts at startup saves the inbox while the stored tiles still
  hold the things (`astray`). Warnings count starts of the server. A player may lie in two
  beds within 50 ms (`doubled`). What cannot be saved at logout is lost. An owner whose
  player cannot be loaded loses the house at once and without a letter (`house.cpp:652`;
  `unread`), and the things stay in the house if the second attempt fails too.
* **Creatures.** A summon keeps its master as target; wild monsters keep a dead player's
  summon as target and monsters' summons as friends. A creature that was healed before
  `executeDeath` dies all the same.
* **Spawns, GlobalEvents, Raids.** A spawn makes monsters without bound when they wander off;
  `RATE_SPAWN = 1` lets one block starve another. `/reload globalevents` stops the think
  events of scripts. A one-shot raid leaves the list while it runs, so a reload neither stops
  nor deletes it; a stop that comes too late makes a second chain of checks or an event of a
  deleted raid (`stray`, `broken`); a raid without events runs for ever.
* **Walk.** A teleport stops a walk but keeps its list; late walk events multiply chains.
* **TileView.** A known creature is sent with an uninitialised id (`protocolgame.cpp:3113`;
  `garbled`). Clients that cannot see are told too (`creature.cpp:92`; `blurred`).
* **Conditions.** A login with a saved outfit condition and a mount leaves a player slower
  (`player.cpp:1247`; `saved`). A haste renewed within a second of its end coexists with a
  paralysis (`revived`). Renewed drunkenness keeps its own strength.
* **OpenContainers.** Logging out never gives back the references of browse-field windows
  (`left`); a field stays listed with a thing that has become immovable (`odd`); a container
  in two windows is closed in both at the client only.
* **Company.** Who leaves a party goes on hearing its channel, and a new party at the same
  address inherits the users (`party.cpp:29`); a player put into a guild without a lowest
  rank stays without (`slipped`); copies of offline players add guilds (`copied`).
* **Equipment.** A thing that runs out while worn is put on again by its own taking off
  (`movement.cpp:834`); a decay target without equip events leaves the slot's flag (`stuck`);
  suppressions are bits and percentages are recomputed from the base (`shared`, `drifted`).

## 6 Proofs

Each theorem is for every value of the constants, under the named assumptions of the module
it is about. All are of the form "the strengthened invariant holds initially and is kept by
each action", with a lemma per action or operator, and close with PTL.

| theorem | states | assumption |
|---|---|---|
| `ThreadsProofs` `TypeCorrect`, `OrderKept`, `WakeupNotLost`, `ShutdownDrains` | `TypeOK`, `InOrder`, `NoLostWakeup`, `DrainedAtExit` | expiring tasks are tasks; the two tasks of the shutdown are others |
| `ThreadsProofs` `QueriesAreSound` | `QueriesSound` | `NoQuery` is no query, the dispatcher is no network thread |
| `SchedulerProofs` `TimersAreSound` | `TimersSound` | ids are `0..MaxId`, `MaxId > 0` |
| `SchedulerProofs` `SchedulerImplements` | `ImplementsEventService`, the refinement | the same |
| `ConnectionProofs` `ConnectionsAreSound` | `ConnectionSound` | none on messages or their number |
| `ConnectionProofs` `OutputIsSound` | `AutosendSound` | a buffer holds a message; the bounds are numbers |
| `ConnectionProofs` `WaitingIsFair` | `NobodyOvertaken`, an invariant and three step properties | premium clients are clients, the maximum is a number |
| `SessionProofs` `OnePlayerForEach`, `GhostsAreRaced` | `OnePlayerEach`, `OnlyRacedIsGhost` | finitely many protocols; the bounds are numbers, `None` is nothing else |
| `SessionProofs` `ReferencesAreExact`, `LinksAreMutual` | the step properties `RefsExact`, `LinkedBothWays` | the same |
| `SessionProofs` `CompanyIsSound` | `CompanySound` | the kinds of channels have no id in common, `Null` is neither player nor channel |
| `TradeProofs` `TradesAreSound`, `FailedTradesMoveNothing` | `TradesSound`, the step property `FailedTradeMovesNothing` | finitely many items; stackable things are no containers, the capacity is a number, `None` is nothing else |
| `TradeProofs` `NothingIsLost`, `OthersKeepTheirs` | `Conserved`, the step property `OthersNeverTake` | finitely many traders; prices and amounts are positive; fee, bounds and what there is at the beginning are numbers |
| `WorldProofs` `PartiesAreSound` | `PartiesSound` | `None` is neither player nor address |
| `WorldProofs` `DecayingIsSound` | `DecaySound` | times are natural numbers; what items.xml says of kinds (`DataAssumption`) |
| `TimersProofs` `EventsAreSound` | `EventsSound` | none |
| `TimersProofs` `SpawnsAreSound` | `SpawnsSound` | finitely many blocks and monsters; no interval of a block is shorter than `MinInterval`, as the loader sees to |
| `TimersProofs` `RaidsAreSound` | `RaidsSound` | the numbers of events and of loads are numbers |
| `TimersProofs` `WalksAreSound` | `WalkSound` | a path has at most `MaxPath > 0` steps |
| `TimersProofs` `PortsAreSound` | `PortsSound` | the tasks of the dispatcher other than retries are no ports |
| `PlayersProofs` `HousesAreSound`, `PutOutIsWarned` | `HousesSound`, the step property `PutOutAfterLetters` | `None`, the house, players and beds differ |
| `PlayersProofs` `ConditionsAreSound` | `ConditionsSound` | finitely many offers; what an item gives lasts while it is worn and is no outfit; speeds of mounts are natural numbers |

### The inductive invariants

* **Dispatcher.** `Inv == TypeOK /\ InOrder /\ NoLostWakeup /\ Control /\ Once /\ LastTask`.
  `InOrder` is `accepted = finished \o batch \o taskList`. A swap keeps it only if the batch
  is used up, which `Control` says. `DrainedAtExit` needs that nothing is accepted behind the
  terminating task (`LastTask`), which needs that nothing is accepted twice (`Once`).
* **DatabaseTasks.** `DbInv`: the list is what is left of the queries pushed (`Placed`), and
  those taken are executed or in one of two hands, never in two places (`Settled`). Counting
  and order of `QueriesSound` follow; `Closing` relates the thread's state to the list.
* **Scheduler.** `IInv` adds to `TimersSound` who owns a task (`Owned`), that a task has one
  wait (`OneWait`), that an id is given before it is kept (`IdsKept`), that what is cancelled is reported as aborted (`CancelledAborted`), and
  why an aborted wait is excused: it was cancelled by a stop that was asked for while the
  task was pending (`StopsCovered`) or by another task of its id, which it has then met
  (`SameIdMayDrop`). The refinement takes each action to a step of `EventService` or a
  stutter, and its only non-trivial case, an aborted completion, is `AbortedMayDrop`.
* **Connection.** `ConnectionInv` is `ConnectionSound` with two facts: a connection that is
  not accepted is as it was created, and one that is destroyed has neither socket nor
  timers.
* **Autosend.** `AutosendInv` adds `Counted`: a protocol is listed at most once for each
  login, and at least once less when it is released. So a protocol with one login is
  forgotten by its one release. `Entered`: who is in the game or dead has logged in, so no
  buffer is torn before a login. Output is in order because what was delivered, what is under
  way and what is in the buffer make up `1 .. n` (`CountOn`).
* **WaitList.** `WaitListInv`: no client is in the list twice (`Single`), who is online is
  finitely many, and without a maximum nobody waits. Order and turns follow from what a
  step makes of the list. What is left when expired entries are dropped (`Left`) is the
  entries at the first, second, ... of the places that are kept (`Nth`), and counting what is
  below a place is one to one (`NthFacts`), so places keep their order (`LeftFacts`). Every
  attempt makes of what is left a list of some of it, in the same order, and perhaps one new
  entry (`Reshaped`), wherever the invalid iterator puts that. A turn is kept because a
  client who comes in makes the server fuller by one and moves those behind it up by one,
  while those before it had room for one more anyway.
* **Session.** `SessionInv == TypeOK /\ tasks \in Seq(AnyTask) /\ OneEach /\ QueueInv /\
  LinksTended /\ InCheck`. `QueueInv`: a release is queued only for a closed connection
  (`Quiet`), and every login of a closed protocol has a release behind it (`Followed`), so a
  login that comes late is undone. `LinksTended`: the client of a player in the game names
  the player and is open, or its release or login will come, or it was raced. `InCheck`:
  who is in the game or to be released is in the list of `checkCreatures`, which holds a
  reference, so a counter cannot reach zero early. The step properties compare the counter
  with those who refer before and after each action (`Exact`), task by task.
* **Company.** `CompanyInv` says more of those who hear a channel: why they do (`Reasons`,
  which adds normal channels to parties and guilds) and what their clients show (`Matches`);
  closing a window puts a player out of the channel only if it may still have it, and that
  it may, or has left it, is `Reasons`. `Slots`: a free slot has neither users nor
  invitations, and no owner is among the invited, so excluding somebody never takes the
  owner out. `Leaders`: the leader of a party is of it, so a party that is disbanded is left
  by its members only. Most steps are a chain of operators, each with a lemma that says what
  it leaves alone (`Hidden`, `Removed`, `Deleted`, `TalkLeft`, `PartyLeft`, `Moved`, `Told`).
* **Trade.** `TradeInv` conjoins both arguments: about the fields of the players (`TwoSides`,
  `Unanswered`, `TradeItemsExact`) and about containers (`Tree`, `OfferedOnce`,
  `OfferUnchanged`). A move changes what is around the items inside the moved one, and
  around no others; so an offer that is not disturbed keeps content and owner (`Keeps`).
* **Market.** `Total` is the number of pieces a sum is made of, so a step that moves some is
  a fact about finite sets (`TotalChange`, `TotalSplit`, `TotalRenamed`, `TotalOfSums`,
  `TotalOfGroups`, the last by a least counterexample instead of induction). `MarketInv` says
  that the books agree for each sort (`Books`), that ids of offers are unique and used in
  order (`OffersOK`), and of the rows that wait to be worked off that an offer they name has
  the same owner, goods and price and at most their amount (`RowsOK`). Without the last a row
  could give back too little, or to somebody else. A step gives each purse something or takes
  it (`Given`), which says both what becomes of the sums and who is not touched.
* **Party.** `PartyInv` says of the record `Now` what holds in the middle of a request too
  (`Good`: typing, pointers, invitations, activity, and that a freed address is clean,
  because it is used again), and what holds between requests only (nobody is invited
  twice, no party is alone, who is offline is in none). A request is a chain of operators,
  and most only take away, which is the relation `Shrinks` that keeps the second half.
* **Decay.** `DecayInv` says of each item that its counter is the sum of its entries
  (`Counted`), and of what is marked as decaying that it has an entry and is visited in time
  (`TendedTo`): bucket b is visited after `Wait(b)` rounds, and the time the item is overdue
  by then is bounded by what the rounding of buckets may lose (`Slack`). Both are needed
  together: that an item is never late is kept by a visit because the bucket it is put into
  is computed from its time left. An item with one entry is one that is not `twice`;
  `DataAssumption` (what items.xml says: a kind that stops the clock has no successor, and
  none decays to it) excludes what other data would do. The run's instance has no `stuck` kind; the
  theorem covers it.
* **GlobalEvents.** "One chain, and one more for each late stop" is not inductive: a clear
  stops only the round that is remembered. `GlobalInv` says that the one more is the
  remembered one (`OnlyRemembered`). The id of a new round is not in use, because as many
  numbers as there are rounds cannot all be among their ids (`NumberFree`).
* **Spawns.** Nobody looks whether a block was filled while it was warning. That it is still
  vacant when the delayed call comes is a matter of time: `CheckFar` says of a block that
  warns that it is not due yet, or that the next check is further away than the warnings
  last: checks come after the shortest interval of a block, which is at least `MinInterval`
  and longer than two warnings. `CheckPending` needs that a spawn that was never started holds
  nothing (`Untouched`). `StraysStandIn` follows by counting: monsters under the key of a
  block are one for each block that is not vacant, so the rest of those counted have strayed.
* **Raids.** `RaidsInv` is `RaidsSound` with typing and finiteness: chains are counted as in
  GlobalEvents, by sets of events rather than by the list of one raid.
* **Services.** A port has one retry at a time (`Single`), only while it is marked
  (`Marked`); while the dispatcher takes tasks no stop is under way (`Orderly`); when main
  runs the accept loops each port has a service (`Staged`). A second retry, a stop or an
  accept that is not renewed would each leave a port alone.
* **Walk.** The functions of the player turn one record into another, and on the way the
  walk event that runs may still be remembered. `WalkInv` holds between events (`WalkOK`: one
  event more than late stops, and that is the remembered one); the lemmas are about
  operators and say what holds in the middle too (`NotTooMany`). Of the two tasks every event
  that still waits is the remembered one (`WaitingKnown`), so a stop before a new one is set
  leaves one intention.
* **Houses.** `HousesInv` says of the record of the server what holds in the middle of a
  request (`Good`: typing, who is inside is in the game and may stay or is about to be
  kicked, beds and sleepers agree but for `doubled`, and the database knows the owner), that
  a thing that no crash touched is with exactly one keeper (`Placed`), of those in memory
  while the server runs and of those in the database while it is down, and that the letters
  were sent that are counted (`Warned`), in memory and, unless an owner was put in since the
  last save, in the database as well: otherwise a crash would bring back a count of letters
  that a former owner got. `PutOutIsWarned` follows from what a start may do to owner and
  warnings (`Charged`): an owner goes with all warnings counted, or because it was not found.
* **Conditions.** `Drift` is the part of the speed that neither the mount nor the conditions
  that are there explain, `Surplus` the same of skills. Every operator keeps both (`Keeps`),
  and leaves a body whose picture, light and outfit fit its conditions (`Proper`), of which a
  change of outfit may miss the last for a moment (`Plain`). So `ConditionsInv` is that
  nothing is unexplained, unless the player logged in mounted and disguised, and that haste
  and paralysis are apart. The second is about calls too: what `addCondition` leaves together
  it has put into the scheduler to be parted (`AddKeeps`). Only a login explains anew
  (`RelogKeeps`): the player comes without conditions and lacks the speed of its mount, gets
  its conditions back in some order (`AddAllKeeps`), and then that speed, if it still wears
  the mount.

Sums and repeated calls are folds over finite sets. A fold is the last value of a recursive
function on the subsets, which exists (`FoldExists`, from the cardinalities and a least
counterexample), and two such functions agree on every subset (`SubsetInduction`, which is
stated with a set instead of a predicate). `SumWith` shows that the order of a sum is
irrelevant; the order of calls is not, so what holds of them is shown for each order.

Lemmas on sequences (append, head and tail, positions), finite counts and bags of buckets
are stated once in the module that needs them.

### Only model-checked, and why

* All liveness (`WorkEnds`, `QueriesSettle`, `EventsSettle`, `SilentPeersAreDropped`,
  `SessionsSettle`, `Flushed`, `AllEnd`, `ExpiredLeave`): the installed provers do not reason about fairness and ENABLED.
* What recursion or a fold over lists and trees computes: `GoodsKept` (sums
  over nested bags), `ScreensSound` (folds over lists of things
  and windows), `EquipmentSound` (RECURSIVE operators).
* `CreaturesSound`: its operations are folds over lists of creatures, too.

## 7 Plan

Done: all modules of section 2, the twelve runs, and the theorems of section 6, in the order
of what most of the server stands on: threads and timers, connections, sessions, trades,
parties, decay, the chains of events, houses, the market, the waiting list, channels,
guilds and buddies.

Left, in order:

1. `Creatures` with comprehensions instead of folds, by the arguments of the parties and
   the sessions.
2. Modal windows, bans and the login protocol, as far as they have state between requests.


## 8 Not modelled, and why

* **Combat, spells, weapons, npcs, monster types**: arithmetic and random choice on
  attributes, without a protocol between parts. What they do to a player that lasts is in
  Conditions and Creatures.
* **Map and pathfinding**: geometry on large grids.
* **Loaders, Lua interface, message parsing, cryptography, configuration, console**:
  sequential conversions and wrappers; where their outcome matters it is a free choice of
  the model that uses it.
* **Login, status and old protocols**: one request and one answer over `Connection`.
* **Modal windows, bans, quests, accounts**: tables that are read and written in one step.
* **Database driver and player storage**: rows appear in Houses and Market. Reading them
  showed, outside of any model, that a connection lost inside a transaction is made anew
  and the rest runs in autocommit (`Database::executeQuery`), and that a failed BEGIN makes
  the destructor of `DBTransaction` unlock what it does not hold.
* **Within modelled components**: `allowClones`, the game states CLOSING and CLOSED, and the
  waiting list inside Session (they are "refused"); raids that a script reloads while one
  runs; decay into a kind of another class; guild ranks and door lists of houses; failing
  saves of offline copies; a random mount of a player who has none (`player.cpp:4616`).
