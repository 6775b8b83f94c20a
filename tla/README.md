# LombricABrac: models, model checking and proofs

LombricABrac is a turn-based artillery game of the Worms family: a C++ server
(`Server/`), a client with an ncurses and a Qt interface (`Client/`), and the
game physics they share (`sharedFiles/`). This directory holds TLA+ modules
of the server and of the parts of the client that answer to it, the TLC
configurations that check them and TLAPS proofs of their main properties.

| file | what it is |
|---|---|
| `Game.tla` | one room of the server: `game_thread`, `Game`, `Joueur`, and the messages of the sessions around it |
| `Turns.tla` | what a room promises its players, abstractly; `Game` implements it |
| `Locks.tla` | every thread of the server by the two mutexes it takes |
| `Matchmaking.tla` | how clients come into rooms and out of them: sessions, broker, rows, rooms |
| `Lobbies.tla` | what the server promises its users about rooms, abstractly; `Matchmaking` implements it |
| `Friends.tla` | accounts, sessions, the table of friendships and its invitations |
| `ClientSlot.tla` | the two threads of a client and the message slot between them |
| `Board.tla` | the map, the sprites and the weapons of a room, and the clients' copies |
| `MC*.tla`, `MC*.cfg` | instances for TLC |
| `GameProofs.tla`, `PromiseProofs.tla`, `LocksProofs.tla`, `MatchmakingProofs.tla`, `FriendsProofs.tla`, `ClientSlotProofs.tla`, `BoardProofs.tla` | theorems, for every value of the constants |
| `QueueLemmas.tla` | what reading and writing do to a queue, for all proofs |
| `PROJECT.json` | index: components, runs, mutations, source lines of every definition, findings, hazards, theorems |

To run them: `tlc -config MCGame.cfg MCGame.tla`, `tlapm GameProofs.tla`. A
`.cfg` belongs to the MC module whose name it begins with.

## 1. The system

### Threads and channels

The server is one process. The main thread accepts connections
(`main.cpp:66-82`) and starts a `client_thread` for each; one `broker_thread`
runs all the time; each room has a `game_thread`. They share a SQLite database
(`db`, protected by `DataBase_mutex`) and one ZeroMQ PUB socket (`publisher`,
protected by `pub_mutex`), all globals of `utils.cpp:16-20`. Every thread reads
from a SUB socket of its own. The channels are

| channel | from | to |
|---|---|---|
| `all` | sessions, rooms | the broker |
| `users/<id>/broker` | the broker | the session of user `id` |
| `users/<id>/room` | the room of user `id` | the session of user `id` |
| `room/<id>/client` | sessions, the broker | room `id` |

A message is two frames, an address and contents. A channel is FIFO from one
publisher; what is published before the subscriber has connected is lost. A
receive times out after 50 ms in a session, 500 ms in the broker and in a room
that plays, never in a room that waits for players.

### Components

**Room** (`game_thread.cpp`, `game.cpp`, `in_game_player.cpp`,
`partie_serv.cpp`). State: `current_step` (`STEP_ROOM`, `STEP_GAME`,
`STEP_ENDSCREEN`), the players with their team and worms, the settings, the
sprites, the current worm, the two clocks. Operations: the lobby messages
(`handle_room`: PING, join a team, settings, INFO_ROOM, START), the game
messages (`handle_game`: move, shoot, change weapon, chat), quits
(`handle_quit`), the end of a round and of the game (`end_round`, `end_game`).
Hard: messages are stale when the room reads them; a round ends by a shot, by a
move or by its clock, in any order and even twice in one iteration; players may
be spectators or dead; the settings change while players come in. Right when:
rounds go to players who can play, the game ends exactly when it is decided,
nothing but the game changes the roster once it has started, the points written
are those earned, every worm gets its turn and every game ends.

**Session** (`user_thread.cpp`). State: `usr` (id, authenticated), `is_on_game`,
`game_url`, two subscriptions. It relays in both directions: while `is_on_game`
everything but invitations and friend lists goes to the room; otherwise a join
request is a PING with a 50 ms wait, and the rest goes to `handle_instruction`.
Hard: it takes the next frame for the answer; it leaves `is_on_game` only on
`ROOM_CLOSED`; a guest that leaves a lobby blocks it in a read. Right when: it
forwards to a room that has it and is told when the room closes.

**Broker** (`broker.cpp`). State: the queue `waiting_players`. It creates rooms
(row, thread, answer to the owner), pings every open room while somebody waits,
matches the first waiting player with each positive answer, and forwards the
rest. Hard: several rooms answer, one player may wait twice or be gone. Right
when: a player is matched once, with a room that has a place.

**Instructions** (`utils.cpp`). `handle_instruction` holds `DataBase_mutex`
throughout and takes `pub_mutex` inside it. Authentication and registration,
messages, friendship, rank and history, creation of a room, matchmaking, DECO.
Right when: both mutexes are released on every path and taken in one order.

**Database** (`database.cpp`, `init_db.cpp`). Tables users, lombrics, friends,
messages, history (one row per room: `user_1..4_id`, `user_1..4_points`,
`finished`). The members `m_stringStream` and `m_data_type` of the single
`DataBase` make its operations non reentrant. Right when: a friendship exists
once, a room's row is written once and closed, an id belongs to one room.

**Socket protocol** (`listener.cpp`, `client.cpp`): a type byte, four bytes of
size, the serialized message; a message without text is sent without a size.
Right when: both sides agree on where a message ends.

**Client core** (`client.cpp`, `client_Inattendus.cpp`, `client_menu.cpp`,
`client_setters.cpp`, `client_Partie.cpp`, `partie.cpp`): a network thread keeps
the one message read last in `msg`; `waitAnswers` polls it for the answer the
interface expects. The rest updates the client's picture of lobby and game.
Right when: every answer reaches who waits for it and no message is overwritten.

**Replays** (`client_replay.cpp`), **physics** (`sharedFiles/src`), **windows**
(the rest of `Client/src`): files, arithmetic and screens.

Vendored code (SQLite, bcrypt, `zhelpers.hpp`), generated Qt headers and images
are outside the inventory. The repository has no tests; its documents are the
two README files and the comments.

### Hazards

`PROJECT.json` lists, each at its line, what can go wrong here that a test
would hardly reach, and the properties that watch it. In short: mutexes locked
twice, kept or taken in two orders; frames and statements of two threads mixed;
an action of the room's loop that runs twice; numbers and indices mixed;
messages applied after the state they were meant for is gone; refusals and
strangers' messages taken for an answer; lost first messages; searches that
outlive their connection; the flag `connected` shared by several sessions; the
client's one answer slot; shots filed in three parts; clients that explode the
shots on walls of their own; sprites that remove each other's floor; the byte
protocol. Some of them are certain failures of the code that the models contain
and the properties except: those have a note that says so, and no property.

## 2. The modules

The system is cut by question, and each module keeps of the others what its
questions need:

| | room thread | session | broker | client | mutexes | database |
|---|---|---|---|---|---|---|
| `Game` | every handler | what it forwards | - | when it sends what | the double lock of a quit | points, `finished` |
| `Locks` | its critical sections | its critical sections | its critical sections | may be slow | all | statements |
| `Matchmaking` | life, players | whole loop | whole loop | requests | the lost `pub_mutex` | rooms |
| `Friends` | - | login to DECO | redirection | its lists | one instruction at a time | users, friends |
| `ClientSlot` | - | - | - | both threads | `msgMutex` | - |
| `Board` | `Partie`, shots, moves | - | - | its copy of the board | - | - |

In every module one action stands for one handler, one step of a loop or one
access to shared state, guards and assignments follow the code's, and an
operation that goes on after a point where another thread could act is cut
there. `PROJECT.json` gives the lines of every definition. A definition named
`<definition>_<what is wrong>` stands before some of the originals: it is a
mutation, a mistake one could make in that code, and is used by no other
definition. For every property one mutation is known that TLC catches with that
property, in the run that checks it.

### 2.1 `Game.tla`: a room

* **Control of the thread.** `at` says where `game_thread` is: `recv` before a
  receive, `check` before `check_round_time`, `turn` inside the do-while of
  `end_round`; `hung`, `crashed` and `exited` are the ways it can stop. `ret` is
  where `end_round` returns to, because it is called from the handlers and from
  the loop. `EndRound` is the part up to the test `nbr_team <= 1`; if the game
  goes on, each iteration of the do-while is a `PassTurn` or the `TakeTurn` that
  ends it, so an endless loop is an infinite behaviour and not an infinite step.
* **Messages.** `inbox` is the room's queue. Sessions publish what their client
  may send at that moment, and the room reads it later, whatever has happened.
  A message the room publishes is delivered at once; the staleness of the
  clients' picture is the staleness of the messages they have already sent.
* **Players.** `m_players` holds ids in order; `m_Equipe`, `nbr_lomb` and
  `m_current_lombric` are the members of `Joueur`. A worm is a pair of its
  player and its slot. `nbr_lomb` is fixed on entry while `m_lomb_nb` changes:
  a slot from `nbr_lomb` on is a *ghost*, a `Lombric_c` with id 0, and the model
  keeps what the code does with it (`findById` of 0, `getNextLombricId` that
  returns 0, a move that names the id 0).
* **Damage.** A shot kills any set of worms, a move at most the worm that
  moves, a rise of the water any set, and all of them from the level `WaterTop`
  on (`Board` has the physics). Weapons are `PassTour` and the armed ones.
* **Clocks.** `roundOver` and `gameOver` are the results of `check_round_time`
  and `check_time`; they become true at any moment of a game, and a new round
  resets the first.
* **Sessions.** `out`, `asking` (PING sent), `joined` (`is_on_game`), `in`
  (INFO_ROOM sent, on the room's channel), `left` (the guest left the lobby: his
  client sends CLIENT_QUIT_ROOM without a size, `client.cpp:252`, and the session
  waits for the size and forwards nothing until the connection closes; the room
  keeps the guest meanwhile). A session that the broker matched is in
  `joined` too. `tour` is the client with the flag `is_yours`.
* **Uninitialised values and crashes.** `last_team`, uninitialised when no team
  is left, is any value; an armed shot by the null current worm leads to
  `crashed`, and one by a worm that was deleted, a pointer to freed memory, may
  crash or go on with any effect; the second lock of `pub_mutex` in `handle_quit` leads to `hung`, where nobody can
  publish any more.

Left out: settings without effect on control, the in-game chat and the change
of weapon (they only relay), positions and life.

* **The room's row.** The table has columns for `Columns` players, four in the
  code. `end_game` numbers the players with a team from 1 on and writes to
  `user_<n>_points`; for a number without a column SQLite refuses the statement,
  and the points of the user are raised all the same. `InRow` are the players
  that have a column.

Properties: `TypeOK` (with the bound 3 of `current_step`: a game ends at most
twice), `TurnInv` (while the room waits, the current player, his slot and
`currentWorms` agree and the worm is on the board and no ghost, so a late shot
uses a worm that exists; the exception, `FirstTurnWithoutWorm`, is the first turn
of a game whose first player got no worm, and the only crashes are in it. There
`currentWorms` is null or a ghost, and a ghost may be moved with the id 0, die and
be freed without the end of the round, `partie_serv.cpp:71`), `EndOnlyWhenDecided`, `EndIsFinal` (no round after the end,
although `end_round` may run again), `RosterFrozen` (no message left from the
lobby changes players, teams or worms after START), `LedgerAgrees` (what a closed
room's row says of a user is what it earned, and who is not in it earned nothing
unless the row had no column left), `WaterInMap` (`end_round` twice
does not raise the water past the map), and the liveness properties
`WormEventuallyPlays` and `GameTerminates`.

### 2.2 `Turns.tla`: what a room promises

Four variables: the phase, the players, the worms in play with their teams, the
worm whose round it is. Once the game started nobody enters, worms only leave
the board, a round is given to a worm of the board as long as two teams are on
it, and the game is decided when at most one is, or abandoned when everybody
left. `Game!ImplementsTurns` is this specification under the mapping

* `phase` from `current_step` (a game that ended twice is still over),
* `players` the elements of `m_players`,
* `board` the worms of `spriteVector` that are not ghosts, with `m_Equipe`,
* `up` the current worm, or nobody when the pointer is null or the worm is a
  ghost: no client is told that it may play then. It is a START with a spectator
  as player 0 that makes this case (`game.cpp:505`).

One step of `Turns` is one handler of `Game`, with the rise of the water that
belongs to it; the search of `end_round` (`PassTurn`), the clocks, the sessions
and the second end of a game are stutters or `Sink`. `Turns` does not say whose
message a round's shot was: a shot sent before the round was taken away fires the
worm of the player who is up when the room reads it, in the code and here.

### 2.3 `Locks.tla`: mutexes, frames, statements

Every operation of a thread is reduced to the mutexes it takes, the statements
it runs (`Prepare` writes `m_sql_request`, `Execute` runs it) and the messages
it publishes (`SendAddress`, `SendContents`), each any number of times; the
operations are grouped by what they lock in what order (`LocksDb`,
`PublishesUnderDb`, `Publishes`, `Unlocked`). The exceptions are those of the
code: `RegisterFails` returns with `DataBase_mutex` locked (`utils.cpp:354`),
`QuitMessage` locks `pub_mutex` twice (`game.cpp:615`), `receive` waits for the
rest of a client's message with `DataBase_mutex` held (`utils.cpp:50`), and
three operations run statements without the mutex.

Properties: `MutexInv`, `FramesPaired` (the two frames of a message are never
separated), `OwnStatement` (a locked operation executes the statement it wrote,
unless an unlocked one overwrote it), `NobodyWaitsInCircle` (somebody can run,
but for the three exceptions above), and the liveness `PubIsReleased`. What they
show is that the order of the two mutexes and the locked sections are sound among
themselves. The exceptions are failures of the code that nothing here excludes:
each of them stops the server or mixes statements, and the properties say only
that nothing else does.

### 2.4 `Matchmaking.tla`: into a room and out of it

A client wishes to create a room, to be matched, or to join a friend's room; its
session handles a request once its SUB socket has been silent for 50 ms, which
is why `Silent` guards what a client sends and one step stands for the client's
message and its handling. A join is a PING and two outcomes: `JoinAnswer`, the
next frame of the SUB socket, whatever it is, of which only the address is read;
`JoinTimeout`. `half` then says that the contents frame is still there, and
`ReadShifted` reads the rest askew until a timeout puts it right. The broker has
one action per branch of its loop; while somebody waits each of them first
pings every open room, as the top of the loop does. A room
answers PING with its id or "false", adds who sends INFO_ROOM, starts, ends once
(`ended`) or twice (`overrun`, never closed in the database, see 4), and exits.
A room thread subscribes after its owner was answered, so what comes before is
lost; two rooms inserted in one second may read back the same id. A connection
may close at any moment and come back.

A guest may leave its lobby and keep the connection (`QuitRoom`,
`client_menu.cpp:50-58`). The client is back in its menus; its session, in the
game, reads the size that CLIENT_QUIT_ROOM does not have (`user_thread.cpp:100`)
and from then on takes the bytes of later requests for a size and contents: it
neither reads its SUB socket nor forwards anything, so the client is `left` until
its connection closes. The room learns of the departure only then, and until then
counts the guest among its players. A game may end twice, and END_GAME is then
sent twice (`RoomEndGame`, `game.cpp:339`).

Properties: `TypeOK`; `MatchedOnce` (a search is in one place only between
client and answer, although all rooms answer all broadcasts); `LobbyServed` (a
client in a lobby is a player of the room its session forwards to);
`SomeoneIsMatched` (the first in `waiting_players` is matched while a lobby has
a place); `PlayersReleased` (the sessions of the players that a room has when it
ends leave `is_on_game`). The conditions written into the last four are cases in
which the code really fails: a search that outlives its connection, rooms with one
id, a `pub_mutex` that is lost, the session of a guest that left, which nothing
releases. A search that outlives its connection is modelled and allowed, not
checked: no property follows what becomes of it. `ImplementsLobbies` is the next section.

**`Lobbies.tla`: what users are promised.** Six variables: the life of each
room, who is in it, whose client wants a room, whose client shows which room,
who quit a room, and who is excused. A user enters a lobby while its client waits
and it is in no other room; its client shows a room it is in, until the room's
game is over or the user quits; who quit keeps its seat and has no other room
after; a
room closes once it is over, and only a room without players is given up before
its game ended. `Matchmaking!ImplementsLobbies` is this specification under the
mapping

* `life` from `thread` (`starting` is not open yet, `overrun` is over, `exited`
  closed),
* `seats` the `m_players` of a room, `shown` the clients in the state `lobby`, by
  the `game_url` of their session,
* `waiting` the clients that asked and have no room on the screen, `gone` those
  that left a lobby (`left`),
* `excused` the users of `dropped`, and everybody once `OwnIds` is false: a
  search of an older connection may move a session to another room, and two
  rooms with one id answer each other's messages. That is where the code gives
  no guarantee; a user that closes no connection keeps its promise whatever the
  others do.

What makes it hard is that an end is two messages. END_GAME puts the client back
in the menus while its session still forwards to the old room, so it can ask for
a new room before ROOM_CLOSED arrives. The request then goes to a room that is
over, and is lost: the abstract user waits from then on. The refinement says that this is the worst: nobody enters a second room
before the first has closed, and neither message of the old room reaches a
client that shows the next one. `OneRoom` (a user is in one room at a time, and
in no other than the one it sees) is an invariant of `Lobbies`.

### 2.5 `Friends.tla`: accounts and friendships

Connections log in (registration included), subscribe to their user's channel,
ask for all invitations, then make requests, accept, refuse, list, delete, log
out or close. The table `friends` is a set of rows with a direction, found in
either direction as in the code; an invitation goes to the broker if `connected`
says so, and from it to every session subscribed to that user. The client's list
of invitations counts entries, because the same one may arrive twice.
`connected` is one flag for all sessions of an account and is cleared by DECO
only; DECO leaves the session subscribed. `willing`, `told`, `shared`, `mixed`
and `strayed` are history: who asked or accepted whom, what each client was
told, and the three situations in which the code gives no guarantee.

Properties: `TypeOK`; `OneRowPerPair` (crossing requests make one row);
`ConsentsUnlessMixed` (both users of a friendship asked or accepted, although
`accept_friend_invite` accepts either direction); `RequestTold` (a request is in
the answer to "all invitations" or on its way to the session; what a client was
told is remembered, so that an invitation which the replacement of the list,
`client_menu.cpp:145`, then throws away is not noticed). The three
exceptions: a second account on a connection hears the first one's channel
(`mixed`), a second session of an account loses the flag when the first logs out
(`shared`), a request to a name that does not exist goes to an uninitialised id
(`strayed`, `utils.cpp:195-203`).

### 2.6 `ClientSlot.tla`: the client's answer slot

The network thread reads type and text of a message into the slot under
`msgMutex`, and files it under `msgMutex` in a second critical section; the
interface thread resets the type, sends, polls under the mutex, and takes the
text after it. Each access the interface makes without the mutex is a step
(`WaitAnswers`, `Take`, `Copy`, and `CopyMessages` and `ClearMessages` of the
notifications). `ReadEnd` keeps the mutex when the server closes
(`client.cpp:283`); the unlock at the end of `waitAnswers` frees a mutex that its
thread does not hold.

The server publishes SHOOT, UPDATE_WALL and LOMB_DMG to every player, whatever its
client shows (`Shot`); the client goes into a game and out of it when it likes
(`EnterGame`, `LeaveGame`), asks while it is out of it and takes shots while it is
in it. So the reset at the beginning of a request (`client.cpp:310`) may throw
away a part that the network thread has read and not filed; `lost` remembers it.
A fourth part that is filed before the three are taken makes the test `== 3` of
`getTableUpdate` false for ever, in the code and here.

Properties: `TypeOK`; `ShownInOrder`; `DrawsWholeShots` (the n-th shot taken is
the three parts of the n-th shot sent: "all or none of the information",
`client_Partie.cpp:27`; after a part was thrown away the three may be of two
shots, and nothing is said. It is no claim that shots are taken); `NeverStale` (what a request returns was
sent after it); `AnswerReturns` (the interface does not wait for ever, unless
the server closes or a type without a case, PING, takes the slot).

### 2.7 `Board.tla`: walls, worms and shots

`Partie::update` is a loop of sweeps over the sprites, one sprite at a time
(`UpdateSprite`, `NextSweep`), until nothing moves; a sprite that dies is erased
and may take life, floor or rest from others, those already visited included.
Integer arithmetic replaces the floating point: speeds in 1/16 cell per update,
gravity 2/16, positions rounded as `std::round` does, which keeps what matters
here, the order of events and the cells they happen in. The room fires missiles
and bats, makes a move of the client without looking at its map, raises the
water and draws a place for health boxes.

Each client has a copy of the walls and of its worm and checks moves on them. It
takes a shot with what it did for the room (`ClientSimulates`; a second one that
comes before the first is taken makes it take none, `TooMany`), and simulates it
at its own time: when its projectile explodes (`ClientExplodes`), before or after
the room's, before or after the next round, is a choice, and so is where
(`Impacts`) and where its worm comes to rest (`Thrown`). The walls this removes
are in `deleted` until `Synchronize` puts them back (`synchronizeMap`), removes
those the room removed, and applies NEXT_ROUND. Between the two a client whose
turn it is may walk into a cell that is a wall for the room, which then makes the
move: `strayed` remembers that one has.

Properties: `TypeOK`; `NotBuried` (no worm or box in a wall, though the cells of
a move come from an older map, until a client has strayed); `WallsKnown` (what a
client takes for air where the room has a wall is what its own explosions removed
and will be put back: why `NotBuried` holds); `AtRest` (when `update` returned every worm
stands, alive, above the water); `BoxFindsPlace` (the draw ends); `UpdateReturns`
(`update` makes at most `LastFall + 2` sweeps, however fast the shot). The last
two also except runs in which a client has strayed: a worm in a wall above air
lands where it is and falls again, and `update` never returns.

`Fastest` bounds the speed upwards of a shot, a bat or an explosion. The code
has such a bound for any build, the largest int times the constant of the weapon
(`arme.cpp:25`), and `Blow * Radius` for an explosion (`lombric.cpp:96`); the
force a client sends is not checked, so `UpdateReturns` is a function of it.

`InitVie` and `MaxVie` are parameters the code does not order (the form of the
interface allows 50 to 100 and 50 to 200): a worm may start above the maximum
that `addLife` enforces, and keeps what it has until it is hit. `TypeOK` bounds
a life by the larger of the two.

## 3. The runs

| run | instance | shows |
|---|---|---|
| `room_two_players` | 2 players, 1 to 2 worms each as the owner chooses, 3 teams of which he may drop one, 2 messages in the queue, `WaterTop` 1 | the safety properties of `Game` but the ledger, ghosts included |
| `room_turns` | 2 players, 2 worms each, 2 teams, 1 message, `WaterTop` 2 | no worm starves, every game ends, `Game` implements `Turns` |
| `room_three_players` | 3 players, 1 worm each, a row of 2 columns, 1 message, `WaterTop` 1 | no player starves; the ledger |
| `locks` | a session, a room, the broker | `Locks` |
| `matchmaking` | 2 users, 1 room with 1 place, 1 disturbance (a connection that closes or a notification), queues of 2 | types and liveness of `Matchmaking` |
| `matchmaking_rooms` | 2 users, 2 rooms with 1 place, queues of 2 | searches and lobbies with several rooms, guests that leave, `Matchmaking` implements `Lobbies`; no connection closes |
| `friends` | 3 accounts, 2 connections, 2 requests, 3 logins, queues of 1 | `Friends` |
| `answers` | 6 messages the server sends by itself, of which at most 2 are no part of a shot, 1 request | `ClientSlot` |
| `board` | a map of 4 by 4 with a ledge over a pit and a step, 2 worms, 2 shots, 1 move, 1 box, 1 clock, at most 3 of these inputs together | `Board` |

The largest have one to six million states and take two to four minutes.
`CHECK_DEADLOCK` is off in all of them: threads exit, hang or crash, clients
need not do anything, and the bounded inputs run out.

**Bounds and why they are enough.**
*Game.* A message is stale with a queue of one; two let a choice wait behind a
change of the settings, or a setting behind START. The rotation over slots needs
two worms per player, that over players a third one. Two teams are decided by
one death, three let a choice name a team that is dropped. With `WaterTop` 1 the
first rise drowns everybody, with 2 some. Three players and two columns are a
room wider than its row. In the code there are 4 teams, up to 8
worms and queues bounded by ZeroMQ; the theorems do not depend on these numbers.
*Locks.* One thread of each kind has every order of the two mutexes; the
theorems are for any number.
*Matchmaking.* Two users compete for one place; two rooms answer one search; a
queue of two holds two rooms' answers. `MaxPlayers` 1 instead of 4 makes rooms
full at once. `MaxEvents` is 0 in the larger run, whose properties except users
that lost a connection, so that run has none; it is 1 in the other.
*Friends.* Three accounts let a third party's row, list or channel interfere;
two connections let one account be there twice, three logins let a connection
change its account while another is there; two requests cross, or follow each
other. `Symmetry` exchanges accounts and connections; only invariants are
checked with it.
*ClientSlot.* Six messages are two shots, or one with notifications and part of
the next; the request can meet a part of either. A second request repeats the
first, whose traces are the slot and the vectors; the theorems are for any number.
*Board.* The ledge is two cells thick, so that one missile opens a hole and two
open the way down; the worms stand side by side, so a bat hits after a move and
an explosion reaches both; the fall into the pit is deep enough to be hurt. The
step is the wall that a client's own explosion removes and its worm walks into.
Three inputs are a shot, the round after it and a stray move, or two shots and a
move between them. `Fastest` is above the speeds of the instance.

**Fairness, and why the code justifies it.**
`Game`: weak fairness of `Room`, the operating system running the room's thread
(with its 500 ms receive timeout it never blocks in a game), and of
`RoundExpires`, a clock that advances; `GameTerminates` adds the game's clock.
Clients may never send anything.
`Locks`: weak fairness of each thread inside an operation (`Step`), none for
starting an operation and none for `Receive`, which waits for a client. Weak
fairness is enough: `PubIsReleased` does not need a mutex to be granted to
everybody, and the code's mutexes promise no order.
`Matchmaking`: weak fairness of each room thread and of each session, strong
fairness of the broker. Strong, because `QueueMax` stands for ZeroMQ's limit of
a thousand messages: here a queue is full again and again and the broker, which
in the code never waits for one, is disabled meanwhile. A game need not end.
`ClientSlot`: both threads run, and the server answers (`Net`, `Waiting`,
`ClearMessages`, `Answer`). `Friends` and `Board` state safety only;
`UpdateReturns` bounds the sweeps of `update` instead: each of them visits
finitely many sprites.

## 4. Where the code and its comments disagree

Three runs end in a counterexample, each for a sentence of the source:

| run | the code |
|---|---|
| `winners` | `nb_alive_teams` stores an index, `end_game` compares it with a number: the point goes to the team before the winning one, or to nobody (`game.cpp:253`, `343`; the comment is at `344`) |
| `any_answer_joins` | a session that waits for the answer to PING takes any frame for it: a notification, or the "false" of a full room, makes it join (`user_thread.cpp:133-143`, "The room responded") |
| `left_moves` | `moveCurrentLombric` tests `newPos[0]-1` twice: every move to the left is refused and the worm stays elsewhere than its player sees it (`partie_serv.cpp:108`; `Client/src/partie.cpp:197` promises the left arrow) |

Other things the models contain as the code has them, without a run of their
own; where a property would be false because of one, the property names it:

* `end_round` twice in one iteration takes `current_step` to 3, and the room is
  never closed in the database (`game_thread.cpp:54-59`; `ErrorExit`, `overrun`).
* A choice of team read after the teams were reduced gives a team beyond
  `m_team_nb` (`game.cpp:71`, `101`); `TypeOK` bounds it by `INIT_NB_TEAMS` only.
* `getNextLombricId` makes `nbr_lomb` tries modulo `m_lomb_nb` and may miss a
  live worm (`in_game_player.cpp:21-23`). `WormEventuallyPlays` is therefore
  checked with a fixed number of worms; it fails when the owner changes it.
* START gives the first turn to player 0, spectator or not, with worms or not
  (`game.cpp:505`): the current worm is null or a ghost, which may die and be freed
  before an armed shot follows the pointer (`FirstTurnWithoutWorm`).
* A fifth player is paid and written nowhere (`game.cpp:345-354`,
  `init_db.cpp:76-88`).
* A guest that leaves its lobby blocks its session until the connection closes,
  and stays a player of the room (`client_menu.cpp:50-58`, `user_thread.cpp:100`).
* A client may walk into a wall that only its own simulation of a shot has
  removed, and the room follows it (`partie.cpp:330-334`, `partie_serv.cpp:111`).
* A part of a shot that a request throws away shifts all later shots, and a shot
  that comes before the last one was taken stops them all (`client.cpp:310`,
  `client_Partie.cpp:29`).
* A quit that leaves somebody in a room locks `pub_mutex` twice and stops every
  publisher (`game.cpp:615`, `in_game_player.cpp:40`); a registration with a
  known name keeps `DataBase_mutex` (`utils.cpp:354`).
* A search made over a connection that closed is still answered.
* The three situations of `Friends`, and in the client the mutex kept at the end
  of a connection, the types without a case, and the unlock of a mutex that is
  not held.

## 5. What is proved

### `GameProofs.tla`

For every set of users, every number of teams and worms and every bound on the
queue that satisfy `GameAssumption` (the owner is a user, the null values are
none of the things they stand apart from, the sizes are positive and the choices
within them):

| theorem | property |
|---|---|
| `Invariance` | `[]IInv` |
| `TypeCorrect` | `[]TypeOK` |
| `TurnCorrect` | `[]TurnInv` |
| `EndFinal` | `[]EndIsFinal` |
| `LedgerCorrect` | `[]LedgerAgrees` |
| `RosterStays` | `RosterFrozen` |
| `EndDecided` | `EndOnlyWhenDecided` |

None of the properties is inductive alone. `IInv` adds to the types and to
`TurnInv`

* `StepInv`: where the thread may be at each step. In the lobby it is never in
  `check` or `turn` and there is no sprite; `turn` only happens in a game with
  players. Without it a round could start in a lobby.
* `Decided`: before the second `end_round` of an iteration, with the game over,
  at most one team is alive. The second call can only remove worms, so it ends
  the game again and cannot give a round: that is why `current_step` stops at 3
  and why `EndIsFinal` holds.
* `SpriteInv`: a worm on the board belongs to a player with a team. It links
  `nb_alive_teams`, which goes through players and slots, with the teams on the
  board (`TeamsAgree`), as `EndOnlyWhenDecided` needs.
* `LedgerInv`: nothing is written before the end, and at `STEP_ENDSCREEN` it is
  written once. A room that ended twice has points that differ from its row, but
  it is never closed, so `LedgerAgrees` holds, for every number of players and of
  columns: `InRowPlays` says that who is in the row has a team, so what end_game
  paid and what it wrote differ for players beyond the columns only.

`TurnCorrect` needs no more than `TurnInv` itself: START makes the exception,
nothing but `end_round` changes the current player or worm, and a worm that is no
ghost and loses its life ends the round (`HandleMoveStep`). A shot that may follow
a dangling pointer finds a current worm that is not on the board, and by `TurnInv`
that is in the first turn (`HandleShootStep`).

`InitIInv` proves the initial states, one lemma per handler the steps
(`HandleStartStep`, `EndRoundKeepsIInv`, `TakeTurnStep`, ...), `SessionsFrame`
and `RestFrame` the steps that leave the game alone. `LeastElement` finds the
slot `NextSlot` chooses, by the well-foundedness of the naturals below a bound;
`NextSlotAlive` says that a worm given a turn is alive; `ReadInbox` and
`PublishInbox` type the queue.

### `PromiseProofs.tla`

Under the same assumption:

| theorem | property |
|---|---|
| `SideInvariance` | `[](IInv /\ SideInv)` |
| `WaterStays` | `[]WaterInMap` |
| `RoomImplementsTurns` | `ImplementsTurns` |

`SideInv` has two parts that are inductive together with `IInv`: `SeaInv`, how
high the water may stand at each step (below `WaterTop` in a game, because the
rise that reaches it drowns everybody and so ends the game; one more after the
second end), and `SearchInv`, that nobody is up in the lobby and that a worm is
searched for only while two teams are alive. The refinement has one lemma per
kind of step, named for the handler (`StartPromise`, `EndRoundPromise`,
`TurnPromise`, `QuitPromise`), `PromiseFrame` and `PromiseBoard` for the steps
that change nothing or only the board of `Turns`; `AtMostOne` turns the
cardinality of the teams alive into `OneTeamLeft`, and `PromiseStep` is the case
split over `Next`. `TurnPromise` is where the invariant is needed: a worm found
by the search must be on the board, and two teams must be too.

### `LocksProofs.tla`

For any number of sessions and rooms, from `LocksAssumption` (the null owners
are no threads and differ):

| theorem | property |
|---|---|
| `MutexesHeld` | `[]MutexInv` |
| `FramesStayPaired` | `[]FramesPaired` |
| `StatementsOwned` | `[]OwnStatement` |
| `NoDeadlock` | `[]NobodyWaitsInCircle` |

The invariant joins `MutexInv`, `FramesPaired` and `OwnStatement`; `NoCircle` is
a consequence of `MutexInv` alone: who holds `pub_mutex` never asks for
`DataBase_mutex`, so whoever waits for `DataBase_mutex` waits for a thread that
runs, or that waits for `pub_mutex`, whose owner runs.

### `MatchmakingProofs.tla`

For any finite set of users, any number of rooms and places and any bounds, from
`MatchmakingAssumption` (the sizes are positive; `"0"`, the id a PING of the
broker names, is no user's):

| theorem | property |
|---|---|
| `MatchmakingTyped` | `[]TypeOK` |
| `PlayersMatchedOnce` | `[]MatchedOnce` |
| `ClientsServedInLobbies` | `[]LobbyServed` |
| `RoomsKeepPromises` | `ImplementsLobbies` |
| `OneRoomAtATime` | `[]Promise!OneRoom` |

All of them are about messages on their way, so the invariants count
them and order them. `Count(q, S)` is how many messages of a queue are in S, and
`Led(q, T, S)` that none of T comes before the first of S; the lemmas
`CountAppend`, `CountTail`, `LedAppend` and `LedTail` say what writing and
reading do to them.

* `BaseInv`: types; who sends what (an INFO_ROOM is about a user, a room hears of
  a quit only from a session that was dropped); a room that has not started has
  no player and no message; who waits for a PING is outside of games.
* `RequestInv`: the places of a user's searches (`waiting_players`, the broker's
  socket, the answers in the session's) hold one together if the client is
  looking, one more if it lost a connection, none once it plays; the same for the
  creation of rooms. `BrokerRequests` moves a search from one place to the
  next. It is enough for `MatchedOnce`.
* `LobbyInv`, for users that lost no connection, as long as no room has the id of
  another (`OwnIds`; two rows inserted in one second may read back the same id,
  and `LobbyServed` excepts that). Four parts for each user: `Member`, that the
  players of an open room are in its game and that a client in a lobby is a
  player there; `Asks`, that one INFO_ROOM is on its way at most, of a client
  that is in no room and hears of none; `Enters`, that who was let in hears of
  it, before END_GAME; `Leaving`, that ROOM_CLOSED comes once, after END_GAME, to
  clients that are in no room any more. Without the order a client could be let
  in after the closing of its room was read, and forward to nobody.

`Frame` is for the steps a user's session and rooms do not notice, `OtherLobby`
for those of other users; each remaining kind of step has a lemma of its own.

* `EndsInv`, for the refinement: when an END_GAME is on its way to a client that
  enters or shows a room, that room has ended. `LobbyInv` alone does not say of
  which room it is, and a client must not leave one that goes on.

A guest that quits (`QuitRoomBase`, `QuitLobby`) is in no state that `LobbyInv`
says anything about: it has no request on the way, its session reads nothing and
it asks for nothing, so what the room still sends it is lost and its seat harms
nobody.

`PromiseStep` maps each step to a step of `Lobbies` or to a stutter, one lemma
per action (`NothingPromised` for the stutters, `PromiseLeaves` for a guest that
quits, `GoneForever` for a connection that closes and so excuses its user);
`InitPromise` maps the initial states.
`OneRoomAtATime` follows from `Member`.

### `FriendsProofs.tla`

For any accounts and connections, without a bound on requests, logins and queues
(`FriendsAssumption`: the null user is no user):

| theorem | property |
|---|---|
| `FriendsTyped` | `[]TypeOK` |
| `OneRow` | `[]OneRowPerPair` |
| `ConsentGiven` | `[]ConsentsUnlessMixed` |
| `RequestsTold` | `[]RequestTold` |

The types and `OneRowPerPair` need `SessionInv` (a session past its login has a
registered user and hears its channel). `RequestTold` needs `SenderInv` (requests
come from registered users, so the list of invitations finds them) and
`ConnectedInv`: the flag tells the truth for users with one session. `ConsentsUnlessMixed` rests on a chain of what clients can know:
`SentInv` (a row and an invitation come from one who was willing), `ChannelInv`
(a connection hears one user), `HeardInv` (what a client has in its lists, its
answer or its queue was asked of the user whose channel it hears). An acceptance
names an invitation the client has, so the other one asked.

### `ClientSlotProofs.tla`

For any number of messages and requests (`ClientSlotAssumption`: they are
natural numbers):

| theorem | property |
|---|---|
| `ClientSlotTyped` | `[]TypeOK` |
| `NotificationsInOrder` | `[]ShownInOrder` |
| `WholeShots` | `[]DrawsWholeShots` |
| `AnswersNeverStale` | `[]NeverStale` |

`WireInv` says that ranks grow along the wire and that the requests and what was
sent unasked add up to the ranks used; `AnswerInv` follows the one answer from
the wire to the slot, half read under the mutex or whole, and is why `Copy`,
which reads the text without the mutex, may find a later text but never an
earlier one. `FiledInv` and `ShownInv` order the vectors. `PartsInv` says, as long
as no part was thrown away, which part of all that were sent each message is:
it is an existential, a numbering of the places of the wire by the number of parts
sent before them, that goes on from the vector (`TableInv`) through the slot to
the server; it is given anew whenever the wire grows or is read (`PlacesSent`,
`PlacesRead`). With it the k-th part in the vector after n shots is part 3n + k,
which is `DrawsWholeShots`.

### `BoardProofs.tla`

For any map, any placement of any worms in it, any speeds, radius and damage
(`BoardAssumption`: the worms are placed in the air above a wall, there is one
at least, the lives are positive, losses are not negative):

| theorem | property |
|---|---|
| `BoardInv` | `[]IInv` |
| `BoardTyped` | `[]TypeOK` |
| `NeverBuried` | `[]NotBuried` |
| `ClientsKnowTheWalls` | `[]WallsKnown` |
| `UpdateLeavesRest` | `[]AtRest` |
| `BoxesFall` | `[]BoxFindsPlace` |
| `UpdateEnds` | `[]UpdateReturns` |

* `WallInv` and `MailInv`: what a client knows as air and did not make air by its
  own explosions is air in the room. What a shot of the room removed is remembered
  in `blockDeleted` and reported later, the level of the water comes with
  NEXT_ROUND, both only take walls away; what the client's own explosions removed
  is in `deleted` until it is put back (`ClientExplodesStep`, `SynchronizeStep`).
  So a move names a cell that was air for the room too, or the client has strayed
  (`ClientMovesStep`, `HandleMoveStep`).
* `SpriteInv`: worms and boxes are in `Space`, the air as long as no client has
  strayed; a projectile flies and has no id. The damage of an explosion keeps it
  (`ExplosedFacts`).
* `RestInv`: while a sweep has moved nothing, the sprites it has passed are
  settled: alive, still, on a wall, above the water. A sprite that dies sets
  `isMovement`, so a sweep that takes floor away is never the last one
  (`DieStep`).
* `CurrentInv`: the worm whose turn it is is alive while its client may be heard,
  and after a move that did not end the round; so there is a sprite that shoots.

`BoxFindsPlace` follows from `AtRest` and `NotBuried`: where a worm stands in the
air the column has air above a wall. `AtRest` itself needs no exception.

`UpdateEnds` needs `FastestAssumption`, which only names the fastest speed
upwards, and a second inductive invariant, `TimeInv`, over the time of the next
update of each sprite, in behaviours without a stray client (`StrayedStays`: once
one has strayed nothing is claimed any more):

* what is sent off (a projectile, a worm that a bat or an explosion hit: `Blown`)
  has come back to the height of the map within `Flight` updates, and left it
  (`FlightLands`); a worm is sent off at 0 or where a projectile ended, no later
  than `Flight` (`BlowBounded` bounds what an explosion gives);
* everything else that moves falls without initial speed (`Falling`). It started
  no later than `2 * Flight` and ten updates for each row above it: ten updates
  are enough for a row and for the pause on a ledge, for a box too, which falls
  four times slower (`TenUpdates`, `FallenOnTime`);
* what stands still after `Flight + 1` has a floor (`RestsOn`): the only thing
  that removes floors is a projectile, and none is left;
* so nothing moves after `LastFall`, no worm comes to the cell of a box after
  `LastFall + 1`, and a sweep that neither moves nor erases anything is the last
  (`SurviveInTime`, `DieInTime`, `SweepInTime`).

### What TLC checked first, and what the proofs changed

Every inductive invariant was an invariant of a TLC run before it was proved:
those of `Game`, `Locks`, `Friends` and `ClientSlot` in the instances of section
3 or smaller ones, those of `Board` (`IInv` and `TimeInv`) in instances of some
million states, those of `Matchmaking` with two rooms and with one room of four
places and two disturbances.

Four things came out of the proofs. The bound of a life in `Board` was
`MaxVie` and is not inductive when a worm starts with more (2.7). The walls of
the clients became a property of their own, because `NotBuried` cannot be proved
without them, and with the clients' own explosions in the model both got their
exceptions. `MatchedOnce` needs that no user is called as the broker calls
nobody, `"0"`; in the code ids are positive numbers of the table users. And the
bound of `UpdateReturns` was a number that fitted the speeds of one instance; it
is now a function of the speeds and of the height of the map.

### What is only model-checked

* Liveness (`WormEventuallyPlays`, `GameTerminates`, `PubIsReleased`,
  `SomeoneIsMatched`, `PlayersReleased`, `AnswerReturns`), which is out of the
  prover's reach.
* The properties of section 4 are false, so there is nothing to prove.

All invariants and action properties of the passing runs, and the refinements
of `Turns` and `Lobbies`, are theorems.

## 6. Not modelled, and why

* **Bytes of the socket** (`listener.cpp`, `sendMessage`, `readMessage`): sizes
  that are not sent, lengths taken with `strlen`, pieces written over each
  other. They are matters of single calls; the hazards list them.
* **Users, messages, worms and ranking tables** beyond login and registration:
  statements that read or write one row for their own client.
* **Replays**: files written and read by one thread. **Windows**, both
  interfaces: input and output. **Accept loop**: starts a thread per connection.
* **A restart of the server.** Nothing in the code handles it; rows left open
  and the flag `connected` are listed as a hazard.
* **Vendored code**: SQLite, its shell and header, bcrypt and `zhelpers.hpp` are
  about 260 000 of the 274 000 lines in `Server/`; what they promise is assumed.

## 7. What comes next

1. `Listener.tla`: the byte protocol, with pieces and missing sizes.
2. The rows of the rooms after a restart, and the ids read back by timestamp.
3. An abstract specification of `Friends` (pairs that asked and agreed) that it
   implements.
