---------------------------- MODULE Matchmaking ----------------------------
(***************************************************************************)
(* How a client comes into a room: the sessions (user_thread.cpp), the     *)
(* broker with its queue of waiting players (broker.cpp), the rows of the  *)
(* rooms (database.cpp:659-753) and, of each room, its thread's life and   *)
(* its players (game_thread.cpp, game.cpp; Game.tla has the rest).         *)
(*                                                                         *)
(* Abstractions.  A session reads its SUB socket until it is silent, and   *)
(* only then its client (user_thread.cpp:39-75), so a client's message is  *)
(* handled in one step, when the socket is silent.  Of the messages of a   *)
(* lobby or a game only those that enter, start and end it are kept.       *)
(***************************************************************************)
EXTENDS Naturals, Sequences, FiniteSets

CONSTANTS
  Users,       \* accounts; each has one connection at a time
  MaxRooms,    \* bound on the rooms created
  MaxPlayers,  \* the 4 of the PING handler
  QueueMax,    \* bound on the messages waiting for a room, a session, the broker
  MaxEvents    \* bound on the connections that close and notifications sent, together

ASSUME MatchmakingAssumption ==
  /\ MaxRooms \in Nat \ {0} /\ MaxPlayers \in Nat \ {0} /\ QueueMax \in Nat \ {0}
  /\ MaxEvents \in Nat
  /\ IsFiniteSet(Users) /\ "0" \notin Users

RoomIds == 1 .. MaxRooms
NoRoom == 0
Unsent == "0"    \* receiver_id of a PING of the broker, no user's

VARIABLES
  client,      \* what each client is doing
  is_on_game, game_url,
  sub,         \* messages waiting in the SUB socket of each session
  half,        \* the address of the first of them was read, its contents was not
  ping,        \* the room a session waits to hear from, 50 ms at most
  waiting_players, inbox,   \* the broker's queue and its SUB socket
  thread,      \* life of each game_thread
  owner,       \* m_owner_id
  room_id,     \* the id it was given, m_game_id
  m_players, rinbox,        \* its players and its SUB socket
  same_second, \* the rows inserted within the second of the last one
  finished,    \* the column finished of each row
  hung,        \* pub_mutex is lost (a quit that left players in a room)
  dropped, chats \* the users that lost a connection, once each; notifications sent

session == <<client, is_on_game, game_url, sub, half, ping>>
rooms   == <<thread, owner, room_id, m_players, rinbox>>
rows    == <<same_second, finished>>
broker  == <<waiting_players, inbox>>
bounds  == <<dropped, chats>>
vars    == <<session, rooms, rows, broker, hung, bounds>>

Clients == {"off", "menu", "creating", "looking", "asking", "joined", "entering", "lobby", "left"}
Lives == {"none", "starting", "lobby", "playing", "ended", "overrun", "exited"}

(* Messages: type, the room they name and the user they come from, if any. *)
Msg(t, r, u) == [type |-> t, room |-> r, user |-> u]

Init ==
  /\ client = [u \in Users |-> "menu"]
  /\ is_on_game = [u \in Users |-> FALSE]
  /\ game_url = [u \in Users |-> NoRoom]
  /\ sub = [u \in Users |-> <<>>]
  /\ half = [u \in Users |-> FALSE]
  /\ ping = [u \in Users |-> NoRoom]
  /\ waiting_players = <<>>
  /\ inbox = <<>>
  /\ thread = [k \in RoomIds |-> "none"]
  /\ owner = [k \in RoomIds |-> Unsent]
  /\ room_id = [k \in RoomIds |-> NoRoom]
  /\ m_players = [k \in RoomIds |-> {}]
  /\ rinbox = [k \in RoomIds |-> <<>>]
  /\ same_second = {}
  /\ finished = [k \in RoomIds |-> FALSE]
  /\ hung = FALSE
  /\ dropped = {}
  /\ chats = 0

-----------------------------------------------------------------------------
(* Publishing.  A message for a session that is not connected, or for a    *)
(* room without a subscriber, is lost.                                     *)
Subscribed(k) == thread[k] \in {"lobby", "playing", "ended", "overrun"}
Hears(k, r) == Subscribed(k) /\ room_id[k] = r
Space(r) == \A k \in RoomIds : Hears(k, r) => Len(rinbox[k]) < QueueMax
ToRoom(r, m) == rinbox' = [k \in RoomIds |-> IF Hears(k, r) THEN Append(rinbox[k], m) ELSE rinbox[k]]

ToBroker(m) == Len(inbox) < QueueMax /\ inbox' = Append(inbox, m)

(* One message to each user of a set.  The session of a client that left   *)
(* its lobby reads its SUB socket no more (QuitRoom).                      *)
Deaf == {"off", "left"}
SpaceFor(us) == \A u \in us : Len(sub[u]) < QueueMax
Deliver(us, m) == [u \in Users |-> IF u \in us /\ client[u] \notin Deaf THEN Append(sub[u], m) ELSE sub[u]]
ToSessions(us, m) == SpaceFor(us) /\ sub' = Deliver(us, m)

-----------------------------------------------------------------------------
(* What a client sends.  Its session reads it once the SUB socket has been *)
(* silent for 50 ms; while is_on_game it goes to the room, which ignores   *)
(* the requests of a client in the menus.                                  *)
Silent(u) == ~hung /\ sub[u] = <<>> /\ ~half[u] /\ ping[u] = NoRoom

Request(u, wish) == Silent(u) /\ client[u] = "menu" /\ client' = [client EXCEPT ![u] = wish]

CreateRoom(u) ==
  /\ Request(u, "creating")
  /\ Cardinality({k \in RoomIds : thread[k] # "none"}) + Len(inbox) < MaxRooms
  /\ IF is_on_game[u] THEN UNCHANGED inbox ELSE ToBroker(Msg("CLIENT_CREATE_ROOM", NoRoom, u))
  /\ UNCHANGED <<is_on_game, game_url, sub, half, ping, waiting_players, rooms, rows, hung, bounds>>

FindMatch_while_playing(u) ==
  /\ Request(u, "looking")
  /\ ToBroker(Msg("CLIENT_LOOKUP_MATCH", NoRoom, u))
  /\ UNCHANGED <<is_on_game, game_url, sub, half, ping, waiting_players, rooms, rows, hung, bounds>>
FindMatch(u) ==
  /\ Request(u, "looking")
  /\ IF is_on_game[u] THEN UNCHANGED inbox ELSE ToBroker(Msg("CLIENT_LOOKUP_MATCH", NoRoom, u))
  /\ UNCHANGED <<is_on_game, game_url, sub, half, ping, waiting_players, rooms, rows, hung, bounds>>

(* A room a friend invited to, perhaps long ago. *)
JoinPartie(u) ==
  /\ Request(u, "asking")
  /\ \E r \in RoomIds :
       /\ thread[r] # "none"
       /\ IF is_on_game[u]
          THEN UNCHANGED <<ping, rinbox>>
          ELSE /\ ping' = [ping EXCEPT ![u] = r]
               /\ Space(r) /\ ToRoom(r, Msg("PING", r, u))
  /\ UNCHANGED <<is_on_game, game_url, sub, half, broker, thread, owner, room_id, m_players, rows,
                 hung, bounds>>

(* The frame that comes within 50 ms is taken for the room's answer: only  *)
(* its address is read.                                                    *)
JoinAnswer(u) ==
  /\ ping[u] # NoRoom /\ sub[u] # <<>>
  /\ half' = [half EXCEPT ![u] = TRUE]
  /\ is_on_game' = [is_on_game EXCEPT ![u] = TRUE]
  /\ game_url' = [game_url EXCEPT ![u] = ping[u]]
  /\ ping' = [ping EXCEPT ![u] = NoRoom]
  /\ client' = [client EXCEPT ![u] = "joined"]
  /\ UNCHANGED <<sub, broker, rooms, rows, hung, bounds>>

JoinTimeout(u) ==
  /\ ping[u] # NoRoom /\ sub[u] = <<>>
  /\ ping' = [ping EXCEPT ![u] = NoRoom]
  /\ client' = [client EXCEPT ![u] = "menu"]
  /\ UNCHANGED <<is_on_game, game_url, sub, half, broker, rooms, rows, hung, bounds>>

(* The contents frame left by JoinAnswer is read as an address, and what   *)
(* is read as its contents is the address of the next message, or nothing  *)
(* after 50 ms.                                                            *)
ReadShifted(u) ==
  /\ half[u] /\ sub[u] # <<>>
  /\ sub' = [sub EXCEPT ![u] = Tail(@)]
  /\ half' = [half EXCEPT ![u] = Len(sub[u]) > 1]
  /\ UNCHANGED <<client, is_on_game, game_url, ping, broker, rooms, rows, hung, bounds>>

(* A message read whole, by its channel, its type and is_on_game; the rest *)
(* goes to handle_instruction, which ignores the types of a room.          *)
OfRoom == {"PING", "INFO_ROOM", "END_GAME", "ROOM_CLOSED"}
Answered(u, wish, result) == client' = IF client[u] = wish THEN [client EXCEPT ![u] = result] ELSE client

Receive(u) ==
  /\ sub[u] # <<>> /\ ~half[u] /\ ping[u] = NoRoom
  /\ sub' = [sub EXCEPT ![u] = Tail(@)]
  /\ LET m == Head(sub[u])
     IN  \/ /\ m.type = "ROOM_CLOSED"
            /\ is_on_game' = [is_on_game EXCEPT ![u] = FALSE]
            /\ UNCHANGED <<client, game_url>>
         \/ /\ m.type \in OfRoom \ {"ROOM_CLOSED"}
            /\ \/ is_on_game[u] /\ m.type = "INFO_ROOM" /\ Answered(u, "entering", "lobby")
               \/ is_on_game[u] /\ m.type = "END_GAME" /\ Answered(u, "lobby", "menu")
               \/ (~is_on_game[u] \/ m.type = "PING") /\ UNCHANGED client
            /\ UNCHANGED <<is_on_game, game_url>>
         \/ /\ m.type \in {"CLIENT_CREATE_ROOM_RESPONSE", "CLIENT_LOOKUP_RESPONSE"}
            /\ is_on_game' = [is_on_game EXCEPT ![u] = TRUE]
            /\ game_url' = [game_url EXCEPT ![u] = m.room]
            /\ Answered(u, IF m.type = "CLIENT_LOOKUP_RESPONSE" THEN "looking" ELSE "creating", "joined")
         \/ /\ m.type = "NOTIF"
            /\ UNCHANGED <<client, is_on_game, game_url>>
  /\ UNCHANGED <<half, ping, broker, rooms, rows, hung, bounds>>

(* In the room: the client asks for its settings, its owner starts the game *)
GetInfoRoom(u) ==
  /\ Silent(u) /\ client[u] = "joined"
  /\ client' = [client EXCEPT ![u] = "entering"]
  /\ IF is_on_game[u]
     THEN Space(game_url[u]) /\ ToRoom(game_url[u], Msg("INFO_ROOM", game_url[u], u))
     ELSE UNCHANGED rinbox
  /\ UNCHANGED <<is_on_game, game_url, sub, half, ping, broker, thread, owner, room_id, m_players,
                 rows, hung, bounds>>

StartGame(u) ==
  /\ Silent(u) /\ client[u] = "lobby" /\ is_on_game[u]
  /\ \E k \in RoomIds : owner[k] = u /\ room_id[k] = game_url[u] /\ thread[k] = "lobby"
  /\ Space(game_url[u]) /\ ToRoom(game_url[u], Msg("START", game_url[u], u))
  /\ UNCHANGED <<session, broker, thread, owner, room_id, m_players, rows, hung, bounds>>

(* A guest goes back to the menus, as it may until its client sees START   *)
(* (when it does is left open).  What it sends is a type without a size:   *)
(* the session waits for the size, takes what the client sends from the    *)
(* menus for it and for contents of that size, and comes to the room only  *)
(* when the connection closes.  A session out of the game is not blocked.  *)
QuitRoom(u) ==
  /\ Silent(u) /\ client[u] = "lobby"
  /\ \E k \in RoomIds : owner[k] # u /\ room_id[k] = game_url[u]
  /\ client' = [client EXCEPT ![u] = IF is_on_game[u] THEN "left" ELSE "menu"]
  /\ UNCHANGED <<is_on_game, game_url, sub, half, ping, rooms, rows, broker, hung, bounds>>

Events == Cardinality(dropped) + chats

(* A friend writes: a notification comes through the broker.               *)
SendChat(u) ==
  /\ ~hung /\ Events < MaxEvents
  /\ client[u] # "off"
  /\ ToBroker(Msg("NOTIF", NoRoom, u))
  /\ chats' = chats + 1
  /\ UNCHANGED <<session, rooms, rows, waiting_players, hung, dropped>>

(* The connection closes; the user may come back with another one.         *)
Disconnect(u) ==
  /\ Silent(u) /\ client[u] # "off" /\ u \notin dropped /\ Events < MaxEvents
  /\ dropped' = dropped \cup {u}
  /\ client' = [client EXCEPT ![u] = "off"]
  /\ is_on_game' = [is_on_game EXCEPT ![u] = FALSE]
  /\ IF is_on_game[u]
     THEN Space(game_url[u]) /\ ToRoom(game_url[u], Msg("CLIENT_QUIT_ROOM", game_url[u], u))
     ELSE UNCHANGED rinbox
  /\ UNCHANGED <<game_url, sub, half, ping, broker, thread, owner, room_id, m_players, rows, hung, chats>>

Reconnect(u) ==
  /\ client[u] = "off"
  /\ client' = [client EXCEPT ![u] = "menu"]
  /\ UNCHANGED <<is_on_game, game_url, sub, half, ping, rooms, rows, broker, hung, bounds>>

-----------------------------------------------------------------------------
(* The broker: one iteration of its loop.  A ping that finds a room's      *)
(* queue at its bound is dropped, as a PUB socket does.                    *)
OpenRooms == {k \in RoomIds : thread[k] # "none" /\ ~finished[k]}

ping_rooms(q) ==
  [k \in RoomIds |->
     IF Subscribed(k) /\ room_id[k] \in OpenRooms /\ Len(q[k]) < QueueMax
     THEN Append(q[k], Msg("PING", room_id[k], Unsent)) ELSE q[k]]
AtTop == IF waiting_players # <<>> THEN ping_rooms(rinbox) ELSE rinbox

Reads(type) == ~hung /\ inbox # <<>> /\ Head(inbox).type = type /\ inbox' = Tail(inbox)

BrokerTimeout_never == FALSE /\ UNCHANGED vars
BrokerTimeout ==
  /\ ~hung /\ inbox = <<>> /\ waiting_players # <<>>
  /\ rinbox' = AtTop
  /\ UNCHANGED <<session, thread, owner, room_id, m_players, rows, broker, hung, bounds>>

(* create_room_thread: the id of the row inserted is read back as that of   *)
(* the latest row; rows of the same second are equally late, and the rows   *)
(* before this one may be of this second or not.                           *)
BrokerCreates ==
  /\ Reads("CLIENT_CREATE_ROOM")
  /\ \E k \in RoomIds, id \in RoomIds :
       /\ thread[k] = "none" /\ \A l \in RoomIds : l < k => thread[l] # "none"
       /\ \E now \in {same_second, {}} : id \in now \cup {k} /\ same_second' = now \cup {k}
       /\ thread' = [thread EXCEPT ![k] = "starting"]
       /\ owner' = [owner EXCEPT ![k] = Head(inbox).user]
       /\ room_id' = [room_id EXCEPT ![k] = id]
       /\ ToSessions({Head(inbox).user}, Msg("CLIENT_CREATE_ROOM_RESPONSE", id, Unsent))
  /\ rinbox' = AtTop
  /\ UNCHANGED <<client, is_on_game, game_url, half, ping, m_players, finished, waiting_players, hung, bounds>>

BrokerLooksUp_by_room ==
  /\ Reads("CLIENT_LOOKUP_MATCH")
  /\ waiting_players' = Append(waiting_players, Head(inbox).room)
  /\ rinbox' = ping_rooms(AtTop)
  /\ UNCHANGED <<session, thread, owner, room_id, m_players, rows, hung, bounds>>
BrokerLooksUp ==
  /\ Reads("CLIENT_LOOKUP_MATCH")
  /\ waiting_players' = Append(waiting_players, Head(inbox).user)
  /\ rinbox' = ping_rooms(AtTop)
  /\ UNCHANGED <<session, thread, owner, room_id, m_players, rows, hung, bounds>>

(* The answer of a room to PING; "room" is the id of the room, 0 stands    *)
(* for the answer "false".                                                 *)
BrokerMatches_without_pop ==
  /\ Reads("PING")
  /\ IF waiting_players # <<>> /\ Head(inbox).room # NoRoom
     THEN /\ ToSessions({Head(waiting_players)}, Msg("CLIENT_LOOKUP_RESPONSE", Head(inbox).room, Unsent))
          /\ UNCHANGED waiting_players
     ELSE UNCHANGED <<sub, waiting_players>>
  /\ rinbox' = AtTop
  /\ UNCHANGED <<client, is_on_game, game_url, half, ping, thread, owner, room_id, m_players, rows, hung, bounds>>
BrokerMatches ==
  /\ Reads("PING")
  /\ IF waiting_players # <<>> /\ Head(inbox).room # NoRoom
     THEN /\ ToSessions({Head(waiting_players)}, Msg("CLIENT_LOOKUP_RESPONSE", Head(inbox).room, Unsent))
          /\ waiting_players' = Tail(waiting_players)
     ELSE UNCHANGED <<sub, waiting_players>>
  /\ rinbox' = AtTop
  /\ UNCHANGED <<client, is_on_game, game_url, half, ping, thread, owner, room_id, m_players, rows, hung, bounds>>

BrokerForwards ==
  /\ Reads("NOTIF")
  /\ ToSessions({Head(inbox).user}, Msg("NOTIF", NoRoom, Unsent))
  /\ rinbox' = AtTop
  /\ UNCHANGED <<client, is_on_game, game_url, half, ping, thread, owner, room_id, m_players, rows,
                 waiting_players, hung, bounds>>

Broker == BrokerTimeout \/ BrokerCreates \/ BrokerLooksUp \/ BrokerMatches \/ BrokerForwards

-----------------------------------------------------------------------------
(* The rooms *)
Takes(k, type) ==
  /\ ~hung
  /\ rinbox[k] # <<>> /\ Head(rinbox[k]).type = type
  /\ rinbox' = [rinbox EXCEPT ![k] = Tail(@)]

Subscribe(k) ==
  /\ thread[k] = "starting"
  /\ thread' = [thread EXCEPT ![k] = "lobby"]
  /\ UNCHANGED <<session, owner, room_id, m_players, rinbox, rows, broker, hung, bounds>>

(* PING is answered in the lobby only.                                     *)
RoomAnswers(k) ==
  /\ thread[k] = "lobby" /\ Takes(k, "PING")
  /\ LET u == Head(rinbox[k]).user
         r == IF Cardinality(m_players[k]) < MaxPlayers THEN room_id[k] ELSE NoRoom
     IN  IF u = Unsent
         THEN ToBroker(Msg("PING", r, Unsent)) /\ UNCHANGED sub
         ELSE ToSessions({u}, Msg("PING", r, Unsent)) /\ UNCHANGED inbox
  /\ UNCHANGED <<client, is_on_game, game_url, half, ping, thread, owner, room_id, m_players, rows,
                 waiting_players, hung, bounds>>

(* add_user *)
RoomEnters_if_free(k) ==
  /\ thread[k] = "lobby" /\ Takes(k, "INFO_ROOM")
  /\ LET u == Head(rinbox[k]).user
     IN  /\ m_players' = [m_players EXCEPT ![k] = IF Cardinality(@) < MaxPlayers THEN @ \cup {u} ELSE @]
         /\ ToSessions({u}, Msg("INFO_ROOM", room_id[k], Unsent))
  /\ UNCHANGED <<client, is_on_game, game_url, half, ping, thread, owner, room_id, rows, broker, hung, bounds>>
RoomEnters(k) ==
  /\ thread[k] = "lobby" /\ Takes(k, "INFO_ROOM")
  /\ LET u == Head(rinbox[k]).user
     IN  /\ m_players' = [m_players EXCEPT ![k] = @ \cup {u}]
         /\ ToSessions({u}, Msg("INFO_ROOM", room_id[k], Unsent))
  /\ UNCHANGED <<client, is_on_game, game_url, half, ping, thread, owner, room_id, rows, broker, hung, bounds>>

RoomStarts(k) ==
  /\ thread[k] = "lobby" /\ Takes(k, "START")
  /\ thread' = [thread EXCEPT ![k] = "playing"]
  /\ UNCHANGED <<session, owner, room_id, m_players, rows, broker, hung, bounds>>

RoomIgnores(k) ==
  /\ thread[k] = "playing"
  /\ \E type \in {"PING", "INFO_ROOM", "START"} : Takes(k, type)
  /\ UNCHANGED <<session, thread, owner, room_id, m_players, rows, broker, hung, bounds>>

(* handle_quit: see Locks for what happens with players left.              *)
RoomQuit(k) ==
  /\ thread[k] \in {"lobby", "playing"} /\ Takes(k, "CLIENT_QUIT_ROOM")
  /\ LET left == m_players[k] \ {Head(rinbox[k]).user}
     IN  /\ m_players' = [m_players EXCEPT ![k] = left]
         /\ hung' = (left # {})
         /\ thread' = [thread EXCEPT ![k] = IF left = {} THEN "ended" ELSE @]
  /\ UNCHANGED <<session, owner, room_id, rows, broker, bounds>>

(* end_game; a second one, by the end_round of the round clock after that  *)
(* of a message, makes the game overrun (Game, ErrorExit).                 *)
RoomEndGame(k) ==
  /\ ~hung
  /\ \/ thread[k] = "playing" /\ thread' = [thread EXCEPT ![k] = "ended"]
     \/ thread[k] = "ended" /\ m_players[k] # {} /\ thread' = [thread EXCEPT ![k] = "overrun"]
  /\ ToSessions(m_players[k], Msg("END_GAME", room_id[k], Unsent))
  /\ UNCHANGED <<client, is_on_game, game_url, half, ping, owner, room_id, m_players, rinbox, rows, broker,
                 hung, bounds>>

(* close_room, unless the game overran, and ~Game.                         *)
RoomExits_silently(k) ==
  /\ ~hung /\ thread[k] \in {"ended", "overrun"}
  /\ thread' = [thread EXCEPT ![k] = "exited"]
  /\ finished' = IF thread[k] = "ended" THEN [finished EXCEPT ![room_id[k]] = TRUE] ELSE finished
  /\ rinbox' = [rinbox EXCEPT ![k] = <<>>]
  /\ UNCHANGED <<session, owner, room_id, m_players, same_second, broker, hung, bounds>>
RoomExits(k) ==
  /\ ~hung /\ thread[k] \in {"ended", "overrun"}
  /\ thread' = [thread EXCEPT ![k] = "exited"]
  /\ finished' = IF thread[k] = "ended" THEN [finished EXCEPT ![room_id[k]] = TRUE] ELSE finished
  /\ ToSessions(m_players[k], Msg("ROOM_CLOSED", room_id[k], Unsent))
  /\ rinbox' = [rinbox EXCEPT ![k] = <<>>]
  /\ UNCHANGED <<client, is_on_game, game_url, half, ping, owner, room_id, m_players, same_second, broker,
                 hung, bounds>>

Room(k) ==
  \/ Subscribe(k) \/ RoomAnswers(k) \/ RoomEnters(k) \/ RoomStarts(k) \/ RoomIgnores(k)
  \/ RoomQuit(k) \/ RoomExits(k)

Session(u) == JoinAnswer(u) \/ JoinTimeout(u) \/ ReadShifted(u) \/ Receive(u)

Next ==
  \/ \E u \in Users :
       \/ CreateRoom(u) \/ FindMatch(u) \/ JoinPartie(u) \/ GetInfoRoom(u) \/ StartGame(u)
       \/ QuitRoom(u) \/ SendChat(u) \/ Disconnect(u) \/ Reconnect(u) \/ Session(u)
  \/ Broker
  \/ \E k \in RoomIds : Room(k) \/ RoomEndGame(k)

Spec == Init /\ [][Next]_vars

(* The server's threads run, and the clients read what they are sent; no   *)
(* user has to do anything, and a game need not end.  The broker's is      *)
(* strong: QueueMax stands for ZeroMQ's thousand messages, and a queue is  *)
(* not full at each of the broker's turns.                                 *)
Fairness == /\ SF_vars(Broker)
            /\ \A k \in RoomIds : WF_vars(Room(k))
            /\ \A u \in Users : WF_vars(Session(u))
FairSpec == Spec /\ Fairness

-----------------------------------------------------------------------------
(* Properties *)

Names == Users \cup {Unsent}
Messages == [type : OfRoom \cup {"CLIENT_CREATE_ROOM", "CLIENT_LOOKUP_MATCH", "NOTIF", "START",
                    "CLIENT_QUIT_ROOM", "CLIENT_CREATE_ROOM_RESPONSE", "CLIENT_LOOKUP_RESPONSE"},
             room : RoomIds \cup {NoRoom}, user : Names]

(* Types: user_thread.cpp:15-35, broker.cpp:15-26, game_thread.cpp:14-23.  *)
TypeOK ==
  /\ client \in [Users -> Clients]
  /\ is_on_game \in [Users -> BOOLEAN]
  /\ game_url \in [Users -> RoomIds \cup {NoRoom}]
  /\ sub \in [Users -> Seq(Messages)]
  /\ half \in [Users -> BOOLEAN]
  /\ ping \in [Users -> RoomIds \cup {NoRoom}]
  /\ waiting_players \in Seq(Users)
  /\ inbox \in Seq(Messages)
  /\ thread \in [RoomIds -> Lives]
  /\ owner \in [RoomIds -> Names]
  /\ room_id \in [RoomIds -> RoomIds \cup {NoRoom}]
  /\ m_players \in [RoomIds -> SUBSET Users]
  /\ rinbox \in [RoomIds -> Seq(Messages)]
  /\ same_second \subseteq RoomIds
  /\ finished \in [RoomIds -> BOOLEAN]
  /\ hung \in BOOLEAN
  /\ dropped \subseteq Users
  /\ chats \in 0 .. MaxEvents

(* A search for a match is somewhere between the client and its answer at  *)
(* most once: queued for the broker, in waiting_players, or answered and   *)
(* not yet read.  Neither several rooms that answer one broadcast PING     *)
(* (broker.cpp:52-64) nor several broadcasts match a player twice.  Only a *)
(* search made over a connection that closed outlives it, in               *)
(* waiting_players.                                                        *)
Outstanding(u) ==
    Cardinality({i \in DOMAIN waiting_players : waiting_players[i] = u})
  + Cardinality({i \in DOMAIN inbox : inbox[i].type = "CLIENT_LOOKUP_MATCH" /\ inbox[i].user = u})
  + Cardinality({i \in DOMAIN sub[u] : sub[u][i].type = "CLIENT_LOOKUP_RESPONSE"})
MatchedOnce ==
  \A u \in Users : Outstanding(u) <= (IF client[u] = "looking" THEN 1 ELSE 0) + (IF u \in dropped THEN 1 ELSE 0)

(* No room was given the id of another (see BrokerCreates).                *)
OwnIds == \A k \in RoomIds : thread[k] # "none" => room_id[k] = k

(* A client that sees a lobby or a game is a player of the room to which   *)
(* its session forwards what it sends: m_players, is_on_game and game_url, *)
(* kept by three threads, agree from the answer to INFO_ROOM to END_GAME.  *)
(* It needs rooms with ids of their own, and a search left by an earlier   *)
(* connection may move its session to another room.                        *)
LobbyServed ==
  \A u \in Users :
    /\ client[u] = "lobby"
    /\ u \notin dropped
    /\ OwnIds
    => is_on_game[u] /\ u \in m_players[game_url[u]]

(* While a lobby has a place, the first of the waiting players is matched: *)
(* the broker pings again whatever PING came too early, when the room had  *)
(* not subscribed yet (game_thread.cpp:23), or was lost.                   *)
NoPlace == \A k \in RoomIds : thread[k] = "lobby" /\ room_id[k] = k => Cardinality(m_players[k]) >= MaxPlayers
SomeoneIsMatched ==
  \A u \in Users : waiting_players # <<>> /\ Head(waiting_players) = u ~>
       hung \/ NoPlace \/ waiting_players = <<>> \/ Head(waiting_players) # u

(* A session whose user played in a room that ends leaves is_on_game, so   *)
(* that its client is heard by the server again: ROOM_CLOSED               *)
(* (game.cpp:28-31) reaches it however many messages are before.  It may   *)
(* be read askew, and lost, in a session that left and joined again.  The  *)
(* session of a guest that left the lobby is never released (QuitRoom).    *)
PlayersReleased ==
  \A u \in Users, k \in RoomIds :
    thread[k] \in {"ended", "overrun"} /\ u \in m_players[k] ~>
      hung \/ u \in dropped \/ client[u] = "left" \/ ~is_on_game[u]

(* user_thread.cpp:137: the room responded (and said yes).                 *)
TheRoomResponded ==
  [][\A u \in Users : ping[u] # NoRoom /\ ping'[u] = NoRoom /\ is_on_game'[u] =>
        Head(sub[u]).type = "PING" /\ Head(sub[u]).room = ping[u]]_vars

(* What Lobbies promises, in the terms of the threads.  A user that lost a *)
(* connection is excused, and everybody is once a room was given the id of *)
(* another.                                                                *)
Excused == IF OwnIds THEN dropped ELSE Users
LifeOf(k) ==
  CASE thread[k] \in {"none", "starting"} -> "none"
    [] thread[k] = "lobby" -> "lobby"
    [] thread[k] = "playing" -> "game"
    [] thread[k] \in {"ended", "overrun"} -> "over"
    [] thread[k] = "exited" -> "closed"
Seats(k) == m_players[k] \ Excused
Waiting == {u \in Users : client[u] \in {"creating", "looking", "asking", "joined", "entering"}} \ Excused
Shown(k) == {u \in Users : client[u] = "lobby" /\ game_url[u] = k} \ Excused
Left == {u \in Users : client[u] = "left"} \ Excused

(* Who enters a room comes from no other, however late the messages of a   *)
(* room that ended: END_GAME, sent at game.cpp:339, puts the client back   *)
(* in the menus before ROOM_CLOSED (game.cpp:28-31) frees its session, and *)
(* neither reaches it in its next room.                                    *)
Promise == INSTANCE Lobbies WITH
  User <- Users, RoomId <- RoomIds, life <- [k \in RoomIds |-> LifeOf(k)],
  seats <- [k \in RoomIds |-> Seats(k)], waiting <- Waiting,
  shown <- [k \in RoomIds |-> Shown(k)], gone <- Left, excused <- Excused
ImplementsLobbies == Promise!Spec

=============================================================================
