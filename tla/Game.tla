-------------------------------- MODULE Game --------------------------------
(***************************************************************************)
(* One room of the server: the thread game_thread (Server/src/             *)
(* game_thread.cpp), the Game object it drives (Server/src/game.cpp) with  *)
(* its Joueur and Partie members, and the edge of the client sessions that *)
(* talk to it: a session asks the room whether it may join (PING), its     *)
(* client then sends INFO_ROOM, lobby choices, moves, shots, and a closed  *)
(* connection sends CLIENT_QUIT_ROOM.                                      *)
(*                                                                         *)
(* Abstractions.  Positions, damage and the map are abstracted to the set  *)
(* of worms that a shot, a move or the water kills.  The two clocks are    *)
(* the Booleans roundOver and gameOver.  A message published by the room   *)
(* reaches the sessions at once; a message for the room waits in inbox, so *)
(* it may be stale when the room reads it.  One account has one session.   *)
(* The parameters without effect on control (map, durations, life, boxes)  *)
(* and the chat are left out.                                              *)
(***************************************************************************)
EXTENDS Naturals, Sequences, FiniteSets

(* A definition whose name adds _something to that of the definition after  *)
(* it is a mutation of it, used to see that a property can fail.           *)
CONSTANTS
  Users,          \* the accounts that may enter this room
  Owner,          \* m_owner_id, the user who created the room
  NoUser,         \* no client believes it may play
  NoWorm,         \* the null Lombric_c pointer
  INIT_NB_TEAMS,  \* game.hpp: 4, the size of m_alive_team
  INIT_NB_LOMBS,  \* game.hpp: 8, the size of Joueur::m_Lombrics
  LombChoices,    \* values the owner may give to m_lomb_nb
  TeamChoices,    \* values the owner may give to m_team_nb
  MaxPlayers,     \* the 4 of the PING handler
  Columns,        \* the 4 users a row of the table history has columns for
  WaterTop,       \* the water level at which no cell of the map is dry
  InboxMax        \* bound on the messages waiting for the room

ASSUME GameAssumption ==
  /\ Owner \in Users
  /\ NoUser \notin Users
  /\ NoWorm \notin Users \X (0 .. INIT_NB_LOMBS - 1)
  /\ INIT_NB_TEAMS \in Nat \ {0}
  /\ INIT_NB_LOMBS \in Nat \ {0}
  /\ LombChoices \subseteq 1 .. INIT_NB_LOMBS
  /\ TeamChoices \subseteq 1 .. INIT_NB_TEAMS
  /\ MaxPlayers \in Nat \ {0}
  /\ Columns \in Nat \ {0}
  /\ WaterTop \in Nat \ {0}
  /\ InboxMax \in Nat \ {0}

(* current_step: game_thread.hpp *)
STEP_ROOM == 0
STEP_GAME == 1
STEP_ENDSCREEN == 2

(* The sprite of slot j of user u.                                         *)
Worms == Users \X (0 .. INIT_NB_LOMBS - 1)

MessageTypes ==
  {"PING", "INFO_ROOM", "CLIENT_JOIN_TEAM", "CLIENT_MODIFY_NB_TEAMS",
   "CLIENT_MODIFY_NB_LOMBRICS", "START", "POS_LOMB_S", "SHOOT",
   "CLIENT_QUIT_ROOM"}

(* The weapon of a SHOOT message: an armed one, or PassTour.               *)
ARMED == 0
PASSTOUR == 2

(* receiver_id is the sender's id; arg is a team, a number, the id of one  *)
(* of his worms or a weapon.                                               *)
Arguments(type) ==
  CASE type = "CLIENT_JOIN_TEAM" -> 0 .. INIT_NB_TEAMS
    [] type = "CLIENT_MODIFY_NB_TEAMS" -> TeamChoices
    [] type = "CLIENT_MODIFY_NB_LOMBRICS" -> LombChoices
    [] type = "POS_LOMB_S" -> 0 .. INIT_NB_LOMBS
    [] type = "SHOOT" -> {ARMED, PASSTOUR}
    [] OTHER -> {0}
Messages == [type_message : MessageTypes, receiver_id : Users, arg : Nat]

VARIABLES
  current_step,        \* STEP_ROOM, STEP_GAME, STEP_ENDSCREEN or beyond
  at,                  \* where the thread is in its loop
  ret,                 \* where end_round returns to when its loop finds a worm
  m_players,           \* the vector of players, their ids in order
  m_Equipe,            \* Joueur::m_Equipe; 0 is a spectator
  nbr_lomb,            \* Joueur::nbr_lomb, fixed when the player enters
  m_current_lombric,   \* Joueur::m_current_lombric, the last slot played
  m_current_player_id, \* index in m_players, from 0
  m_team_nb, m_lomb_nb,
  spriteVector,        \* the worms in play
  currentWorms,        \* Partie::gameInfo->currentWorms
  waterLevel,
  roundOver, gameOver, \* what check_round_time and check_time return
  inbox,               \* messages published on room/<id>/client, not yet read
  sess,                \* each session's relation to this room
  tour,                \* the client whose is_yours flag is up and has not shot
  points,              \* points earned by each user through this room
  podium,              \* the pairs user_k_id, user_k_points of the room's row
  finished             \* the column finished of the room's row

roster == <<m_players, m_Equipe, nbr_lomb>>
params == <<m_team_nb, m_lomb_nb>>
board  == <<spriteVector, currentWorms, waterLevel>>
clocks == <<roundOver, gameOver>>
db     == <<points, podium, finished>>
turn   == <<m_current_lombric, m_current_player_id>>
vars   == <<current_step, at, ret, roster, turn, params, board, clocks, inbox,
            sess, tour, db>>

-----------------------------------------------------------------------------
(* Helpers *)

Players == {m_players[i] : i \in DOMAIN m_players}

(* vector::erase *)
Erase(s, i) == [j \in 1 .. Len(s) - 1 |-> IF j < i THEN s[j] ELSE s[j + 1]]

(* A sprite whose slot its player never filled: Lombric_c of id 0.         *)
IsGhost(w) == w[2] >= nbr_lomb[w[1]]

(* The id of a worm among those of its player; a ghost has the id 0.       *)
id_lomb(w) == IF IsGhost(w) THEN 0 ELSE w[2] + 1

(* Partie::isLombAlive(m_Lombrics[j]) when the sprites are s: an empty     *)
(* slot holds id 0, under which findById returns any ghost.                *)
isLombAlive_any(u, j, s) == j < nbr_lomb[u] \/ IsGhost(<<u, j>>)
isLombAlive(u, j, s) ==
  IF j < nbr_lomb[u] THEN <<u, j>> \in s ELSE \E w \in s : IsGhost(w)

(* Joueur::is_still_alive looks at the slots below nbr_lomb.  The slots    *)
(* from m_lomb_nb on were never spawned, so they are not in s.             *)
is_still_alive_all_but_last(u, s) == \E j \in 0 .. nbr_lomb[u] : j + 1 < nbr_lomb[u] /\ <<u, j>> \in s
is_still_alive(u, s) == \E j \in 0 .. nbr_lomb[u] - 1 : <<u, j>> \in s

(* Game::nb_alive_teams: the teams it counts, and the values it may leave  *)
(* in last_team, which is left uninitialised when it counts none.          *)
AliveTeams(s) == {m_Equipe[u] : u \in {p \in Players : m_Equipe[p] # 0 /\ is_still_alive(p, s)}}
LastTeam(s) == IF AliveTeams(s) = {} THEN 0 .. INIT_NB_TEAMS ELSE {t - 1 : t \in AliveTeams(s)}

(* The slot Joueur::getNextLombricId examines at iteration next_lomb, the  *)
(* iterations that find a live worm, and the slot it settles on.           *)
Slot_no_memory(u, next_lomb) == next_lomb % m_lomb_nb
Slot(u, next_lomb) == (next_lomb + m_current_lombric[u]) % m_lomb_nb
LiveTries(u, s) == {k \in 1 .. nbr_lomb[u] : isLombAlive(u, Slot(u, k), s)}
NextSlot(u, s) == Slot(u, CHOOSE k \in LiveTries(u, s) : \A l \in LiveTries(u, s) : k <= l)

(* Game::get_next_lombric_id finds a worm of non-zero id, or the id 0 of a *)
(* ghost, or nothing.                                                      *)
HasTry(u, s) == m_Equipe[u] # 0 /\ LiveTries(u, s) # {}
HasTurn(u, s) == HasTry(u, s) /\ NextSlot(u, s) < nbr_lomb[u]

(* Partie::update after the water rose from a board of worms s.            *)
AfterRise(s) == IF waterLevel + 1 >= WaterTop THEN {{}} ELSE SUBSET s

(* s_sendmore/s_send on room/<id>/client: without a subscriber the message *)
(* is lost; pub_mutex held for ever by the room blocks every publisher.    *)
CanPublish == at \notin {"hung", "crashed"} /\ (at # "exited" => Len(inbox) < InboxMax)
Publish(t, u, a) ==
  inbox' = IF at = "exited" THEN inbox
           ELSE Append(inbox, [type_message |-> t, receiver_id |-> u, arg |-> a])

(* NEXT_ROUND with is_yours goes to one session, if it is still there.      *)
Reached(u) == IF sess[u] = "in" THEN u ELSE NoUser

-----------------------------------------------------------------------------
(* Initial state: create_room_thread inserted the room's row, with its     *)
(* owner in the first columns, and started the thread; the owner's session *)
(* already has is_on_game set.                                             *)

Init ==
  /\ current_step = STEP_ROOM
  /\ at = "recv"
  /\ ret = "recv"
  /\ m_players = <<>>
  /\ m_Equipe = [u \in Users |-> 0]
  /\ nbr_lomb = [u \in Users |-> 0]
  /\ m_current_lombric = [u \in Users |-> 0]
  /\ m_current_player_id = 0
  /\ m_team_nb = INIT_NB_TEAMS
  /\ m_lomb_nb = INIT_NB_LOMBS
  /\ spriteVector = {}
  /\ currentWorms = NoWorm
  /\ waterLevel = 0
  /\ roundOver = FALSE
  /\ gameOver = FALSE
  /\ inbox = <<>>
  /\ sess = [u \in Users |-> IF u = Owner THEN "joined" ELSE "out"]
  /\ tour = NoUser
  /\ points = [u \in Users |-> 0]
  /\ podium = {<<Owner, 0>>}
  /\ finished = FALSE

-----------------------------------------------------------------------------
(* The sessions and their clients *)

room == <<current_step, at, ret, roster, turn, params, board, clocks, db>>

(* CLIENT_JOIN_REQUEST: the session publishes a PING and waits 50 ms.      *)
JoinRequest(u) ==
  /\ CanPublish
  /\ sess[u] = "out"
  /\ Publish("PING", u, 0)
  /\ sess' = [sess EXCEPT ![u] = "asking"]
  /\ UNCHANGED <<room, tour>>

(* Nothing came within 50 ms: the request is refused.                      *)
JoinTimeout(u) ==
  /\ sess[u] = "asking"
  /\ sess' = [sess EXCEPT ![u] = "out"]
  /\ UNCHANGED <<room, inbox, tour>>

(* The client of a session with is_on_game asks for the room's settings,   *)
(* which is what enters it in m_players.                                   *)
GetInfoRoom(u) ==
  /\ CanPublish
  /\ sess[u] = "joined"
  /\ Publish("INFO_ROOM", u, 0)
  /\ sess' = [sess EXCEPT ![u] = "in"]
  /\ UNCHANGED <<room, tour>>

(* The lobby screens, open from the INFO_ROOM answer to the START message. *)
InLobby(u) == u \in Players /\ sess[u] = "in" /\ current_step = STEP_ROOM

(* Team 0 is that of the spectators.  A choice made for an older number of *)
(* teams is one that waits in inbox while the number changes.              *)
ChooseTeam(u) ==
  /\ CanPublish
  /\ InLobby(u)
  /\ \E t \in 0 .. m_team_nb : t # m_Equipe[u] /\ Publish("CLIENT_JOIN_TEAM", u, t)
  /\ UNCHANGED <<room, sess, tour>>

SetParams ==
  /\ CanPublish
  /\ InLobby(Owner)
  /\ \/ \E n \in TeamChoices \ {m_team_nb} : Publish("CLIENT_MODIFY_NB_TEAMS", Owner, n)
     \/ \E n \in LombChoices \ {m_lomb_nb} : Publish("CLIENT_MODIFY_NB_LOMBRICS", Owner, n)
  /\ UNCHANGED <<room, sess, tour>>

(* The owner starts a game that somebody plays: the window looks for a     *)
(* player with a team, the console has just chosen team 1 for the owner.   *)
Chosen == \/ \E u \in Players : m_Equipe[u] # 0
          \/ \E i \in DOMAIN inbox : /\ inbox[i].type_message = "CLIENT_JOIN_TEAM"
                                     /\ inbox[i].receiver_id = Owner
                                     /\ inbox[i].arg # 0

StartGame ==
  /\ CanPublish
  /\ InLobby(Owner)
  /\ Chosen
  /\ Publish("START", Owner, 0)
  /\ UNCHANGED <<room, sess, tour>>

(* A guest leaves the lobby: his client sends the byte CLIENT_QUIT_ROOM    *)
(* and no size after it, and goes back to its menus.  The session, still   *)
(* is_on_game, waits for that size and forwards the message only once the  *)
(* connection is closed (Disconnect): until then the room knows nothing.   *)
QuitRoom(u) ==
  /\ InLobby(u) /\ u # Owner
  /\ sess' = [sess EXCEPT ![u] = "left"]
  /\ UNCHANGED <<room, inbox, tour>>

(* Moves and shots are sent while the client believes it is its turn; the  *)
(* shot takes the flag down.                                               *)
ClientMoves(u) ==
  /\ CanPublish
  /\ tour = u
  /\ currentWorms \in Worms
  /\ Publish("POS_LOMB_S", u, id_lomb(currentWorms))
  /\ UNCHANGED <<room, sess, tour>>

ClientShoots(u) ==
  /\ CanPublish
  /\ tour = u
  /\ \E weapon \in {ARMED, PASSTOUR} : Publish("SHOOT", u, weapon)
  /\ tour' = NoUser
  /\ UNCHANGED <<room, sess>>

(* The socket closed: client_thread tells the room and ends.               *)
Disconnect(u) ==
  /\ CanPublish
  /\ sess[u] \in {"joined", "in", "left"}
  /\ Publish("CLIENT_QUIT_ROOM", u, 0)
  /\ sess' = [sess EXCEPT ![u] = "out"]
  /\ tour' = IF tour = u THEN NoUser ELSE tour
  /\ UNCHANGED room

Sessions ==
  \/ \E u \in Users :
        \/ JoinRequest(u) \/ JoinTimeout(u) \/ GetInfoRoom(u) \/ ChooseTeam(u) \/ QuitRoom(u)
        \/ ClientMoves(u) \/ ClientShoots(u) \/ Disconnect(u)
  \/ SetParams
  \/ StartGame

(* Time passes. *)
RoundExpires ==
  /\ current_step = STEP_GAME
  /\ ~roundOver
  /\ roundOver' = TRUE
  /\ UNCHANGED <<current_step, at, ret, roster, turn, params, board, gameOver, inbox, sess, tour, db>>

GameExpires ==
  /\ current_step = STEP_GAME
  /\ ~gameOver
  /\ gameOver' = TRUE
  /\ UNCHANGED <<current_step, at, ret, roster, turn, params, board, roundOver, inbox, sess, tour, db>>

-----------------------------------------------------------------------------
(* The room thread, STEP_ROOM *)

Received == Head(inbox)
Receives(step, type) ==
  /\ at = "recv"
  /\ current_step = step
  /\ inbox # <<>>
  /\ Received.type_message = type
  /\ inbox' = Tail(inbox)

(* PING: the answer "true" or "false" goes to users/<id>/room.  A session  *)
(* still waiting takes any answer for a success: it never reads it.        *)
HandlePing ==
  /\ Receives(STEP_ROOM, "PING")
  /\ LET u == Received.receiver_id
     IN  sess' = IF sess[u] = "asking" THEN [sess EXCEPT ![u] = "joined"] ELSE sess
  /\ UNCHANGED <<room, tour>>

(* add_user *)
HandleInfoRoom ==
  /\ Receives(STEP_ROOM, "INFO_ROOM")
  /\ LET u == Received.receiver_id
     IN  /\ m_players' = Append(m_players, u)
         /\ m_Equipe' = [m_Equipe EXCEPT ![u] = 0]
         /\ nbr_lomb' = [nbr_lomb EXCEPT ![u] = m_lomb_nb]
         /\ m_current_lombric' = [m_current_lombric EXCEPT ![u] = 0]
  /\ UNCHANGED <<current_step, at, ret, m_current_player_id, params, board, clocks, sess, tour, db>>

(* set_users_team *)
HandleJoinTeam_in_game ==
  /\ \E step \in {STEP_ROOM, STEP_GAME} : Receives(step, "CLIENT_JOIN_TEAM")
  /\ m_Equipe' = [m_Equipe EXCEPT ![Received.receiver_id] = Received.arg]
  /\ UNCHANGED <<current_step, at, ret, m_players, nbr_lomb, turn, params, board, clocks, sess, tour, db>>
HandleJoinTeam ==
  /\ Receives(STEP_ROOM, "CLIENT_JOIN_TEAM")
  /\ LET u == Received.receiver_id
     IN  m_Equipe' = IF u \in Players THEN [m_Equipe EXCEPT ![u] = Received.arg] ELSE m_Equipe
  /\ UNCHANGED <<current_step, at, ret, m_players, nbr_lomb, turn, params, board, clocks, sess, tour, db>>

(* change_nb_teams *)
HandleNbTeams ==
  /\ Receives(STEP_ROOM, "CLIENT_MODIFY_NB_TEAMS")
  /\ Received.receiver_id = Owner
  /\ m_team_nb' = Received.arg
  /\ m_Equipe' = [u \in Users |-> IF u \in Players /\ m_Equipe[u] > Received.arg THEN 0 ELSE m_Equipe[u]]
  /\ UNCHANGED <<current_step, at, ret, m_players, nbr_lomb, turn, m_lomb_nb, board, clocks, sess, tour, db>>

(* change_nb_lomb: the players keep the worms and the count they came with *)
HandleNbLomb ==
  /\ Receives(STEP_ROOM, "CLIENT_MODIFY_NB_LOMBRICS")
  /\ Received.receiver_id = Owner
  /\ m_lomb_nb' = Received.arg
  /\ UNCHANGED <<current_step, at, ret, roster, turn, m_team_nb, board, clocks, sess, tour, db>>

(* spawn_lombric: one sprite per slot of every player who has a team *)
Spawned == {w \in Worms : w[1] \in Players /\ m_Equipe[w[1]] # 0 /\ w[2] < m_lomb_nb}

(* START: the first turn is that of m_players[m_current_player_id], which  *)
(* is index 0; setCurrentLomb(0) finds a ghost or the null pointer.        *)
HandleStart ==
  /\ Receives(STEP_ROOM, "START")
  /\ Received.receiver_id = Owner
  /\ m_players # <<>>
  /\ current_step' = STEP_GAME
  /\ spriteVector' = Spawned
  /\ LET first == m_players[m_current_player_id + 1]
         ghosts == {w \in Spawned : IsGhost(w)}
     IN  /\ m_current_lombric' = IF HasTry(first, Spawned)
                                 THEN [m_current_lombric EXCEPT ![first] = NextSlot(first, Spawned)]
                                 ELSE m_current_lombric
         /\ IF HasTurn(first, Spawned)
            THEN currentWorms' = <<first, NextSlot(first, Spawned)>>
            ELSE currentWorms' \in (IF ghosts = {} THEN {NoWorm} ELSE ghosts)
         /\ tour' = Reached(first)
  /\ roundOver' = FALSE
  /\ gameOver' = FALSE
  /\ UNCHANGED <<at, ret, roster, m_current_player_id, params, waterLevel, sess, db>>

(* handle_quit, called first at every message.  When players remain the    *)
(* thread locks pub_mutex and sendMessage locks it again: it never comes   *)
(* back, and pub_mutex stays locked.                                       *)
HandleQuit ==
  /\ \E step \in {STEP_ROOM, STEP_GAME} : Receives(step, "CLIENT_QUIT_ROOM")
  /\ LET u == Received.receiver_id
     IN  IF Players \subseteq {u}
         THEN /\ m_players' = <<>>
              /\ at' = IF current_step = STEP_GAME THEN "check" ELSE "recv"
              /\ current_step' = STEP_ENDSCREEN
         ELSE /\ IF u \in Players
                 THEN \E i \in DOMAIN m_players : m_players[i] = u /\ m_players' = Erase(m_players, i)
                 ELSE UNCHANGED m_players
              /\ at' = "hung"
              /\ UNCHANGED current_step
  /\ UNCHANGED <<ret, m_Equipe, nbr_lomb, turn, params, board, clocks, sess, tour, db>>

-----------------------------------------------------------------------------
(* The room thread, STEP_GAME *)

(* player_index: the players with a team take the columns of the row one   *)
(* after the other.  One whose column the table has not is written nowhere.*)
Column(i) == Cardinality({j \in 1 .. i : m_Equipe[m_players[j]] # 0})
InRow == {m_players[i] : i \in {j \in DOMAIN m_players : m_Equipe[m_players[j]] # 0 /\ Column(j) <= Columns}}

(* end_game: the team equal to last_team is rewarded, in the accounts and  *)
(* in the row, whose columns are overwritten from the first on.            *)
EndGame_pays_all(last_team) ==
  LET playing == {u \in Players : m_Equipe[u] # 0}
  IN  /\ points' = [u \in Users |-> IF u \in playing THEN points[u] + 1 ELSE points[u]]
      /\ podium' = IF playing = {} THEN podium
                   ELSE {<<u, IF m_Equipe[u] = last_team THEN 1 ELSE 0>> : u \in InRow}
      /\ current_step' = current_step + 1
      /\ tour' = NoUser
EndGame(last_team) ==
  LET playing == {u \in Players : m_Equipe[u] # 0}
      Gain(u) == IF m_Equipe[u] = last_team THEN 1 ELSE 0
  IN  /\ points' = [u \in Users |-> IF u \in playing THEN points[u] + Gain(u) ELSE points[u]]
      /\ podium' = IF playing = {} THEN podium ELSE {<<u, Gain(u)>> : u \in InRow}
      /\ current_step' = current_step + 1
      /\ tour' = NoUser

(* end_round with the worms s in play, called from the handlers (back is   *)
(* "check") or from the loop of game_thread (back is "recv").  The choice  *)
(* of the next player is the loop at = "turn".                             *)
EndRound_one_team(s, back) ==
  /\ spriteVector' \in (IF gameOver THEN AfterRise(s) ELSE {s})
  /\ waterLevel' = IF gameOver THEN waterLevel + 1 ELSE waterLevel
  /\ IF Cardinality(AliveTeams(spriteVector')) = 1
     THEN /\ \E last_team \in LastTeam(spriteVector') : EndGame(last_team)
          /\ at' = back
          /\ UNCHANGED ret
     ELSE /\ at' = "turn"
          /\ ret' = back
          /\ UNCHANGED <<points, podium, current_step, tour>>
  /\ UNCHANGED <<roster, turn, params, currentWorms, clocks, sess, finished>>
EndRound(s, back) ==
  /\ spriteVector' \in (IF gameOver THEN AfterRise(s) ELSE {s})
  /\ waterLevel' = IF gameOver THEN waterLevel + 1 ELSE waterLevel
  /\ IF Cardinality(AliveTeams(spriteVector')) <= 1
     THEN /\ \E last_team \in LastTeam(spriteVector') : EndGame(last_team)
          /\ at' = back
          /\ UNCHANGED ret
     ELSE /\ at' = "turn"
          /\ ret' = back
          /\ UNCHANGED <<points, podium, current_step, tour>>
  /\ UNCHANGED <<roster, turn, params, currentWorms, clocks, sess, finished>>

(* One iteration of the do-while of end_round: the index moves on, a       *)
(* spectator or a player for whom no worm is found is passed over, ...     *)
NextIndex_from_one == IF m_current_player_id + 1 >= Len(m_players) THEN 1 ELSE m_current_player_id + 1
NextIndex == IF m_current_player_id + 1 >= Len(m_players) THEN 0 ELSE m_current_player_id + 1
NextPlayer == m_players[NextIndex + 1]

SearchTurn ==
  /\ at = "turn"
  /\ m_current_player_id' = NextIndex
  /\ m_current_lombric' = IF HasTry(NextPlayer, spriteVector)
                          THEN [m_current_lombric EXCEPT ![NextPlayer] = NextSlot(NextPlayer, spriteVector)]
                          ELSE m_current_lombric

PassTurn ==
  /\ SearchTurn
  /\ ~HasTurn(NextPlayer, spriteVector)
  /\ UNCHANGED <<current_step, at, ret, roster, params, board, clocks, inbox, sess, tour, db>>

(* ... and the worm found ends the loop: NEXT_ROUND is published and the   *)
(* round clock starts again.                                               *)
TakeTurn ==
  /\ SearchTurn
  /\ HasTurn(NextPlayer, spriteVector)
  /\ currentWorms' = <<NextPlayer, NextSlot(NextPlayer, spriteVector)>>
  /\ tour' = Reached(NextPlayer)
  /\ roundOver' = FALSE
  /\ at' = ret
  /\ UNCHANGED <<current_step, ret, roster, params, spriteVector, waterLevel, gameOver, inbox, sess, db>>

(* POS_LOMB_S: the worm named by the message moves, whoever plays.  A move *)
(* that costs it life ends the round (isTourFinish); a refused or harmless *)
(* one does not, and a ghost, named by the id 0, falls without ending it.  *)
HandleMove_goes_on ==
  /\ Receives(STEP_GAME, "POS_LOMB_S")
  /\ spriteVector' \in {spriteVector, spriteVector \ {<<Received.receiver_id, Received.arg - 1>>}}
  /\ at' = "check"
  /\ UNCHANGED <<current_step, ret, roster, turn, params, currentWorms, waterLevel, clocks, sess, tour, db>>
HandleMove ==
  /\ Receives(STEP_GAME, "POS_LOMB_S")
  /\ LET w == <<Received.receiver_id, Received.arg - 1>>
     IN  \/ /\ spriteVector' = spriteVector
            /\ at' = "check"
            /\ UNCHANGED <<current_step, ret, roster, turn, params, currentWorms, waterLevel, clocks, sess, tour, db>>
         \/ /\ Received.arg = 0
            /\ \E g \in spriteVector : IsGhost(g) /\ spriteVector' = spriteVector \ {g}
            /\ at' = "check"
            /\ UNCHANGED <<current_step, ret, roster, turn, params, currentWorms, waterLevel, clocks, sess, tour, db>>
         \/ /\ w \in spriteVector
            /\ \E s \in {spriteVector, spriteVector \ {w}} : EndRound(s, "check")

(* SHOOT: the weapon is used by currentWorms, whoever sent the message; it *)
(* kills some worms (PassTour none), and the round ends.  An armed weapon  *)
(* follows the pointer currentWorms: null it crashes, and the pointer to a *)
(* worm that was freed crashes or reads what is left of it.                *)
HandleShoot ==
  /\ Receives(STEP_GAME, "SHOOT")
  /\ \/ /\ Received.arg # PASSTOUR /\ currentWorms \notin spriteVector
        /\ at' = "crashed"
        /\ UNCHANGED <<current_step, ret, roster, turn, params, board, clocks, sess, tour, db>>
     \/ /\ Received.arg # PASSTOUR => currentWorms # NoWorm
        /\ \E s \in (IF Received.arg = PASSTOUR THEN {spriteVector} ELSE SUBSET spriteVector) :
              EndRound(s, "check")

(* Messages of the lobby that come after START are ignored; the loop still *)
(* looks at the clock.                                                     *)
HandleOtherGame ==
  /\ \E t \in MessageTypes \ {"POS_LOMB_S", "SHOOT", "CLIENT_QUIT_ROOM"} : Receives(STEP_GAME, t)
  /\ at' = "check"
  /\ UNCHANGED <<current_step, ret, roster, turn, params, board, clocks, sess, tour, db>>

(* ZMQ_RCVTIMEO: 500 ms without a message.                                 *)
ReceiveTimeout_never == FALSE /\ UNCHANGED vars
ReceiveTimeout ==
  /\ at = "recv"
  /\ current_step = STEP_GAME
  /\ inbox = <<>>
  /\ at' = "check"
  /\ UNCHANGED <<current_step, ret, roster, turn, params, board, clocks, inbox, sess, tour, db>>

(* The end of an iteration: check_round_time, even when the handler has    *)
(* just ended the game.                                                    *)
CheckRoundTime_loops ==
  /\ at = "check"
  /\ IF roundOver
     THEN EndRound(spriteVector, "check") /\ UNCHANGED inbox
     ELSE /\ at' = "recv"
          /\ UNCHANGED <<current_step, ret, roster, turn, params, board, clocks, inbox, sess, tour, db>>
CheckRoundTime ==
  /\ at = "check"
  /\ IF roundOver
     THEN EndRound(spriteVector, "recv") /\ UNCHANGED inbox
     ELSE /\ at' = "recv"
          /\ UNCHANGED <<current_step, ret, roster, turn, params, board, clocks, inbox, sess, tour, db>>

-----------------------------------------------------------------------------
(* The room thread ends: ~Game sends ROOM_CLOSED to the players that are   *)
(* left, and their sessions drop is_on_game; one that waits for the rest   *)
(* of a message does not read it.                                          *)
Exit ==
  /\ at' = "exited"
  /\ inbox' = <<>>
  /\ sess' = [u \in Users |-> IF u \in Players /\ sess[u] # "left" THEN "out" ELSE sess[u]]
  /\ UNCHANGED <<current_step, ret, roster, turn, params, board, clocks, tour, points, podium>>

CloseRoom ==
  /\ at = "recv" /\ current_step = STEP_ENDSCREEN
  /\ finished' = TRUE
  /\ Exit

(* The default branch of the switch: "An error occured". *)
ErrorExit ==
  /\ at = "recv" /\ current_step \notin {STEP_ROOM, STEP_GAME, STEP_ENDSCREEN}
  /\ UNCHANGED finished
  /\ Exit

Room ==
  \/ HandlePing \/ HandleInfoRoom \/ HandleJoinTeam \/ HandleNbTeams \/ HandleNbLomb
  \/ HandleStart \/ HandleQuit
  \/ HandleMove \/ HandleShoot \/ HandleOtherGame \/ ReceiveTimeout \/ CheckRoundTime
  \/ PassTurn \/ TakeTurn
  \/ CloseRoom \/ ErrorExit

Next == Sessions \/ RoundExpires \/ GameExpires \/ Room

Spec == Init /\ [][Next]_vars

(* The operating system runs the room thread, and clocks advance.          *)
Fairness == WF_vars(Room) /\ WF_vars(RoundExpires)
FairSpec == Spec /\ Fairness

-----------------------------------------------------------------------------
(* Properties *)

(* Every queued message has an argument its type may carry. *)
InboxOK == /\ inbox \in Seq(Messages)
           /\ \A i \in 1 .. Len(inbox) : inbox[i].arg \in Arguments(inbox[i].type_message)

(* Types and ranges of the state: game.hpp:61-92, in_game_player.hpp,      *)
(* game_thread.cpp:14-15.  current_step is an int that end_game increments *)
(* (game.cpp:359), so its bound is not a matter of its declaration: it     *)
(* says that a game ends at most twice.                                    *)
TypeOK ==
  /\ current_step \in 0 .. 3
  /\ at \in {"recv", "check", "turn", "hung", "crashed", "exited"}
  /\ ret \in {"recv", "check"}
  /\ m_players \in Seq(Users)
  /\ m_Equipe \in [Users -> 0 .. INIT_NB_TEAMS]
  /\ nbr_lomb \in [Users -> 0 .. INIT_NB_LOMBS]
  /\ m_current_lombric \in [Users -> 0 .. INIT_NB_LOMBS - 1]
  /\ m_current_player_id \in Nat
  /\ m_team_nb \in 1 .. INIT_NB_TEAMS
  /\ m_lomb_nb \in 1 .. INIT_NB_LOMBS
  /\ spriteVector \subseteq Worms
  /\ currentWorms \in Worms \cup {NoWorm}
  /\ waterLevel \in Nat
  /\ roundOver \in BOOLEAN /\ gameOver \in BOOLEAN
  /\ InboxOK
  /\ sess \in [Users -> {"out", "asking", "joined", "in", "left"}]
  /\ tour \in Users \cup {NoUser}
  /\ points \in [Users -> Nat]
  /\ podium \subseteq Users \X {0, 1}
  /\ finished \in BOOLEAN

(* The turn of the first player when START found no worm for him: he is a  *)
(* spectator, or came when the game had fewer worms than it has now.  The  *)
(* current worm is then a ghost or the null pointer, and the ghost may     *)
(* have been freed: a move with the id 0 kills it and ends no round.       *)
CurrentPlayer == m_players[m_current_player_id + 1]
FirstTurnWithoutWorm ==
  /\ m_current_player_id = 0
  /\ IF currentWorms = NoWorm THEN m_Equipe[CurrentPlayer] = 0
     ELSE /\ IsGhost(currentWorms)
          /\ m_Equipe[CurrentPlayer] = 0 \/ nbr_lomb[CurrentPlayer] < m_lomb_nb

(* While a game waits for messages or looks at its clock, m_current_player *)
(* _id and currentWorms (set together by end_round, game.cpp:288-296, and  *)
(* START, game.cpp:505-507) agree: the current worm belongs to the current *)
(* player, who has a team, is the slot he remembers and is still in play.  *)
(* The one exception is the first turn of a game whose first player got no *)
(* worm, and a shot follows a null or a freed pointer (partie_serv.cpp:29) *)
(* in that turn only: every later round finds a worm in play, whatever     *)
(* moves, falls and shots came before it.                                  *)
TurnInv ==
  /\ current_step = STEP_GAME /\ at \in {"recv", "check"} =>
       /\ m_current_player_id < Len(m_players)
       /\ \/ /\ currentWorms = <<CurrentPlayer, m_current_lombric[CurrentPlayer]>>
             /\ currentWorms \in spriteVector
             /\ ~IsGhost(currentWorms)
             /\ m_Equipe[CurrentPlayer] # 0
          \/ FirstTurnWithoutWorm
  /\ at = "crashed" => FirstTurnWithoutWorm

(* The teams that still have a worm on the board. *)
TeamsOnBoard(s) == {m_Equipe[w[1]] : w \in {x \in s : ~IsGhost(x)}}

(* A game that is left with players in the room ends only when at most one *)
(* team has a worm on the board, and a round is given only when two or     *)
(* more have (game.cpp:281-285, 287).                                      *)
EndOnlyWhenDecided ==
  [][/\ current_step = STEP_GAME /\ current_step' # STEP_GAME /\ m_players' # <<>> =>
          Cardinality(TeamsOnBoard(spriteVector')) <= 1
     /\ at # "turn" /\ at' = "turn" => Cardinality(TeamsOnBoard(spriteVector')) >= 2]_vars

(* Once START was handled nobody enters, changes team or gets another      *)
(* number of worms, whatever lobby message was still queued behind it: the *)
(* sprites were spawned for that roster (game.cpp:362-394).                *)
RosterFrozen ==
  [][current_step # STEP_ROOM /\ m_players' # <<>> /\ at' # "hung" => UNCHANGED <<roster, params>>]_vars

(* After END_GAME no round is given any more, although end_round may run   *)
(* once more in the same iteration (game_thread.cpp:54-59) and finds other *)
(* worms on the board: no NEXT_ROUND follows an END_GAME.                  *)
EndIsFinal == current_step >= STEP_ENDSCREEN => at # "turn"

(* The points of u in the room's row are those he earned in this room, and *)
(* a user the row has nothing of earned none, unless he played and the row *)
(* has no column left for him.                                             *)
PodiumAgrees(u) ==
  IF \E n \in {0, 1} : <<u, n>> \in podium
  THEN \A n \in {0, 1} : <<u, n>> \in podium => points[u] = n
  ELSE points[u] = 0 \/ (u \in Players /\ m_Equipe[u] # 0 /\ u \notin InRow)

(* When a room is closed in the database, the points of its row are the    *)
(* points its users earned: end_game writes both (game.cpp:343-353).  The  *)
(* row has four columns (init_db.cpp:76-88) and a room may have more       *)
(* players: those who come after are paid, and the row does not say it.    *)
LedgerAgrees == finished => \A u \in Users : PodiumAgrees(u)

(* The row the water clears, mur[hauteur - waterLevel], is a row of the    *)
(* map, whatever makes end_round run again (map.cpp:81-86): the level that *)
(* drowns everybody, WaterTop, is one below the top of the map.            *)
WaterInMap == waterLevel <= WaterTop + 1

(* The inductive invariant, whose parts TypeOK, TurnInv, ... are proved     *)
(* from: where the thread may be at each step, ...                         *)
StepInv ==
  /\ current_step = STEP_ROOM => /\ at \in {"recv", "hung"}
                                 /\ m_current_player_id = 0
                                 /\ spriteVector = {}
  /\ at = "check" => current_step \in {STEP_GAME, STEP_ENDSCREEN}
  /\ at = "turn" => current_step = STEP_GAME /\ m_players # <<>>
  /\ at = "exited" => current_step >= STEP_ENDSCREEN
  /\ \A u \in Players : nbr_lomb[u] >= 1

(* ... why a second end_round in one iteration cannot give a round, ...    *)
Decided ==
  at = "check" /\ current_step = STEP_ENDSCREEN => Cardinality(AliveTeams(spriteVector)) <= 1

(* ... who owns the worms on the board, ...                                *)
SpriteInv ==
  m_players # <<>> /\ at # "hung" => \A w \in spriteVector : w[1] \in Players /\ m_Equipe[w[1]] # 0

(* ... and how much was written to the database at each step.              *)
LedgerInv ==
  /\ current_step \in {STEP_ROOM, STEP_GAME} => podium = {<<Owner, 0>>} /\ \A u \in Users : points[u] = 0
  /\ current_step = STEP_ENDSCREEN => \A u \in Users : PodiumAgrees(u)
  /\ finished => current_step = STEP_ENDSCREEN /\ at = "exited"

(* The water, which ends the game before it can rise too high.            *)
SeaInv ==
  /\ current_step \in {STEP_ROOM, STEP_GAME} => waterLevel < WaterTop
  /\ current_step = STEP_ENDSCREEN /\ at = "check" => waterLevel <= WaterTop
  /\ WaterInMap

(* When somebody has a turn, and when the next one is searched for.        *)
SearchInv ==
  /\ current_step = STEP_ROOM => currentWorms = NoWorm
  /\ at = "turn" => Cardinality(AliveTeams(spriteVector)) >= 2

IInv == TypeOK /\ StepInv /\ Decided /\ TurnInv /\ SpriteInv /\ LedgerInv

(* Every worm on the board plays again, or dies, or the game stops: the    *)
(* rotation over players (game.cpp:288-294) and over a player's worms      *)
(* (in_game_player.cpp:20-30) starves nobody, however many rounds are cut  *)
(* by moves, shots or timeouts.                                            *)
Stopped == current_step # STEP_GAME \/ at \in {"hung", "crashed", "exited"}
WormEventuallyPlays ==
  \A w \in Worms : current_step = STEP_GAME /\ w \in spriteVector ~>
                     Stopped \/ w \notin spriteVector \/ currentWorms = w

(* A game does not last for ever: once its time is over the water rises at *)
(* every round (game.cpp:276-279), and the thread exits.                   *)
GameTerminates ==
  WF_vars(GameExpires) => (current_step = STEP_GAME ~> at \in {"hung", "crashed", "exited"})

(* A room keeps what Turns promises its players.  Ghosts and the null      *)
(* pointer are nobody's worm: no client is told that it may play.          *)
OnBoard == {<<w, m_Equipe[w[1]]>> : w \in {x \in spriteVector : ~IsGhost(x)}}
Phase == CASE current_step = STEP_ROOM -> "lobby"
           [] current_step = STEP_GAME -> "game"
           [] OTHER -> "over"
WormUp == IF currentWorms = NoWorm THEN NoWorm
          ELSE IF IsGhost(currentWorms) THEN NoWorm ELSE currentWorms
Promise == INSTANCE Turns WITH
  Player <- Users, Worm <- Worms, Team <- 0 .. INIT_NB_TEAMS, Nobody <- NoWorm,
  phase <- Phase, players <- Players, board <- OnBoard, up <- WormUp
ImplementsTurns == Promise!Spec

(* game.cpp:344 says, and the code does not do, that the users of the      *)
(* winning team are rewarded.                                              *)
WinnersRewarded ==
  [][current_step = STEP_GAME /\ current_step' = STEP_ENDSCREEN =>
       \A u \in Players : m_Equipe[u] # 0 /\ TeamsOnBoard(spriteVector') = {m_Equipe[u]}
                           => points'[u] = points[u] + 1]_vars

=============================================================================
