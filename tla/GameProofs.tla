----------------------------- MODULE GameProofs -----------------------------
(***************************************************************************)
(* Proofs about module Game, for every set of users, number of teams and   *)
(* number of worms.                                                        *)
(***************************************************************************)
EXTENDS Game, FiniteSetTheorems, WellFoundedInduction, TLAPS

(* Every non-empty set of natural numbers has a least element; it is the   *)
(* iteration at which the search of getNextLombricId stops.                *)
LEMMA LeastElement ==
  ASSUME NEW S \in SUBSET Nat, S # {}
  PROVE  \E x \in S : \A y \in S : x <= y
<1> DEFINE Below(x) == {y \in S : y < x}
           T == {Below(x) : x \in S}
           R == StrictSubsetOrdering(S)
<1>1. T \subseteq FiniteSubsetsOf(S)
  <2> SUFFICES ASSUME NEW x \in S
               PROVE  Below(x) \in FiniteSubsetsOf(S)
    OBVIOUS
  <2>0. S \subseteq Nat
    OBVIOUS
  <2>1. /\ Below(x) \in SUBSET Nat
        /\ x \in Nat
    BY <2>0
  <2>3. \A s \in Below(x) : s <= x
    BY <2>0, <2>1
  <2>2. IsFiniteSet(Below(x))
    <3> HIDE DEF Below
    <3> QED
      BY <2>1, <2>3, FS_BoundedSetOfNaturals
  <2> QED
    BY <2>2 DEF FiniteSubsetsOf
<1>2. T # {}
  OBVIOUS
<1>3. PICK U \in T : \A V \in T : ~ (<<V, U>> \in R)
  <2> HIDE DEF T, R
  <2>1. IsWellFoundedOn(R, FiniteSubsetsOf(S))
    BY FS_StrictSubsetOrderingWellFounded DEF R
  <2> QED
    BY <1>1, <1>2, <2>1, WFMin
<1>4. PICK x \in S : U = Below(x)
  OBVIOUS
<1>5. ASSUME NEW y \in S, y < x
      PROVE  FALSE
  <2>0. S \subseteq Nat
    OBVIOUS
  <2>1. y \in Below(x) /\ y \notin Below(y)
    BY <1>5, <2>0
  <2>3. Below(y) \subseteq Below(x)
    <3>1. \A a, b, c \in Nat : a < b /\ b < c => a < c
      OBVIOUS
    <3> SUFFICES ASSUME NEW z \in S, z < y
                 PROVE  z < x
      OBVIOUS
    <3> QED
      BY <1>5, <2>0, <3>1
  <2>4. Below(y) \in SUBSET S /\ Below(x) \in SUBSET S
    OBVIOUS
  <2>2. <<Below(y), U>> \in R
    BY <1>4, <2>1, <2>3, <2>4 DEF StrictSubsetOrdering
  <2> QED
    BY <1>3, <2>2
<1>6. S \subseteq Nat
  OBVIOUS
<1> QED
  BY <1>5, <1>6

-----------------------------------------------------------------------------
(* The message queue *)

(* Reading a message leaves the rest of the queue well formed.             *)
LEMMA ReadInbox ==
  ASSUME InboxOK, inbox # <<>>
  PROVE  /\ Received \in Messages
         /\ Received.arg \in Arguments(Received.type_message)
         /\ inbox' = Tail(inbox) => InboxOK'
<1> USE DEF InboxOK
<1>1. Len(inbox) \in Nat /\ Len(inbox) > 0
  OBVIOUS
<1>2. Received = inbox[1]
  BY DEF Received
<1>3. inbox[1] \in Messages
  BY <1>1
<1>4. ASSUME inbox' = Tail(inbox)
      PROVE  InboxOK'
  <2>1. /\ inbox' \in Seq(Messages)
        /\ Len(inbox') = Len(inbox) - 1
        /\ \A i \in 1 .. Len(inbox') : inbox'[i] = inbox[i + 1]
    BY <1>4
  <2> QED
    BY <1>1, <2>1
<1> QED
  BY <1>1, <1>2, <1>3, <1>4

(* So does publishing one with a legal argument.                           *)
LEMMA PublishInbox ==
  ASSUME GameAssumption, InboxOK, NEW t \in MessageTypes, NEW u \in Users,
         NEW a \in Nat, a \in Arguments(t), Publish(t, u, a)
  PROVE  InboxOK'
<1> DEFINE m == [type_message |-> t, receiver_id |-> u, arg |-> a]
<1>1. m \in Messages /\ m.arg \in Arguments(m.type_message)
  BY DEF Messages
<1>2. CASE at = "exited"
  BY <1>2 DEF Publish, InboxOK
<1>3. CASE at # "exited"
  <2>1. inbox' = Append(inbox, m)
    BY <1>3 DEF Publish
  <2> HIDE DEF m
  <2> QED
    BY <1>1, <2>1 DEF InboxOK
<1> QED
  BY <1>2, <1>3

-----------------------------------------------------------------------------
(* The search for the next worm *)

(* When some iteration of getNextLombricId finds a live worm, the slot it  *)
(* settles on is a slot of the current game and its worm is alive.         *)
LEMMA NextSlotAlive ==
  ASSUME GameAssumption, TypeOK, NEW u \in Users, NEW s, LiveTries(u, s) # {}
  PROVE  /\ NextSlot(u, s) \in 0 .. m_lomb_nb - 1
         /\ NextSlot(u, s) \in 0 .. INIT_NB_LOMBS - 1
         /\ isLombAlive(u, NextSlot(u, s), s)
<1> DEFINE L == LiveTries(u, s)
           first == CHOOSE k \in L : \A l \in L : k <= l
<1>1. nbr_lomb[u] \in Nat /\ m_current_lombric[u] \in Nat
      /\ m_lomb_nb \in Nat /\ m_lomb_nb > 0 /\ m_lomb_nb <= INIT_NB_LOMBS /\ INIT_NB_LOMBS \in Nat
  BY DEF GameAssumption, TypeOK
<1>2. L \in SUBSET Nat
  BY <1>1 DEF LiveTries
<1>3. first \in L
  <2>1. \E k \in L : \A l \in L : k <= l
    <3>1. L # {}
      OBVIOUS
    <3> HIDE DEF L
    <3> QED
      BY <1>2, <3>1, LeastElement
  <2> QED
    BY <2>1
<1>4. NextSlot(u, s) = Slot(u, first)
  BY DEF NextSlot
<1>5. isLombAlive(u, Slot(u, first), s) /\ first \in Nat
  BY <1>2, <1>3 DEF LiveTries
<1>6. Slot(u, first) \in 0 .. m_lomb_nb - 1
  BY <1>1, <1>5 DEF Slot
<1> QED
  BY <1>1, <1>4, <1>5, <1>6

-----------------------------------------------------------------------------
(* Teams *)

(* There are finitely many teams, and fewer worms leave fewer teams.       *)
LEMMA TeamsFinite ==
  ASSUME GameAssumption, TypeOK, NEW s
  PROVE  IsFiniteSet(AliveTeams(s)) /\ AliveTeams(s) \subseteq 1 .. INIT_NB_TEAMS
<1>1. Players \subseteq Users
  BY DEF TypeOK, Players
<1>2. AliveTeams(s) \in SUBSET (1 .. INIT_NB_TEAMS)
  BY <1>1 DEF AliveTeams, TypeOK, GameAssumption
<1>3. IsFiniteSet(1 .. INIT_NB_TEAMS)
  BY FS_Interval DEF GameAssumption
<1> QED
  BY <1>2, <1>3, FS_Subset

LEMMA TeamsShrink ==
  ASSUME GameAssumption, TypeOK, NEW s, NEW r \in SUBSET s
  PROVE  Cardinality(AliveTeams(r)) <= Cardinality(AliveTeams(s))
<1>1. AliveTeams(r) \in SUBSET AliveTeams(s)
  BY DEF AliveTeams, is_still_alive
<1> QED
  BY <1>1, TeamsFinite, FS_Subset

-----------------------------------------------------------------------------
(* The end of a round *)

(* The users with a column in the row are players with a team.             *)
LEMMA InRowPlays == InRow \subseteq {u \in Players : m_Equipe[u] # 0}
  BY DEF InRow, Players

(* end_game writes no more than one point per user.                        *)
LEMMA EndGameTypes ==
  ASSUME TypeOK, NEW t, EndGame(t)
  PROVE  /\ points' \in [Users -> Nat]
         /\ podium' \subseteq Users \X {0, 1}
         /\ tour' = NoUser
         /\ current_step' = current_step + 1
<1> USE DEF EndGame
<1>1. InRow \subseteq Users
  BY InRowPlays DEF TypeOK, Players
<1>2. points \in [Users -> Nat]
  BY DEF TypeOK
<1>3. points' \in [Users -> Nat]
  BY <1>2
<1>4. podium' \subseteq Users \X {0, 1}
  BY <1>1 DEF TypeOK
<1> QED
  BY <1>3, <1>4

(* end_round either ends the game, when at most one team is left, or       *)
(* enters the search for the next player, when two or more are.            *)
LEMMA EndRoundStep ==
  ASSUME GameAssumption, TypeOK, current_step \in {STEP_GAME, STEP_ENDSCREEN},
         NEW s \in SUBSET spriteVector, NEW back \in {"recv", "check"},
         EndRound(s, back), InboxOK'
  PROVE  /\ TypeOK'
         /\ spriteVector' \subseteq s
         /\ UNCHANGED <<roster, turn, params, currentWorms, clocks, sess, finished>>
         /\ \/ /\ Cardinality(AliveTeams(spriteVector')) <= 1
               /\ current_step' = current_step + 1
               /\ at' = back
               /\ \E t \in LastTeam(spriteVector') : EndGame(t)
            \/ /\ Cardinality(AliveTeams(spriteVector')) >= 2
               /\ UNCHANGED <<current_step, points, podium, tour>>
               /\ at' = "turn"
               /\ ret' = back
               /\ m_players # <<>>
<1>1. spriteVector' \subseteq s
  <2>1. spriteVector' \in (IF gameOver THEN AfterRise(s) ELSE {s})
    BY DEF EndRound
  <2> QED
    BY <2>1 DEF AfterRise
<1>2. waterLevel' \in Nat
  BY DEF EndRound, TypeOK
<1>3. UNCHANGED <<roster, turn, params, currentWorms, clocks, sess, finished>>
  BY DEF EndRound
<1>4. Cardinality(AliveTeams(spriteVector')) \in Nat
  BY TeamsFinite, FS_CardinalityType
<1>5. CASE Cardinality(AliveTeams(spriteVector')) <= 1
  <2>1. PICK t \in LastTeam(spriteVector') : EndGame(t)
    BY <1>5 DEF EndRound
  <2>2. at' = back /\ ret' = ret
    BY <1>5 DEF EndRound
  <2>3. /\ points' \in [Users -> Nat]
        /\ podium' \subseteq Users \X {0, 1}
        /\ tour' = NoUser
        /\ current_step' = current_step + 1
    BY <2>1, EndGameTypes
  <2>4. current_step' \in 0 .. 3
    BY <2>3 DEF STEP_GAME, STEP_ENDSCREEN
  <2>5. TypeOK'
    BY <1>1, <1>2, <1>3, <2>2, <2>3, <2>4 DEF TypeOK, roster, turn, params, clocks
  <2> QED
    BY <1>1, <1>3, <1>5, <2>1, <2>2, <2>3, <2>5
<1>6. CASE ~ (Cardinality(AliveTeams(spriteVector')) <= 1)
  <2>1. UNCHANGED <<current_step, points, podium, tour>> /\ at' = "turn" /\ ret' = back
    BY <1>6 DEF EndRound
  <2>2. m_players # <<>>
    <3> SUFFICES ASSUME m_players = <<>>
                 PROVE  FALSE
      OBVIOUS
    <3>1. AliveTeams(spriteVector') = {}
      BY DEF AliveTeams, Players
    <3> QED
      BY <1>6, <3>1, FS_EmptySet
  <2>3. TypeOK'
    BY <1>1, <1>2, <1>3, <2>1 DEF TypeOK, roster, turn, params, clocks
  <2> QED
    BY <1>1, <1>3, <1>4, <1>6, <2>1, <2>2, <2>3
<1> QED
  BY <1>5, <1>6

(* One iteration of the search for the next player: the index is that of a *)
(* player, and a turn goes to a worm of his that is on the board.          *)
LEMMA SearchStep ==
  ASSUME GameAssumption, TypeOK, m_players # <<>>, SearchTurn
  PROVE  /\ NextPlayer \in Players
         /\ NextPlayer \in Users
         /\ m_current_player_id' \in 0 .. Len(m_players) - 1
         /\ NextPlayer = m_players[m_current_player_id' + 1]
         /\ m_current_lombric' \in [Users -> 0 .. INIT_NB_LOMBS - 1]
         /\ HasTurn(NextPlayer, spriteVector) =>
              LET j == NextSlot(NextPlayer, spriteVector)
              IN  /\ <<NextPlayer, j>> \in spriteVector
                  /\ j < nbr_lomb[NextPlayer]
                  /\ m_current_lombric'[NextPlayer] = j
                  /\ m_Equipe[NextPlayer] # 0
<1> DEFINE j == NextSlot(NextPlayer, spriteVector)
<1>1. /\ m_players \in Seq(Users)
      /\ m_current_player_id \in Nat
      /\ m_current_lombric \in [Users -> 0 .. INIT_NB_LOMBS - 1]
  BY DEF TypeOK
<1>2. Len(m_players) \in Nat /\ Len(m_players) > 0
  BY <1>1
<1>3. NextIndex \in 0 .. Len(m_players) - 1
  BY <1>1, <1>2 DEF NextIndex
<1>4. NextIndex + 1 \in DOMAIN m_players
  BY <1>1, <1>2, <1>3
<1>5. NextPlayer \in Players /\ NextPlayer \in Users
  BY <1>1, <1>4 DEF NextPlayer, Players
<1>6. m_current_player_id' = NextIndex
  BY DEF SearchTurn
<1>7. HasTry(NextPlayer, spriteVector) =>
        /\ j \in 0 .. INIT_NB_LOMBS - 1
        /\ isLombAlive(NextPlayer, j, spriteVector)
        /\ m_Equipe[NextPlayer] # 0
  BY <1>5, NextSlotAlive DEF HasTry
<1>8. m_current_lombric' = IF HasTry(NextPlayer, spriteVector)
                           THEN [m_current_lombric EXCEPT ![NextPlayer] = j]
                           ELSE m_current_lombric
  BY DEF SearchTurn
<1> HIDE DEF j
<1>9. m_current_lombric' \in [Users -> 0 .. INIT_NB_LOMBS - 1]
  BY <1>1, <1>5, <1>7, <1>8
<1>10. ASSUME HasTurn(NextPlayer, spriteVector)
       PROVE  /\ <<NextPlayer, j>> \in spriteVector
              /\ j < nbr_lomb[NextPlayer]
              /\ m_current_lombric'[NextPlayer] = j
              /\ m_Equipe[NextPlayer] # 0
  <2>1. HasTry(NextPlayer, spriteVector) /\ j < nbr_lomb[NextPlayer]
    BY <1>10 DEF HasTurn, j
  <2> QED
    BY <1>1, <1>5, <1>7, <1>8, <2>1 DEF isLombAlive
<1> QED
  BY <1>3, <1>5, <1>6, <1>9, <1>10 DEF NextPlayer, j

(* START: the first player has the first turn.  When setCurrentLomb finds  *)
(* nothing, he is a spectator: a player with a team has a live worm, or    *)
(* the search stopped at a ghost.                                          *)
LEMMA StartStep ==
  ASSUME GameAssumption, TypeOK, StepInv, HandleStart
  PROVE  LET first == m_players[1]
             j == NextSlot(first, Spawned)
         IN  /\ m_current_player_id = 0
             /\ first \in Players
             /\ m_current_lombric' \in [Users -> 0 .. INIT_NB_LOMBS - 1]
             /\ \/ /\ currentWorms' = <<first, j>>
                   /\ currentWorms' \in Spawned
                   /\ j < nbr_lomb[first]
                   /\ m_current_lombric'[first] = j
                   /\ m_Equipe[first] # 0
                \/ /\ currentWorms' \in Spawned /\ IsGhost(currentWorms')
                   /\ m_Equipe[first] = 0 \/ nbr_lomb[first] < m_lomb_nb
                \/ currentWorms' = NoWorm /\ m_Equipe[first] = 0
<1> DEFINE first == m_players[1]
           j == NextSlot(first, Spawned)
           ghosts == {w \in Spawned : IsGhost(w)}
<1>1. current_step = STEP_ROOM /\ m_players # <<>> /\ m_current_player_id = 0
  BY DEF HandleStart, Receives, StepInv
<1>2. m_players[m_current_player_id + 1] = first
  BY <1>1
<1>3. first \in Players /\ first \in Users
  <2>1. m_players \in Seq(Users)
    BY DEF TypeOK
  <2>2. 1 \in DOMAIN m_players
    BY <1>1, <2>1
  <2> QED
    BY <2>1, <2>2 DEF Players
<1>4. /\ m_current_lombric' = IF HasTry(first, Spawned)
                              THEN [m_current_lombric EXCEPT ![first] = j]
                              ELSE m_current_lombric
      /\ IF HasTurn(first, Spawned)
         THEN currentWorms' = <<first, j>>
         ELSE currentWorms' \in (IF ghosts = {} THEN {NoWorm} ELSE ghosts)
  BY <1>2 DEF HandleStart
<1>5. HasTry(first, Spawned) =>
        /\ j \in 0 .. m_lomb_nb - 1
        /\ j \in 0 .. INIT_NB_LOMBS - 1
        /\ isLombAlive(first, j, Spawned)
        /\ m_Equipe[first] # 0
  BY <1>3, NextSlotAlive DEF HasTry
<1>6. m_current_lombric \in [Users -> 0 .. INIT_NB_LOMBS - 1]
  BY DEF TypeOK
<1>7. m_current_lombric' \in [Users -> 0 .. INIT_NB_LOMBS - 1]
  <2> HIDE DEF j, first
  <2> QED
    BY <1>3, <1>4, <1>5, <1>6
<1>8. CASE HasTurn(first, Spawned)
  <2>1. HasTry(first, Spawned) /\ j < nbr_lomb[first]
    BY <1>8 DEF HasTurn
  <2>2. <<first, j>> \in Spawned
    BY <1>5, <2>1 DEF isLombAlive
  <2>3. m_current_lombric'[first] = j
    <3> HIDE DEF j, first
    <3> QED
      BY <1>3, <1>4, <1>6, <2>1
  <2>4. currentWorms' = <<first, j>> /\ m_Equipe[first] # 0
    BY <1>4, <1>5, <1>8, <2>1
  <2> QED
    BY <1>1, <1>3, <1>7, <2>1, <2>2, <2>3, <2>4
<1>9. ASSUME ~HasTurn(first, Spawned), m_Equipe[first] # 0
      PROVE  nbr_lomb[first] < m_lomb_nb
  <2>1. /\ m_lomb_nb \in Nat /\ m_lomb_nb > 0 /\ m_lomb_nb <= INIT_NB_LOMBS
        /\ INIT_NB_LOMBS \in Nat
        /\ nbr_lomb[first] \in Nat /\ nbr_lomb[first] >= 1
        /\ m_current_lombric[first] \in Nat
    BY <1>3 DEF GameAssumption, TypeOK, StepInv
  <2>2. SUFFICES ASSUME nbr_lomb[first] >= m_lomb_nb
                 PROVE  FALSE
    BY <2>1
  <2>3. \A i \in 0 .. m_lomb_nb - 1 : <<first, i>> \in Spawned /\ i < nbr_lomb[first]
    BY <1>3, <1>9, <2>1, <2>2 DEF Spawned, Worms
  <2>4. 1 \in LiveTries(first, Spawned)
    <3>1. Slot(first, 1) \in 0 .. m_lomb_nb - 1
      BY <2>1 DEF Slot
    <3>2. isLombAlive(first, Slot(first, 1), Spawned)
      BY <2>3, <3>1 DEF isLombAlive
    <3> QED
      BY <2>1, <3>2 DEF LiveTries
  <2>5. HasTry(first, Spawned)
    BY <1>9, <2>4 DEF HasTry
  <2>6. j < nbr_lomb[first]
    BY <1>5, <2>3, <2>5
  <2> QED
    BY <1>9, <2>5, <2>6 DEF HasTurn
<1>10. CASE ~HasTurn(first, Spawned) /\ ghosts # {}
  BY <1>1, <1>3, <1>4, <1>7, <1>9, <1>10
<1>11. CASE ~HasTurn(first, Spawned) /\ ghosts = {}
  <2>1. currentWorms' = NoWorm
    BY <1>4, <1>11
  <2>2. SUFFICES ASSUME m_Equipe[first] # 0
                 PROVE  FALSE
    BY <1>1, <1>3, <1>7, <2>1
  <2>3. /\ nbr_lomb[first] < m_lomb_nb /\ m_lomb_nb <= INIT_NB_LOMBS
        /\ nbr_lomb[first] \in Nat /\ m_lomb_nb \in Nat /\ INIT_NB_LOMBS \in Nat
    BY <1>3, <1>9, <1>11, <2>2 DEF GameAssumption, TypeOK
  <2>4. <<first, nbr_lomb[first]>> \in Spawned /\ IsGhost(<<first, nbr_lomb[first]>>)
    BY <1>3, <2>2, <2>3 DEF Spawned, Worms, IsGhost
  <2> QED
    BY <1>11, <2>4
<1> QED
  BY <1>8, <1>10, <1>11

-----------------------------------------------------------------------------
(* The inductive invariant *)

(* The initial state satisfies it.                                         *)
LEMMA InitIInv ==
  ASSUME GameAssumption, Init
  PROVE  IInv
<1>1. InboxOK
  BY DEF Init, InboxOK
<1>2. TypeOK
  <2>1. /\ INIT_NB_TEAMS \in 1 .. INIT_NB_TEAMS /\ 0 \in 0 .. INIT_NB_TEAMS
        /\ INIT_NB_LOMBS \in 1 .. INIT_NB_LOMBS /\ 0 \in 0 .. INIT_NB_LOMBS
        /\ 0 \in 0 .. INIT_NB_LOMBS - 1
    BY DEF GameAssumption
  <2>2. /\ m_Equipe \in [Users -> 0 .. INIT_NB_TEAMS]
        /\ nbr_lomb \in [Users -> 0 .. INIT_NB_LOMBS]
        /\ m_current_lombric \in [Users -> 0 .. INIT_NB_LOMBS - 1]
        /\ points \in [Users -> Nat]
        /\ sess \in [Users -> {"out", "asking", "joined", "in", "left"}]
    BY <2>1 DEF Init
  <2>3. /\ current_step \in 0 .. 3 /\ m_players \in Seq(Users)
        /\ podium \subseteq Users \X {0, 1}
    BY DEF Init, STEP_ROOM, GameAssumption
  <2> QED
    BY <1>1, <2>1, <2>2, <2>3 DEF Init, TypeOK
<1>3. Players = {}
  BY DEF Init, Players
<1>4. StepInv /\ Decided /\ TurnInv /\ SpriteInv /\ LedgerInv
  BY <1>3 DEF Init, StepInv, Decided, TurnInv, SpriteInv, LedgerInv, STEP_ROOM, STEP_GAME, STEP_ENDSCREEN
<1> QED
  BY <1>2, <1>4 DEF IInv

(* The sessions and the clocks leave the room's state alone but for the    *)
(* clocks themselves.                                                      *)
LEMMA SessionsFrame ==
  ASSUME Sessions \/ RoundExpires \/ GameExpires
  PROVE  UNCHANGED <<current_step, at, ret, roster, turn, params, board, db>>
<1> USE DEF room, roster, turn, params, board, clocks, db
<1>1. ASSUME NEW u \in Users,
             \/ JoinRequest(u) \/ JoinTimeout(u) \/ GetInfoRoom(u) \/ ChooseTeam(u) \/ QuitRoom(u)
             \/ ClientMoves(u) \/ ClientShoots(u) \/ Disconnect(u)
      PROVE  UNCHANGED <<current_step, at, ret, roster, turn, params, board, db>>
  BY <1>1 DEF JoinRequest, JoinTimeout, GetInfoRoom, ChooseTeam, QuitRoom, ClientMoves, ClientShoots, Disconnect
<1>2. ASSUME SetParams \/ StartGame \/ RoundExpires \/ GameExpires
      PROVE  UNCHANGED <<current_step, at, ret, roster, turn, params, board, db>>
  BY <1>2 DEF SetParams, StartGame, RoundExpires, GameExpires
<1> QED
  BY <1>1, <1>2 DEF Sessions

(* What a session or a clock does keeps the types.                         *)
LEMMA SessionsTypes ==
  ASSUME GameAssumption, TypeOK, Sessions \/ RoundExpires \/ GameExpires
  PROVE  TypeOK'
<1> USE DEF room, roster, turn, params, board, clocks, db
<1>1. ASSUME InboxOK',
             sess' \in [Users -> {"out", "asking", "joined", "in", "left"}],
             tour' \in Users \cup {NoUser},
             roundOver' \in BOOLEAN, gameOver' \in BOOLEAN
      PROVE  TypeOK'
  BY <1>1, SessionsFrame DEF TypeOK
<1>2. /\ InboxOK
      /\ sess \in [Users -> {"out", "asking", "joined", "in", "left"}]
      /\ tour \in Users \cup {NoUser}
      /\ roundOver \in BOOLEAN /\ gameOver \in BOOLEAN
      /\ m_team_nb \in 1 .. INIT_NB_TEAMS
  BY DEF TypeOK
<1>3. InboxOK /\ UNCHANGED inbox => InboxOK'
  BY DEF InboxOK
<1>4. GameAssumption
  OBVIOUS
<1>5. ASSUME NEW u \in Users, JoinRequest(u)
      PROVE  TypeOK'
  <2>1. Publish("PING", u, 0) /\ "PING" \in MessageTypes /\ 0 \in Arguments("PING")
    BY <1>5 DEF JoinRequest, MessageTypes, Arguments
  <2>2. InboxOK'
    BY <1>2, <2>1, PublishInbox
  <2> QED
    BY <1>1, <1>2, <1>5, <2>2 DEF JoinRequest
<1>6. ASSUME NEW u \in Users, JoinTimeout(u)
      PROVE  TypeOK'
  BY <1>1, <1>2, <1>3, <1>6 DEF JoinTimeout
<1>7. ASSUME NEW u \in Users, GetInfoRoom(u)
      PROVE  TypeOK'
  <2>1. Publish("INFO_ROOM", u, 0) /\ "INFO_ROOM" \in MessageTypes /\ 0 \in Arguments("INFO_ROOM")
    BY <1>7 DEF GetInfoRoom, MessageTypes, Arguments
  <2>2. InboxOK'
    BY <1>2, <2>1, PublishInbox
  <2> QED
    BY <1>1, <1>2, <1>7, <2>2 DEF GetInfoRoom
<1>8. ASSUME NEW u \in Users, ChooseTeam(u)
      PROVE  TypeOK'
  <2>1. PICK t \in 0 .. m_team_nb : Publish("CLIENT_JOIN_TEAM", u, t)
    BY <1>8 DEF ChooseTeam
  <2>2. t \in 0 .. INIT_NB_TEAMS
    BY <1>2 DEF GameAssumption
  <2>3. t \in Arguments("CLIENT_JOIN_TEAM") /\ "CLIENT_JOIN_TEAM" \in MessageTypes /\ t \in Nat
    BY <2>2 DEF MessageTypes, Arguments
  <2>4. InboxOK'
    BY <1>2, <2>1, <2>3, PublishInbox
  <2> QED
    BY <1>1, <1>2, <1>8, <2>4 DEF ChooseTeam
<1>9. ASSUME SetParams
      PROVE  TypeOK'
  <2>1. Owner \in Users
    BY DEF GameAssumption
  <2>2. ASSUME NEW n \in TeamChoices, Publish("CLIENT_MODIFY_NB_TEAMS", Owner, n)
        PROVE  InboxOK'
    <3>1. n \in Arguments("CLIENT_MODIFY_NB_TEAMS") /\ "CLIENT_MODIFY_NB_TEAMS" \in MessageTypes /\ n \in Nat
      BY DEF MessageTypes, Arguments, GameAssumption
    <3> QED
      BY <1>2, <2>1, <2>2, <3>1, PublishInbox
  <2>3. ASSUME NEW n \in LombChoices, Publish("CLIENT_MODIFY_NB_LOMBRICS", Owner, n)
        PROVE  InboxOK'
    <3>1. n \in Arguments("CLIENT_MODIFY_NB_LOMBRICS") /\ "CLIENT_MODIFY_NB_LOMBRICS" \in MessageTypes /\ n \in Nat
      BY DEF MessageTypes, Arguments, GameAssumption
    <3> QED
      BY <1>2, <2>1, <2>3, <3>1, PublishInbox
  <2> QED
    BY <1>1, <1>2, <1>9, <2>2, <2>3 DEF SetParams
<1>10. ASSUME StartGame
       PROVE  TypeOK'
  <2>1. Owner \in Users
    BY DEF GameAssumption
  <2>2. Publish("START", Owner, 0) /\ "START" \in MessageTypes /\ 0 \in Arguments("START")
    BY <1>10 DEF StartGame, MessageTypes, Arguments
  <2>3. InboxOK'
    BY <1>2, <2>1, <2>2, PublishInbox
  <2> QED
    BY <1>1, <1>2, <1>10, <2>3 DEF StartGame
<1>11. ASSUME NEW u \in Users, ClientMoves(u)
       PROVE  TypeOK'
  <2>1. id_lomb(currentWorms) \in 0 .. INIT_NB_LOMBS
    BY <1>11 DEF ClientMoves, Worms, id_lomb, GameAssumption
  <2>2. /\ id_lomb(currentWorms) \in Arguments("POS_LOMB_S")
        /\ "POS_LOMB_S" \in MessageTypes
        /\ id_lomb(currentWorms) \in Nat
    BY <2>1 DEF MessageTypes, Arguments
  <2>3. Publish("POS_LOMB_S", u, id_lomb(currentWorms))
    BY <1>11 DEF ClientMoves
  <2>4. InboxOK'
    BY <1>2, <2>2, <2>3, PublishInbox
  <2> QED
    BY <1>1, <1>2, <1>11, <2>4 DEF ClientMoves
<1>12. ASSUME NEW u \in Users, ClientShoots(u)
       PROVE  TypeOK'
  <2>1. PICK weapon \in {ARMED, PASSTOUR} : Publish("SHOOT", u, weapon)
    BY <1>12 DEF ClientShoots
  <2>2. weapon \in Arguments("SHOOT") /\ "SHOOT" \in MessageTypes /\ weapon \in Nat
    BY DEF MessageTypes, Arguments, ARMED, PASSTOUR
  <2>3. InboxOK'
    BY <1>2, <2>1, <2>2, PublishInbox
  <2> QED
    BY <1>1, <1>2, <1>12, <2>3 DEF ClientShoots
<1>13. ASSUME NEW u \in Users, Disconnect(u)
       PROVE  TypeOK'
  <2>1. Publish("CLIENT_QUIT_ROOM", u, 0) /\ "CLIENT_QUIT_ROOM" \in MessageTypes /\ 0 \in Arguments("CLIENT_QUIT_ROOM")
    BY <1>13 DEF Disconnect, MessageTypes, Arguments
  <2>2. InboxOK'
    BY <1>2, <2>1, PublishInbox
  <2> QED
    BY <1>1, <1>2, <1>13, <2>2 DEF Disconnect
<1>14. ASSUME NEW u \in Users, QuitRoom(u)
       PROVE  TypeOK'
  BY <1>1, <1>2, <1>3, <1>14 DEF QuitRoom, InboxOK
<1>15. ASSUME RoundExpires \/ GameExpires
       PROVE  TypeOK'
  BY <1>1, <1>2, <1>3, <1>15 DEF RoundExpires, GameExpires
<1> QED
  BY <1>5, <1>6, <1>7, <1>8, <1>9, <1>10, <1>11, <1>12, <1>13, <1>14, <1>15 DEF Sessions

(* A step that leaves the game as it is leaves the invariant as it is.     *)
LEMMA RestFrame ==
  ASSUME IInv, TypeOK', UNCHANGED <<current_step, at, roster, turn, params, board, db>>
  PROVE  IInv'
<1> USE DEF roster, turn, params, board, db
<1>1. Players' = Players
  BY DEF Players
<1>2. StepInv'
  BY <1>1 DEF IInv, StepInv
<1>3. Decided'
  BY <1>1 DEF IInv, Decided, AliveTeams, is_still_alive
<1>4. TurnInv'
  BY DEF IInv, TurnInv, FirstTurnWithoutWorm, CurrentPlayer, IsGhost
<1>5. SpriteInv'
  BY <1>1 DEF IInv, SpriteInv
<1>6. LedgerInv'
  BY <1>1 DEF IInv, LedgerInv, PodiumAgrees, InRow, Column
<1> QED
  BY <1>2, <1>3, <1>4, <1>5, <1>6 DEF IInv

(* The first end_game writes the same points in both places.               *)
LEMMA EndGameLedger ==
  ASSUME TypeOK, NEW t, EndGame(t), UNCHANGED roster,
         podium = {<<Owner, 0>>}, \A u \in Users : points[u] = 0
  PROVE  \A u \in Users : PodiumAgrees(u)'
<1> DEFINE playing == {u \in Players : m_Equipe[u] # 0}
           Gain(u) == IF m_Equipe[u] = t THEN 1 ELSE 0
<1>1. /\ points' = [u \in Users |-> IF u \in playing THEN points[u] + Gain(u) ELSE points[u]]
      /\ podium' = IF playing = {} THEN podium ELSE {<<u, Gain(u)>> : u \in InRow}
  BY DEF EndGame
<1>2. SUFFICES ASSUME NEW u \in Users
               PROVE  PodiumAgrees(u)'
  OBVIOUS
<1>0. /\ InRow \subseteq playing /\ InRow' = InRow
      /\ Players' = Players /\ m_Equipe' = m_Equipe
  BY InRowPlays DEF roster, InRow, Column, Players
<1>3. CASE u \in playing
  <2>1. points'[u] = Gain(u)
    BY <1>1, <1>3
  <2>0. podium' = {<<v, Gain(v)>> : v \in InRow}
    BY <1>1, <1>3
  <2>2. \A n : <<u, n>> \in podium' => n = Gain(u)
    BY <2>0
  <2>3. u \in InRow => <<u, Gain(u)>> \in podium' /\ Gain(u) \in {0, 1}
    BY <1>3, <2>0
  <2>4. CASE u \in InRow
    BY <2>1, <2>2, <2>3, <2>4 DEF PodiumAgrees
  <2>5. CASE u \notin InRow
    <3>1. \A n : <<u, n>> \notin podium'
      BY <2>0, <2>5
    <3> QED
      BY <1>0, <1>3, <2>5, <3>1 DEF PodiumAgrees
  <2> QED
    BY <2>4, <2>5
<1>4. CASE u \notin playing
  <2>1. points'[u] = 0
    BY <1>1, <1>4
  <2>2. \A n : <<u, n>> \in podium' => n = 0
    BY <1>0, <1>1, <1>4
  <2> QED
    BY <2>1, <2>2 DEF PodiumAgrees
<1> QED
  BY <1>3, <1>4

(* A round that ends keeps the invariant.  When the game was already over  *)
(* (current_step is STEP_ENDSCREEN) at most one team is left, and worms    *)
(* only disappear: the second end_round cannot give a round.               *)
LEMMA EndRoundKeepsIInv ==
  ASSUME GameAssumption, IInv, NEW s \in SUBSET spriteVector, NEW back \in {"recv", "check"},
         EndRound(s, back), InboxOK',
         \/ current_step = STEP_GAME /\ at \in {"recv", "check"}
         \/ current_step = STEP_ENDSCREEN /\ at = "check" /\ back = "recv"
  PROVE  IInv'
<1> DEFINE teams == AliveTeams(spriteVector')
<1>0. TypeOK /\ StepInv /\ Decided /\ SpriteInv /\ LedgerInv
  BY DEF IInv
<1>1. /\ TypeOK'
      /\ spriteVector' \subseteq s
      /\ UNCHANGED <<roster, turn, params, currentWorms, clocks, sess, finished>>
      /\ \/ /\ Cardinality(teams) <= 1
            /\ current_step' = current_step + 1
            /\ at' = back
            /\ \E t \in LastTeam(spriteVector') : EndGame(t)
         \/ /\ Cardinality(teams) >= 2
            /\ UNCHANGED <<current_step, points, podium, tour>>
            /\ at' = "turn"
            /\ ret' = back
            /\ m_players # <<>>
  BY <1>0, EndRoundStep
<1>2. AliveTeams(spriteVector)' = teams /\ Players' = Players
  BY <1>1 DEF AliveTeams, is_still_alive, Players, roster
<1>3. SpriteInv'
  BY <1>0, <1>1, <1>2 DEF SpriteInv, roster
<1>4. \A u \in Players' : nbr_lomb'[u] >= 1
  BY <1>0, <1>1, <1>2 DEF StepInv, roster
<1>5. ~ finished /\ ~ finished'
  BY <1>0, <1>1 DEF LedgerInv
<1>6. CASE /\ Cardinality(teams) <= 1
           /\ current_step' = current_step + 1
           /\ at' = back
           /\ \E t \in LastTeam(spriteVector') : EndGame(t)
  <2> HIDE DEF teams
  <2>1. current_step' \in {2, 3}
    BY <1>6 DEF STEP_GAME, STEP_ENDSCREEN
  <2>2. current_step' = 3 => current_step = STEP_ENDSCREEN /\ at' = "recv"
    BY <1>6 DEF STEP_GAME, STEP_ENDSCREEN
  <2>3. StepInv'
    BY <1>4, <1>6, <2>1, <2>2 DEF StepInv, STEP_ROOM, STEP_GAME, STEP_ENDSCREEN
  <2>4. Decided'
    BY <1>2, <1>6 DEF Decided
  <2>5. TurnInv'
    BY <1>6, <2>1 DEF TurnInv, STEP_GAME
  <2>6. LedgerInv'
    <3>1. CASE current_step = STEP_GAME
      <4>1. podium = {<<Owner, 0>>} /\ \A u \in Users : points[u] = 0
        BY <1>0, <3>1 DEF LedgerInv
      <4>2. \A u \in Users : PodiumAgrees(u)'
        BY <1>0, <1>1, <1>6, <4>1, EndGameLedger
      <4> QED
        BY <1>5, <2>1, <4>2 DEF LedgerInv, STEP_ROOM, STEP_GAME
    <3>2. CASE current_step = STEP_ENDSCREEN
      <4>1. current_step' = 3
        BY <1>6, <3>2 DEF STEP_ENDSCREEN
      <4> QED
        BY <1>5, <4>1 DEF LedgerInv, STEP_ROOM, STEP_GAME, STEP_ENDSCREEN
    <3> QED
      BY <3>1, <3>2
  <2> QED
    BY <1>1, <1>3, <2>3, <2>4, <2>5, <2>6 DEF IInv
<1>7. CASE /\ Cardinality(teams) >= 2
           /\ UNCHANGED <<current_step, points, podium, tour>>
           /\ at' = "turn"
           /\ ret' = back
           /\ m_players # <<>>
  <2>1. current_step = STEP_GAME
    <3>1. SUFFICES ASSUME current_step = STEP_ENDSCREEN
                   PROVE  FALSE
      OBVIOUS
    <3>2. Cardinality(AliveTeams(spriteVector)) <= 1
      BY <1>0, <3>1 DEF Decided, STEP_GAME, STEP_ENDSCREEN
    <3>3. Cardinality(teams) <= Cardinality(AliveTeams(spriteVector))
      BY <1>0, <1>1, TeamsShrink
    <3>4. Cardinality(teams) \in Nat /\ Cardinality(AliveTeams(spriteVector)) \in Nat
      BY <1>0, TeamsFinite, FS_CardinalityType
    <3> HIDE DEF teams
    <3> QED
      BY <1>7, <3>2, <3>3, <3>4
  <2> HIDE DEF teams
  <2>2. current_step' = STEP_GAME /\ m_players' # <<>>
    BY <1>1, <1>7, <2>1 DEF roster
  <2>3. StepInv'
    BY <1>4, <1>7, <2>2 DEF StepInv, STEP_ROOM, STEP_GAME, STEP_ENDSCREEN
  <2>4. Decided' /\ TurnInv'
    BY <1>7 DEF Decided, TurnInv
  <2>5. LedgerInv'
    BY <1>0, <1>5, <1>7, <2>1, <2>2 DEF LedgerInv, STEP_GAME, STEP_ENDSCREEN
  <2> QED
    BY <1>1, <1>3, <2>3, <2>4, <2>5 DEF IInv
<1> QED
  BY <1>1, <1>6, <1>7

-----------------------------------------------------------------------------
(* The handlers of the lobby *)

(* Before START there is no worm, no point and no turn.                    *)
LEMMA LobbyStep ==
  ASSUME IInv, TypeOK', current_step = STEP_ROOM, current_step' = STEP_ROOM, at' \in {"recv", "hung"},
         UNCHANGED <<m_current_player_id, board, db>>,
         \A u \in Players' : nbr_lomb'[u] >= 1
  PROVE  IInv'
<1> USE DEF board, db, STEP_ROOM, STEP_GAME, STEP_ENDSCREEN
<1>1. StepInv'
  BY DEF IInv, StepInv
<1>2. Decided' /\ TurnInv'
  BY DEF Decided, TurnInv
<1>3. SpriteInv'
  BY DEF IInv, StepInv, SpriteInv
<1>4. LedgerInv'
  BY DEF IInv, StepInv, LedgerInv
<1> QED
  BY <1>1, <1>2, <1>3, <1>4 DEF IInv

LEMMA HandlePingStep ==
  ASSUME GameAssumption, IInv, HandlePing
  PROVE  IInv'
<1> USE DEF room, roster, turn, params, board, clocks, db
<1>1. InboxOK'
  BY ReadInbox DEF HandlePing, Receives, IInv, TypeOK
<1>2. UNCHANGED <<room, tour>> /\ sess' \in [Users -> {"out", "asking", "joined", "in", "left"}]
  BY DEF HandlePing, IInv, TypeOK
<1>3. TypeOK'
  BY <1>1, <1>2 DEF IInv, TypeOK
<1> QED
  BY <1>2, <1>3, RestFrame

LEMMA HandleInfoRoomStep ==
  ASSUME GameAssumption, IInv, HandleInfoRoom
  PROVE  IInv'
<1> USE DEF roster, turn, params, board, clocks, db
<1> DEFINE u == Received.receiver_id
<1>1. InboxOK' /\ Received \in Messages
  BY ReadInbox DEF HandleInfoRoom, Receives, IInv, TypeOK
<1>2. u \in Users
  BY <1>1 DEF Messages
<1>3. /\ m_players' = Append(m_players, u)
      /\ m_Equipe' = [m_Equipe EXCEPT ![u] = 0]
      /\ nbr_lomb' = [nbr_lomb EXCEPT ![u] = m_lomb_nb]
      /\ m_current_lombric' = [m_current_lombric EXCEPT ![u] = 0]
      /\ current_step = STEP_ROOM
      /\ at = "recv"
      /\ UNCHANGED <<current_step, at, ret, m_current_player_id, params, board, clocks, sess, tour, db>>
  BY DEF HandleInfoRoom, Receives
<1> HIDE DEF u
<1>4. /\ m_players \in Seq(Users)
      /\ nbr_lomb \in [Users -> 0 .. INIT_NB_LOMBS]
      /\ m_lomb_nb \in 1 .. INIT_NB_LOMBS
      /\ 0 \in 0 .. INIT_NB_LOMBS - 1
      /\ 0 \in 0 .. INIT_NB_TEAMS
      /\ INIT_NB_LOMBS \in Nat
  BY DEF IInv, TypeOK, GameAssumption
<1>5. /\ m_players' \in Seq(Users)
      /\ m_Equipe' \in [Users -> 0 .. INIT_NB_TEAMS]
      /\ nbr_lomb' \in [Users -> 0 .. INIT_NB_LOMBS]
      /\ m_current_lombric' \in [Users -> 0 .. INIT_NB_LOMBS - 1]
  BY <1>2, <1>3, <1>4 DEF IInv, TypeOK
<1>6. TypeOK'
  BY <1>1, <1>3, <1>5 DEF IInv, TypeOK
<1>7. \A v \in Players' : nbr_lomb'[v] >= 1
  <2>1. SUFFICES ASSUME NEW v \in Players'
                 PROVE  nbr_lomb'[v] >= 1
    OBVIOUS
  <2>2. v = u \/ v \in Players
    BY <1>2, <1>3, <1>4, <2>1 DEF Players
  <2>3. \A x \in Players : nbr_lomb[x] >= 1 /\ x \in Users
    BY <1>4 DEF IInv, StepInv, Players
  <2> QED
    BY <1>2, <1>3, <1>4, <2>2, <2>3
<1> QED
  BY <1>3, <1>6, <1>7, LobbyStep

LEMMA HandleJoinTeamStep ==
  ASSUME GameAssumption, IInv, HandleJoinTeam
  PROVE  IInv'
<1> USE DEF roster, turn, params, board, clocks, db
<1>1. InboxOK' /\ Received \in Messages /\ Received.arg \in Arguments(Received.type_message)
  BY ReadInbox DEF HandleJoinTeam, Receives, IInv, TypeOK
<1>2. Received.arg \in 0 .. INIT_NB_TEAMS
  BY <1>1 DEF HandleJoinTeam, Receives, Arguments, GameAssumption
<1>3. m_Equipe' \in [Users -> 0 .. INIT_NB_TEAMS]
  BY <1>2 DEF HandleJoinTeam, IInv, TypeOK
<1>4. /\ current_step = STEP_ROOM /\ at = "recv"
      /\ UNCHANGED <<current_step, at, ret, m_players, nbr_lomb, turn, params, board, clocks, sess, tour, db>>
  BY DEF HandleJoinTeam, Receives
<1>5. TypeOK'
  BY <1>1, <1>3, <1>4 DEF IInv, TypeOK
<1>6. \A v \in Players' : nbr_lomb'[v] >= 1
  BY <1>4 DEF IInv, StepInv, Players
<1> QED
  BY <1>4, <1>5, <1>6, LobbyStep

LEMMA HandleNbTeamsStep ==
  ASSUME GameAssumption, IInv, HandleNbTeams
  PROVE  IInv'
<1> USE DEF roster, turn, params, board, clocks, db
<1>1. InboxOK' /\ Received \in Messages /\ Received.arg \in Arguments(Received.type_message)
  BY ReadInbox DEF HandleNbTeams, Receives, IInv, TypeOK
<1>2. Received.arg \in 1 .. INIT_NB_TEAMS
  BY <1>1 DEF HandleNbTeams, Receives, Arguments, GameAssumption
<1>3. m_Equipe' \in [Users -> 0 .. INIT_NB_TEAMS]
  BY DEF HandleNbTeams, IInv, TypeOK, GameAssumption
<1>4. /\ current_step = STEP_ROOM /\ at = "recv"
      /\ m_team_nb' = Received.arg
      /\ UNCHANGED <<current_step, at, ret, m_players, nbr_lomb, turn, m_lomb_nb, board, clocks, sess, tour, db>>
  BY DEF HandleNbTeams, Receives
<1>5. TypeOK'
  BY <1>1, <1>2, <1>3, <1>4 DEF IInv, TypeOK
<1>6. \A v \in Players' : nbr_lomb'[v] >= 1
  BY <1>4 DEF IInv, StepInv, Players
<1> QED
  BY <1>4, <1>5, <1>6, LobbyStep

LEMMA HandleNbLombStep ==
  ASSUME GameAssumption, IInv, HandleNbLomb
  PROVE  IInv'
<1> USE DEF roster, turn, params, board, clocks, db
<1>1. InboxOK' /\ Received \in Messages /\ Received.arg \in Arguments(Received.type_message)
  BY ReadInbox DEF HandleNbLomb, Receives, IInv, TypeOK
<1>2. Received.arg \in 1 .. INIT_NB_LOMBS
  BY <1>1 DEF HandleNbLomb, Receives, Arguments, GameAssumption
<1>3. /\ current_step = STEP_ROOM /\ at = "recv"
      /\ m_lomb_nb' = Received.arg
      /\ UNCHANGED <<current_step, at, ret, roster, turn, m_team_nb, board, clocks, sess, tour, db>>
  BY DEF HandleNbLomb, Receives
<1>4. TypeOK'
  BY <1>1, <1>2, <1>3 DEF IInv, TypeOK
<1>5. \A v \in Players' : nbr_lomb'[v] >= 1
  BY <1>3 DEF IInv, StepInv, Players
<1> QED
  BY <1>3, <1>4, <1>5, LobbyStep

(* START *)
LEMMA HandleStartStep ==
  ASSUME GameAssumption, IInv, HandleStart
  PROVE  IInv'
<1> USE DEF roster, turn, params, board, clocks, db
<1> DEFINE first == m_players[1]
           j == NextSlot(first, Spawned)
<1>0. TypeOK /\ StepInv /\ LedgerInv
  BY DEF IInv
<1>1. InboxOK'
  BY <1>0, ReadInbox DEF HandleStart, Receives, TypeOK
<1>2. /\ m_current_player_id = 0
      /\ first \in Players
      /\ m_current_lombric' \in [Users -> 0 .. INIT_NB_LOMBS - 1]
      /\ \/ /\ currentWorms' = <<first, j>>
            /\ currentWorms' \in Spawned
            /\ j < nbr_lomb[first]
            /\ m_current_lombric'[first] = j
            /\ m_Equipe[first] # 0
         \/ /\ currentWorms' \in Spawned /\ IsGhost(currentWorms')
            /\ m_Equipe[first] = 0 \/ nbr_lomb[first] < m_lomb_nb
         \/ currentWorms' = NoWorm /\ m_Equipe[first] = 0
  BY <1>0, StartStep
<1>3. /\ at = "recv" /\ current_step = STEP_ROOM
      /\ m_players # <<>>
      /\ current_step' = STEP_GAME
      /\ spriteVector' = Spawned
      /\ roundOver' = FALSE /\ gameOver' = FALSE
      /\ UNCHANGED <<at, ret, roster, m_current_player_id, params, waterLevel, sess, db>>
  BY DEF HandleStart, Receives
<1>4. tour' \in Users \cup {NoUser}
  <2>1. tour' = Reached(m_players[m_current_player_id + 1])
    BY DEF HandleStart
  <2>2. m_current_player_id + 1 = 1
    BY <1>2
  <2>3. first \in Users
    BY <1>0, <1>2 DEF TypeOK, Players
  <2> QED
    BY <2>1, <2>2, <2>3 DEF Reached
<1>5. Spawned \subseteq Worms
  BY DEF Spawned
<1>6. current_step' \in 0 .. 3 /\ currentWorms' \in Worms \cup {NoWorm}
  BY <1>2, <1>3, <1>5 DEF STEP_GAME
<1>7. TypeOK'
  BY <1>0, <1>1, <1>2, <1>3, <1>4, <1>5, <1>6 DEF TypeOK
<1>8. StepInv'
  BY <1>0, <1>3 DEF StepInv, Players, STEP_ROOM, STEP_GAME, STEP_ENDSCREEN
<1>9. Decided'
  BY <1>3 DEF Decided
<1>10. TurnInv'
  <2>1. CurrentPlayer' = first
    BY <1>2, <1>3 DEF CurrentPlayer
  <2>2. m_current_player_id' < Len(m_players')
    BY <1>0, <1>2, <1>3 DEF TypeOK
  <2>3. CASE currentWorms' = NoWorm /\ m_Equipe[first] = 0
    BY <1>2, <1>3, <2>1, <2>2, <2>3 DEF TurnInv, FirstTurnWithoutWorm
  <2>4. CASE /\ currentWorms' \in Spawned /\ IsGhost(currentWorms')
             /\ m_Equipe[first] = 0 \/ nbr_lomb[first] < m_lomb_nb
    <3>1. currentWorms' # NoWorm
      BY <1>5, <2>4 DEF Worms, GameAssumption
    <3>2. IsGhost(currentWorms)'
      BY <1>3, <2>4 DEF IsGhost
    <3>3. FirstTurnWithoutWorm'
      BY <1>2, <1>3, <2>1, <2>4, <3>1, <3>2 DEF FirstTurnWithoutWorm
    <3> QED
      BY <1>3, <2>2, <3>3 DEF TurnInv
  <2>5. CASE /\ currentWorms' = <<first, j>>
             /\ currentWorms' \in Spawned
             /\ j < nbr_lomb[first]
             /\ m_current_lombric'[first] = j
             /\ m_Equipe[first] # 0
    <3>1. ~IsGhost(currentWorms)'
      <4> HIDE DEF first, j
      <4>1. <<first, j>> \in Worms
        BY <1>5, <2>5
      <4>2. j \in Nat /\ nbr_lomb[first] \in Nat /\ nbr_lomb' = nbr_lomb
        BY <1>0, <1>3, <4>1 DEF Worms, TypeOK
      <4> QED
        BY <2>5, <4>2 DEF IsGhost
    <3> QED
      BY <1>3, <2>1, <2>2, <2>5, <3>1 DEF TurnInv
  <2> QED
    BY <1>2, <2>3, <2>4, <2>5
<1>11. SpriteInv'
  <2>1. \A w \in Spawned : w[1] \in Players /\ m_Equipe[w[1]] # 0
    BY DEF Spawned
  <2> QED
    BY <1>3, <2>1 DEF SpriteInv, Players
<1>12. LedgerInv'
  BY <1>0, <1>3 DEF LedgerInv, STEP_ROOM, STEP_GAME, STEP_ENDSCREEN
<1> QED
  BY <1>7, <1>8, <1>9, <1>10, <1>11, <1>12 DEF IInv

(* Erasing a player leaves a vector of players.                            *)
LEMMA EraseType ==
  ASSUME NEW S, NEW q \in Seq(S), NEW i \in DOMAIN q
  PROVE  /\ Erase(q, i) \in Seq(S)
         /\ \A k \in DOMAIN Erase(q, i) : \E l \in DOMAIN q : Erase(q, i)[k] = q[l]
<1>1. Len(q) \in Nat /\ DOMAIN q = 1 .. Len(q)
  OBVIOUS
<1>2. Len(q) - 1 \in Nat
  BY <1>1
<1>3. \A k \in 1 .. Len(q) - 1 : (IF k < i THEN q[k] ELSE q[k + 1]) \in S
  BY <1>1
<1>4. Erase(q, i) \in [1 .. Len(q) - 1 -> S]
  BY <1>3 DEF Erase
<1>5. Erase(q, i) \in Seq(S)
  BY <1>2, <1>4
<1>6. ASSUME NEW k \in DOMAIN Erase(q, i)
      PROVE  \E l \in DOMAIN q : Erase(q, i)[k] = q[l]
  <2>1. k \in 1 .. Len(q) - 1
    BY <1>6 DEF Erase
  <2>2. k \in DOMAIN q /\ k + 1 \in DOMAIN q
    BY <1>1, <2>1
  <2>3. Erase(q, i)[k] = IF k < i THEN q[k] ELSE q[k + 1]
    BY <2>1 DEF Erase
  <2> QED
    BY <2>2, <2>3
<1> QED
  BY <1>5, <1>6

(* A user quits: the thread goes to STEP_ENDSCREEN or hangs.               *)
LEMMA HandleQuitStep ==
  ASSUME GameAssumption, IInv, HandleQuit
  PROVE  IInv'
<1> USE DEF roster, turn, params, board, clocks, db
<1> DEFINE u == Received.receiver_id
<1>0. TypeOK /\ StepInv /\ LedgerInv
  BY DEF IInv
<1>1. InboxOK'
  BY <1>0, ReadInbox DEF HandleQuit, Receives, TypeOK
<1>2. /\ current_step \in {STEP_ROOM, STEP_GAME} /\ at = "recv"
      /\ UNCHANGED <<ret, m_Equipe, nbr_lomb, turn, params, board, clocks, sess, tour, db>>
  BY DEF HandleQuit, Receives
<1>3. m_players \in Seq(Users)
  BY <1>0 DEF TypeOK
<1>4. CASE Players \subseteq {u}
  <2>1. /\ m_players' = <<>>
        /\ at' = IF current_step = STEP_GAME THEN "check" ELSE "recv"
        /\ current_step' = STEP_ENDSCREEN
    BY <1>4 DEF HandleQuit
  <2>2. TypeOK'
    <3>1. /\ m_players' \in Seq(Users)
          /\ current_step' \in 0 .. 3
          /\ at' \in {"recv", "check", "turn", "hung", "crashed", "exited"}
      BY <2>1 DEF STEP_ENDSCREEN
    <3> QED
      BY <1>0, <1>1, <1>2, <3>1 DEF TypeOK
  <2>3. Players' = {} /\ AliveTeams(spriteVector)' = {}
    BY <2>1 DEF Players, AliveTeams
  <2>4. StepInv'
    BY <2>1, <2>3 DEF StepInv, STEP_ROOM, STEP_GAME, STEP_ENDSCREEN
  <2>5. Decided'
    BY <2>3, FS_EmptySet DEF Decided
  <2>6. TurnInv' /\ SpriteInv'
    BY <2>1 DEF TurnInv, SpriteInv, STEP_GAME, STEP_ENDSCREEN
  <2>7. LedgerInv'
    BY <1>0, <1>2, <2>1 DEF LedgerInv, PodiumAgrees, STEP_ROOM, STEP_GAME, STEP_ENDSCREEN
  <2> QED
    BY <2>2, <2>4, <2>5, <2>6, <2>7 DEF IInv
<1>5. CASE ~ (Players \subseteq {u})
  <2>1. /\ at' = "hung"
        /\ UNCHANGED current_step
        /\ \/ \E i \in DOMAIN m_players : m_players' = Erase(m_players, i)
           \/ UNCHANGED m_players
    BY <1>5 DEF HandleQuit
  <2>2. /\ m_players' \in Seq(Users)
        /\ \A k \in DOMAIN m_players' : \E l \in DOMAIN m_players : m_players'[k] = m_players[l]
    BY <1>3, <2>1, EraseType
  <2>3. Players' \subseteq Players
    BY <2>2 DEF Players
  <2>4. TypeOK'
    BY <1>0, <1>1, <1>2, <2>1, <2>2 DEF TypeOK
  <2>5. StepInv'
    BY <1>0, <1>2, <2>1, <2>3 DEF StepInv, STEP_ROOM, STEP_GAME, STEP_ENDSCREEN
  <2>6. Decided' /\ TurnInv' /\ SpriteInv'
    BY <2>1 DEF Decided, TurnInv, SpriteInv
  <2>7. LedgerInv'
    BY <1>0, <1>2, <2>1 DEF LedgerInv, PodiumAgrees, STEP_ROOM, STEP_GAME, STEP_ENDSCREEN
  <2> QED
    BY <2>4, <2>5, <2>6, <2>7 DEF IInv
<1> QED
  BY <1>4, <1>5

-----------------------------------------------------------------------------
(* The game *)

(* A step of the thread's loop that ends no round loses ghosts at most.    *)
LEMMA QuietStep ==
  ASSUME IInv, TypeOK',
         at \in {"recv", "check"}, at' \in {"recv", "check"},
         \/ current_step = STEP_GAME
         \/ current_step = STEP_ENDSCREEN /\ at' = "recv",
         UNCHANGED <<current_step, roster, turn, params, currentWorms, db>>,
         spriteVector' \subseteq spriteVector,
         \A w \in spriteVector \ spriteVector' : IsGhost(w)
  PROVE  IInv'
<1> USE DEF roster, turn, params, db
<1>1. Players' = Players
  BY DEF Players
<1>2. StepInv'
  BY <1>1 DEF IInv, StepInv, STEP_ROOM, STEP_GAME, STEP_ENDSCREEN
<1>3. Decided'
  BY DEF Decided, STEP_GAME, STEP_ENDSCREEN
<1>4. TurnInv'
  BY DEF IInv, TurnInv, FirstTurnWithoutWorm, CurrentPlayer, IsGhost
<1>5. SpriteInv'
  BY <1>1 DEF IInv, SpriteInv
<1>6. LedgerInv'
  BY <1>1 DEF IInv, LedgerInv, PodiumAgrees, InRow, Column
<1> QED
  BY <1>2, <1>3, <1>4, <1>5, <1>6 DEF IInv

LEMMA HandleMoveStep ==
  ASSUME GameAssumption, IInv, HandleMove
  PROVE  IInv'
<1> USE DEF roster, turn, params, board, clocks, db
<1> DEFINE w == <<Received.receiver_id, Received.arg - 1>>
<1>0. TypeOK
  BY DEF IInv
<1>1. InboxOK'
  BY <1>0, ReadInbox DEF HandleMove, Receives, TypeOK
<1>2. current_step = STEP_GAME /\ at = "recv"
  BY DEF HandleMove, Receives
<1>3. ASSUME spriteVector' = spriteVector \/ \E g \in spriteVector : IsGhost(g) /\ spriteVector' = spriteVector \ {g},
             at' = "check",
             UNCHANGED <<current_step, ret, roster, turn, params, currentWorms, waterLevel, clocks, sess, tour, db>>
      PROVE  IInv'
  <2>1. spriteVector' \subseteq spriteVector /\ \A x \in spriteVector \ spriteVector' : IsGhost(x)
    BY <1>3
  <2>2. TypeOK'
    BY <1>0, <1>1, <1>3, <2>1 DEF TypeOK
  <2> QED
    BY <1>2, <1>3, <2>1, <2>2, QuietStep
<1>4. ASSUME NEW s \in {spriteVector, spriteVector \ {w}}, EndRound(s, "check")
      PROVE  IInv'
  <2>1. s \in SUBSET spriteVector
    BY <1>4
  <2> QED
    BY <1>1, <1>2, <1>4, <2>1, EndRoundKeepsIInv
<1> QED
  BY <1>3, <1>4 DEF HandleMove

LEMMA HandleShootStep ==
  ASSUME GameAssumption, IInv, HandleShoot
  PROVE  IInv'
<1> USE DEF roster, turn, params, board, clocks, db
<1>0. TypeOK
  BY DEF IInv
<1>1. InboxOK'
  BY <1>0, ReadInbox DEF HandleShoot, Receives, TypeOK
<1>2. current_step = STEP_GAME /\ at = "recv"
  BY DEF HandleShoot, Receives
<1>3. ASSUME currentWorms \notin spriteVector, at' = "crashed",
             UNCHANGED <<current_step, ret, roster, turn, params, board, clocks, sess, tour, db>>
      PROVE  IInv'
  <2>1. TypeOK'
    BY <1>0, <1>1, <1>3 DEF TypeOK
  <2>2. StepInv'
    BY <1>2, <1>3 DEF IInv, StepInv, Players, STEP_ROOM, STEP_GAME, STEP_ENDSCREEN
  <2>3. Decided'
    BY <1>3 DEF Decided
  <2>6. FirstTurnWithoutWorm
    BY <1>2, <1>3 DEF IInv, TurnInv
  <2>7. TurnInv'
    BY <1>3, <2>6 DEF TurnInv, FirstTurnWithoutWorm, CurrentPlayer, IsGhost
  <2>4. SpriteInv'
    BY <1>2, <1>3 DEF IInv, SpriteInv, Players
  <2>5. LedgerInv'
    BY <1>2, <1>3 DEF IInv, LedgerInv, STEP_ROOM, STEP_GAME, STEP_ENDSCREEN
  <2> QED
    BY <2>1, <2>2, <2>3, <2>4, <2>5, <2>7 DEF IInv
<1>4. ASSUME NEW s \in SUBSET spriteVector, EndRound(s, "check")
      PROVE  IInv'
  BY <1>1, <1>2, <1>4, EndRoundKeepsIInv
<1> QED
  BY <1>3, <1>4 DEF HandleShoot

LEMMA OtherGameStep ==
  ASSUME GameAssumption, IInv, HandleOtherGame \/ ReceiveTimeout
  PROVE  IInv'
<1> USE DEF roster, turn, params, board, clocks, db
<1>0. TypeOK
  BY DEF IInv
<1>1. InboxOK'
  <2>1. CASE HandleOtherGame
    BY <1>0, <2>1, ReadInbox DEF HandleOtherGame, Receives, TypeOK
  <2>2. CASE ReceiveTimeout
    BY <1>0, <2>2 DEF ReceiveTimeout, TypeOK, InboxOK
  <2> QED
    BY <2>1, <2>2
<1>2. /\ current_step = STEP_GAME /\ at = "recv" /\ at' = "check"
      /\ UNCHANGED <<current_step, ret, roster, turn, params, board, clocks, sess, tour, db>>
  BY DEF HandleOtherGame, ReceiveTimeout, Receives
<1>3. TypeOK'
  BY <1>0, <1>1, <1>2 DEF TypeOK
<1> QED
  BY <1>2, <1>3, QuietStep

LEMMA CheckRoundTimeStep ==
  ASSUME GameAssumption, IInv, CheckRoundTime
  PROVE  IInv'
<1> USE DEF roster, turn, params, board, clocks, db
<1>0. TypeOK /\ StepInv
  BY DEF IInv
<1>1. at = "check" /\ current_step \in {STEP_GAME, STEP_ENDSCREEN} /\ UNCHANGED inbox
  BY <1>0 DEF CheckRoundTime, StepInv
<1>2. InboxOK'
  BY <1>0, <1>1 DEF TypeOK, InboxOK
<1>3. CASE roundOver
  <2>1. EndRound(spriteVector, "recv")
    BY <1>3 DEF CheckRoundTime
  <2> QED
    BY <1>1, <1>2, <2>1, EndRoundKeepsIInv
<1>4. CASE ~roundOver
  <2>1. /\ at' = "recv"
        /\ UNCHANGED <<current_step, ret, roster, turn, params, board, clocks, inbox, sess, tour, db>>
    BY <1>4 DEF CheckRoundTime
  <2>2. TypeOK'
    BY <1>0, <1>2, <2>1 DEF TypeOK
  <2> QED
    BY <1>1, <2>1, <2>2, QuietStep
<1> QED
  BY <1>3, <1>4

(* The search for the next player runs only in a game with players.        *)
LEMMA PassTurnStep ==
  ASSUME GameAssumption, IInv, PassTurn
  PROVE  IInv'
<1> USE DEF roster, params, board, clocks, db
<1>0. TypeOK /\ StepInv
  BY DEF IInv
<1>1. at = "turn" /\ SearchTurn /\ current_step = STEP_GAME /\ m_players # <<>>
  BY <1>0 DEF PassTurn, SearchTurn, StepInv
<1>2. /\ m_current_player_id' \in Nat
      /\ m_current_lombric' \in [Users -> 0 .. INIT_NB_LOMBS - 1]
  BY <1>0, <1>1, SearchStep
<1>3. UNCHANGED <<current_step, at, ret, roster, params, board, clocks, inbox, sess, tour, db>>
  BY DEF PassTurn
<1>4. TypeOK'
  BY <1>0, <1>2, <1>3 DEF TypeOK, InboxOK
<1>5. StepInv'
  BY <1>0, <1>1, <1>3 DEF StepInv, Players, STEP_ROOM, STEP_GAME
<1>6. Decided' /\ TurnInv'
  BY <1>1, <1>3 DEF Decided, TurnInv
<1>7. SpriteInv' /\ LedgerInv'
  BY <1>3 DEF IInv, SpriteInv, LedgerInv, Players, PodiumAgrees, InRow, Column
<1> QED
  BY <1>4, <1>5, <1>6, <1>7 DEF IInv

LEMMA TakeTurnStep ==
  ASSUME GameAssumption, IInv, TakeTurn
  PROVE  IInv'
<1> USE DEF roster, params, clocks, db
<1> DEFINE p == NextPlayer
           j == NextSlot(p, spriteVector)
<1>0. TypeOK /\ StepInv
  BY DEF IInv
<1>1. at = "turn" /\ SearchTurn /\ current_step = STEP_GAME /\ m_players # <<>>
  BY <1>0 DEF TakeTurn, SearchTurn, StepInv
<1>2. /\ p \in Users
      /\ m_current_player_id' \in 0 .. Len(m_players) - 1
      /\ p = m_players[m_current_player_id' + 1]
      /\ m_current_lombric' \in [Users -> 0 .. INIT_NB_LOMBS - 1]
      /\ HasTurn(p, spriteVector) =>
           /\ <<p, j>> \in spriteVector
           /\ j < nbr_lomb[p]
           /\ m_current_lombric'[p] = j
           /\ m_Equipe[p] # 0
  BY <1>0, <1>1, SearchStep
<1>3. /\ HasTurn(p, spriteVector)
      /\ currentWorms' = <<p, j>>
      /\ tour' = Reached(p)
      /\ roundOver' = FALSE
      /\ at' = ret
      /\ UNCHANGED <<current_step, ret, roster, params, spriteVector, waterLevel, gameOver, inbox, sess, db>>
  BY DEF TakeTurn
<1> HIDE DEF p, j
<1>4. currentWorms' \in spriteVector /\ spriteVector \subseteq Worms
  BY <1>0, <1>2, <1>3 DEF TypeOK
<1>5. tour' \in Users \cup {NoUser} /\ m_current_player_id' \in Nat /\ at' \in {"recv", "check"}
  BY <1>0, <1>2, <1>3 DEF TypeOK, Reached
<1>6. TypeOK'
  BY <1>0, <1>2, <1>3, <1>4, <1>5 DEF TypeOK, InboxOK
<1>7. StepInv'
  BY <1>0, <1>1, <1>3, <1>5 DEF StepInv, Players, STEP_ROOM, STEP_GAME
<1>8. Decided'
  BY <1>1, <1>3 DEF Decided, STEP_GAME, STEP_ENDSCREEN
<1>9. TurnInv'
  <2>1. CurrentPlayer' = p
    BY <1>2, <1>3 DEF CurrentPlayer
  <2>2. m_current_player_id' < Len(m_players')
    BY <1>0, <1>2, <1>3 DEF TypeOK
  <2>3. ~IsGhost(currentWorms)'
    <3>1. <<p, j>> \in Worms /\ j < nbr_lomb[p]
      BY <1>2, <1>3, <1>4
    <3>2. j \in Nat /\ nbr_lomb[p] \in Nat /\ nbr_lomb' = nbr_lomb
      BY <1>0, <1>3, <3>1 DEF Worms, TypeOK
    <3> QED
      BY <1>3, <3>1, <3>2 DEF IsGhost
  <2> QED
    BY <1>2, <1>3, <1>4, <1>5, <2>1, <2>2, <2>3 DEF TurnInv
<1>10. SpriteInv'
  BY <1>1, <1>3 DEF IInv, SpriteInv, Players
<1>11. LedgerInv'
  BY <1>1, <1>3 DEF IInv, LedgerInv, Players, PodiumAgrees, InRow, Column
<1> QED
  BY <1>6, <1>7, <1>8, <1>9, <1>10, <1>11 DEF IInv

(* The thread ends, after STEP_ENDSCREEN or on "An error occured".         *)
LEMMA ExitStep ==
  ASSUME GameAssumption, IInv, CloseRoom \/ ErrorExit
  PROVE  IInv'
<1> USE DEF roster, turn, params, board, clocks
<1>0. TypeOK /\ StepInv
  BY DEF IInv
<1>1. /\ at = "recv" /\ Exit
      /\ \/ current_step = STEP_ENDSCREEN /\ finished' = TRUE
         \/ current_step \notin {STEP_ROOM, STEP_GAME, STEP_ENDSCREEN} /\ finished' = finished
  BY DEF CloseRoom, ErrorExit
<1>2. /\ at' = "exited"
      /\ inbox' = <<>>
      /\ sess' = [u \in Users |-> IF u \in Players /\ sess[u] # "left" THEN "out" ELSE sess[u]]
      /\ UNCHANGED <<current_step, ret, roster, turn, params, board, clocks, tour, points, podium>>
  BY <1>1 DEF Exit
<1>3. sess' \in [Users -> {"out", "asking", "joined", "in", "left"}]
  BY <1>0, <1>2 DEF TypeOK
<1>4. InboxOK'
  BY <1>2 DEF InboxOK
<1>5. finished' \in BOOLEAN
  BY <1>0, <1>1 DEF TypeOK
<1>6. TypeOK'
  BY <1>0, <1>2, <1>3, <1>4, <1>5 DEF TypeOK
<1>7. current_step' \in {2, 3}
  BY <1>0, <1>1, <1>2 DEF TypeOK, STEP_ROOM, STEP_GAME, STEP_ENDSCREEN
<1>8. StepInv'
  BY <1>0, <1>2, <1>7 DEF StepInv, Players, STEP_ROOM, STEP_GAME, STEP_ENDSCREEN
<1>9. Decided' /\ TurnInv'
  BY <1>2 DEF Decided, TurnInv
<1>10. SpriteInv'
  BY <1>1, <1>2 DEF IInv, SpriteInv, Players
<1>12. InRow' = InRow /\ Players' = Players
  BY <1>2 DEF InRow, Column, Players
<1>11. LedgerInv'
  BY <1>1, <1>2, <1>7, <1>12 DEF IInv, LedgerInv, PodiumAgrees, STEP_ROOM, STEP_GAME, STEP_ENDSCREEN
<1> QED
  BY <1>6, <1>8, <1>9, <1>10, <1>11 DEF IInv

-----------------------------------------------------------------------------
(* Theorems *)

(* Every step of the room, its sessions and its clocks keeps the           *)
(* invariant, and it holds of the initial state.                           *)
THEOREM Invariance == Spec => []IInv
<1>1. GameAssumption
  BY GameAssumption
<1>2. Init => IInv
  BY <1>1, InitIInv
<1>3. IInv /\ [Next]_vars => IInv'
  <2>1. SUFFICES ASSUME IInv, [Next]_vars
                 PROVE  IInv'
    OBVIOUS
  <2>2. CASE Sessions \/ RoundExpires \/ GameExpires
    <3>1. UNCHANGED <<current_step, at, ret, roster, turn, params, board, db>>
      BY <2>2, SessionsFrame
    <3>2. TypeOK'
      BY <1>1, <2>1, <2>2, SessionsTypes DEF IInv
    <3> QED
      BY <2>1, <3>1, <3>2, RestFrame
  <2>3. CASE Room
    <3>1. CASE HandlePing
      BY <1>1, <2>1, <3>1, HandlePingStep
    <3>2. CASE HandleInfoRoom
      BY <1>1, <2>1, <3>2, HandleInfoRoomStep
    <3>3. CASE HandleJoinTeam
      BY <1>1, <2>1, <3>3, HandleJoinTeamStep
    <3>4. CASE HandleNbTeams
      BY <1>1, <2>1, <3>4, HandleNbTeamsStep
    <3>5. CASE HandleNbLomb
      BY <1>1, <2>1, <3>5, HandleNbLombStep
    <3>6. CASE HandleStart
      BY <1>1, <2>1, <3>6, HandleStartStep
    <3>7. CASE HandleQuit
      BY <1>1, <2>1, <3>7, HandleQuitStep
    <3>8. CASE HandleMove
      BY <1>1, <2>1, <3>8, HandleMoveStep
    <3>9. CASE HandleShoot
      BY <1>1, <2>1, <3>9, HandleShootStep
    <3>10. CASE HandleOtherGame \/ ReceiveTimeout
      BY <1>1, <2>1, <3>10, OtherGameStep
    <3>11. CASE CheckRoundTime
      BY <1>1, <2>1, <3>11, CheckRoundTimeStep
    <3>12. CASE PassTurn
      BY <1>1, <2>1, <3>12, PassTurnStep
    <3>13. CASE TakeTurn
      BY <1>1, <2>1, <3>13, TakeTurnStep
    <3>14. CASE CloseRoom \/ ErrorExit
      BY <1>1, <2>1, <3>14, ExitStep
    <3> QED
      BY <2>3, <3>1, <3>2, <3>3, <3>4, <3>5, <3>6, <3>7, <3>8, <3>9, <3>10, <3>11, <3>12, <3>13, <3>14 DEF Room
  <2>4. CASE UNCHANGED vars
    <3>1. TypeOK'
      BY <2>1, <2>4 DEF vars, roster, turn, params, board, clocks, db, IInv, TypeOK, InboxOK
    <3> QED
      BY <2>1, <2>4, <3>1, RestFrame DEF vars
  <2> QED
    BY <2>1, <2>2, <2>3, <2>4 DEF Next
<1> QED
  BY <1>2, <1>3, PTL DEF Spec

(* The types and ranges of the state, and at most two ends of one game.    *)
THEOREM TypeCorrect == Spec => []TypeOK
<1>1. IInv => TypeOK
  BY DEF IInv
<1> QED
  BY <1>1, Invariance, PTL

(* While a game waits, the current player, his remembered slot and the     *)
(* current worm agree.                                                     *)
THEOREM TurnCorrect == Spec => []TurnInv
<1>1. IInv => TurnInv
  BY DEF IInv
<1> QED
  BY <1>1, Invariance, PTL

(* No round is given after the end of the game.                            *)
THEOREM EndFinal == Spec => []EndIsFinal
<1>1. IInv => EndIsFinal
  BY DEF IInv, StepInv, EndIsFinal, STEP_GAME, STEP_ENDSCREEN
<1> QED
  BY <1>1, Invariance, PTL

(* A closed room's row holds the points its users earned.                  *)
THEOREM LedgerCorrect == Spec => []LedgerAgrees
<1>1. IInv => LedgerAgrees
  BY DEF IInv, LedgerInv, LedgerAgrees
<1> QED
  BY <1>1, Invariance, PTL

(* The roster and the settings do not change once START was handled.       *)
THEOREM RosterStays == Spec => RosterFrozen
<1> USE DEF STEP_ROOM, STEP_GAME, STEP_ENDSCREEN
<1> DEFINE A == current_step # STEP_ROOM /\ m_players' # <<>> /\ at' # "hung" => UNCHANGED <<roster, params>>
<1>1. [Next]_vars => [A]_vars
  <2>1. SUFFICES ASSUME Next
                 PROVE  A
    OBVIOUS
  <2>2. CASE Sessions \/ RoundExpires \/ GameExpires
    BY <2>2, SessionsFrame
  <2>3. CASE HandlePing \/ HandleInfoRoom \/ HandleJoinTeam \/ HandleNbTeams \/ HandleNbLomb \/ HandleStart
    BY <2>3 DEF HandlePing, HandleInfoRoom, HandleJoinTeam, HandleNbTeams, HandleNbLomb, HandleStart, Receives
  <2>4. CASE HandleQuit
    BY <2>4 DEF HandleQuit
  <2>5. ASSUME NEW s, NEW back, EndRound(s, back)
        PROVE  A
    BY <2>5 DEF EndRound
  <2>6. CASE HandleMove
    BY <2>5, <2>6 DEF HandleMove
  <2>7. CASE HandleShoot
    BY <2>5, <2>7 DEF HandleShoot
  <2>8. CASE HandleOtherGame \/ ReceiveTimeout
    BY <2>8 DEF HandleOtherGame, ReceiveTimeout
  <2>9. CASE CheckRoundTime
    BY <2>5, <2>9 DEF CheckRoundTime
  <2>10. CASE PassTurn \/ TakeTurn
    BY <2>10 DEF PassTurn, TakeTurn
  <2>11. CASE CloseRoom \/ ErrorExit
    BY <2>11 DEF CloseRoom, ErrorExit, Exit
  <2> QED
    BY <2>1, <2>2, <2>3, <2>4, <2>6, <2>7, <2>8, <2>9, <2>10, <2>11 DEF Next, Room
<1> QED
  BY <1>1, PTL DEF Spec, RosterFrozen

(* The teams end_round counts are the teams with a worm on the board.      *)
LEMMA TeamsAgree ==
  ASSUME GameAssumption, TypeOK, SpriteInv, m_players # <<>>, at # "hung", NEW s \in SUBSET spriteVector
  PROVE  TeamsOnBoard(s) = AliveTeams(s)
<1>1. /\ s \subseteq Worms
      /\ nbr_lomb \in [Users -> 0 .. INIT_NB_LOMBS]
      /\ \A w \in s : w[1] \in Players /\ m_Equipe[w[1]] # 0
      /\ Players \subseteq Users
      /\ INIT_NB_LOMBS \in Nat
  <2>1. m_players \in Seq(Users)
    BY DEF TypeOK
  <2>2. Players \subseteq Users
    BY <2>1 DEF Players
  <2> QED
    BY <2>2 DEF TypeOK, SpriteInv, GameAssumption
<1>2. ASSUME NEW w \in s, ~IsGhost(w)
      PROVE  m_Equipe[w[1]] \in AliveTeams(s)
  <2>1. /\ w = <<w[1], w[2]>>
        /\ w[2] \in 0 .. INIT_NB_LOMBS - 1
        /\ w[1] \in Players /\ m_Equipe[w[1]] # 0
        /\ nbr_lomb[w[1]] \in Nat
    BY <1>1 DEF Worms
  <2>2. w[2] \in 0 .. nbr_lomb[w[1]] - 1
    BY <1>1, <1>2, <2>1 DEF IsGhost
  <2>3. is_still_alive(w[1], s)
    BY <2>1, <2>2 DEF is_still_alive
  <2> QED
    BY <2>1, <2>3 DEF AliveTeams
<1>3. ASSUME NEW u \in Players, m_Equipe[u] # 0, is_still_alive(u, s)
      PROVE  m_Equipe[u] \in TeamsOnBoard(s)
  <2>1. PICK j \in 0 .. nbr_lomb[u] - 1 : <<u, j>> \in s
    BY <1>3 DEF is_still_alive
  <2>2. ~IsGhost(<<u, j>>)
    <3>1. nbr_lomb[u] \in Nat /\ j \in Nat /\ j <= nbr_lomb[u] - 1
      BY <1>1
    <3> QED
      BY <3>1 DEF IsGhost
  <2> QED
    BY <2>1, <2>2 DEF TeamsOnBoard
<1> QED
  BY <1>2, <1>3 DEF TeamsOnBoard, AliveTeams

(* A game ends when at most one team is left on the board, and a round is  *)
(* given when there are two or more.                                       *)
THEOREM EndDecided == Spec => EndOnlyWhenDecided
<1> DEFINE A == /\ current_step = STEP_GAME /\ current_step' # STEP_GAME /\ m_players' # <<>> =>
                     Cardinality(TeamsOnBoard(spriteVector')) <= 1
                /\ at # "turn" /\ at' = "turn" => Cardinality(TeamsOnBoard(spriteVector')) >= 2
<1>0. GameAssumption
  BY GameAssumption
<1>1. IInv /\ IInv' /\ [Next]_vars => [A]_vars
  <2>1. SUFFICES ASSUME IInv, IInv', Next
                 PROVE  A
    OBVIOUS
  <2>2. TypeOK /\ StepInv /\ SpriteInv /\ InboxOK'
    BY <2>1 DEF IInv, TypeOK
  <2>3. ASSUME NEW s \in SUBSET spriteVector, NEW back \in {"recv", "check"}, EndRound(s, back),
               at # "hung", current_step \in {STEP_GAME, STEP_ENDSCREEN}
        PROVE  A
    <3>1. /\ spriteVector' \subseteq s
          /\ UNCHANGED roster
          /\ \/ /\ Cardinality(AliveTeams(spriteVector')) <= 1
                /\ at' = back
             \/ /\ Cardinality(AliveTeams(spriteVector')) >= 2
                /\ UNCHANGED current_step
                /\ m_players # <<>>
      BY <1>0, <2>2, <2>3, EndRoundStep
    <3>2. spriteVector' \in SUBSET spriteVector /\ m_players' = m_players
      BY <3>1 DEF roster
    <3>3. m_players # <<>> => TeamsOnBoard(spriteVector') = AliveTeams(spriteVector')
      BY <1>0, <2>2, <2>3, <3>2, TeamsAgree
    <3> QED
      BY <2>3, <3>1, <3>2, <3>3
  <2>4. ASSUME UNCHANGED current_step, at' # "turn" \/ at = "turn"
        PROVE  A
    BY <2>4
  <2>5. CASE Sessions \/ RoundExpires \/ GameExpires
    BY <2>4, <2>5, SessionsFrame
  <2>6. CASE HandlePing \/ HandleInfoRoom \/ HandleJoinTeam \/ HandleNbTeams \/ HandleNbLomb
    BY <2>4, <2>6 DEF HandlePing, HandleInfoRoom, HandleJoinTeam, HandleNbTeams, HandleNbLomb, Receives, room
  <2>7. CASE HandleStart
    BY <2>7 DEF HandleStart, Receives, STEP_ROOM, STEP_GAME
  <2>8. CASE HandleQuit
    BY <2>8 DEF HandleQuit
  <2>9. CASE HandleMove
    <3>1. at = "recv" /\ current_step = STEP_GAME
      BY <2>9 DEF HandleMove, Receives
    <3>2. ASSUME at' = "check", UNCHANGED current_step
          PROVE  A
      BY <2>4, <3>2
    <3>3. ASSUME NEW s \in {spriteVector, spriteVector \ {<<Received.receiver_id, Received.arg - 1>>}},
                 EndRound(s, "check")
          PROVE  A
      <4>1. s \in SUBSET spriteVector
        BY <3>3
      <4> QED
        BY <2>3, <3>1, <3>3, <4>1
    <3> HIDE DEF A
    <3> QED
      BY <2>9, <3>2, <3>3 DEF HandleMove
  <2>10. CASE HandleShoot
    <3>1. at = "recv" /\ current_step = STEP_GAME
      BY <2>10 DEF HandleShoot, Receives
    <3>2. ASSUME at' = "crashed", UNCHANGED current_step
          PROVE  A
      BY <2>4, <3>2
    <3>3. ASSUME NEW s \in SUBSET spriteVector, EndRound(s, "check")
          PROVE  A
      BY <2>3, <3>1, <3>3
    <3> HIDE DEF A
    <3> QED
      BY <2>10, <3>2, <3>3 DEF HandleShoot
  <2>11. CASE HandleOtherGame \/ ReceiveTimeout
    BY <2>4, <2>11 DEF HandleOtherGame, ReceiveTimeout
  <2>12. CASE CheckRoundTime
    <3>1. at = "check" /\ current_step \in {STEP_GAME, STEP_ENDSCREEN}
      BY <2>2, <2>12 DEF CheckRoundTime, StepInv
    <3>2. CASE roundOver
      BY <2>3, <2>12, <3>1, <3>2 DEF CheckRoundTime
    <3>3. CASE ~roundOver
      BY <2>4, <2>12, <3>3 DEF CheckRoundTime
    <3> QED
      BY <3>2, <3>3
  <2>13. CASE PassTurn \/ TakeTurn
    BY <2>4, <2>13 DEF PassTurn, TakeTurn, SearchTurn
  <2>14. CASE CloseRoom \/ ErrorExit
    BY <2>4, <2>14 DEF CloseRoom, ErrorExit, Exit
  <2> HIDE DEF A
  <2> QED
    BY <2>1, <2>5, <2>6, <2>7, <2>8, <2>9, <2>10, <2>11, <2>12, <2>13, <2>14 DEF Next, Room
<1> QED
  BY <1>1, Invariance, PTL DEF Spec, EndOnlyWhenDecided

=============================================================================
