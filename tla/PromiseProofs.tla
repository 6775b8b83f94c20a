--------------------------- MODULE PromiseProofs ----------------------------
(***************************************************************************)
(* The water stays in the map, and a room implements Turns.  Both rest on  *)
(* the inductive invariant of GameProofs, and on SeaInv and SearchInv,     *)
(* which are inductive together with it.                                   *)
(***************************************************************************)
EXTENDS GameProofs

SideInv == SeaInv /\ SearchInv

-----------------------------------------------------------------------------
(* A step that leaves the game where it is keeps both.                     *)
LEMMA SideFrame ==
  ASSUME SideInv, UNCHANGED <<current_step, roster, board>>,
         at' = at \/ (at' # "turn" /\ at' # "check") \/ (at' = "check" /\ current_step = STEP_GAME)
  PROVE  SideInv'
<1> USE DEF roster, board, STEP_ROOM, STEP_GAME, STEP_ENDSCREEN
<1>1. AliveTeams(spriteVector)' = AliveTeams(spriteVector)
  BY DEF AliveTeams, is_still_alive, Players
<1>2. SeaInv'
  BY DEF SideInv, SeaInv, WaterInMap
<1>3. SearchInv'
  BY <1>1 DEF SideInv, SearchInv
<1> QED
  BY <1>2, <1>3 DEF SideInv

(* In the lobby there is neither a board nor water.                        *)
LEMMA SideLobby ==
  ASSUME SideInv, current_step = STEP_ROOM, current_step' = STEP_ROOM, at' # "turn", UNCHANGED board
  PROVE  SideInv'
BY DEF SideInv, SeaInv, SearchInv, WaterInMap, board, STEP_ROOM, STEP_GAME, STEP_ENDSCREEN

(* end_round raises the water by one; at WaterTop nobody is left.          *)
LEMMA SideEndRound ==
  ASSUME GameAssumption, IInv, SideInv, InboxOK',
         NEW s \in SUBSET spriteVector, NEW back \in {"recv", "check"}, EndRound(s, back),
         \/ current_step = STEP_GAME
         \/ current_step = STEP_ENDSCREEN /\ at = "check" /\ back = "recv"
  PROVE  SideInv'
<1> USE DEF STEP_ROOM, STEP_GAME, STEP_ENDSCREEN
<1>1. /\ waterLevel \in Nat /\ WaterTop \in Nat
      /\ waterLevel <= WaterTop
      /\ current_step = STEP_GAME => waterLevel < WaterTop
  BY DEF IInv, TypeOK, SideInv, SeaInv, GameAssumption
<1>2. /\ waterLevel' = IF gameOver THEN waterLevel + 1 ELSE waterLevel
      /\ gameOver /\ waterLevel + 1 >= WaterTop => spriteVector' = {}
  BY DEF EndRound, AfterRise
<1>3. /\ UNCHANGED roster
      /\ \/ /\ current_step' = current_step + 1
            /\ at' = back
         \/ /\ Cardinality(AliveTeams(spriteVector')) >= 2
            /\ current_step' = current_step
            /\ at' = "turn"
  BY EndRoundStep DEF IInv
<1>4. AliveTeams(spriteVector)' = AliveTeams(spriteVector')
  BY <1>3 DEF roster, AliveTeams, is_still_alive, Players
<1>5. spriteVector' = {} => Cardinality(AliveTeams(spriteVector')) = 0
  <2>1. spriteVector' = {} => AliveTeams(spriteVector') = {}
    BY DEF AliveTeams, is_still_alive
  <2> QED
    BY <2>1, FS_EmptySet
<1>6. waterLevel' <= WaterTop + 1 /\ (current_step = STEP_GAME => waterLevel' <= WaterTop)
  BY <1>1, <1>2
<1>7. at' = "turn" => waterLevel' < WaterTop \/ current_step = STEP_ENDSCREEN
  BY <1>1, <1>2, <1>3, <1>5
<1>8. SeaInv'
  BY <1>3, <1>6, <1>7 DEF SeaInv, WaterInMap
<1>9. SearchInv'
  BY <1>3, <1>4 DEF SearchInv
<1> QED
  BY <1>8, <1>9 DEF SideInv

LEMMA SideStep ==
  ASSUME GameAssumption, IInv, IInv', SideInv, [Next]_vars
  PROVE  SideInv'
<1> USE DEF STEP_ROOM, STEP_GAME, STEP_ENDSCREEN
<1>0. InboxOK' /\ StepInv
  BY DEF IInv, TypeOK
<1>1. CASE Sessions \/ RoundExpires \/ GameExpires
  BY <1>1, SessionsFrame, SideFrame
<1>2. CASE HandlePing \/ HandleInfoRoom \/ HandleJoinTeam \/ HandleNbTeams \/ HandleNbLomb
  BY <1>2, SideLobby DEF HandlePing, HandleInfoRoom, HandleJoinTeam, HandleNbTeams, HandleNbLomb,
                         Receives, room
<1>3. CASE HandleStart
  <2>1. /\ current_step = STEP_ROOM /\ current_step' = STEP_GAME
        /\ at = "recv" /\ at' = at /\ waterLevel' = waterLevel
    BY <1>3 DEF HandleStart, Receives
  <2> QED
    BY <2>1 DEF SideInv, SeaInv, SearchInv, WaterInMap
<1>4. CASE HandleQuit
  <2>1. /\ current_step \in {STEP_ROOM, STEP_GAME}
        /\ UNCHANGED board
        /\ current_step' \in {current_step, STEP_ENDSCREEN}
        /\ at' \in {"check", "recv", "hung"}
    BY <1>4 DEF HandleQuit, Receives
  <2>2. waterLevel \in Nat /\ WaterTop \in Nat
    BY DEF IInv, TypeOK, GameAssumption
  <2> QED
    BY <2>1, <2>2 DEF SideInv, SeaInv, SearchInv, WaterInMap, board
<1>5. CASE HandleMove
  <2>1. current_step = STEP_GAME
    BY <1>5 DEF HandleMove, Receives
  <2>2. ASSUME at' = "check", UNCHANGED <<current_step, waterLevel>>
        PROVE  SideInv'
    BY <2>1, <2>2 DEF SideInv, SeaInv, SearchInv, WaterInMap
  <2>3. ASSUME NEW s \in {spriteVector, spriteVector \ {<<Received.receiver_id, Received.arg - 1>>}},
               EndRound(s, "check")
        PROVE  SideInv'
    <3>1. s \in SUBSET spriteVector
      BY <2>3
    <3> QED
      BY <1>0, <2>1, <2>3, <3>1, SideEndRound
  <2> QED
    BY <1>5, <2>2, <2>3 DEF HandleMove
<1>6. CASE HandleShoot
  <2>1. current_step = STEP_GAME
    BY <1>6 DEF HandleShoot, Receives
  <2>2. ASSUME at' = "crashed", UNCHANGED <<current_step, roster, board>>
        PROVE  SideInv'
    BY <2>2, SideFrame
  <2>3. ASSUME NEW s \in SUBSET spriteVector, EndRound(s, "check")
        PROVE  SideInv'
    BY <1>0, <2>1, <2>3, SideEndRound
  <2> QED
    BY <1>6, <2>2, <2>3 DEF HandleShoot
<1>7. CASE HandleOtherGame \/ ReceiveTimeout
  BY <1>7, SideFrame DEF HandleOtherGame, ReceiveTimeout, Receives
<1>8. CASE CheckRoundTime
  <2>1. at = "check" /\ current_step \in {STEP_GAME, STEP_ENDSCREEN}
    BY <1>0, <1>8 DEF CheckRoundTime, StepInv
  <2>2. CASE roundOver
    BY <1>0, <1>8, <2>1, <2>2, SideEndRound DEF CheckRoundTime
  <2>3. CASE ~roundOver
    BY <1>8, <2>3, SideFrame DEF CheckRoundTime
  <2> QED
    BY <2>2, <2>3
<1>9. CASE PassTurn
  BY <1>9, SideFrame DEF PassTurn
<1>10. CASE TakeTurn
  <2>1. /\ UNCHANGED <<current_step, waterLevel>>
        /\ current_step = STEP_GAME
        /\ at' = ret /\ ret \in {"recv", "check"}
    BY <1>0, <1>10 DEF TakeTurn, SearchTurn, StepInv, IInv, TypeOK
  <2> QED
    BY <2>1 DEF SideInv, SeaInv, SearchInv, WaterInMap
<1>11. CASE CloseRoom \/ ErrorExit
  BY <1>11, SideFrame DEF CloseRoom, ErrorExit, Exit
<1>12. CASE UNCHANGED vars
  BY <1>12, SideFrame DEF vars
<1> QED
  BY <1>1, <1>2, <1>3, <1>4, <1>5, <1>6, <1>7, <1>8, <1>9, <1>10, <1>11, <1>12 DEF Next, Room

-----------------------------------------------------------------------------
(* Both invariants together are those of the specification.                *)
THEOREM SideInvariance == Spec => [](IInv /\ SideInv)
<1>1. GameAssumption
  BY GameAssumption
<1>2. Init => SideInv
  BY <1>1 DEF Init, SideInv, SeaInv, SearchInv, WaterInMap, GameAssumption,
              STEP_ROOM, STEP_GAME, STEP_ENDSCREEN
<1>3. IInv /\ IInv' /\ SideInv /\ [Next]_vars => SideInv'
  BY <1>1, SideStep
<1> QED
  BY <1>2, <1>3, Invariance, PTL DEF Spec

(* The water never rises past the top of the map.                          *)
THEOREM WaterStays == Spec => []WaterInMap
<1>1. SideInv => WaterInMap
  BY DEF SideInv, SeaInv
<1> QED
  BY <1>1, SideInvariance, PTL

-----------------------------------------------------------------------------
(* The refinement: every step of a room is one of Turns, or none.          *)

(* What a client can learn of the room when none of this changes.          *)
LEMMA SamePromise ==
  ASSUME UNCHANGED <<Phase, roster, spriteVector, currentWorms>>
  PROVE  UNCHANGED Promise!vars
BY DEF Promise!vars, roster, Players, OnBoard, WormUp, IsGhost

LEMMA PromiseFrame ==
  ASSUME UNCHANGED <<current_step, roster, spriteVector, currentWorms>>
  PROVE  UNCHANGED Promise!vars
<1>1. UNCHANGED Phase
  BY DEF Phase
<1> QED
  BY <1>1, SamePromise

(* The board of the promise is that of the room, and so are its teams.     *)
LEMMA PromiseBoard ==
  /\ Promise!TeamsOf(OnBoard) = TeamsOnBoard(spriteVector)
  /\ Promise!WormsOf(OnBoard) = {w \in spriteVector : ~IsGhost(w)}
<1>1. ASSUME NEW x \in OnBoard
      PROVE  x[2] \in TeamsOnBoard(spriteVector) /\ x[1] \in spriteVector /\ ~IsGhost(x[1])
  BY <1>1 DEF OnBoard, TeamsOnBoard
<1>2. ASSUME NEW w \in spriteVector, ~IsGhost(w)
      PROVE  m_Equipe[w[1]] \in Promise!TeamsOf(OnBoard) /\ w \in Promise!WormsOf(OnBoard)
  <2>1. <<w, m_Equipe[w[1]]>> \in OnBoard
    BY <1>2 DEF OnBoard
  <2> QED
    BY <2>1 DEF Promise!TeamsOf, Promise!WormsOf
<1>3. Promise!TeamsOf(OnBoard) \subseteq TeamsOnBoard(spriteVector)
  BY <1>1 DEF Promise!TeamsOf
<1>4. TeamsOnBoard(spriteVector) \subseteq Promise!TeamsOf(OnBoard)
  BY <1>2 DEF TeamsOnBoard
<1>5. Promise!WormsOf(OnBoard) \subseteq {w \in spriteVector : ~IsGhost(w)}
  BY <1>1 DEF Promise!WormsOf
<1>6. {w \in spriteVector : ~IsGhost(w)} \subseteq Promise!WormsOf(OnBoard)
  BY <1>2
<1> QED
  BY <1>3, <1>4, <1>5, <1>6

(* To count at most one team is to find no two different ones.             *)
LEMMA AtMostOne ==
  ASSUME NEW S, IsFiniteSet(S)
  PROVE  Cardinality(S) <= 1 <=> \A x, y \in S : x = y
<1>1. Cardinality(S) \in Nat
  BY FS_CardinalityType
<1>2. ASSUME Cardinality(S) <= 1, NEW x \in S, NEW y \in S, x # y
      PROVE  FALSE
  <2>1. {x} \in SUBSET S /\ {x} # S
    BY <1>2
  <2>2. Cardinality({x}) <= Cardinality(S) /\ Cardinality({x}) # Cardinality(S)
    BY <2>1, FS_Subset
  <2>3. Cardinality({x}) = 1
    BY FS_Singleton
  <2> QED
    BY <1>1, <1>2, <2>2, <2>3
<1>3. ASSUME \A x, y \in S : x = y
      PROVE  Cardinality(S) <= 1
  <2>1. CASE S = {}
    BY <2>1, FS_EmptySet
  <2>2. CASE S # {}
    <3>1. PICK x \in S : S = {x}
      BY <1>3, <2>2
    <3> QED
      BY <3>1, FS_Singleton
  <2> QED
    BY <2>1, <2>2
<1> QED
  BY <1>2, <1>3

(* Worms leave the board, and nobody changes team meanwhile.               *)
LEMMA BoardShrinks ==
  ASSUME UNCHANGED roster, spriteVector' \subseteq spriteVector
  PROVE  OnBoard' \in SUBSET OnBoard
BY DEF OnBoard, roster, IsGhost

(* end_round hits some worms, or decides the game, or comes after its end. *)
LEMMA EndRoundPromise ==
  ASSUME GameAssumption, IInv, InboxOK',
         NEW s \in SUBSET spriteVector, NEW back \in {"recv", "check"}, EndRound(s, back),
         at \in {"recv", "check"}, current_step \in {STEP_GAME, STEP_ENDSCREEN}
  PROVE  Promise!Next
<1> USE DEF STEP_ROOM, STEP_GAME, STEP_ENDSCREEN
<1>1. /\ spriteVector' \subseteq spriteVector
      /\ UNCHANGED <<roster, currentWorms>>
      /\ \/ Cardinality(AliveTeams(spriteVector')) <= 1 /\ current_step' = current_step + 1
         \/ UNCHANGED current_step
  BY EndRoundStep DEF IInv
<1>2. OnBoard' \in SUBSET OnBoard
  BY <1>1, BoardShrinks
<1>3. UNCHANGED <<Players, WormUp>>
  BY <1>1 DEF Players, WormUp, IsGhost, roster
<1>4. CASE current_step = STEP_ENDSCREEN
  <2>1. Phase = "over" /\ Phase' = "over"
    BY <1>1, <1>4 DEF Phase
  <2> QED
    BY <1>2, <1>3, <2>1 DEF Promise!Next, Promise!Sink
<1>5. CASE current_step = STEP_GAME /\ UNCHANGED current_step
  <2>1. Phase = "game" /\ Phase' = "game"
    BY <1>5 DEF Phase
  <2> QED
    BY <1>2, <1>3, <2>1 DEF Promise!Next, Promise!Hit
<1>6. CASE /\ current_step = STEP_GAME /\ current_step' = current_step + 1
           /\ Cardinality(AliveTeams(spriteVector')) <= 1
  <2>1. Phase = "game" /\ Phase' = "over"
    BY <1>6 DEF Phase
  <2>2. m_players # <<>>
    BY <1>6 DEF IInv, TurnInv, TypeOK
  <2>3. TeamsOnBoard(spriteVector') = AliveTeams(spriteVector')
    <3>1. spriteVector' \in SUBSET spriteVector /\ at # "hung"
      BY <1>1
    <3> QED
      BY <2>2, <3>1, TeamsAgree DEF IInv
  <2>4. \A x \in OnBoard' : x[2] \in TeamsOnBoard(spriteVector')
    BY <1>1 DEF OnBoard, IsGhost, roster, TeamsOnBoard
  <2>5. Promise!OneTeamLeft(OnBoard')
    <3>1. \A t, u \in AliveTeams(spriteVector') : t = u
      BY <1>6, TeamsFinite, AtMostOne DEF IInv
    <3> QED
      BY <2>3, <2>4, <3>1 DEF Promise!OneTeamLeft, Promise!TeamsOf
  <2> QED
    BY <1>2, <1>3, <2>1, <2>5 DEF Promise!Next, Promise!Decide
<1> QED
  BY <1>1, <1>4, <1>5, <1>6

(* START puts on the board worms of players, and may give one of them the  *)
(* first round.                                                            *)
LEMMA StartPromise ==
  ASSUME GameAssumption, TypeOK, StepInv, HandleStart
  PROVE  Promise!Start
<1>1. Phase = "lobby" /\ Phase' = "game"
  BY DEF HandleStart, Receives, Phase, STEP_ROOM, STEP_GAME
<1>2. /\ UNCHANGED <<m_players, m_Equipe, nbr_lomb>>
      /\ spriteVector' = Spawned
  BY DEF HandleStart, roster
<1>3. UNCHANGED Players
  BY <1>2 DEF Players
<1>4. /\ OnBoard' \in SUBSET (Worms \X (0 .. INIT_NB_TEAMS))
      /\ \A x \in OnBoard' : x[1][1] \in Players
  <2>1. \A x \in OnBoard' : \E w \in Spawned : x = <<w, m_Equipe[w[1]]>>
    BY <1>2 DEF OnBoard, IsGhost
  <2>2. \A w \in Spawned : w \in Worms /\ w[1] \in Players /\ m_Equipe[w[1]] \in 0 .. INIT_NB_TEAMS
    BY DEF Spawned, Worms, TypeOK
  <2> QED
    BY <2>1, <2>2
<1>5. \A w \in Promise!WormsOf(OnBoard') : w[1] \in Players
  BY <1>4 DEF Promise!WormsOf
<1>6. ASSUME NEW w \in Spawned, ~IsGhost(w)
      PROVE  w \in Promise!WormsOf(OnBoard')
  <2>1. <<w, m_Equipe[w[1]]>> \in OnBoard'
    BY <1>2, <1>6 DEF OnBoard, IsGhost
  <2> QED
    BY <2>1 DEF Promise!WormsOf
<1>7. WormUp' \in Promise!WormsOf(OnBoard') \cup {NoWorm}
  <2>1. \/ currentWorms' \in Spawned
        \/ currentWorms' = NoWorm
    BY StartStep
  <2>2. WormUp' \in {NoWorm} \cup {w \in {currentWorms'} : ~IsGhost(w) /\ w # NoWorm}
    BY <1>2 DEF WormUp, IsGhost
  <2> QED
    BY <1>6, <2>1, <2>2
<1> QED
  BY <1>1, <1>3, <1>4, <1>5, <1>7 DEF Promise!Start

(* A player leaves, or the last one does.                                  *)
LEMMA QuitPromise ==
  ASSUME GameAssumption, IInv, HandleQuit
  PROVE  Promise!Next
<1> USE DEF STEP_ROOM, STEP_GAME, STEP_ENDSCREEN
<1>1. /\ current_step \in {STEP_ROOM, STEP_GAME}
      /\ UNCHANGED <<m_Equipe, nbr_lomb, spriteVector, currentWorms>>
  BY DEF HandleQuit, Receives, board
<1>2. UNCHANGED <<OnBoard, WormUp>> /\ Phase \in {"lobby", "game"}
  BY <1>1 DEF OnBoard, WormUp, IsGhost, Phase
<1>3. CASE m_players' = <<>> /\ current_step' = STEP_ENDSCREEN
  <2>1. Players' = {} /\ Phase' = "over"
    BY <1>3 DEF Players, Phase
  <2> QED
    BY <1>2, <2>1 DEF Promise!Next, Promise!Abandon
<1>4. CASE /\ UNCHANGED current_step
           /\ \/ \E i \in DOMAIN m_players : m_players' = Erase(m_players, i)
              \/ UNCHANGED m_players
  <2>1. UNCHANGED Phase
    BY <1>4 DEF Phase
  <2>2. Players' \in SUBSET Players
    <3>1. ASSUME NEW i \in DOMAIN m_players, m_players' = Erase(m_players, i)
          PROVE  Players' \in SUBSET Players
      <4>1. m_players \in Seq(Users)
        BY DEF IInv, TypeOK
      <4>2. \A k \in DOMAIN Erase(m_players, i) : \E l \in DOMAIN m_players : Erase(m_players, i)[k] = m_players[l]
        BY <4>1, EraseType
      <4> QED
        BY <3>1, <4>2 DEF Players
    <3>2. CASE UNCHANGED m_players
      BY <3>2 DEF Players
    <3> QED
      BY <1>4, <3>1, <3>2
  <2> QED
    BY <1>2, <2>1, <2>2 DEF Promise!Next, Promise!Leave
<1> QED
  BY <1>3, <1>4 DEF HandleQuit

(* A round is given to a worm of the board, with two teams on it.          *)
LEMMA TurnPromise ==
  ASSUME GameAssumption, IInv, SideInv, TakeTurn
  PROVE  Promise!NextRound
<1>1. /\ at = "turn" /\ current_step = STEP_GAME /\ m_players # <<>>
      /\ SearchTurn
      /\ HasTurn(NextPlayer, spriteVector)
      /\ currentWorms' = <<NextPlayer, NextSlot(NextPlayer, spriteVector)>>
      /\ UNCHANGED <<current_step, m_players, m_Equipe, nbr_lomb, spriteVector>>
  BY DEF TakeTurn, SearchTurn, IInv, StepInv, roster
<1>2. Phase = "game" /\ UNCHANGED <<Phase, Players, OnBoard>>
  BY <1>1 DEF Phase, Players, OnBoard, IsGhost, STEP_ROOM, STEP_GAME
<1>3. ~Promise!OneTeamLeft(OnBoard)
  <2>1. TeamsOnBoard(spriteVector) = AliveTeams(spriteVector)
    BY <1>1, TeamsAgree DEF IInv
  <2>2. ~ \A t, u \in AliveTeams(spriteVector) : t = u
    <3>1. Cardinality(AliveTeams(spriteVector)) \in Nat /\ Cardinality(AliveTeams(spriteVector)) >= 2
      BY <1>1, TeamsFinite, FS_CardinalityType DEF IInv, SideInv, SearchInv
    <3> QED
      BY <3>1, TeamsFinite, AtMostOne DEF IInv
  <2>3. Promise!TeamsOf(OnBoard) = AliveTeams(spriteVector)
    BY <2>1, PromiseBoard
  <2> QED
    BY <2>2, <2>3 DEF Promise!OneTeamLeft
<1>4. /\ currentWorms' \in spriteVector
      /\ ~IsGhost(currentWorms')
      /\ currentWorms' \in Worms
  <2> DEFINE u == NextPlayer
             j == NextSlot(NextPlayer, spriteVector)
  <2>1. <<u, j>> \in spriteVector /\ j < nbr_lomb[u] /\ u \in Users
    BY <1>1, SearchStep DEF IInv
  <2>2. spriteVector \subseteq Worms /\ nbr_lomb[u] \in Nat
    BY <2>1 DEF IInv, TypeOK
  <2>3. currentWorms' = <<u, j>>
    BY <1>1
  <2> HIDE DEF u, j
  <2>4. j \in Nat
    BY <2>1, <2>2 DEF Worms
  <2> QED
    BY <2>1, <2>2, <2>3, <2>4 DEF IsGhost
<1>5. currentWorms' # NoWorm
  BY <1>4 DEF GameAssumption, Worms
<1>6. WormUp' \in Promise!WormsOf(OnBoard)
  <2>1. WormUp' = currentWorms'
    BY <1>1, <1>4, <1>5 DEF WormUp, IsGhost
  <2> QED
    BY <1>4, <2>1, PromiseBoard
<1> QED
  BY <1>2, <1>3, <1>6 DEF Promise!NextRound

LEMMA PromiseStep ==
  ASSUME GameAssumption, IInv, IInv', SideInv, [Next]_vars
  PROVE  [Promise!Next]_(Promise!vars)
<1> USE DEF STEP_ROOM, STEP_GAME, STEP_ENDSCREEN
<1>0. InboxOK' /\ TypeOK /\ StepInv
  BY DEF IInv, TypeOK
<1>1. CASE Sessions \/ RoundExpires \/ GameExpires
  BY <1>1, SessionsFrame, PromiseFrame DEF board
<1>2. CASE HandlePing \/ HandleNbLomb \/ HandleOtherGame \/ ReceiveTimeout \/ PassTurn \/ CloseRoom \/ ErrorExit
  <2>1. UNCHANGED <<current_step, roster, spriteVector, currentWorms>>
    BY <1>2 DEF HandlePing, HandleNbLomb, HandleOtherGame, ReceiveTimeout, PassTurn, CloseRoom, ErrorExit,
                Exit, room, board, vars
  <2> QED
    BY <2>1, PromiseFrame
<1>3. CASE HandleInfoRoom \/ HandleJoinTeam \/ HandleNbTeams
  <2>1. /\ current_step = STEP_ROOM
        /\ UNCHANGED <<current_step, spriteVector, currentWorms>>
        /\ spriteVector = {} /\ currentWorms = NoWorm
    BY <1>0, <1>3 DEF HandleInfoRoom, HandleJoinTeam, HandleNbTeams, Receives, board, StepInv, SideInv, SearchInv
  <2>2. Phase = "lobby" /\ UNCHANGED <<Phase, OnBoard, WormUp>>
    BY <2>1 DEF Phase, OnBoard, WormUp
  <2>3. /\ Players' \in SUBSET Users /\ Players \subseteq Players'
    <3>1. Players' \subseteq Users
      BY DEF IInv, TypeOK, Players
    <3>2. CASE HandleInfoRoom
      <4>1. m_players' = Append(m_players, Received.receiver_id) /\ m_players \in Seq(Users)
        BY <1>0, <3>2 DEF HandleInfoRoom, TypeOK
      <4>2. /\ DOMAIN m_players \subseteq DOMAIN m_players'
            /\ \A i \in DOMAIN m_players : m_players'[i] = m_players[i]
        BY <4>1
      <4> QED
        BY <3>1, <4>2 DEF Players
    <3>3. CASE HandleJoinTeam \/ HandleNbTeams
      BY <3>1, <3>3 DEF HandleJoinTeam, HandleNbTeams, Players
    <3> QED
      BY <1>3, <3>2, <3>3
  <2> QED
    BY <2>2, <2>3 DEF Promise!Next, Promise!Enter
<1>4. CASE HandleStart
  BY <1>0, <1>4, StartPromise DEF Promise!Next
<1>5. CASE HandleQuit
  BY <1>5, QuitPromise
<1>6. CASE HandleMove
  <2>1. at = "recv" /\ current_step = STEP_GAME
    BY <1>6 DEF HandleMove, Receives
  <2>2. ASSUME UNCHANGED <<current_step, roster, currentWorms>>,
               spriteVector' \subseteq spriteVector
        PROVE  Promise!Next
    <3>1. /\ OnBoard' \in SUBSET OnBoard
          /\ Phase = "game" /\ UNCHANGED <<Phase, Players, WormUp>>
      BY <2>1, <2>2, BoardShrinks DEF Phase, Players, WormUp, IsGhost, roster
    <3> QED
      BY <3>1 DEF Promise!Next, Promise!Hit
  <2>3. ASSUME NEW s \in {spriteVector, spriteVector \ {<<Received.receiver_id, Received.arg - 1>>}},
               EndRound(s, "check")
        PROVE  Promise!Next
    <3>1. s \in SUBSET spriteVector
      BY <2>3
    <3> QED
      BY <1>0, <2>1, <2>3, <3>1, EndRoundPromise
  <2> QED
    BY <1>6, <2>2, <2>3 DEF HandleMove
<1>7. CASE HandleShoot
  <2>1. at = "recv" /\ current_step = STEP_GAME
    BY <1>7 DEF HandleShoot, Receives
  <2>2. ASSUME UNCHANGED <<current_step, roster, board>>
        PROVE  UNCHANGED Promise!vars
    BY <2>2, PromiseFrame DEF board
  <2>3. ASSUME NEW s \in SUBSET spriteVector, EndRound(s, "check")
        PROVE  Promise!Next
    BY <1>0, <2>1, <2>3, EndRoundPromise
  <2> QED
    BY <1>7, <2>2, <2>3 DEF HandleShoot
<1>8. CASE CheckRoundTime
  <2>1. at = "check" /\ current_step \in {STEP_GAME, STEP_ENDSCREEN}
    BY <1>0, <1>8 DEF CheckRoundTime, StepInv
  <2>2. CASE roundOver
    BY <1>0, <1>8, <2>1, <2>2, EndRoundPromise DEF CheckRoundTime
  <2>3. CASE ~roundOver
    BY <1>8, <2>3, PromiseFrame DEF CheckRoundTime, board
  <2> QED
    BY <2>2, <2>3
<1>9. CASE TakeTurn
  BY <1>9, TurnPromise DEF Promise!Next
<1>10. CASE UNCHANGED vars
  BY <1>10, PromiseFrame DEF vars, board
<1> QED
  BY <1>1, <1>2, <1>3, <1>4, <1>5, <1>6, <1>7, <1>8, <1>9, <1>10 DEF Next, Room

(* Every behaviour of a room is one of Turns: whatever messages come, once *)
(* the game started nobody enters, worms only leave the board, rounds go   *)
(* to worms of the board while two teams are on it, and the game ends when *)
(* one is left or when everybody went.                                     *)
THEOREM RoomImplementsTurns == Spec => ImplementsTurns
<1>1. GameAssumption
  BY GameAssumption
<1>2. Init => Promise!Init
  <2> SUFFICES ASSUME Init
               PROVE  Promise!Init
    OBVIOUS
  <2>1. /\ current_step = 0 /\ currentWorms = NoWorm
        /\ m_players = <<>> /\ spriteVector = {}
    BY DEF Init, STEP_ROOM
  <2>2. Phase = "lobby"
    BY <2>1 DEF Phase, STEP_ROOM, STEP_GAME
  <2>3. OnBoard = {} /\ WormUp = NoWorm
    BY <2>1 DEF OnBoard, WormUp
  <2>4. Players = {}
    BY <2>1 DEF Players
  <2> QED
    BY <2>2, <2>3, <2>4 DEF Promise!Init
<1>3. IInv /\ IInv' /\ SideInv /\ [Next]_vars => [Promise!Next]_(Promise!vars)
  BY <1>1, PromiseStep
<1> QED
  BY <1>2, <1>3, SideInvariance, PTL DEF Spec, ImplementsTurns, Promise!Spec

=============================================================================
