------------------------------- MODULE Turns --------------------------------
(***************************************************************************)
(* What a room promises its players, whatever messages it receives and in  *)
(* whatever order: once the game started nobody enters, worms only leave   *)
(* the board, rounds are given to worms of the board as long as two teams  *)
(* are on it, and the game ends when at most one is, or when everybody     *)
(* left.  Game implements this specification (Game!ImplementsTurns).       *)
(***************************************************************************)

CONSTANTS
  Player,
  Worm,      \* worms are pairs, the first element is the player's
  Team,
  Nobody     \* no worm was given a round

VARIABLES
  phase,     \* "lobby", "game" or "over"
  players,   \* those who are in the room
  board,     \* the worms in play, each with its team
  up         \* the worm whose round it is

vars == <<phase, players, board, up>>

WormsOf(b) == {x[1] : x \in b}
TeamsOf(b) == {x[2] : x \in b}
OneTeamLeft(b) == \A s, t \in TeamsOf(b) : s = t

Init ==
  /\ phase = "lobby"
  /\ players = {}
  /\ board = {}
  /\ up = Nobody

(* Players enter while the room is a lobby.                                *)
Enter ==
  /\ phase = "lobby"
  /\ players' \in SUBSET Player /\ players \subseteq players'
  /\ UNCHANGED <<phase, board, up>>

(* One leaves, before the game or in it.                                   *)
Leave ==
  /\ phase \in {"lobby", "game"}
  /\ players' \in SUBSET players
  /\ UNCHANGED <<phase, board, up>>

Start ==
  /\ phase = "lobby" /\ phase' = "game"
  /\ board' \in SUBSET (Worm \X Team)
  /\ \A w \in WormsOf(board') : w[1] \in players
  /\ up' \in WormsOf(board') \cup {Nobody}
  /\ UNCHANGED players

(* A shot, a fall or the water.                                            *)
Hit ==
  /\ phase = "game"
  /\ board' \in SUBSET board
  /\ UNCHANGED <<phase, players, up>>

NextRound ==
  /\ phase = "game"
  /\ ~OneTeamLeft(board)
  /\ up' \in WormsOf(board)
  /\ UNCHANGED <<phase, players, board>>

Decide ==
  /\ phase = "game" /\ phase' = "over"
  /\ board' \in SUBSET board
  /\ OneTeamLeft(board')
  /\ UNCHANGED <<players, up>>

Abandon ==
  /\ phase \in {"lobby", "game"} /\ phase' = "over"
  /\ players' = {}
  /\ UNCHANGED <<board, up>>

(* The water may still rise once after the end.                            *)
Sink ==
  /\ phase = "over"
  /\ board' \in SUBSET board
  /\ UNCHANGED <<phase, players, up>>

Next == Enter \/ Leave \/ Start \/ Hit \/ NextRound \/ Decide \/ Abandon \/ Sink

Spec == Init /\ [][Next]_vars

=============================================================================
