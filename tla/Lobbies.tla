------------------------------ MODULE Lobbies -------------------------------
(***************************************************************************)
(* What the server promises its users about rooms, however its messages    *)
(* are ordered: a user enters a room while it is a lobby and from no other *)
(* room, its client shows a room it is in, shows it until the room's game  *)
(* is over or the user quits, and no room closes under a game that is      *)
(* being played.  Who quits keeps its seat, and has no other room after.   *)
(* Users may be excused, nothing is promised to them.  Matchmaking         *)
(* implements this specification (Matchmaking!ImplementsLobbies).          *)
(***************************************************************************)

CONSTANTS
  User,
  RoomId

VARIABLES
  life,      \* of each room: "none", "lobby", "game", "over" or "closed"
  seats,     \* the users in each room
  waiting,   \* the users whose clients want a room and show none
  shown,     \* the users whose clients show each room
  gone,      \* the users that quit a room
  excused    \* the users nothing is promised to

vars == <<life, seats, waiting, shown, gone, excused>>

Init ==
  /\ life = [r \in RoomId |-> "none"]
  /\ seats = [r \in RoomId |-> {}]
  /\ waiting = {}
  /\ shown = [r \in RoomId |-> {}]
  /\ gone = {}
  /\ excused = {}

(* The rooms a user is in.                                                 *)
RoomsOf(u) == {r \in RoomId : u \in seats[r] /\ life[r] # "closed"}

-----------------------------------------------------------------------------
(* Users *)

Wish(u) ==
  /\ u \notin excused \cup waiting \cup gone /\ \A r \in RoomId : u \notin shown[r]
  /\ waiting' = waiting \cup {u}
  /\ UNCHANGED <<life, seats, shown, gone, excused>>

GiveUp(u) ==
  /\ u \in waiting /\ RoomsOf(u) = {}
  /\ waiting' = waiting \ {u}
  /\ UNCHANGED <<life, seats, shown, gone, excused>>

Enter(u, r) ==
  /\ u \in waiting /\ RoomsOf(u) = {}
  /\ life[r] = "lobby"
  /\ seats' = [seats EXCEPT ![r] = @ \cup {u}]
  /\ UNCHANGED <<life, waiting, shown, gone, excused>>

(* The answer may come when the game is over, or the room is closed.       *)
See(u, r) ==
  /\ u \in waiting /\ u \in seats[r] /\ RoomsOf(u) \subseteq {r}
  /\ waiting' = waiting \ {u}
  /\ shown' = [shown EXCEPT ![r] = @ \cup {u}]
  /\ UNCHANGED <<life, seats, gone, excused>>

Leave(u, r) ==
  /\ u \in shown[r] /\ life[r] \in {"over", "closed"}
  /\ shown' = [shown EXCEPT ![r] = @ \ {u}]
  /\ UNCHANGED <<life, seats, waiting, gone, excused>>

Quit(u, r) ==
  /\ u \in shown[r]
  /\ shown' = [shown EXCEPT ![r] = @ \ {u}]
  /\ gone' = gone \cup {u}
  /\ UNCHANGED <<life, seats, waiting, excused>>

Excuse ==
  /\ excused' \in SUBSET User /\ excused \subseteq excused'
  /\ seats' = [r \in RoomId |-> seats[r] \ excused']
  /\ waiting' = waiting \ excused'
  /\ shown' = [r \in RoomId |-> shown[r] \ excused']
  /\ gone' = gone \ excused'
  /\ UNCHANGED life

-----------------------------------------------------------------------------
(* Rooms.  A game ends with players in it, a room they left is over too.   *)

Becomes(r, next) == life' = [life EXCEPT ![r] = next] /\ UNCHANGED <<seats, waiting, shown, gone, excused>>

Open(r)    == life[r] = "none" /\ Becomes(r, "lobby")
Start(r)   == life[r] = "lobby" /\ Becomes(r, "game")
End(r)     == life[r] = "game" /\ Becomes(r, "over")
Abandon(r) == life[r] \in {"lobby", "game"} /\ seats[r] = {} /\ Becomes(r, "over")
Close(r)   == life[r] = "over" /\ Becomes(r, "closed")

Next ==
  \/ \E u \in User : \/ Wish(u) \/ GiveUp(u)
                     \/ \E r \in RoomId : Enter(u, r) \/ See(u, r) \/ Leave(u, r) \/ Quit(u, r)
  \/ Excuse
  \/ \E r \in RoomId : Open(r) \/ Start(r) \/ End(r) \/ Abandon(r) \/ Close(r)

Spec == Init /\ [][Next]_vars

-----------------------------------------------------------------------------
(* It follows that a user is in one room at a time, and in no other than   *)
(* the one its client shows.                                               *)
OneRoom ==
  \A u \in User, r, s \in RoomId : r \in RoomsOf(u) /\ (s \in RoomsOf(u) \/ u \in shown[s]) => r = s

=============================================================================
