------------------------------- MODULE Board --------------------------------
(***************************************************************************)
(* The board of a room: the map, the sprites and the weapons of the Partie *)
(* the room thread owns (Server/src/partie_serv.cpp, sharedFiles/src), and *)
(* the copies the clients play on (Client/src/partie.cpp).  A client       *)
(* checks its moves on its own copy; the room does not check them again.   *)
(*                                                                         *)
(* Abstractions.  A worm is its own team and has its own client.  Time is  *)
(* counted in updates and speeds in 1/16 cell per update, gravity is 2/16: *)
(* as in the code, nothing falls or flies by more than about one cell in   *)
(* an update.  A client simulates a shot on its own clock: where its       *)
(* explosion is, and when, is a choice; so is where its own worm comes to  *)
(* rest after it.  The sprites of the others, which it does not move, are  *)
(* left out of its copy.                                                   *)
(***************************************************************************)
EXTENDS Integers, Sequences, SequencesExt

CONSTANTS
  Width, Height,    \* largeur, hauteur
  Ground, Rock,     \* the cells LIGHT_WALL and SOLID_WALL of the .map file
  Place,            \* where each worm is placed; its domain is 1 .. n
  InitVie, MaxVie,  \* m_lomb_pv_init, m_lomb_pv_max
  Speeds,           \* speeds a shot may have
  Radius, Loss,     \* of the explosion: its radius, the life lost by distance squared
  Blow, BatLoss,    \* how fast an explosion or a bat sends a worm, what a bat costs
  FallSpeed, FallLoss, \* FALL_DAMAGE_SPEED, and the life an impact costs
  BoxVie,           \* the life a box gives
  Impacts,          \* cells where a client's own simulation may put the explosion
  Thrown,           \* and where its own worm may come to rest after it
  Fastest,          \* the fastest a shot, a bat or an explosion sends something upwards
  MaxShots, MaxMoves, MaxBoxes, MaxTimeOvers, \* bounds on the inputs,
  MaxInputs, InboxMax                         \* on all of them, and on those that wait

Worms == DOMAIN Place
Cells == (0 .. Width - 1) \X (0 .. Height - 1)

ASSUME BoardAssumption ==
  /\ Width \in Nat \ {0} /\ Height \in Nat \ {0}
  /\ Ground \subseteq Cells /\ Rock \subseteq Cells \ Ground
  /\ Place \in Seq(Cells \ (Ground \cup Rock)) /\ Place # <<>>
  /\ \A w \in Worms : <<Place[w][1], Place[w][2] + 1>> \in Ground \cup Rock
  /\ InitVie \in Nat \ {0} /\ MaxVie \in Nat \ {0} /\ BoxVie \in Nat
  /\ BatLoss \in Nat /\ FallLoss \in Nat /\ FallSpeed \in Nat
  /\ Radius \in Nat /\ Loss \in [0 .. Radius * Radius -> Nat] /\ Blow \in Int
  /\ Speeds \subseteq Int \X Int /\ Impacts \subseteq Cells /\ Thrown \subseteq Cells

(* A speed is a constant of the weapon times the force of the message, an  *)
(* int (arme.cpp:25), or of the explosion (lombric.cpp:96): it has a bound.*)
ASSUME FastestAssumption ==
  /\ Fastest \in Nat
  /\ \A v \in Speeds : v[2] >= -Fastest
  /\ Blow * Radius \in -Fastest .. Fastest

VARIABLES
  light, solid,     \* Map::mur
  waterLevel,
  sprites,          \* spriteVector
  t, k, isMovement, \* Partie::update: the time, the sprite it is at, and whether to go on
  then,             \* what follows update, or "recv"
  endTour, currentWorms, blockDeleted,
  tir,              \* the weapon of the SHOOT that was published
  inbox,            \* what the clients sent
  mur, pos, tour,   \* each client: its walls, its worm, whether it may play,
  flying, deleted,  \* its projectile, the walls its own explosions removed
  strayed,          \* history: a client has walked into one of those
  newRound,         \* the NEXT_ROUND a client has not applied,
  tableUpdate, byServ, \* the messages of a shot it has not taken, not applied
  shots, moves, boxes, timeOvers    \* inputs so far

map    == <<light, solid, waterLevel>>
loop   == <<t, k, isMovement, then>>
client == <<mur, pos, tour, flying, deleted, strayed>>
mail   == <<newRound, tableUpdate, byServ>>
Inputs == shots + moves + boxes + timeOvers
used   == <<shots, moves, boxes, timeOvers>>
vars   == <<map, sprites, loop, endTour, currentWorms, blockDeleted, tir, inbox, client, mail, used>>

Still == [still |-> TRUE]
Nothing == [none |-> TRUE]
TooMany == [too_many |-> TRUE]   \* more than three parts, which getTableUpdate never takes

-----------------------------------------------------------------------------
(* The map *)

Air == Cells \ (light \cup solid)
Below(c) == <<c[1], c[2] + 1>>

(* Map::explose goes down from the truncated top of the circle: the cells  *)
(* above the centre are rounded up, those below rounded down.              *)
Disc(c) ==
  {d \in Cells : LET dx == d[1] - c[1]
                     dy == d[2] - c[2]
                     left == Radius * Radius - dx * dx
                 IN  left >= 0 /\ IF dy < 0 THEN (-dy - 1) * (-dy - 1) < left ELSE dy * dy <= left}
Row(level) == {c \in Cells : c[2] = Height - level}

-----------------------------------------------------------------------------
(* The sprites: PhysicsObject, Lombric_c, Projectile_c, HealthBox          *)

Cell(s) == <<s.x, s.y>>
Launch(s, vx, vy) ==
  [s EXCEPT !.mv = [x |-> s.x, y |-> s.y, vx |-> vx, vy |-> vy, t0 |-> t]]

Lombric(w) == [kind |-> "lombric", id |-> w, x |-> Place[w][1], y |-> Place[w][2],
               vie |-> InitVie, mv |-> Still]
Projectile(c, v) == [kind |-> "projectile", id |-> 0, x |-> c[1], y |-> c[2], vie |-> 1,
                     mv |-> [x |-> c[1], y |-> c[2], vx |-> v[1], vy |-> v[2], t0 |-> 0]]
HealthBox(c) == [kind |-> "box", id |-> 0, x |-> c[1], y |-> c[2], vie |-> 1, mv |-> Still]

(* std::round of n / 16, and the parabola: a box falls four times slower.  *)
Round(n) == IF n >= 0 THEN (n + 8) \div 16 ELSE - ((8 - n) \div 16)
Position(s) ==
  LET d == t - s.mv.t0
  IN  <<Round(16 * s.mv.x + s.mv.vx * d),
        Round(16 * s.mv.y + s.mv.vy * d + (IF s.kind = "box" THEN (d * d) \div 4 ELSE d * d))>>
SpeedY(s) == s.mv.vy + 2 * (t - s.mv.t0)

Lands(s) == s.mv # Still /\ Position(s) \notin Air
Moves_into_the_wall(s) ==
  IF s.mv = Still THEN s
  ELSE [s EXCEPT !.x = Position(s)[1], !.y = Position(s)[2], !.mv = IF Lands(s) THEN Still ELSE s.mv]
Moves_for_ever(s) == IF s.mv = Still \/ Lands(s) THEN s
                     ELSE [s EXCEPT !.x = Position(s)[1], !.y = Position(s)[2]]
Moves(s) == IF s.mv = Still THEN s
            ELSE IF Lands(s) THEN [s EXCEPT !.mv = Still]
            ELSE [s EXCEPT !.x = Position(s)[1], !.y = Position(s)[2]]
Falls(s) == IF s.mv = Still /\ Below(Cell(s)) \in Air THEN Launch(s, 0, 0) ELSE s

Life_no_water(s, r) ==
  LET n == IF Lands(s) /\ SpeedY(s) >= FallSpeed THEN s.vie - FallLoss ELSE s.vie
  IN  IF n < 0 THEN 0 ELSE n
Life(s, r) ==
  LET n == IF Lands(s) /\ SpeedY(s) >= FallSpeed THEN s.vie - FallLoss ELSE s.vie
  IN  IF r.y >= Height - waterLevel - 1 \/ n < 0 THEN 0 ELSE n

(* What update makes of a sprite, and whether it survives.                 *)
Updated(s) ==
  CASE s.kind = "lombric" -> LET r == Falls(Moves(s)) IN [r EXCEPT !.vie = Life(s, r)]
    [] s.kind = "box" -> Falls(Moves(s))
    [] OTHER -> Moves(s)

(* The first worm where the box is takes it.                               *)
Taker(b) == {i \in DOMAIN sprites : /\ sprites[i].id # 0 /\ Cell(sprites[i]) = Cell(b)
                                    /\ \A j \in 1 .. i - 1 : sprites[j].id = 0 \/ Cell(sprites[j]) # Cell(b)}
Survives(s, r) ==
  CASE s.kind = "lombric" -> r.vie > 0
    [] s.kind = "box" -> Taker(r) = {}
    [] OTHER -> ~Lands(s)

AddLife_unbounded(s, n) == [s EXCEPT !.vie = s.vie + n]
AddLife(s, n) == [s EXCEPT !.vie = IF s.vie + n > MaxVie THEN MaxVie ELSE s.vie + n]

(* Lombric_c::explosed *)
Explosed(s, c) ==
  LET dx == s.x - c[1]
      dy == s.y - c[2]
  IN  IF s.id # 0 /\ dx * dx + dy * dy <= Radius * Radius
      THEN Launch(AddLife(s, -Loss[dx * dx + dy * dy]), Blow * dx, Blow * dy)
      ELSE s

(* deathMove, and the erasure of the k-th sprite.                          *)
Dies(s, r) ==
  CASE s.kind = "projectile" ->
         LET gone == Disc(Cell(s)) \cap light
         IN  /\ sprites' = RemoveAt([i \in DOMAIN sprites |-> Explosed(sprites[i], Cell(s))], k)
             /\ light' = light \ gone
             /\ blockDeleted' = blockDeleted \cup gone
    [] s.kind = "box" ->
         /\ sprites' = RemoveAt([i \in DOMAIN sprites |->
                                   IF i \in Taker(r) THEN AddLife(sprites[i], BoxVie) ELSE sprites[i]], k)
         /\ UNCHANGED <<light, blockDeleted>>
    [] OTHER ->
         /\ sprites' = RemoveAt(sprites, k)
         /\ UNCHANGED <<light, blockDeleted>>

-----------------------------------------------------------------------------
Init ==
  /\ light = Ground /\ solid = Rock /\ waterLevel = 0
  /\ sprites = [w \in Worms |-> Lombric(w)]
  /\ t = 0 /\ k = 0 /\ isMovement = FALSE /\ then = "recv"
  /\ endTour = FALSE /\ currentWorms = 1 /\ blockDeleted = {} /\ tir = "PassTour"
  /\ inbox = <<>>
  /\ mur = [w \in Worms |-> Ground \cup Rock]
  /\ pos = Place
  /\ tour = [w \in Worms |-> w = 1]
  /\ flying = [w \in Worms |-> FALSE] /\ deleted = [w \in Worms |-> {}] /\ strayed = FALSE
  /\ newRound = [w \in Worms |-> Nothing]
  /\ tableUpdate = [w \in Worms |-> Nothing] /\ byServ = [w \in Worms |-> Nothing]
  /\ shots = 0 /\ moves = 0 /\ boxes = 0 /\ timeOvers = 0

-----------------------------------------------------------------------------
(* Partie::update, one sprite at a time *)

(* Partie::update is entered by the caller, which goes on at then.  Its    *)
(* variables are local: they are 0 while it does not run.                  *)
Update(caller) == t' = 0 /\ k' = 1 /\ isMovement' = FALSE /\ then' = caller
Leaves(next) == t' = 0 /\ k' = 0 /\ isMovement' = FALSE /\ then' = next

UpdateSprite_ends_early ==
  /\ k \in DOMAIN sprites
  /\ LET s == sprites[k]
         r == Updated(s)
     IN  /\ endTour' = (endTour \/ (s.kind = "lombric" /\ r.vie # s.vie))
         /\ isMovement' = (isMovement \/ r.mv # Still)
         /\ IF Survives(s, r)
            THEN /\ sprites' = [sprites EXCEPT ![k] = r]
                 /\ k' = k + 1
                 /\ UNCHANGED <<light, blockDeleted>>
            ELSE Dies(s, r) /\ UNCHANGED k
  /\ UNCHANGED <<solid, waterLevel, t, then, currentWorms, tir, inbox, client, mail, used>>
UpdateSprite ==
  /\ k \in DOMAIN sprites
  /\ LET s == sprites[k]
         r == Updated(s)
     IN  /\ endTour' = (endTour \/ (s.kind = "lombric" /\ r.vie # s.vie))
         /\ IF Survives(s, r)
            THEN /\ sprites' = [sprites EXCEPT ![k] = r]
                 /\ k' = k + 1
                 /\ isMovement' = (isMovement \/ r.mv # Still)
                 /\ UNCHANGED <<light, blockDeleted>>
            ELSE Dies(s, r) /\ isMovement' = TRUE /\ UNCHANGED k
  /\ UNCHANGED <<solid, waterLevel, t, then, currentWorms, tir, inbox, client, mail, used>>

(* A bound, above what UpdateReturns allows.                               *)
Flight == Fastest + Height + 16
LastFall == 2 * Flight + 10 * Height
MaxSweeps == LastFall + 4

NextSweep ==
  /\ k > Len(sprites) /\ isMovement /\ t < MaxSweeps
  /\ t' = t + 1 /\ k' = 1 /\ isMovement' = FALSE
  /\ UNCHANGED <<map, sprites, then, endTour, currentWorms, blockDeleted, tir, inbox, client, mail, used>>

Returns(caller) == k > Len(sprites) /\ ~isMovement /\ then = caller

-----------------------------------------------------------------------------
(* The room thread: handle_game and end_round *)

Received == Head(inbox)
Receives(type) == then = "recv" /\ inbox # <<>> /\ Received.type = type /\ inbox' = Tail(inbox)

(* moveCurrentLombric: the test on the abscissa is written twice for x + 1.*)
HandleMove ==
  /\ Receives("POS_LOMB_S")
  /\ LET mine == {i \in DOMAIN sprites : sprites[i].id = Received.id}
         to == Received.to
     IN  \/ /\ \E i \in mine :
                 /\ to[1] = sprites[i].x + 1
                 /\ to[2] \in {sprites[i].y, sprites[i].y - 1}
                 /\ sprites' = [sprites EXCEPT ![i].x = to[1], ![i].y = to[2]]
            /\ Update("moved")
         \/ /\ \A i \in mine : \/ to[1] # sprites[i].x + 1
                               \/ to[2] \notin {sprites[i].y, sprites[i].y - 1}
            /\ then' = "moved" /\ k' = Len(sprites) + 1
            /\ UNCHANGED <<t, isMovement, sprites>>
  /\ UNCHANGED <<map, endTour, currentWorms, blockDeleted, tir, client, mail, used>>

(* useWeapon: the weapon is fired by currentWorms.                         *)
Shooter == CHOOSE i \in DOMAIN sprites : sprites[i].id = currentWorms
Hit(i) == sprites[i].id \notin {0, currentWorms} /\ Cell(sprites[i]) = Cell(sprites[Shooter])
Fired(shot) ==
  CASE shot.weapon = "LanceMissile" ->
         Append(sprites, Projectile(<<sprites[Shooter].x, sprites[Shooter].y - 1>>, shot.speed))
    [] shot.weapon = "Batte" ->
         [i \in DOMAIN sprites |->
            IF Hit(i)
            THEN AddLife([sprites[i] EXCEPT !.mv = [x |-> sprites[i].x, y |-> sprites[i].y, vx |-> shot.speed[1],
                                                    vy |-> shot.speed[2], t0 |-> 0]], -BatLoss)
            ELSE sprites[i]]
    [] OTHER -> sprites

HandleShoot ==
  /\ Receives("SHOOT")
  /\ blockDeleted' = {}
  /\ sprites' = Fired(Received)
  /\ tir' = Received.weapon
  /\ Update("shot")
  /\ UNCHANGED <<map, endTour, currentWorms, client, mail, used>>

(* SHOOT, UPDATE_WALL and LOMB_DMG: the worms left, the dead are not named.*)
Damage == [weapon |-> tir, blocks |-> blockDeleted,
           worms |-> {[id |-> sprites[i].id, at |-> Cell(sprites[i])] : i \in {j \in DOMAIN sprites : sprites[j].id # 0}}]

(* end_round: the water rises when the time of the game is over.           *)
EndRound ==
  \/ /\ waterLevel < Height
     /\ waterLevel' = waterLevel + 1
     /\ light' = light \ Row(waterLevel + 1)
     /\ solid' = solid \ Row(waterLevel + 1)
     /\ Update("risen")
  \/ Leaves("choose") /\ UNCHANGED map

ShotDone ==
  /\ Returns("shot")
  /\ tableUpdate' = [w \in Worms |-> IF tableUpdate[w] = Nothing THEN Damage ELSE TooMany]
  /\ EndRound
  /\ UNCHANGED <<sprites, endTour, currentWorms, blockDeleted, tir, inbox, client, newRound, byServ, used>>

MoveDone ==
  /\ Returns("moved")
  /\ IF endTour THEN EndRound ELSE Leaves("recv") /\ UNCHANGED map
  /\ UNCHANGED <<sprites, endTour, currentWorms, blockDeleted, tir, inbox, client, mail, used>>

RoundTimeOver ==
  /\ then = "recv" /\ timeOvers < MaxTimeOvers /\ Inputs < MaxInputs
  /\ timeOvers' = timeOvers + 1
  /\ EndRound
  /\ UNCHANGED <<sprites, endTour, currentWorms, blockDeleted, tir, inbox, client, mail, shots, moves, boxes>>

RiseDone ==
  /\ Returns("risen")
  /\ Leaves("choose")
  /\ UNCHANGED <<map, sprites, endTour, currentWorms, blockDeleted, tir, inbox, client, mail, used>>

AliveIds == {sprites[i].id : i \in DOMAIN sprites} \ {0}

(* Sprite::Sprite draws cells until one has a floor under it, above water; *)
(* a box stays where it was drawn, in the air, until the next update.      *)
BoxCells ==
  {c \in Air : \E y \in c[2] .. Height - 2 :
                 /\ y < Height - waterLevel
                 /\ \A z \in c[2] .. y : <<c[1], z>> \in Air
                 /\ <<c[1], y + 1>> \notin Air}

(* NEXT_ROUND: whose round it is, and the height of the water.             *)
NextRound_of_the_next_level(id) == [id |-> id, level |-> waterLevel + 1]
NextRound(id) == [id |-> id, level |-> waterLevel]

(* The next round, with a new box or not.                                  *)
Choose ==
  /\ then = "choose"
  /\ IF \E u, v \in AliveIds : u # v
     THEN /\ currentWorms' \in AliveIds \ {currentWorms}
          /\ endTour' = FALSE
          /\ \/ UNCHANGED <<sprites, boxes>>
             \/ /\ boxes < MaxBoxes /\ Inputs < MaxInputs /\ boxes' = boxes + 1
                /\ \E c \in BoxCells : sprites' = Append(sprites, HealthBox(c))
          /\ newRound' = [w \in Worms |-> NextRound(currentWorms')]
          /\ then' = "recv"
     ELSE /\ then' = "over"
          /\ UNCHANGED <<currentWorms, endTour, sprites, boxes, newRound>>
  /\ UNCHANGED <<map, t, k, isMovement, blockDeleted, tir, inbox, client, tableUpdate, byServ, shots, moves, timeOvers>>

Room == UpdateSprite \/ NextSweep \/ HandleMove \/ HandleShoot \/ ShotDone \/ MoveDone \/ RiseDone \/ Choose

-----------------------------------------------------------------------------
(* The clients *)

AirFor(w) == Cells \ mur[w]

(* Where a worm that steps to c comes to rest.                             *)
Rest(w, c) == CHOOSE d \in Cells :
                /\ d[1] = c[1] /\ d[2] >= c[2]
                /\ \A y \in c[2] .. d[2] : <<c[1], y>> \in AirFor(w)
                /\ Below(d) \notin AirFor(w)

(* Lombric_c::move; a jump needs the cell above too.                       *)
ClientMoves(w) ==
  /\ tour[w] /\ moves < MaxMoves /\ Inputs < MaxInputs /\ Len(inbox) < InboxMax
  /\ moves' = moves + 1
  /\ \E dx \in {-1, 1}, jump \in {0, 1} :
       LET c == <<pos[w][1] + dx, pos[w][2] - jump>>
       IN  /\ c \in AirFor(w)
           /\ <<pos[w][1], pos[w][2] - jump>> \in AirFor(w)
           /\ pos' = [pos EXCEPT ![w] = Rest(w, c)]
           /\ inbox' = Append(inbox, [type |-> "POS_LOMB_S", id |-> w, to |-> c])
           /\ strayed' = (strayed \/ c \in deleted[w])
  /\ UNCHANGED <<map, sprites, loop, endTour, currentWorms, blockDeleted, tir, mur, tour, flying, deleted, mail, shots, boxes, timeOvers>>

ClientShoots(w) ==
  /\ tour[w] /\ shots < MaxShots /\ Inputs < MaxInputs /\ Len(inbox) < InboxMax
  /\ shots' = shots + 1
  /\ \E weapon \in {"LanceMissile", "Batte", "PassTour"}, v \in Speeds :
       inbox' = Append(inbox, [type |-> "SHOOT", weapon |-> weapon, speed |-> v])
  /\ tour' = [tour EXCEPT ![w] = FALSE]
  /\ UNCHANGED <<map, sprites, loop, endTour, currentWorms, blockDeleted, tir, mur, pos, flying, deleted, strayed, mail, moves, boxes, timeOvers>>

(* The client's own clock reached time_round, or its worm was hurt.        *)
ClientTimeOver(w) ==
  /\ tour[w]
  /\ tour' = [tour EXCEPT ![w] = FALSE]
  /\ UNCHANGED <<map, sprites, loop, endTour, currentWorms, blockDeleted, tir, inbox, mur, pos, flying, deleted, strayed, mail, used>>

(* getTableUpdate: the shot is simulated from now on, and what it did for  *)
(* the room is kept until NEXT_ROUND.                                      *)
ClientSimulates(w) ==
  /\ tableUpdate[w] \notin {Nothing, TooMany}
  /\ tableUpdate' = [tableUpdate EXCEPT ![w] = Nothing]
  /\ byServ' = [byServ EXCEPT ![w] = tableUpdate[w]]
  /\ flying' = [flying EXCEPT ![w] = @ \/ tableUpdate[w].weapon = "LanceMissile"]
  /\ UNCHANGED <<map, sprites, loop, endTour, currentWorms, blockDeleted, tir, inbox, mur, pos, tour, deleted, strayed,
                 newRound, used>>

(* The projectile of the client explodes on the client's own map: its worm *)
(* falls, is thrown somewhere, or stays.                                   *)
ClientExplodes(w) ==
  /\ flying[w]
  /\ flying' = [flying EXCEPT ![w] = FALSE]
  /\ \E c \in Impacts :
       LET gone == Disc(c) \cap mur[w] \cap Ground
       IN  /\ mur' = [mur EXCEPT ![w] = @ \ gone]
           /\ deleted' = [deleted EXCEPT ![w] = @ \cup gone]
           /\ \E d \in {pos[w]} \cup (IF tour[w] THEN Thrown \ (mur[w] \ gone) ELSE {}) :
                pos' = [pos EXCEPT ![w] = d]
  /\ UNCHANGED <<map, sprites, loop, endTour, currentWorms, blockDeleted, tir, inbox, tour, strayed, mail, used>>

(* NEXT_ROUND is applied once the client's round is over, by its clock or  *)
(* by a shot, with what the last shot before it did: the walls of its own  *)
(* explosions are put back, then those of the room's are removed.  What    *)
(* still flies for the client explodes later.                              *)
Synchronize_keeps_holes(w) ==
  /\ newRound[w] # Nothing
  /\ ~tour[w] \/ byServ[w] # Nothing
  /\ tour' = [tour EXCEPT ![w] = newRound[w].id = w]
  /\ mur' = [mur EXCEPT ![w] = @ \ (Row(newRound[w].level) \cup
                                    IF byServ[w] = Nothing THEN {} ELSE byServ[w].blocks)]
  /\ deleted' = [deleted EXCEPT ![w] = {}]
  /\ pos' = IF byServ[w] = Nothing THEN pos
            ELSE [u \in Worms |-> IF u = w /\ \E d \in byServ[w].worms : d.id = w
                                  THEN (CHOOSE d \in byServ[w].worms : d.id = w).at ELSE pos[u]]
  /\ newRound' = [newRound EXCEPT ![w] = Nothing]
  /\ byServ' = [byServ EXCEPT ![w] = Nothing]
  /\ UNCHANGED <<map, sprites, loop, endTour, currentWorms, blockDeleted, tir, inbox, flying, strayed, tableUpdate, used>>
Synchronize(w) ==
  /\ newRound[w] # Nothing
  /\ ~tour[w] \/ byServ[w] # Nothing
  /\ tour' = [tour EXCEPT ![w] = newRound[w].id = w]
  /\ mur' = [mur EXCEPT ![w] = (@ \cup deleted[w]) \ (Row(newRound[w].level) \cup
                                    IF byServ[w] = Nothing THEN {} ELSE byServ[w].blocks)]
  /\ deleted' = [deleted EXCEPT ![w] = {}]
  /\ pos' = IF byServ[w] = Nothing THEN pos
            ELSE [u \in Worms |-> IF u = w /\ \E d \in byServ[w].worms : d.id = w
                                  THEN (CHOOSE d \in byServ[w].worms : d.id = w).at ELSE pos[u]]
  /\ newRound' = [newRound EXCEPT ![w] = Nothing]
  /\ byServ' = [byServ EXCEPT ![w] = Nothing]
  /\ UNCHANGED <<map, sprites, loop, endTour, currentWorms, blockDeleted, tir, inbox, flying, strayed, tableUpdate, used>>

Client(w) == ClientMoves(w) \/ ClientShoots(w) \/ ClientTimeOver(w)
             \/ ClientSimulates(w) \/ ClientExplodes(w) \/ Synchronize(w)

Next == Room \/ RoundTimeOver \/ \E w \in Worms : Client(w)

Spec == Init /\ [][Next]_vars

-----------------------------------------------------------------------------
(* Properties *)

Lombrics == {i \in DOMAIN sprites : sprites[i].id # 0}
WaitsFor == then \in {"recv", "choose"}

(* Types: sprite.hpp, partie_serv.hpp, map.hpp.  The life a game starts    *)
(* with may be above the most a box gives: nothing orders the two.         *)
TypeOK ==
  /\ light \subseteq Cells /\ solid \subseteq Cells \ light
  /\ waterLevel \in 0 .. Height
  /\ \A i \in DOMAIN sprites : /\ sprites[i].kind \in {"lombric", "projectile", "box"}
                               /\ sprites[i].id \in Worms \cup {0}
                               /\ sprites[i].vie <= MaxVie \/ sprites[i].vie <= InitVie
  /\ t \in Nat /\ k \in 0 .. Len(sprites) + 1 /\ isMovement \in BOOLEAN
  /\ then \in {"recv", "moved", "shot", "risen", "choose", "over"}
  /\ endTour \in BOOLEAN /\ currentWorms \in Worms
  /\ blockDeleted \subseteq Ground /\ tir \in {"LanceMissile", "Batte", "PassTour"}
  /\ mur \in [Worms -> SUBSET (Ground \cup Rock)] /\ pos \in [Worms -> Cells]
  /\ tour \in [Worms -> BOOLEAN] /\ flying \in [Worms -> BOOLEAN]
  /\ deleted \in [Worms -> SUBSET Ground] /\ strayed \in BOOLEAN

(* No worm and no box is ever inside a wall or outside the map, though the *)
(* room takes the cell a client sends without looking at its map, and the  *)
(* client chose it on a copy that may be some rounds old (partie_serv.cpp: *)
(* 96-116): unless a client has walked into a cell that is air only since  *)
(* its own simulation of a shot (partie.cpp:330-334), which synchronizeMap *)
(* puts back when the next round comes and not before the move.            *)
NotBuried == strayed \/ \A i \in DOMAIN sprites : sprites[i].kind # "projectile" => Cell(sprites[i]) \in Air

(* What a client takes for air where the room has a wall is what its own   *)
(* explosions removed, and no more, so that synchronizeMap puts it back:   *)
(* what it is told of the shots and of the water comes late, is replaced   *)
(* by what a later shot did or is never taken, but never comes before the  *)
(* room has removed the wall; and its explosions come before or after the  *)
(* room's, before or after NEXT_ROUND (partie.cpp:86-132 and 480-494,      *)
(* game.cpp:296-318).                                                      *)
WallsKnown == \A w \in Worms : light \cup solid \subseteq mur[w] \cup deleted[w]

(* When update has returned nothing moves any more and every worm stands   *)
(* on something above the water, whatever the order in which the sprites   *)
(* landed, died, exploded and removed each other's floor in the last       *)
(* sweeps (partie_serv.cpp:56-96).                                         *)
AtRest ==
  WaitsFor => \A i \in Lombrics : /\ sprites[i].mv = Still
                                  /\ sprites[i].vie > 0
                                  /\ Below(Cell(sprites[i])) \notin Air
                                  /\ sprites[i].y < Height - waterLevel - 1

(* The draw of a place for a health box comes to an end: there is one      *)
(* whenever a round is given (sprite.cpp:12-27), as long as no worm may be *)
(* in a wall.                                                              *)
BoxFindsPlace == ~strayed /\ then = "choose" /\ (\E u, v \in AliveIds : u # v) => BoxCells # {}

(* update returns, whatever the speeds (partie_serv.cpp:147-156).  What is *)
(* sent off lands within Flight updates, and an explosion that ends a      *)
(* flight sends worms on one more.  From there on everything falls: ten    *)
(* updates a row are enough, from ledge to ledge and for a box.  A box may *)
(* be taken in the update after that, and the next one finds all at rest.  *)
(* The exception: a worm inside a wall with air under it lands where it is *)
(* and falls again in the same update, for ever.                           *)
UpdateReturns == strayed \/ t <= LastFall + 2

(* partie.cpp:197: the left arrow goes to the left.  The room makes the    *)
(* moves of the client whose turn it is.                                   *)
MovesAreMade ==
  \A w \in Worms : then = "recv" /\ inbox = <<>> /\ tour[w] /\ currentWorms = w
                     /\ newRound[w] = Nothing /\ byServ[w] = Nothing
                     => \A i \in Lombrics : sprites[i].id = w => Cell(sprites[i]) = pos[w]

=============================================================================
