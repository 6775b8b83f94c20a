----------------------------- MODULE BoardProofs -----------------------------
(***************************************************************************)
(* Proofs about Board, for every map, every placement of any number of     *)
(* worms, every speed and damage: what update leaves is at rest; where the *)
(* room has a wall a client has one or has an explosion of its own to take *)
(* back; and as long as no client has walked into what only that made air, *)
(* no worm is in a wall, a box always has a place to fall and update comes *)
(* to an end.  What they need beyond the types: what clients are told of   *)
(* the walls is never ahead of the room (WallInv, MailInv), so that a cell *)
(* that was air for a client is air for the room when its move arrives, or *)
(* it has strayed (Space); a sweep that has moved nothing so far has only  *)
(* met settled sprites (RestInv); the worm that plays is alive while its   *)
(* client may still be heard (CurrentInv).  A second invariant, TimeInv,   *)
(* keeps for each sprite the latest update it may still move in.           *)
(***************************************************************************)
EXTENDS Board, QueueLemmas, SequenceTheorems, WellFoundedInduction, TLAPS

-----------------------------------------------------------------------------
(* The invariant *)

(* The sprites of a room.                                                  *)
Kinds == {"lombric", "projectile", "box"}
Flights == [x : Int, y : Int, vx : Int, vy : Int, t0 : Nat]
Sprites == [kind : Kinds, id : Worms \cup {0}, x : Int, y : Int, vie : Int, mv : Flights \cup {Still}]

(* Where a worm may be: in the air, unless a client has walked into what   *)
(* its own explosions removed.                                             *)
Space == IF strayed THEN Cells ELSE Air

(* A sprite is a worm if and only if it has an id; a projectile flies; no  *)
(* life is above both parameters; worms and boxes are in the air.          *)
Sound(s, air) ==
  /\ s.id # 0 <=> s.kind = "lombric"
  /\ s.kind = "projectile" => s.mv # Still
  /\ s.vie <= MaxVie \/ s.vie <= InitVie
  /\ s.kind # "projectile" => Cell(s) \in air

SpriteInv == sprites \in Seq(Sprites) /\ \A i \in DOMAIN sprites : Sound(sprites[i], Space)

(* Only walls of the map that are above the water are left, a client knows *)
(* all of them but those it removed itself, and a shot reports cells that  *)
(* are no walls any more.                                                  *)
WallInv ==
  /\ light \subseteq Ground /\ solid \subseteq Rock
  /\ \A c \in light \cup solid : c[2] < Height - waterLevel
  /\ WallsKnown
  /\ blockDeleted \cap light = {}

(* The messages: moves go through air, rounds have a level that was        *)
(* reached, reports name walls that are gone.                              *)
Steps == [type : {"POS_LOMB_S"}, id : Worms, to : Space]
Shots == [type : {"SHOOT"}, weapon : {"LanceMissile", "Batte", "PassTour"}, speed : Speeds]
Rounds == [id : Worms, level : 0 .. waterLevel]
Reports == [weapon : {"LanceMissile", "Batte", "PassTour"}, blocks : SUBSET (Ground \ light),
            worms : SUBSET [id : Worms, at : Cells]]
Updates == Reports \cup {Nothing, TooMany}

MailInv ==
  /\ inbox \in Seq(Steps \cup Shots)
  /\ newRound \in [Worms -> Rounds \cup {Nothing}]
  /\ tableUpdate \in [Worms -> Updates]
  /\ byServ \in [Worms -> Reports \cup {Nothing}]

(* A sprite that update has nothing more to do with.                       *)
Settled(s, air, level) ==
  /\ s.kind # "projectile"
  /\ s.id # 0 => /\ s.mv = Still /\ s.vie > 0
                 /\ Below(Cell(s)) \notin air
                 /\ s.y < Height - level - 1

(* The room waits with every sprite settled; a sweep in which nothing      *)
(* moved has settled those before the sprite it is at.                     *)
RestInv ==
  /\ then \in {"recv", "choose", "over"} => t = 0 /\ k = 0 /\ ~isMovement
  /\ then \in {"moved", "shot", "risen"} => k > 0
  /\ WaitsFor => \A i \in DOMAIN sprites : Settled(sprites[i], Air, waterLevel)
  /\ ~isMovement => \A i \in DOMAIN sprites : i < k => Settled(sprites[i], Air, waterLevel)

(* The worm whose turn it is is alive while it is asked for a move or      *)
(* makes it.                                                               *)
CurrentInv ==
  /\ then = "recv" => currentWorms \in AliveIds
  /\ then = "moved" /\ ~endTour =>
       /\ currentWorms \in AliveIds
       /\ \A i \in DOMAIN sprites : sprites[i].kind # "projectile" /\ (sprites[i].id # 0 => sprites[i].vie > 0)

IInv == TypeOK /\ SpriteInv /\ WallInv /\ MailInv /\ RestInv /\ CurrentInv

-----------------------------------------------------------------------------
(* Sequences and sets *)

(* Where a worm may be only grows.                                         *)
LEMMA SpaceGrows ==
  ASSUME Air \subseteq Air', strayed => strayed'
  PROVE  Space \subseteq Space'
<1>1. Air \subseteq Cells /\ Air' \subseteq Cells
  BY DEF Air
<1>2. CASE strayed
  BY <1>2 DEF Space
<1>3. CASE ~strayed
  BY <1>1, <1>3 DEF Space
<1> QED
  BY <1>2, <1>3

(* Both are the same as long as neither the walls nor strayed changes.     *)
LEMMA SpaceSame ==
  ASSUME UNCHANGED <<light, solid, strayed>>
  PROVE  Air' = Air /\ Space' = Space
BY DEF Air, Space

LEMMA SpaceOnMap == Air \subseteq Space /\ Space \subseteq Cells
<1>1. Air \subseteq Cells
  BY DEF Air
<1> QED
  BY <1>1 DEF Space

(* What removing the i-th element leaves.                                  *)
LEMMA RemoveAtFacts ==
  ASSUME NEW S, NEW q \in Seq(S), NEW i \in 1 .. Len(q)
  PROVE  /\ RemoveAt(q, i) \in Seq(S)
         /\ Len(RemoveAt(q, i)) = Len(q) - 1
         /\ \A j \in 1 .. Len(q) - 1 : RemoveAt(q, i)[j] = IF j < i THEN q[j] ELSE q[j + 1]
<1> DEFINE a == SubSeq(q, 1, i - 1)
           b == SubSeq(q, i + 1, Len(q))
<1>0. Len(q) \in Nat /\ \A j \in 1 .. Len(q) : q[j] \in S
  BY Elements
<1>1. a \in Seq(S) /\ Len(a) = i - 1 /\ \A j \in 1 .. i - 1 : a[j] = q[j]
  <2>1. \A j \in 1 .. i - 1 : q[j] \in S
    BY <1>0
  <2>2. i - 1 \in Int
    OBVIOUS
  <2>3. /\ a \in Seq(S)
        /\ Len(a) = IF 1 <= i - 1 THEN (i - 1) - 1 + 1 ELSE 0
        /\ \A j \in 1 .. (i - 1) - 1 + 1 : a[j] = q[1 + j - 1]
    BY <2>1, <2>2, SubSeqProperties
  <2> QED
    BY <2>2, <2>3
<1>2. b \in Seq(S) /\ Len(b) = Len(q) - i /\ \A j \in 1 .. Len(q) - i : b[j] = q[i + j]
  <2>1. \A j \in i + 1 .. Len(q) : q[j] \in S
    BY <1>0
  <2>2. i + 1 \in Int /\ Len(q) \in Int
    BY <1>0
  <2>3. /\ b \in Seq(S)
        /\ Len(b) = IF i + 1 <= Len(q) THEN Len(q) - (i + 1) + 1 ELSE 0
        /\ \A j \in 1 .. Len(q) - (i + 1) + 1 : b[j] = q[i + 1 + j - 1]
    BY <2>1, <2>2, SubSeqProperties
  <2> QED
    BY <2>2, <2>3
<1> HIDE DEF a, b
<1>3. RemoveAt(q, i) = a \o b
  BY DEF RemoveAt, a, b
<1>4. /\ a \o b \in Seq(S) /\ Len(a \o b) = Len(a) + Len(b)
      /\ \A j \in 1 .. Len(a) + Len(b) : (a \o b)[j] = IF j <= Len(a) THEN a[j] ELSE b[j - Len(a)]
  BY <1>1, <1>2, ConcatProperties
<1> QED
  BY <1>0, <1>1, <1>2, <1>3, <1>4

(* A sequence whose elements are changed one by one.                       *)
LEMMA Mapped ==
  ASSUME NEW S, NEW n \in Nat, NEW q, DOMAIN q = 1 .. n, q = [i \in 1 .. n |-> q[i]],
         \A i \in 1 .. n : q[i] \in S
  PROVE  q \in Seq(S) /\ Len(q) = n
OBVIOUS

(* Squares, for the distance of an explosion.                              *)
LEMMA Squares == \A x, y \in Int : x * x + y * y \in Nat
<1>1. \A x \in Int : x * x \in Nat
  <2> SUFFICES ASSUME NEW x \in Int PROVE x * x \in Nat
    OBVIOUS
  <2>1. CASE x >= 0
    BY <2>1
  <2>2. CASE x < 0
    BY <2>2
  <2> QED
    BY <2>1, <2>2
<1> QED
  BY <1>1

(* The worms are 1 .. n, and each is placed in the air.                    *)
LEMMA Placed ==
  /\ Len(Place) \in Nat /\ Worms = 1 .. Len(Place) /\ 1 \in Worms /\ 0 \notin Worms
  /\ \A w \in Worms : w \in Nat /\ Place[w] \in Cells \ (Ground \cup Rock)
                      /\ Place[w][1] \in Int /\ Place[w][2] \in Int
                      /\ Place[w] = <<Place[w][1], Place[w][2]>>
<1>1. Place \in Seq(Cells \ (Ground \cup Rock)) /\ Place # <<>>
  BY BoardAssumption
<1>2. Len(Place) \in Nat /\ DOMAIN Place = 1 .. Len(Place) /\ Len(Place) >= 1
  BY <1>1, ReadQueue
<1>3. \A w \in Worms : Place[w] \in Cells \ (Ground \cup Rock)
  BY <1>1, Elements DEF Worms
<1> QED
  BY <1>2, <1>3, BoardAssumption DEF Worms, Cells

-----------------------------------------------------------------------------
(* The sprites *)

(* A flight is not the state of a sprite that stands still.                *)
LEMMA FlightMoves == \A f \in Flights : f # Still
BY DEF Flights, Still

(* Positions are whole cells.                                              *)
LEMMA PositionInt ==
  ASSUME NEW s \in Sprites, s.mv # Still, t \in Nat
  PROVE  /\ Position(s)[1] \in Int /\ Position(s)[2] \in Int
         /\ Position(s) = <<Position(s)[1], Position(s)[2]>>
<1>1. s.mv \in Flights
  BY DEF Sprites
<1>2. s.mv.x \in Int /\ s.mv.y \in Int /\ s.mv.vx \in Int /\ s.mv.vy \in Int /\ t - s.mv.t0 \in Int
  BY <1>1 DEF Flights
<1>3. \A n \in Int : Round(n) \in Int
  BY DEF Round
<1> DEFINE d == t - s.mv.t0
           a == 16 * s.mv.x + s.mv.vx * d
           b == 16 * s.mv.y + s.mv.vy * d + (IF s.kind = "box" THEN (d * d) \div 4 ELSE d * d)
<1>4. a \in Int
  BY <1>2
<1>5. d * d \in Int /\ (d * d) \div 4 \in Int
  BY <1>2
<1>6. b \in Int
  BY <1>2, <1>5
<1>7. Position(s) = <<Round(a), Round(b)>>
  BY DEF Position
<1> HIDE DEF a, b
<1> QED
  BY <1>3, <1>4, <1>6, <1>7

(* What a launch, a step of a flight and a fall do to a sprite.            *)
LEMMA LaunchFacts ==
  ASSUME NEW s \in Sprites, NEW vx \in Int, NEW vy \in Int, t \in Nat
  PROVE  LET r == Launch(s, vx, vy)
         IN  /\ r \in Sprites /\ r.mv # Still
             /\ r.kind = s.kind /\ r.id = s.id /\ r.vie = s.vie /\ r.x = s.x /\ r.y = s.y
<1> DEFINE f == [x |-> s.x, y |-> s.y, vx |-> vx, vy |-> vy, t0 |-> t]
<1>1. f \in Flights
  BY DEF Sprites, Flights
<1>2. f # Still
  BY <1>1, FlightMoves
<1>3. Launch(s, vx, vy) = [s EXCEPT !.mv = f]
  BY DEF Launch
<1> HIDE DEF f
<1> QED
  BY <1>1, <1>2, <1>3 DEF Sprites

(* A sprite that flies stays outside of walls.                             *)
LEMMA MovesFacts ==
  ASSUME NEW s \in Sprites, t \in Nat
  PROVE  LET r == Moves(s)
         IN  /\ r \in Sprites
             /\ r.kind = s.kind /\ r.id = s.id /\ r.vie = s.vie
             /\ Cell(r) = Cell(s) \/ Cell(r) \in Air
             /\ ~Lands(s) => r.mv = s.mv
<1>1. CASE s.mv = Still
  BY <1>1 DEF Moves
<1>2. CASE s.mv # Still /\ Lands(s)
  <2>1. Moves(s) = [s EXCEPT !.mv = Still]
    BY <1>2 DEF Moves
  <2> QED
    BY <1>2, <2>1 DEF Sprites, Cell
<1>3. CASE s.mv # Still /\ ~Lands(s)
  <2> DEFINE p == Position(s)
  <2>1. p[1] \in Int /\ p[2] \in Int /\ p = <<p[1], p[2]>> /\ p \in Air
    BY <1>3, PositionInt DEF Lands
  <2>2. Moves(s) = [s EXCEPT !.x = p[1], !.y = p[2]]
    BY <1>3 DEF Moves
  <2> HIDE DEF p
  <2> QED
    BY <2>1, <2>2 DEF Sprites, Cell
<1> QED
  BY <1>1, <1>2, <1>3

(* A sprite that does not fall stands on something.                        *)
LEMMA FallsFacts ==
  ASSUME NEW s \in Sprites, t \in Nat
  PROVE  LET r == Falls(s)
         IN  /\ r \in Sprites
             /\ r.kind = s.kind /\ r.id = s.id /\ r.vie = s.vie /\ Cell(r) = Cell(s)
             /\ r.mv = Still => Below(Cell(r)) \notin Air
<1>1. CASE s.mv = Still /\ Below(Cell(s)) \in Air
  <2>1. Falls(s) = Launch(s, 0, 0)
    BY <1>1 DEF Falls
  <2> QED
    BY <2>1, LaunchFacts DEF Cell
<1>2. CASE ~(s.mv = Still /\ Below(Cell(s)) \in Air)
  <2>1. Falls(s) = s
    BY <1>2 DEF Falls
  <2> QED
    BY <1>2, <2>1
<1> QED
  BY <1>1, <1>2

(* The life an update leaves.                                              *)
LEMMA LifeFacts ==
  ASSUME NEW s \in Sprites, NEW r \in Sprites
  PROVE  /\ Life(s, r) \in Int
         /\ Life(s, r) <= s.vie \/ Life(s, r) = 0
         /\ Life(s, r) > 0 => ~(r.y >= Height - waterLevel - 1)
<1>1. s.vie \in Int /\ FallLoss \in Nat /\ s.vie - FallLoss \in Int /\ s.vie - FallLoss <= s.vie
  BY BoardAssumption DEF Sprites
<1> DEFINE n == IF Lands(s) /\ SpeedY(s) >= FallSpeed THEN s.vie - FallLoss ELSE s.vie
<1>2. n \in Int /\ n <= s.vie
  BY <1>1
<1>3. Life(s, r) = IF r.y >= Height - waterLevel - 1 \/ n < 0 THEN 0 ELSE n
  BY DEF Life
<1> HIDE DEF n
<1> QED
  BY <1>2, <1>3

(* What update makes of a sprite that survives.                            *)
LEMMA UpdatedFacts ==
  ASSUME NEW s \in Sprites, NEW air, Air \subseteq air, Sound(s, air), t \in Nat, waterLevel \in Int, Survives(s, Updated(s))
  PROVE  LET r == Updated(s)
         IN  /\ r \in Sprites /\ Sound(r, air)
             /\ r.kind = s.kind /\ r.id = s.id
             /\ s.kind = "lombric" => r.vie > 0
             /\ r.mv = Still => Settled(r, Air, waterLevel)
<1> DEFINE m == Moves(s)
           f == Falls(m)
<1>1. /\ m \in Sprites /\ m.kind = s.kind /\ m.id = s.id /\ m.vie = s.vie
      /\ Cell(m) = Cell(s) \/ Cell(m) \in Air
      /\ ~Lands(s) => m.mv = s.mv
  BY MovesFacts
<1> HIDE DEF m
<1>2. /\ f \in Sprites /\ f.kind = s.kind /\ f.id = s.id /\ f.vie = s.vie /\ Cell(f) = Cell(m)
      /\ f.mv = Still => Below(Cell(f)) \notin Air
  BY <1>1, FallsFacts
<1> HIDE DEF f
<1>3. Height \in Int
  BY BoardAssumption
<1>4. CASE s.kind = "lombric"
  <2> DEFINE l == Life(s, f)
  <2>1. Updated(s) = [f EXCEPT !.vie = l]
    BY <1>4 DEF Updated, f, m
  <2>2. l \in Int /\ (l <= s.vie \/ l = 0) /\ (l > 0 => ~(f.y >= Height - waterLevel - 1))
    BY <1>2, LifeFacts
  <2> HIDE DEF l
  <2>3. /\ Updated(s) \in Sprites /\ Updated(s).kind = s.kind /\ Updated(s).id = s.id
        /\ Updated(s).vie = l /\ Updated(s).mv = f.mv
        /\ Updated(s).x = f.x /\ Updated(s).y = f.y /\ f.y \in Int
    BY <1>2, <2>1, <2>2 DEF Sprites
  <2>4. l > 0
    BY <1>4, <2>3 DEF Survives
  <2>5. Cell(Updated(s)) = Cell(f) /\ Cell(f) \in air
    BY <1>1, <1>2, <1>4, <2>3 DEF Cell, Sound
  <2>6. s.vie <= MaxVie \/ s.vie <= InitVie
    BY DEF Sound
  <2>7. l <= MaxVie \/ l <= InitVie
    BY <2>2, <2>4, <2>6, BoardAssumption DEF Sprites
  <2>8. Sound(Updated(s), air)
    BY <1>4, <2>3, <2>5, <2>7 DEF Sound
  <2>9. f.y < Height - waterLevel - 1
    BY <2>2, <2>3, <2>4, <1>3
  <2>10. Updated(s).mv = Still => Settled(Updated(s), Air, waterLevel)
    BY <1>2, <1>4, <2>3, <2>4, <2>5, <2>9 DEF Settled
  <2> QED
    BY <2>3, <2>4, <2>8, <2>10
<1>5. CASE s.kind = "box"
  <2>1. Updated(s) = f
    BY <1>5 DEF Updated, f, m
  <2>2. Cell(f) \in air
    BY <1>1, <1>2, <1>5 DEF Sound
  <2>3. Sound(f, air) /\ f.id = 0
    BY <1>2, <1>5, <2>2 DEF Sound
  <2>4. Settled(f, Air, waterLevel)
    BY <1>2, <1>5, <2>3 DEF Settled
  <2> QED
    BY <1>2, <1>5, <2>1, <2>3, <2>4
<1>6. CASE s.kind = "projectile"
  <2>1. Updated(s) = m
    BY <1>6 DEF Updated, m
  <2>2. ~Lands(s)
    BY <1>6 DEF Survives
  <2>3. m.mv # Still
    BY <1>1, <1>6, <2>2 DEF Sound
  <2>4. Sound(m, air)
    BY <1>1, <1>6, <2>3 DEF Sound
  <2> QED
    BY <1>1, <1>6, <2>1, <2>3, <2>4
<1> QED
  BY <1>4, <1>5, <1>6 DEF Sprites, Kinds

(* A worm that dies while nothing has hurt it before is seen to be hurt.   *)
LEMMA DeathIsSeen ==
  ASSUME NEW s \in Sprites, s.kind = "lombric", s.vie > 0, t \in Nat, ~Survives(s, Updated(s))
  PROVE  Updated(s).vie # s.vie
<1>1. ~(Updated(s).vie > 0)
  BY DEF Survives
<1> QED
  BY <1>1

(* A life that is given or taken, and an explosion.                        *)
LEMMA AddLifeFacts ==
  ASSUME NEW s \in Sprites, NEW n \in Int
  PROVE  LET r == AddLife(s, n)
         IN  /\ r \in Sprites
             /\ r.kind = s.kind /\ r.id = s.id /\ r.x = s.x /\ r.y = s.y /\ r.mv = s.mv
             /\ r.vie <= MaxVie
             /\ n >= 0 /\ s.vie > 0 => r.vie > 0
<1>1. s.vie \in Int /\ MaxVie \in Nat /\ MaxVie > 0
  BY BoardAssumption DEF Sprites
<1> DEFINE v == IF s.vie + n > MaxVie THEN MaxVie ELSE s.vie + n
<1>2. v \in Int /\ v <= MaxVie /\ (n >= 0 /\ s.vie > 0 => v > 0)
  BY <1>1
<1>3. AddLife(s, n) = [s EXCEPT !.vie = v]
  BY DEF AddLife
<1> HIDE DEF v
<1> QED
  BY <1>2, <1>3 DEF Sprites

(* Life gained or lost keeps a sprite sound, ...                           *)
LEMMA AddLifeSound ==
  ASSUME NEW s \in Sprites, NEW n \in Int, NEW air, Sound(s, air)
  PROVE  Sound(AddLife(s, n), air)
BY AddLifeFacts DEF Sound, Cell

(* ... and so does an explosion.                                           *)
LEMMA ExplosedFacts ==
  ASSUME NEW s \in Sprites, NEW c, c[1] \in Int, c[2] \in Int, NEW air, Sound(s, air), t \in Nat
  PROVE  LET r == Explosed(s, c)
         IN  r \in Sprites /\ r.kind = s.kind /\ r.id = s.id /\ Sound(r, air)
<1> DEFINE dx == s.x - c[1]
           dy == s.y - c[2]
<1>1. dx \in Int /\ dy \in Int
  BY DEF Sprites
<1>2. CASE s.id # 0 /\ dx * dx + dy * dy <= Radius * Radius
  <2> DEFINE n == - Loss[dx * dx + dy * dy]
             a == AddLife(s, n)
  <2>1. dx * dx + dy * dy \in Nat
    BY <1>1, Squares
  <2>2. Radius * Radius \in Nat
    BY BoardAssumption, Squares
  <2>3. dx * dx + dy * dy \in 0 .. Radius * Radius
    BY <1>2, <2>1, <2>2
  <2>4. n \in Int
    BY <2>3, BoardAssumption
  <2>5. Blow * dx \in Int /\ Blow * dy \in Int
    BY <1>1, BoardAssumption
  <2>6. Explosed(s, c) = Launch(a, Blow * dx, Blow * dy)
    BY <1>2 DEF Explosed
  <2> HIDE DEF n, dx, dy
  <2>7. /\ a \in Sprites /\ a.kind = s.kind /\ a.id = s.id /\ Sound(a, air)
    BY <2>4, AddLifeFacts, AddLifeSound
  <2> HIDE DEF a
  <2> DEFINE r == Launch(a, Blow * dx, Blow * dy)
  <2>8. /\ r \in Sprites /\ r.mv # Still /\ r.kind = a.kind /\ r.id = a.id /\ r.vie = a.vie
        /\ r.x = a.x /\ r.y = a.y
    BY <2>5, <2>7, LaunchFacts
  <2> HIDE DEF r
  <2>9. Sound(r, air)
    BY <2>7, <2>8 DEF Sound, Cell
  <2> QED
    BY <2>6, <2>7, <2>8, <2>9 DEF r
<1>3. CASE ~(s.id # 0 /\ dx * dx + dy * dy <= Radius * Radius)
  <2>1. Explosed(s, c) = s
    BY <1>3 DEF Explosed
  <2> QED
    BY <2>1
<1> QED
  BY <1>2, <1>3

(* A sprite that was sound, or settled, stays so when walls disappear.     *)
LEMMA SoundKept ==
  ASSUME NEW s, NEW air, NEW air2, air \subseteq air2, Sound(s, air)
  PROVE  Sound(s, air2)
BY DEF Sound

(* The elements that are left when the i-th one is removed.                *)
LEMMA Removed ==
  ASSUME NEW S, NEW q \in Seq(S), NEW i \in DOMAIN q
  PROVE  LET p == RemoveAt(q, i)
         IN  /\ p \in Seq(S) /\ Len(p) = Len(q) - 1 /\ DOMAIN p = 1 .. Len(p)
             /\ \A j \in DOMAIN p : \E l \in DOMAIN q : p[j] = q[l]
             /\ \A l \in DOMAIN q : l # i => \E j \in DOMAIN p : p[j] = q[l]
<1> DEFINE p == RemoveAt(q, i)
<1>1. Len(q) \in Nat /\ DOMAIN q = 1 .. Len(q)
  BY Elements
<1>2. /\ p \in Seq(S) /\ Len(p) = Len(q) - 1
      /\ \A j \in 1 .. Len(q) - 1 : p[j] = IF j < i THEN q[j] ELSE q[j + 1]
  BY <1>1, RemoveAtFacts
<1> HIDE DEF p
<1>3. DOMAIN p = 1 .. Len(q) - 1
  BY <1>2, Elements
<1>4. \A j \in DOMAIN p : \E l \in DOMAIN q : p[j] = q[l]
  BY <1>1, <1>2, <1>3
<1>5. ASSUME NEW l \in DOMAIN q, l # i PROVE \E j \in DOMAIN p : p[j] = q[l]
  <2>1. CASE l < i
    <3>1. l \in 1 .. Len(q) - 1 /\ p[l] = q[l]
      BY <1>1, <1>2, <2>1
    <3> QED
      BY <1>3, <3>1
  <2>2. CASE l > i
    <3>1. l - 1 \in 1 .. Len(q) - 1 /\ p[l - 1] = q[l]
      BY <1>1, <1>2, <2>2
    <3> QED
      BY <1>3, <3>1
  <2> QED
    BY <1>1, <1>5, <2>1, <2>2
<1> QED
  BY <1>2, <1>3, <1>4, <1>5 DEF p

(* A death: some sprites are hurt or healed, then the dead one is removed. *)
LEMMA DiesFacts ==
  ASSUME SpriteInv, WallInv, k \in DOMAIN sprites, NEW r, Dies(sprites[k], r), UNCHANGED solid, t \in Nat
  PROVE  /\ light' \subseteq light /\ Air \subseteq Air'
         /\ \/ UNCHANGED blockDeleted
            \/ blockDeleted' \subseteq blockDeleted \cup (light \ light')
         /\ \E q \in Seq(Sprites) :
              /\ Len(q) = Len(sprites) /\ sprites' = RemoveAt(q, k)
              /\ \A i \in DOMAIN q : /\ Sound(q[i], Space)
                                     /\ q[i].kind = sprites[i].kind /\ q[i].id = sprites[i].id
                                     /\ sprites[k].kind # "projectile" /\ sprites[i].vie > 0 => q[i].vie > 0
<1> DEFINE s == sprites[k]
<1>1. /\ sprites \in Seq(Sprites) /\ Len(sprites) \in Nat /\ DOMAIN sprites = 1 .. Len(sprites)
      /\ \A i \in DOMAIN sprites : sprites[i] \in Sprites /\ Sound(sprites[i], Space)
  BY Elements DEF SpriteInv
<1>2. CASE s.kind = "projectile"
  <2> DEFINE gone == Disc(Cell(s)) \cap light
             q == [i \in DOMAIN sprites |-> Explosed(sprites[i], Cell(s))]
  <2>1. sprites' = RemoveAt(q, k) /\ light' = light \ gone /\ blockDeleted' = blockDeleted \cup gone
    BY <1>2 DEF Dies
  <2>2. Cell(s)[1] \in Int /\ Cell(s)[2] \in Int
    BY <1>1 DEF Cell, Sprites
  <2>3. \A i \in DOMAIN sprites : /\ Explosed(sprites[i], Cell(s)) \in Sprites
                                  /\ Explosed(sprites[i], Cell(s)).kind = sprites[i].kind
                                  /\ Explosed(sprites[i], Cell(s)).id = sprites[i].id
                                  /\ Sound(Explosed(sprites[i], Cell(s)), Space)
    BY <1>1, <2>2, ExplosedFacts
  <2>4. \A i \in DOMAIN sprites : /\ q[i] \in Sprites /\ Sound(q[i], Space)
                                  /\ q[i].kind = sprites[i].kind /\ q[i].id = sprites[i].id
    BY <2>3
  <2>5. DOMAIN q = 1 .. Len(sprites) /\ q = [i \in 1 .. Len(sprites) |-> q[i]]
    BY <1>1
  <2> HIDE DEF q
  <2>6. q \in Seq(Sprites) /\ Len(q) = Len(sprites)
    BY <1>1, <2>4, <2>5, Mapped
  <2>7. Air \subseteq Air'
    BY <2>1 DEF Air
  <2>8. \E p \in Seq(Sprites) :
              /\ Len(p) = Len(sprites) /\ sprites' = RemoveAt(p, k)
              /\ \A i \in DOMAIN p : /\ Sound(p[i], Space)
                                     /\ p[i].kind = sprites[i].kind /\ p[i].id = sprites[i].id
                                     /\ sprites[k].kind # "projectile" /\ sprites[i].vie > 0 => p[i].vie > 0
    BY <1>1, <1>2, <2>1, <2>4, <2>5, <2>6
  <2> QED
    BY <2>1, <2>7, <2>8
<1>3. CASE s.kind = "box"
  <2> DEFINE q == [i \in DOMAIN sprites |->
                     IF i \in Taker(r) THEN AddLife(sprites[i], BoxVie) ELSE sprites[i]]
  <2>1. sprites' = RemoveAt(q, k) /\ UNCHANGED <<light, blockDeleted>>
    BY <1>3 DEF Dies
  <2>2. BoxVie \in Int /\ BoxVie >= 0
    BY BoardAssumption
  <2>3. \A i \in DOMAIN sprites : \/ q[i] = AddLife(sprites[i], BoxVie)
                                  \/ q[i] = sprites[i]
    OBVIOUS
  <2>5. DOMAIN q = 1 .. Len(sprites) /\ q = [i \in 1 .. Len(sprites) |-> q[i]]
    BY <1>1
  <2> HIDE DEF q
  <2>4. \A i \in DOMAIN sprites : /\ q[i] \in Sprites /\ Sound(q[i], Space)
                                  /\ q[i].kind = sprites[i].kind /\ q[i].id = sprites[i].id
                                  /\ sprites[i].vie > 0 => q[i].vie > 0
    <3> SUFFICES ASSUME NEW i \in DOMAIN sprites
                 PROVE  /\ q[i] \in Sprites /\ Sound(q[i], Space)
                        /\ q[i].kind = sprites[i].kind /\ q[i].id = sprites[i].id
                        /\ sprites[i].vie > 0 => q[i].vie > 0
      OBVIOUS
    <3>1. CASE q[i] = sprites[i]
      BY <1>1, <3>1
    <3>2. CASE q[i] = AddLife(sprites[i], BoxVie)
      <4>1. sprites[i] \in Sprites /\ Sound(sprites[i], Space)
        BY <1>1
      <4> QED
        BY <2>2, <3>2, <4>1, AddLifeFacts, AddLifeSound
    <3> QED
      BY <2>3, <3>1, <3>2
  <2>6. q \in Seq(Sprites) /\ Len(q) = Len(sprites)
    <3>1. \A i \in 1 .. Len(sprites) : q[i] \in Sprites
      BY <1>1, <2>4
    <3> QED
      BY <1>1, <2>5, <3>1, Mapped
  <2>7. Air \subseteq Air'
    BY <2>1 DEF Air
  <2>8. \A i \in DOMAIN q : /\ Sound(q[i], Space)
                            /\ q[i].kind = sprites[i].kind /\ q[i].id = sprites[i].id
                            /\ sprites[k].kind # "projectile" /\ sprites[i].vie > 0 => q[i].vie > 0
    BY <1>1, <2>4, <2>5
  <2> QED
    BY <2>1, <2>6, <2>7, <2>8
<1>4. CASE s.kind = "lombric"
  <2>1. sprites' = RemoveAt(sprites, k) /\ UNCHANGED <<light, blockDeleted>>
    BY <1>4 DEF Dies
  <2>2. Air \subseteq Air'
    BY <2>1 DEF Air
  <2> QED
    BY <1>1, <2>1, <2>2
<1> QED
  BY <1>1, <1>2, <1>3, <1>4 DEF Sprites, Kinds

-----------------------------------------------------------------------------
(* Parts of the invariant that survive the walls falling and the water     *)
(* rising.                                                                 *)

LEMMA MailKept ==
  ASSUME MailInv, Space \subseteq Space', light' \subseteq light,
         waterLevel \in Nat, waterLevel' \in Nat, waterLevel <= waterLevel',
         UNCHANGED <<inbox, newRound, byServ>>, tableUpdate' \in [Worms -> Updates]
  PROVE  MailInv'
<1>1. Steps \cup Shots \subseteq (Steps \cup Shots)'
  BY DEF Steps, Shots
<1>2. Rounds \cup {Nothing} \subseteq (Rounds \cup {Nothing})'
  BY DEF Rounds, Nothing
<1>3. Reports \cup {Nothing} \subseteq (Reports \cup {Nothing})' /\ Updates \subseteq Updates'
  BY DEF Reports, Updates, Nothing, TooMany
<1>4. inbox' \in Seq((Steps \cup Shots)')
  BY <1>1, Larger DEF MailInv
<1>5. newRound' \in [Worms -> (Rounds \cup {Nothing})']
  BY <1>2 DEF MailInv
<1>6. byServ' \in [Worms -> (Reports \cup {Nothing})']
  BY <1>3 DEF MailInv
<1>7. tableUpdate' \in [Worms -> Updates']
  BY <1>3
<1> QED
  BY <1>4, <1>5, <1>6, <1>7 DEF MailInv

(* Steps of the clients leave the sprites of the room alone.               *)
LEMMA RoomKept ==
  ASSUME SpriteInv, RestInv, CurrentInv, strayed => strayed',
         UNCHANGED <<map, sprites, loop, endTour, currentWorms, blockDeleted>>
  PROVE  SpriteInv' /\ RestInv' /\ CurrentInv' /\ Air' = Air /\ Space \subseteq Space'
<1>1. UNCHANGED <<light, solid, waterLevel, sprites, t, k, isMovement, then, endTour, currentWorms>>
  BY DEF map, loop
<1>2. Air' = Air
  BY <1>1 DEF Air
<1>3. Space \subseteq Space'
  BY <1>2, SpaceGrows
<1>4. SpriteInv'
  BY <1>1, <1>3, SoundKept DEF SpriteInv
<1>5. RestInv'
  BY <1>1, <1>2 DEF RestInv, WaitsFor
<1>6. CurrentInv'
  BY <1>1 DEF CurrentInv, AliveIds
<1> QED
  BY <1>2, <1>3, <1>4, <1>5, <1>6

-----------------------------------------------------------------------------
(* Partie::update *)

LEMMA SurviveStep ==
  ASSUME IInv, UpdateSprite, Survives(sprites[k], Updated(sprites[k]))
  PROVE  IInv'
<1> DEFINE s == sprites[k]
           r == Updated(s)
<1>1. /\ sprites \in Seq(Sprites) /\ Len(sprites) \in Nat /\ DOMAIN sprites = 1 .. Len(sprites)
      /\ \A i \in DOMAIN sprites : sprites[i] \in Sprites /\ Sound(sprites[i], Space)
  BY Elements DEF IInv, SpriteInv
<1>2. k \in DOMAIN sprites /\ t \in Nat /\ waterLevel \in Int
  BY DEF IInv, TypeOK, UpdateSprite
<1>3. /\ sprites' = [sprites EXCEPT ![k] = r] /\ k' = k + 1
      /\ endTour' = (endTour \/ (s.kind = "lombric" /\ r.vie # s.vie))
      /\ isMovement' = (isMovement \/ r.mv # Still)
      /\ UNCHANGED <<light, blockDeleted, solid, waterLevel, t, then, currentWorms, tir, inbox, client, mail, used>>
  BY DEF UpdateSprite
<1>4. /\ r \in Sprites /\ Sound(r, Space) /\ r.kind = s.kind /\ r.id = s.id
      /\ s.kind = "lombric" => r.vie > 0
      /\ r.mv = Still => Settled(r, Air, waterLevel)
  BY <1>1, <1>2, UpdatedFacts, SpaceOnMap
<1>5. Air' = Air /\ Space' = Space
  BY <1>3, SpaceSame DEF client
<1> HIDE DEF s, r
<1>6. /\ sprites' \in Seq(Sprites) /\ DOMAIN sprites' = DOMAIN sprites /\ Len(sprites') = Len(sprites)
      /\ \A i \in DOMAIN sprites : sprites'[i] = IF i = k THEN r ELSE sprites[i]
  BY <1>1, <1>2, <1>3, <1>4
<1>7. \A i \in DOMAIN sprites' : sprites'[i] \in Sprites /\ Sound(sprites'[i], Space)
  BY <1>1, <1>4, <1>6
<1>8. \A i \in DOMAIN sprites : sprites'[i].kind = sprites[i].kind /\ sprites'[i].id = sprites[i].id
  BY <1>4, <1>6 DEF s
<1>9. TypeOK'
  <2>1. \A i \in DOMAIN sprites' : /\ sprites'[i].kind \in {"lombric", "projectile", "box"}
                                   /\ sprites'[i].id \in Worms \cup {0}
                                   /\ sprites'[i].vie <= MaxVie \/ sprites'[i].vie <= InitVie
    BY <1>7 DEF Sprites, Kinds, Sound
  <2>2. k' \in 0 .. Len(sprites') + 1
    BY <1>1, <1>2, <1>3, <1>6
  <2>3. isMovement' \in BOOLEAN /\ endTour' \in BOOLEAN
    BY <1>3 DEF IInv, TypeOK
  <2> QED
    BY <1>3, <2>1, <2>2, <2>3 DEF IInv, TypeOK, client
<1>10. SpriteInv'
  BY <1>5, <1>6, <1>7 DEF SpriteInv
<1>11. WallInv'
  BY <1>3 DEF IInv, WallInv, WallsKnown, client
<1>12. MailInv'
  BY <1>3, <1>5 DEF IInv, MailInv, mail, Steps, Rounds, Reports, Updates
<1>13. then \in {"moved", "shot", "risen"}
  BY <1>2, <1>1 DEF IInv, RestInv, TypeOK
<1>14. RestInv'
  <2>1. ASSUME ~isMovement', NEW i \in DOMAIN sprites', i < k'
        PROVE  Settled(sprites'[i], Air, waterLevel)
    <3>1. ~isMovement /\ r.mv = Still
      BY <1>3, <2>1
    <3>2. CASE i = k
      BY <1>4, <1>6, <3>1, <3>2
    <3>3. CASE i # k
      <4>1. i < k /\ i \in DOMAIN sprites
        BY <1>1, <1>2, <1>3, <1>6, <2>1, <3>3
      <4>2. Settled(sprites[i], Air, waterLevel)
        BY <3>1, <4>1 DEF IInv, RestInv
      <4> QED
        BY <1>6, <3>3, <4>1, <4>2
    <3> QED
      BY <3>2, <3>3
  <2>2. k' > 0
    BY <1>1, <1>2, <1>3
  <2>3. \A i \in DOMAIN sprites' : ~isMovement' /\ i < k' => Settled(sprites'[i], Air', waterLevel')
    BY <1>3, <1>5, <2>1
  <2> QED
    BY <1>3, <1>13, <2>2, <2>3 DEF RestInv, WaitsFor
<1>15. CurrentInv'
  <2> SUFFICES ASSUME then = "moved", ~endTour'
               PROVE  /\ currentWorms \in AliveIds'
                      /\ \A i \in DOMAIN sprites' : sprites'[i].kind # "projectile"
                                                    /\ (sprites'[i].id # 0 => sprites'[i].vie > 0)
    BY <1>3, <1>13 DEF CurrentInv
  <2>1. ~endTour
    BY <1>3
  <2>2. /\ currentWorms \in AliveIds
        /\ \A i \in DOMAIN sprites : sprites[i].kind # "projectile" /\ (sprites[i].id # 0 => sprites[i].vie > 0)
    BY <2>1 DEF IInv, CurrentInv
  <2>3. AliveIds' = AliveIds
    BY <1>6, <1>8 DEF AliveIds
  <2>4. ASSUME NEW i \in DOMAIN sprites', sprites'[i].id # 0 PROVE sprites'[i].vie > 0
    <3>1. CASE i = k
      <4>1. r.id # 0
        BY <1>6, <2>4, <3>1
      <4>2. r.kind = "lombric"
        BY <1>4, <4>1 DEF Sound
      <4> QED
        BY <1>4, <1>6, <2>4, <3>1, <4>2
    <3>2. CASE i # k
      BY <1>6, <2>2, <2>4, <3>2
    <3> QED
      BY <3>1, <3>2
  <2> QED
    BY <1>6, <1>8, <2>2, <2>3, <2>4
<1> QED
  BY <1>9, <1>10, <1>11, <1>12, <1>14, <1>15 DEF IInv

(* A sprite is erased.                                                     *)
LEMMA DieStep ==
  ASSUME IInv, UpdateSprite, ~Survives(sprites[k], Updated(sprites[k]))
  PROVE  IInv'
<1> DEFINE s == sprites[k]
           r == Updated(s)
<1>1. /\ sprites \in Seq(Sprites) /\ Len(sprites) \in Nat /\ DOMAIN sprites = 1 .. Len(sprites)
      /\ \A i \in DOMAIN sprites : sprites[i] \in Sprites /\ Sound(sprites[i], Space)
  BY Elements DEF IInv, SpriteInv
<1>2. k \in DOMAIN sprites /\ t \in Nat /\ waterLevel \in Nat
  BY DEF IInv, TypeOK, UpdateSprite
<1>3. /\ Dies(s, r) /\ k' = k /\ isMovement' = TRUE
      /\ endTour' = (endTour \/ (s.kind = "lombric" /\ r.vie # s.vie))
      /\ UNCHANGED <<solid, waterLevel, t, then, currentWorms, tir, inbox, client, mail, used>>
  BY DEF UpdateSprite
<1>4. /\ light' \subseteq light /\ Air \subseteq Air'
      /\ \/ UNCHANGED blockDeleted
         \/ blockDeleted' \subseteq blockDeleted \cup (light \ light')
      /\ \E q \in Seq(Sprites) :
           /\ Len(q) = Len(sprites) /\ sprites' = RemoveAt(q, k)
           /\ \A i \in DOMAIN q : /\ Sound(q[i], Space)
                                  /\ q[i].kind = sprites[i].kind /\ q[i].id = sprites[i].id
                                  /\ s.kind # "projectile" /\ sprites[i].vie > 0 => q[i].vie > 0
  <2>1. UNCHANGED solid /\ SpriteInv /\ WallInv
    BY <1>3 DEF IInv
  <2> HIDE DEF r
  <2> QED
    BY <1>2, <1>3, <2>1, DiesFacts
<1>5. PICK q \in Seq(Sprites) :
        /\ Len(q) = Len(sprites) /\ sprites' = RemoveAt(q, k)
        /\ \A i \in DOMAIN q : /\ Sound(q[i], Space)
                               /\ q[i].kind = sprites[i].kind /\ q[i].id = sprites[i].id
                               /\ s.kind # "projectile" /\ sprites[i].vie > 0 => q[i].vie > 0
  BY <1>4
<1> HIDE DEF r
<1>6. DOMAIN q = DOMAIN sprites
  BY <1>1, <1>5, Elements
<1>7. /\ sprites' \in Seq(Sprites) /\ Len(sprites') = Len(sprites) - 1 /\ DOMAIN sprites' = 1 .. Len(sprites')
      /\ \A j \in DOMAIN sprites' : \E l \in DOMAIN q : sprites'[j] = q[l]
      /\ \A l \in DOMAIN q : l # k => \E j \in DOMAIN sprites' : sprites'[j] = q[l]
  <2>1. k \in DOMAIN q /\ sprites' = RemoveAt(q, k)
    BY <1>2, <1>5, <1>6
  <2>2. Len(q) = Len(sprites)
    BY <1>5
  <2> QED
    BY <2>1, <2>2, Removed
<1>8. \A j \in DOMAIN sprites' : sprites'[j] \in Sprites /\ Sound(sprites'[j], Space)
  BY <1>5, <1>7, Elements
<1>9. TypeOK'
  <2>1. \A i \in DOMAIN sprites' : /\ sprites'[i].kind \in {"lombric", "projectile", "box"}
                                   /\ sprites'[i].id \in Worms \cup {0}
                                   /\ sprites'[i].vie <= MaxVie \/ sprites'[i].vie <= InitVie
    BY <1>8 DEF Sprites, Kinds, Sound
  <2>2. k' \in 0 .. Len(sprites') + 1
    BY <1>1, <1>2, <1>3, <1>7
  <2>3. isMovement' \in BOOLEAN /\ endTour' \in BOOLEAN
    BY <1>3 DEF IInv, TypeOK
  <2>4. light' \subseteq Cells /\ solid' \subseteq Cells \ light' /\ blockDeleted' \subseteq Ground
    BY <1>3, <1>4 DEF IInv, TypeOK, WallInv, WallsKnown
  <2> QED
    BY <1>3, <2>1, <2>2, <2>3, <2>4 DEF IInv, TypeOK, client
<1>10. SpriteInv'
  <2>1. Space \subseteq Space'
    BY <1>3, <1>4, SpaceGrows DEF client
  <2>2. \A j \in DOMAIN sprites' : Sound(sprites'[j], Space')
    BY <1>8, <2>1, SoundKept
  <2> QED
    BY <1>7, <2>2 DEF SpriteInv
<1>11. WallInv'
  BY <1>3, <1>4 DEF IInv, WallInv, WallsKnown, client
<1>12. MailInv'
  <2>1. tableUpdate' \in [Worms -> Updates]
    BY <1>3 DEF IInv, MailInv, mail
  <2>2. Space \subseteq Space'
    BY <1>3, <1>4, SpaceGrows DEF client
  <2> QED
    BY <1>2, <1>3, <1>4, <2>1, <2>2, MailKept DEF IInv, mail
<1>13. then \in {"moved", "shot", "risen"}
  BY <1>2, <1>1 DEF IInv, RestInv, TypeOK
<1>14. RestInv'
  BY <1>1, <1>2, <1>3, <1>13 DEF RestInv, WaitsFor
<1>15. CurrentInv'
  <2> SUFFICES ASSUME then = "moved", ~endTour'
               PROVE  /\ currentWorms \in AliveIds'
                      /\ \A i \in DOMAIN sprites' : sprites'[i].kind # "projectile"
                                                    /\ (sprites'[i].id # 0 => sprites'[i].vie > 0)
    BY <1>3, <1>13 DEF CurrentInv
  <2>1. ~endTour /\ ~(s.kind = "lombric" /\ r.vie # s.vie)
    BY <1>3
  <2>2. /\ currentWorms \in AliveIds
        /\ \A i \in DOMAIN sprites : sprites[i].kind # "projectile" /\ (sprites[i].id # 0 => sprites[i].vie > 0)
    BY <2>1 DEF IInv, CurrentInv
  <2>3. s.kind # "lombric"
    <3> SUFFICES ASSUME s.kind = "lombric" PROVE FALSE
      OBVIOUS
    <3>1. s \in Sprites /\ s.id # 0
      BY <1>1, <1>2 DEF Sound
    <3>2. s.vie > 0
      BY <1>2, <2>2, <3>1
    <3>3. r.vie # s.vie
      BY <1>2, <3>1, <3>2, DeathIsSeen DEF r
    <3> QED
      BY <2>1, <3>3
  <2>4. s.kind # "projectile" /\ s.id = 0
    BY <1>1, <1>2, <2>2, <2>3 DEF Sound
  <2>5. currentWorms \in AliveIds'
    <3>1. PICK l \in DOMAIN sprites : sprites[l].id = currentWorms /\ currentWorms # 0
      BY <2>2 DEF AliveIds
    <3>2. l # k
      BY <2>4, <3>1
    <3>3. PICK j \in DOMAIN sprites' : sprites'[j] = q[l]
      BY <1>6, <1>7, <3>2
    <3>4. sprites'[j].id = currentWorms
      BY <1>5, <1>6, <3>1, <3>3
    <3>5. currentWorms' = currentWorms
      BY <1>3
    <3> QED
      BY <3>1, <3>4 DEF AliveIds
  <2>6. ASSUME NEW i \in DOMAIN sprites'
        PROVE  sprites'[i].kind # "projectile" /\ (sprites'[i].id # 0 => sprites'[i].vie > 0)
    <3>1. PICK l \in DOMAIN q : sprites'[i] = q[l]
      BY <1>7
    <3>2. /\ q[l].kind = sprites[l].kind /\ q[l].id = sprites[l].id
          /\ sprites[l].vie > 0 => q[l].vie > 0
      BY <1>5, <2>4
    <3> QED
      BY <1>6, <2>2, <3>1, <3>2
  <2> QED
    BY <2>5, <2>6
<1> QED
  BY <1>9, <1>10, <1>11, <1>12, <1>14, <1>15 DEF IInv

(* Another sweep begins.                                                   *)
LEMMA SweepStep ==
  ASSUME IInv, NextSweep
  PROVE  IInv'
<1>1. /\ isMovement /\ t' = t + 1 /\ k' = 1 /\ isMovement' = FALSE
      /\ UNCHANGED <<light, solid, waterLevel, sprites, then, endTour, currentWorms, blockDeleted, tir, inbox>>
      /\ UNCHANGED <<mur, pos, tour, flying, deleted, strayed, newRound, tableUpdate, byServ>>
  BY DEF NextSweep, map, client, mail
<1>2. Air' = Air /\ Space' = Space
  BY <1>1, SpaceSame
<1>3. Len(sprites) \in Nat
  BY Elements DEF IInv, SpriteInv
<1>4. TypeOK'
  <2>1. t' \in Nat /\ k' \in 0 .. Len(sprites') + 1
    BY <1>1, <1>3 DEF IInv, TypeOK
  <2>2. isMovement' \in BOOLEAN
    BY <1>1
  <2> QED
    BY <1>1, <2>1, <2>2 DEF IInv, TypeOK
<1>5. SpriteInv' /\ WallInv'
  BY <1>1, <1>2 DEF IInv, SpriteInv, WallInv, WallsKnown
<1>6. MailInv'
  BY <1>1, <1>2 DEF IInv, MailInv, Steps, Rounds, Reports, Updates
<1>7. then \in {"moved", "shot", "risen"}
  BY <1>1 DEF IInv, RestInv, TypeOK
<1>8. DOMAIN sprites \subseteq Nat \ {0}
  BY Elements DEF IInv, SpriteInv
<1>9. RestInv'
  <2>1. \A i \in DOMAIN sprites' : ~(i < k')
    BY <1>1, <1>8
  <2> QED
    BY <1>1, <1>7, <2>1 DEF RestInv, WaitsFor
<1>10. CurrentInv'
  BY <1>1 DEF IInv, CurrentInv, AliveIds
<1> QED
  BY <1>4, <1>5, <1>6, <1>9, <1>10 DEF IInv

-----------------------------------------------------------------------------
(* The end of a round *)

(* When update has returned everything is settled.                         *)
LEMMA AllSettled ==
  ASSUME IInv, NEW caller, Returns(caller)
  PROVE  \A i \in DOMAIN sprites : Settled(sprites[i], Air, waterLevel)
<1>1. ~isMovement /\ k > Len(sprites) /\ k \in Int
  BY DEF Returns, IInv, TypeOK
<1>2. Len(sprites) \in Nat /\ DOMAIN sprites = 1 .. Len(sprites)
  BY Elements DEF IInv, SpriteInv
<1>3. \A i \in DOMAIN sprites : i < k
  BY <1>1, <1>2
<1> QED
  BY <1>1, <1>3 DEF IInv, RestInv

(* Choosing what follows while everything is settled.                      *)
LEMMA LeavesStep ==
  ASSUME IInv, NEW next \in {"recv", "choose"}, Leaves(next),
         \A i \in DOMAIN sprites : Settled(sprites[i], Air, waterLevel),
         next = "recv" => currentWorms \in AliveIds,
         tableUpdate' \in [Worms -> Updates],
         UNCHANGED <<map, sprites, endTour, currentWorms, blockDeleted, tir, inbox, client, newRound, byServ>>
  PROVE  IInv'
<1>1. /\ t' = 0 /\ k' = 0 /\ isMovement' = FALSE /\ then' = next
      /\ UNCHANGED <<light, solid, waterLevel, sprites, endTour, currentWorms, blockDeleted, tir, inbox>>
      /\ UNCHANGED <<mur, pos, tour, flying, deleted, strayed, newRound, byServ>>
  BY DEF Leaves, map, client
<1>2. Air' = Air /\ Space' = Space
  BY <1>1, SpaceSame
<1>3. Len(sprites) \in Nat
  BY Elements DEF IInv, SpriteInv
<1>4. TypeOK'
  <2>1. t' \in Nat /\ k' \in 0 .. Len(sprites') + 1
    BY <1>1, <1>3
  <2>2. isMovement' \in BOOLEAN /\ then' \in {"recv", "choose"}
    BY <1>1
  <2> QED
    BY <1>1, <2>1, <2>2 DEF IInv, TypeOK
<1>5. SpriteInv' /\ WallInv'
  BY <1>1, <1>2 DEF IInv, SpriteInv, WallInv, WallsKnown
<1>6. MailInv'
  <2>1. waterLevel \in Nat
    BY DEF IInv, TypeOK
  <2> QED
    BY <1>1, <1>2, <2>1, MailKept DEF IInv
<1>7. \A i \in DOMAIN sprites' : Settled(sprites'[i], Air', waterLevel')
  BY <1>1, <1>2
<1>8. RestInv'
  BY <1>1, <1>7 DEF RestInv, WaitsFor
<1>9. CurrentInv'
  BY <1>1 DEF CurrentInv, AliveIds
<1> QED
  BY <1>4, <1>5, <1>6, <1>8, <1>9 DEF IInv

(* A round ends: the water rises, or another worm is chosen.               *)
LEMMA EndRoundStep ==
  ASSUME IInv, EndRound,
         \A i \in DOMAIN sprites : Settled(sprites[i], Air, waterLevel),
         tableUpdate' \in [Worms -> Updates],
         UNCHANGED <<sprites, endTour, currentWorms, blockDeleted, tir, inbox, client, newRound, byServ>>
  PROVE  IInv'
<1>1. CASE Leaves("choose") /\ UNCHANGED map
  BY <1>1, LeavesStep
<1>2. CASE /\ waterLevel < Height /\ waterLevel' = waterLevel + 1
           /\ light' = light \ Row(waterLevel + 1)
           /\ solid' = solid \ Row(waterLevel + 1)
           /\ Update("risen")
  <2>1. /\ t' = 0 /\ k' = 1 /\ isMovement' = FALSE /\ then' = "risen"
        /\ UNCHANGED <<mur, pos, tour, flying, deleted, strayed>>
    BY <1>2 DEF Update, client
  <2>2. waterLevel \in Nat /\ Height \in Nat
    BY BoardAssumption DEF IInv, TypeOK
  <2>3. light' \subseteq light /\ solid' \subseteq solid /\ Air \subseteq Air'
    BY <1>2 DEF Air
  <2>0. Space \subseteq Space'
    BY <2>1, <2>3, SpaceGrows
  <2>4. Len(sprites) \in Nat /\ DOMAIN sprites = 1 .. Len(sprites)
    BY Elements DEF IInv, SpriteInv
  <2>5. TypeOK'
    <3>1. light' \subseteq Cells /\ solid' \subseteq Cells \ light' /\ waterLevel' \in 0 .. Height
      BY <1>2, <2>2, <2>3 DEF IInv, TypeOK
    <3>2. t' \in Nat /\ k' \in 0 .. Len(sprites') + 1
      BY <2>1, <2>4
    <3>3. isMovement' \in BOOLEAN /\ then' \in {"risen"}
      BY <2>1
    <3> QED
      BY <2>1, <3>1, <3>2, <3>3 DEF IInv, TypeOK
  <2>6. SpriteInv'
    BY <2>0, SoundKept DEF IInv, SpriteInv
  <2>7. WallInv'
    <3>1. \A c \in light' \cup solid' : c[2] < Height - waterLevel'
      <4> SUFFICES ASSUME NEW c \in light' \cup solid' PROVE c[2] < Height - waterLevel'
        OBVIOUS
      <4>1. c \in light \cup solid /\ c \in Cells /\ c \notin Row(waterLevel + 1)
        BY <1>2 DEF IInv, TypeOK
      <4>2. c[2] < Height - waterLevel /\ c[2] \in Int
        BY <4>1 DEF IInv, WallInv, WallsKnown, Cells
      <4>3. c[2] # Height - (waterLevel + 1)
        BY <4>1 DEF Row
      <4> QED
        BY <1>2, <2>2, <4>2, <4>3
    <3> QED
      BY <2>1, <2>3, <3>1 DEF IInv, WallInv, WallsKnown
  <2>8. MailInv'
    BY <1>2, <2>0, <2>2, <2>3, MailKept DEF IInv
  <2>9. RestInv'
    <3>1. \A i \in DOMAIN sprites' : ~(i < k')
      BY <2>1, <2>4
    <3> QED
      BY <2>1, <3>1 DEF RestInv, WaitsFor
  <2>10. CurrentInv'
    BY <2>1 DEF CurrentInv
  <2> QED
    BY <2>5, <2>6, <2>7, <2>8, <2>9, <2>10 DEF IInv
<1> QED
  BY <1>1, <1>2 DEF EndRound

(* What the clients are told of a shot.                                    *)
LEMMA DamageTyped ==
  ASSUME IInv
  PROVE  Damage \in Reports
<1>1. blockDeleted \in SUBSET (Ground \ light) /\ tir \in {"LanceMissile", "Batte", "PassTour"}
  BY DEF IInv, TypeOK, WallInv, WallsKnown
<1>2. ASSUME NEW i \in DOMAIN sprites, sprites[i].id # 0
      PROVE  [id |-> sprites[i].id, at |-> Cell(sprites[i])] \in [id : Worms, at : Cells]
  <2>1. sprites[i] \in Sprites /\ Sound(sprites[i], Space)
    BY Elements DEF IInv, SpriteInv
  <2>2. sprites[i].id \in Worms /\ Cell(sprites[i]) \in Space
    BY <1>2, <2>1 DEF Sprites, Sound
  <2> QED
    BY <2>2, SpaceOnMap
<1> QED
  BY <1>1, <1>2 DEF Damage, Reports

LEMMA ShotDoneStep == ASSUME IInv, ShotDone PROVE IInv'
<1>1. \A i \in DOMAIN sprites : Settled(sprites[i], Air, waterLevel)
  BY AllSettled DEF ShotDone
<1>2. tableUpdate' \in [Worms -> Updates]
  BY DamageTyped DEF ShotDone, Updates
<1> QED
  BY <1>1, <1>2, EndRoundStep DEF ShotDone

(* What is on its way stays typed.                                         *)
LEMMA MailTyped ==
  ASSUME IInv, UNCHANGED mail
  PROVE  tableUpdate' \in [Worms -> Updates] /\ UNCHANGED <<newRound, byServ>>
BY DEF IInv, MailInv, mail

LEMMA MoveDoneStep == ASSUME IInv, MoveDone PROVE IInv'
<1>1. \A i \in DOMAIN sprites : Settled(sprites[i], Air, waterLevel)
  BY AllSettled DEF MoveDone
<1>2. tableUpdate' \in [Worms -> Updates] /\ UNCHANGED <<newRound, byServ>>
  BY MailTyped DEF MoveDone
<1>3. UNCHANGED <<sprites, endTour, currentWorms, blockDeleted, tir, inbox, client>>
  BY DEF MoveDone
<1>4. CASE endTour
  BY <1>1, <1>2, <1>3, <1>4, EndRoundStep DEF MoveDone
<1>5. CASE ~endTour
  <2>1. Leaves("recv") /\ UNCHANGED map
    BY <1>5 DEF MoveDone
  <2>2. currentWorms \in AliveIds
    BY <1>5 DEF MoveDone, Returns, IInv, CurrentInv
  <2> QED
    BY <1>1, <1>2, <1>3, <2>1, <2>2, LeavesStep
<1> QED
  BY <1>4, <1>5

LEMMA RoundTimeOverStep == ASSUME IInv, RoundTimeOver PROVE IInv'
<1>1. \A i \in DOMAIN sprites : Settled(sprites[i], Air, waterLevel)
  BY DEF RoundTimeOver, IInv, RestInv, WaitsFor
<1>2. tableUpdate' \in [Worms -> Updates] /\ UNCHANGED <<newRound, byServ>>
  BY MailTyped DEF RoundTimeOver
<1> QED
  BY <1>1, <1>2, EndRoundStep DEF RoundTimeOver

LEMMA RiseDoneStep == ASSUME IInv, RiseDone PROVE IInv'
<1>1. \A i \in DOMAIN sprites : Settled(sprites[i], Air, waterLevel)
  BY AllSettled DEF RiseDone
<1>2. tableUpdate' \in [Worms -> Updates] /\ UNCHANGED <<newRound, byServ>>
  BY MailTyped DEF RiseDone
<1> QED
  BY <1>1, <1>2, LeavesStep DEF RiseDone

-----------------------------------------------------------------------------
(* The messages of the clients *)

(* The room waits: everything is settled and the worm that plays is alive. *)
LEMMA Waiting ==
  ASSUME IInv, then \in {"recv", "choose"}
  PROVE  /\ sprites \in Seq(Sprites) /\ Len(sprites) \in Nat /\ DOMAIN sprites = 1 .. Len(sprites)
         /\ \A i \in DOMAIN sprites : /\ sprites[i] \in Sprites /\ Sound(sprites[i], Space)
                                      /\ Settled(sprites[i], Air, waterLevel)
         /\ t = 0 /\ k = 0 /\ ~isMovement
BY Elements DEF IInv, SpriteInv, RestInv, WaitsFor

(* A message is read.                                                      *)
LEMMA Reading ==
  ASSUME IInv, NEW type, Receives(type)
  PROVE  /\ then = "recv" /\ Received \in Steps \cup Shots /\ Received.type = type
         /\ inbox' \in Seq(Steps \cup Shots)
BY ReadQueue DEF Receives, Received, IInv, MailInv

(* A worm stepped to a cell where it may be.                               *)
LEMMA SteppedFacts ==
  ASSUME NEW s \in Sprites, NEW c \in Space, Sound(s, Space), s.kind = "lombric"
  PROVE  LET r == [s EXCEPT !.x = c[1], !.y = c[2]]
         IN  /\ r \in Sprites /\ Sound(r, Space)
             /\ r.kind = s.kind /\ r.id = s.id /\ r.vie = s.vie
<1> DEFINE r == [s EXCEPT !.x = c[1], !.y = c[2]]
<1>1. c[1] \in Int /\ c[2] \in Int /\ c = <<c[1], c[2]>>
  BY BoardAssumption, SpaceOnMap DEF Cells
<1>2. /\ r \in Sprites /\ r.kind = s.kind /\ r.id = s.id /\ r.vie = s.vie /\ r.mv = s.mv
      /\ r.x = c[1] /\ r.y = c[2]
  BY <1>1 DEF Sprites
<1> HIDE DEF r
<1>3. Cell(r) = c
  BY <1>1, <1>2 DEF Cell
<1>4. Sound(r, Space)
  BY <1>2, <1>3 DEF Sound
<1> QED
  BY <1>2, <1>4 DEF r

(* The room makes a move without looking at its map: the air of the client *)
(* is air for the room, too, unless the client has strayed.                *)
LEMMA HandleMoveStep == ASSUME IInv, HandleMove PROVE IInv'
<1> DEFINE mine == {i \in DOMAIN sprites : sprites[i].id = Received.id}
           to == Received.to
<1>1. /\ then = "recv" /\ Received \in Steps \cup Shots /\ Received.type = "POS_LOMB_S"
      /\ inbox' \in Seq(Steps \cup Shots)
  BY Reading DEF HandleMove
<1>2. Received.id \in Worms /\ to \in Space
  BY <1>1 DEF Steps, Shots
<1>3. /\ sprites \in Seq(Sprites) /\ Len(sprites) \in Nat /\ DOMAIN sprites = 1 .. Len(sprites)
      /\ \A i \in DOMAIN sprites : /\ sprites[i] \in Sprites /\ Sound(sprites[i], Space)
                                   /\ Settled(sprites[i], Air, waterLevel)
      /\ t = 0 /\ k = 0 /\ ~isMovement
  BY <1>1, Waiting
<1>4. /\ UNCHANGED <<light, solid, waterLevel, endTour, currentWorms, blockDeleted, tir>>
      /\ UNCHANGED <<mur, pos, tour, flying, deleted, strayed, newRound, tableUpdate, byServ>>
  BY DEF HandleMove, map, client, mail
<1>5. Air' = Air /\ Space' = Space
  BY <1>4, SpaceSame
<1>6. currentWorms \in AliveIds
  BY <1>1 DEF IInv, CurrentInv
<1>7. CASE /\ \E i \in mine : sprites' = [sprites EXCEPT ![i].x = to[1], ![i].y = to[2]]
           /\ Update("moved")
  <2>1. PICK i \in mine : sprites' = [sprites EXCEPT ![i].x = to[1], ![i].y = to[2]]
    BY <1>7
  <2> DEFINE r == [sprites[i] EXCEPT !.x = to[1], !.y = to[2]]
  <2>2. i \in DOMAIN sprites /\ sprites[i].id # 0 /\ sprites[i] \in Sprites
    BY <1>2, <1>3, Placed
  <2>3. sprites[i].kind = "lombric"
    BY <1>3, <2>2 DEF Sound
  <2>4. /\ r \in Sprites /\ Sound(r, Space)
        /\ r.kind = sprites[i].kind /\ r.id = sprites[i].id /\ r.vie = sprites[i].vie
    BY <1>2, <1>3, <2>2, <2>3, SteppedFacts
  <2>5. sprites' = [sprites EXCEPT ![i] = r]
    BY <2>1, <2>2, <1>3
  <2> HIDE DEF r, mine, to
  <2>6. /\ sprites' \in Seq(Sprites) /\ DOMAIN sprites' = DOMAIN sprites /\ Len(sprites') = Len(sprites)
        /\ \A j \in DOMAIN sprites : sprites'[j] = IF j = i THEN r ELSE sprites[j]
    BY <1>3, <2>2, <2>4, <2>5
  <2>7. t' = 0 /\ k' = 1 /\ isMovement' = FALSE /\ then' = "moved"
    BY <1>7 DEF Update
  <2>8. \A j \in DOMAIN sprites' : sprites'[j] \in Sprites /\ Sound(sprites'[j], Space)
    BY <1>3, <2>4, <2>6
  <2>9. \A j \in DOMAIN sprites : /\ sprites'[j].kind = sprites[j].kind /\ sprites'[j].id = sprites[j].id
                                  /\ sprites'[j].vie = sprites[j].vie
    BY <2>4, <2>6
  <2>10. TypeOK'
    <3>1. \A j \in DOMAIN sprites' : /\ sprites'[j].kind \in {"lombric", "projectile", "box"}
                                     /\ sprites'[j].id \in Worms \cup {0}
                                     /\ sprites'[j].vie <= MaxVie \/ sprites'[j].vie <= InitVie
      BY <2>8 DEF Sprites, Kinds, Sound
    <3>2. t' \in Nat /\ k' \in 0 .. Len(sprites') + 1
      BY <1>3, <2>6, <2>7
    <3>3. isMovement' \in BOOLEAN /\ then' \in {"moved"}
      BY <2>7
    <3> QED
      BY <1>4, <3>1, <3>2, <3>3 DEF IInv, TypeOK
  <2>11. SpriteInv'
    BY <1>5, <2>6, <2>8 DEF SpriteInv
  <2>12. WallInv'
    BY <1>4 DEF IInv, WallInv, WallsKnown
  <2>13. MailInv'
    BY <1>1, <1>4, <1>5 DEF IInv, MailInv, Steps, Rounds, Reports, Updates
  <2>14. RestInv'
    <3>1. \A j \in DOMAIN sprites' : ~(j < k')
      BY <1>3, <2>6, <2>7
    <3> QED
      BY <2>7, <3>1 DEF RestInv, WaitsFor
  <2>15. CurrentInv'
    <3>1. AliveIds' = AliveIds
      BY <2>6, <2>9 DEF AliveIds
    <3>2. \A j \in DOMAIN sprites' : sprites'[j].kind # "projectile" /\ (sprites'[j].id # 0 => sprites'[j].vie > 0)
      BY <1>3, <2>6, <2>9 DEF Settled
    <3> QED
      BY <1>4, <1>6, <2>7, <3>1, <3>2 DEF CurrentInv
  <2> QED
    BY <2>10, <2>11, <2>12, <2>13, <2>14, <2>15 DEF IInv
<1>8. CASE then' = "moved" /\ k' = Len(sprites) + 1 /\ UNCHANGED <<t, isMovement, sprites>>
  <2>1. TypeOK'
    <3>1. k' \in 0 .. Len(sprites') + 1
      BY <1>3, <1>8
    <3>2. then' \in {"moved"}
      BY <1>8
    <3> QED
      BY <1>4, <1>8, <3>1, <3>2 DEF IInv, TypeOK
  <2>2. SpriteInv' /\ WallInv'
    BY <1>4, <1>5, <1>8 DEF IInv, SpriteInv, WallInv, WallsKnown
  <2>3. MailInv'
    BY <1>1, <1>4, <1>5 DEF IInv, MailInv, Steps, Rounds, Reports, Updates
  <2>4. RestInv'
    <3>1. k' > 0
      BY <1>3, <1>8
    <3>2. \A j \in DOMAIN sprites' : Settled(sprites'[j], Air', waterLevel')
      BY <1>3, <1>4, <1>5, <1>8
    <3> QED
      BY <1>8, <3>1, <3>2 DEF RestInv, WaitsFor
  <2>5. CurrentInv'
    <3>1. AliveIds' = AliveIds
      BY <1>8 DEF AliveIds
    <3>2. \A j \in DOMAIN sprites' : sprites'[j].kind # "projectile" /\ (sprites'[j].id # 0 => sprites'[j].vie > 0)
      BY <1>3, <1>8 DEF Settled
    <3> QED
      BY <1>4, <1>6, <1>8, <3>1, <3>2 DEF CurrentInv
  <2> QED
    BY <2>1, <2>2, <2>3, <2>4, <2>5 DEF IInv
<1> QED
  BY <1>7, <1>8 DEF HandleMove

(* The weapons: a projectile that flies off, or worms that are hit.        *)
LEMMA FiredFacts ==
  ASSUME sprites \in Seq(Sprites), \A i \in DOMAIN sprites : Sound(sprites[i], Space),
         currentWorms \in AliveIds, NEW shot \in Shots
  PROVE  /\ Fired(shot) \in Seq(Sprites)
         /\ \A i \in DOMAIN Fired(shot) : Sound(Fired(shot)[i], Space)
<1>1. /\ Len(sprites) \in Nat /\ DOMAIN sprites = 1 .. Len(sprites)
      /\ \A i \in DOMAIN sprites : sprites[i] \in Sprites /\ Sound(sprites[i], Space)
  BY Elements
<1>2. shot.speed[1] \in Int /\ shot.speed[2] \in Int
  BY BoardAssumption DEF Shots
<1>3. Shooter \in DOMAIN sprites
  <2>1. \E i \in DOMAIN sprites : sprites[i].id = currentWorms
    BY DEF AliveIds
  <2> QED
    BY <2>1 DEF Shooter
<1>4. CASE shot.weapon = "LanceMissile"
  <2> DEFINE c == <<sprites[Shooter].x, sprites[Shooter].y - 1>>
             p == Projectile(c, shot.speed)
             f == [x |-> c[1], y |-> c[2], vx |-> shot.speed[1], vy |-> shot.speed[2], t0 |-> 0]
  <2>1. c[1] \in Int /\ c[2] \in Int
    BY <1>1, <1>3 DEF Sprites
  <2> HIDE DEF c
  <2>2. f \in Flights
    BY <1>2, <2>1 DEF Flights
  <2>3. f # Still
    BY <2>2, FlightMoves
  <2>4. p = [kind |-> "projectile", id |-> 0, x |-> c[1], y |-> c[2], vie |-> 1, mv |-> f]
    BY DEF Projectile
  <2> HIDE DEF f
  <2>5. p \in Sprites
    BY <2>1, <2>2, <2>4 DEF Sprites, Kinds
  <2>6. Sound(p, Space)
    BY <2>3, <2>4, BoardAssumption DEF Sound
  <2>7. Fired(shot) = Append(sprites, p)
    BY <1>4 DEF Fired, c
  <2> HIDE DEF p
  <2>8. /\ Fired(shot) \in Seq(Sprites) /\ DOMAIN Fired(shot) = 1 .. Len(sprites) + 1
        /\ \A i \in 1 .. Len(sprites) : Fired(shot)[i] = sprites[i]
        /\ Fired(shot)[Len(sprites) + 1] = p
    BY <2>5, <2>7, WriteQueue
  <2>9. \A i \in DOMAIN Fired(shot) : i \in 1 .. Len(sprites) \/ i = Len(sprites) + 1
    BY <1>1, <2>8
  <2> QED
    BY <1>1, <2>6, <2>8, <2>9
<1>5. CASE shot.weapon = "Batte"
  <2> DEFINE f(i) == [x |-> sprites[i].x, y |-> sprites[i].y, vx |-> shot.speed[1],
                      vy |-> shot.speed[2], t0 |-> 0]
             b(i) == [sprites[i] EXCEPT !.mv = f(i)]
             q == [i \in DOMAIN sprites |-> IF Hit(i) THEN AddLife(b(i), -BatLoss) ELSE sprites[i]]
  <2>1. Fired(shot) = q
    BY <1>5 DEF Fired
  <2>2. -BatLoss \in Int
    BY BoardAssumption
  <2>3. ASSUME NEW i \in DOMAIN sprites
        PROVE  q[i] \in Sprites /\ Sound(q[i], Space)
    <3>1. sprites[i] \in Sprites /\ Sound(sprites[i], Space)
      BY <1>1
    <3>2. CASE ~Hit(i)
      BY <3>1, <3>2
    <3>3. CASE Hit(i)
      <4>1. f(i) \in Flights
        BY <1>2, <3>1 DEF Sprites, Flights
      <4>2. f(i) # Still
        BY <4>1, FlightMoves
      <4> HIDE DEF f
      <4>3. /\ b(i) \in Sprites /\ b(i).mv # Still /\ b(i).kind = sprites[i].kind /\ b(i).id = sprites[i].id
            /\ b(i).vie = sprites[i].vie /\ b(i).x = sprites[i].x /\ b(i).y = sprites[i].y
        BY <3>1, <4>1, <4>2 DEF Sprites
      <4> HIDE DEF b
      <4>4. Sound(b(i), Space)
        BY <3>1, <4>3 DEF Sound, Cell
      <4>5. AddLife(b(i), -BatLoss) \in Sprites /\ Sound(AddLife(b(i), -BatLoss), Space)
        BY <2>2, <4>3, <4>4, AddLifeFacts, AddLifeSound
      <4> QED
        BY <3>3, <4>5
    <3> QED
      BY <3>2, <3>3
  <2>4. DOMAIN q = 1 .. Len(sprites) /\ q = [i \in 1 .. Len(sprites) |-> q[i]]
    BY <1>1
  <2> HIDE DEF q
  <2>5. q \in Seq(Sprites)
    BY <1>1, <2>3, <2>4, Mapped
  <2> QED
    BY <1>1, <2>1, <2>3, <2>4, <2>5
<1>6. CASE shot.weapon = "PassTour"
  <2>1. Fired(shot) = sprites
    BY <1>6 DEF Fired
  <2> QED
    BY <1>1, <2>1
<1> QED
  BY <1>4, <1>5, <1>6 DEF Shots

(* The room shoots: only sprites change.                                   *)
LEMMA HandleShootStep == ASSUME IInv, HandleShoot PROVE IInv'
<1>1. /\ then = "recv" /\ Received \in Steps \cup Shots /\ Received.type = "SHOOT"
      /\ inbox' \in Seq(Steps \cup Shots)
  BY Reading DEF HandleShoot
<1>2. Received \in Shots
  BY <1>1 DEF Steps
<1>3. /\ sprites \in Seq(Sprites)
      /\ \A i \in DOMAIN sprites : Sound(sprites[i], Space)
  BY <1>1, Waiting
<1>4. currentWorms \in AliveIds
  BY <1>1 DEF IInv, CurrentInv
<1>5. sprites' \in Seq(Sprites) /\ \A i \in DOMAIN sprites' : Sound(sprites'[i], Space)
  BY <1>2, <1>3, <1>4, FiredFacts DEF HandleShoot
<1>6. /\ UNCHANGED <<light, solid, waterLevel, endTour, currentWorms>> /\ blockDeleted' = {}
      /\ UNCHANGED <<mur, pos, tour, flying, deleted, strayed, newRound, tableUpdate, byServ>>
      /\ t' = 0 /\ k' = 1 /\ isMovement' = FALSE /\ then' = "shot" /\ tir' = Received.weapon
  BY DEF HandleShoot, Update, map, client, mail
<1>7. Air' = Air /\ Space' = Space
  BY <1>6, SpaceSame
<1>8. /\ Len(sprites') \in Nat /\ DOMAIN sprites' = 1 .. Len(sprites')
      /\ \A i \in DOMAIN sprites' : sprites'[i] \in Sprites
  BY <1>5, Elements
<1>9. TypeOK'
  <2>1. \A i \in DOMAIN sprites' : /\ sprites'[i].kind \in {"lombric", "projectile", "box"}
                                   /\ sprites'[i].id \in Worms \cup {0}
                                   /\ sprites'[i].vie <= MaxVie \/ sprites'[i].vie <= InitVie
    BY <1>5, <1>8 DEF Sprites, Kinds, Sound
  <2>2. t' \in Nat /\ k' \in 0 .. Len(sprites') + 1
    BY <1>6, <1>8
  <2>3. isMovement' \in BOOLEAN /\ then' \in {"shot"} /\ tir' \in {"LanceMissile", "Batte", "PassTour"}
    BY <1>2, <1>6 DEF Shots
  <2> QED
    BY <1>6, <2>1, <2>2, <2>3 DEF IInv, TypeOK
<1>10. SpriteInv'
  BY <1>5, <1>7 DEF SpriteInv
<1>11. WallInv'
  BY <1>6 DEF IInv, WallInv, WallsKnown
<1>12. MailInv'
  BY <1>1, <1>6, <1>7 DEF IInv, MailInv, Steps, Rounds, Reports, Updates
<1>13. RestInv'
  <2>1. \A i \in DOMAIN sprites' : ~(i < k')
    BY <1>6, <1>8
  <2> QED
    BY <1>6, <2>1 DEF RestInv, WaitsFor
<1>14. CurrentInv'
  BY <1>6 DEF CurrentInv
<1> QED
  BY <1>9, <1>10, <1>11, <1>12, <1>13, <1>14 DEF IInv

(* The next round.                                                         *)
LEMMA ChooseStep == ASSUME IInv, Choose PROVE IInv'
<1>1. then = "choose"
  BY DEF Choose
<1>2. /\ sprites \in Seq(Sprites) /\ Len(sprites) \in Nat /\ DOMAIN sprites = 1 .. Len(sprites)
      /\ \A i \in DOMAIN sprites : /\ sprites[i] \in Sprites /\ Sound(sprites[i], Space)
                                   /\ Settled(sprites[i], Air, waterLevel)
      /\ t = 0 /\ k = 0 /\ ~isMovement
  BY <1>1, Waiting
<1>3. /\ UNCHANGED <<light, solid, waterLevel, t, k, isMovement, blockDeleted, tir, inbox>>
      /\ UNCHANGED <<mur, pos, tour, flying, deleted, strayed, tableUpdate, byServ>>
  BY DEF Choose, map, client
<1>4. Air' = Air /\ Space' = Space
  BY <1>3, SpaceSame
<1>5. WallInv'
  BY <1>3 DEF IInv, WallInv, WallsKnown
<1>6. AliveIds \subseteq Worms
  BY <1>2 DEF AliveIds, Sprites
<1>7. CASE \E u, v \in AliveIds : u # v
  <2>1. /\ currentWorms' \in AliveIds /\ endTour' = FALSE /\ then' = "recv"
        /\ newRound' = [w \in Worms |-> [id |-> currentWorms', level |-> waterLevel]]
    BY <1>7 DEF Choose, NextRound
  <2>2. \/ UNCHANGED sprites
        \/ \E c \in BoxCells : sprites' = Append(sprites, HealthBox(c))
    BY <1>7 DEF Choose
  <2>3. /\ sprites' \in Seq(Sprites)
        /\ \A i \in DOMAIN sprites' : Sound(sprites'[i], Space) /\ Settled(sprites'[i], Air, waterLevel)
        /\ AliveIds \subseteq AliveIds'
    <3>1. CASE UNCHANGED sprites
      BY <1>2, <3>1 DEF AliveIds
    <3>2. ASSUME NEW c \in BoxCells, sprites' = Append(sprites, HealthBox(c))
          PROVE  /\ sprites' \in Seq(Sprites)
                 /\ \A i \in DOMAIN sprites' : Sound(sprites'[i], Space) /\ Settled(sprites'[i], Air, waterLevel)
                 /\ AliveIds \subseteq AliveIds'
      <4> DEFINE b == HealthBox(c)
      <4>1. c \in Air /\ c[1] \in Int /\ c[2] \in Int /\ c = <<c[1], c[2]>>
        BY BoardAssumption DEF BoxCells, Air, Cells
      <4>2. b = [kind |-> "box", id |-> 0, x |-> c[1], y |-> c[2], vie |-> 1, mv |-> Still]
        BY DEF HealthBox
      <4> HIDE DEF b
      <4>3. b \in Sprites
        BY <4>1, <4>2 DEF Sprites, Kinds
      <4>4. Sound(b, Space)
        <5>1. Cell(b) = c
          BY <4>1, <4>2 DEF Cell
        <5>2. b.vie <= InitVie
          BY <4>2, BoardAssumption
        <5> QED
          BY <4>1, <4>2, <5>1, <5>2, SpaceOnMap DEF Sound
      <4>5. Settled(b, Air, waterLevel)
        BY <4>2 DEF Settled
      <4>6. /\ sprites' \in Seq(Sprites) /\ DOMAIN sprites' = 1 .. Len(sprites) + 1
            /\ \A i \in 1 .. Len(sprites) : sprites'[i] = sprites[i]
            /\ sprites'[Len(sprites) + 1] = b
        <5>1. sprites' = Append(sprites, b)
          BY <3>2 DEF b
        <5>2. sprites \in Seq(Sprites)
          BY <1>2
        <5> QED
          BY <4>3, <5>1, <5>2, WriteQueue
      <4>7. \A i \in DOMAIN sprites' : i \in 1 .. Len(sprites) \/ i = Len(sprites) + 1
        BY <1>2, <4>6
      <4>8. \A i \in DOMAIN sprites' : Sound(sprites'[i], Space) /\ Settled(sprites'[i], Air, waterLevel)
        BY <1>2, <4>4, <4>5, <4>6, <4>7
      <4>9. DOMAIN sprites \subseteq DOMAIN sprites'
        BY <1>2, <4>6
      <4>10. AliveIds \subseteq AliveIds'
        BY <1>2, <4>6, <4>9 DEF AliveIds
      <4> QED
        BY <4>6, <4>8, <4>10
    <3> QED
      BY <2>2, <3>1, <3>2
  <2>4. Len(sprites') \in Nat /\ \A i \in DOMAIN sprites' : sprites'[i] \in Sprites
    BY <2>3, Elements
  <2>5. TypeOK'
    <3>1. \A i \in DOMAIN sprites' : /\ sprites'[i].kind \in {"lombric", "projectile", "box"}
                                     /\ sprites'[i].id \in Worms \cup {0}
                                     /\ sprites'[i].vie <= MaxVie \/ sprites'[i].vie <= InitVie
      BY <2>3, <2>4 DEF Sprites, Kinds, Sound
    <3>2. k' \in 0 .. Len(sprites') + 1
      BY <1>2, <1>3, <2>4
    <3>3. endTour' \in BOOLEAN /\ then' \in {"recv"} /\ currentWorms' \in Worms
      BY <1>6, <2>1
    <3> QED
      BY <1>3, <3>1, <3>2, <3>3 DEF IInv, TypeOK
  <2>6. SpriteInv'
    BY <1>4, <2>3 DEF SpriteInv
  <2>7. MailInv'
    <3>1. [id |-> currentWorms', level |-> waterLevel] \in Rounds
      BY <1>6, <2>1 DEF Rounds, IInv, TypeOK
    <3>2. newRound' \in [Worms -> Rounds \cup {Nothing}]
      BY <2>1, <3>1
    <3> QED
      BY <1>3, <1>4, <3>2 DEF IInv, MailInv, Steps, Rounds, Reports, Updates
  <2>8. RestInv'
    BY <1>2, <1>3, <1>4, <2>1, <2>3 DEF RestInv, WaitsFor
  <2>9. CurrentInv'
    BY <2>1, <2>3 DEF CurrentInv
  <2> QED
    BY <1>5, <2>5, <2>6, <2>7, <2>8, <2>9 DEF IInv
<1>8. CASE ~ \E u, v \in AliveIds : u # v
  <2>1. then' = "over" /\ UNCHANGED <<currentWorms, endTour, sprites, newRound>>
    BY <1>8 DEF Choose
  <2>2. TypeOK'
    BY <1>3, <2>1 DEF IInv, TypeOK
  <2>3. SpriteInv'
    BY <1>4, <2>1 DEF IInv, SpriteInv
  <2>4. MailInv'
    BY <1>3, <1>4, <2>1 DEF IInv, MailInv, Steps, Rounds, Reports, Updates
  <2>5. RestInv'
    BY <1>2, <1>3, <1>4, <2>1 DEF RestInv, WaitsFor
  <2>6. CurrentInv'
    BY <2>1 DEF CurrentInv
  <2> QED
    BY <1>5, <2>2, <2>3, <2>4, <2>5, <2>6 DEF IInv
<1> QED
  BY <1>7, <1>8

-----------------------------------------------------------------------------
(* The clients *)

(* A set of natural numbers that is not empty has a least element.         *)
LEMMA Least ==
  ASSUME NEW T \in SUBSET Nat, T # {}
  PROVE  \E m \in T : \A n \in T : m <= n
<1> DEFINE R == OpToRel(<, Nat)
<1>1. \A m, n \in Nat : n < m => <<n, m>> \in R
  BY DEF OpToRel
<1>2. IsWellFoundedOn(R, Nat)
  BY NatLessThanWellFounded
<1> HIDE DEF R
<1>3. \E m \in T : \A n \in T : ~(<<n, m>> \in R)
  BY <1>2, WFMin
<1>4. PICK m \in T : \A n \in T : ~(<<n, m>> \in R)
  BY <1>3
<1>5. \A n \in T : ~(n < m)
  BY <1>1, <1>4
<1>6. m \in Nat /\ \A n \in T : n \in Nat
  OBVIOUS
<1>7. \A n \in T : m <= n
  BY <1>5, <1>6
<1> QED
  BY <1>7

(* A worm that steps to a cell comes to rest on the map.                   *)
LEMMA RestOnMap ==
  ASSUME NEW w \in Worms, NEW c \in AirFor(w)
  PROVE  Rest(w, c) \in Cells
<1> DEFINE T == {y \in Nat : y >= c[2] /\ <<c[1], y + 1>> \notin AirFor(w)}
           Foot(d) == /\ d[1] = c[1] /\ d[2] >= c[2]
                      /\ \A y \in c[2] .. d[2] : <<c[1], y>> \in AirFor(w)
                      /\ Below(d) \notin AirFor(w)
<1>1. /\ Height \in Nat \ {0} /\ Width \in Nat /\ AirFor(w) \subseteq Cells
      /\ c[1] \in Nat /\ c[2] \in Nat /\ c[2] <= Height - 1 /\ c = <<c[1], c[2]>>
  BY BoardAssumption DEF AirFor, Cells
<1>2. T \in SUBSET Nat /\ T # {}
  <2>1. <<c[1], Height>> \notin Cells
    BY <1>1 DEF Cells
  <2>2. (Height - 1) + 1 = Height /\ Height - 1 \in Nat
    BY <1>1
  <2>3. Height - 1 \in T
    BY <1>1, <2>1, <2>2
  <2> QED
    BY <2>3
<1>3. PICK m \in T : \A n \in T : m <= n
  BY <1>2, Least
<1>4. \A y \in c[2] .. m : <<c[1], y>> \in AirFor(w)
  <2> SUFFICES ASSUME NEW y \in c[2] .. m PROVE <<c[1], y>> \in AirFor(w)
    OBVIOUS
  <2>1. CASE y = c[2]
    BY <1>1, <2>1
  <2>2. CASE y # c[2]
    <3>1. y - 1 \in Nat /\ y - 1 >= c[2] /\ ~(m <= y - 1) /\ (y - 1) + 1 = y
      BY <1>1, <1>3, <2>2
    <3>2. y - 1 \notin T
      BY <1>3, <3>1
    <3> QED
      BY <3>1, <3>2
  <2> QED
    BY <2>1, <2>2
<1>5. <<c[1], m>> \in Cells /\ Foot(<<c[1], m>>)
  <2>1. m \in Nat /\ m >= c[2] /\ <<c[1], m + 1>> \notin AirFor(w)
    BY <1>3
  <2>2. m \in c[2] .. m
    BY <1>1, <2>1
  <2> HIDE DEF T
  <2>3. <<c[1], m>> \in Cells
    BY <1>1, <1>4, <2>2
  <2> QED
    BY <1>4, <2>1, <2>3 DEF Below
<1>6. (CHOOSE d \in Cells : Foot(d)) \in Cells
  <2> HIDE DEF Foot
  <2> QED
    BY <1>5
<1> QED
  BY <1>6 DEF Rest

(* A client sends a message: what it wrote is a message the room can read. *)
LEMMA SendStep ==
  ASSUME IInv, NEW msg \in (Steps \cup Shots)', inbox' = Append(inbox, msg), strayed => strayed',
         UNCHANGED <<map, sprites, loop, endTour, currentWorms, blockDeleted, tir, mur, flying, deleted, mail>>,
         pos' \in [Worms -> Cells], tour' \in [Worms -> BOOLEAN], strayed' \in BOOLEAN
  PROVE  IInv'
<1>1. SpriteInv' /\ RestInv' /\ CurrentInv' /\ Air' = Air /\ Space \subseteq Space'
  BY RoomKept DEF IInv
<1>2. UNCHANGED <<light, solid, waterLevel, t, k, isMovement, then, newRound, tableUpdate, byServ>>
  BY DEF map, loop, mail
<1>3. TypeOK'
  BY <1>2 DEF IInv, TypeOK
<1>4. WallInv'
  BY <1>2 DEF IInv, WallInv, WallsKnown
<1>5. inbox' \in Seq((Steps \cup Shots)')
  <2>1. Steps \cup Shots \subseteq (Steps \cup Shots)'
    BY <1>1 DEF Steps, Shots
  <2>2. inbox \in Seq((Steps \cup Shots)')
    BY <2>1, Larger DEF IInv, MailInv
  <2> QED
    BY <2>2, WriteQueue
<1>6. MailInv'
  BY <1>2, <1>5 DEF IInv, MailInv, Rounds, Reports, Updates
<1> QED
  BY <1>1, <1>3, <1>4, <1>6 DEF IInv

(* A client moves through what is air for it: what is not air for the room *)
(* is a wall that an explosion of the client removed.                      *)
LEMMA ClientMovesStep == ASSUME IInv, NEW w \in Worms, ClientMoves(w) PROVE IInv'
<1>1. PICK dx \in {-1, 1}, jump \in {0, 1} :
        LET c == <<pos[w][1] + dx, pos[w][2] - jump>>
        IN  /\ c \in AirFor(w)
            /\ pos' = [pos EXCEPT ![w] = Rest(w, c)]
            /\ inbox' = Append(inbox, [type |-> "POS_LOMB_S", id |-> w, to |-> c])
            /\ strayed' = (strayed \/ c \in deleted[w])
  BY DEF ClientMoves
<1> DEFINE c == <<pos[w][1] + dx, pos[w][2] - jump>>
           msg == [type |-> "POS_LOMB_S", id |-> w, to |-> c]
<1>2. /\ c \in AirFor(w) /\ pos' = [pos EXCEPT ![w] = Rest(w, c)] /\ inbox' = Append(inbox, msg)
      /\ strayed' = (strayed \/ c \in deleted[w])
  BY <1>1
<1> HIDE DEF c
<1>3. /\ UNCHANGED <<map, sprites, loop, endTour, currentWorms, blockDeleted, tir, mur, flying, deleted, mail>>
      /\ tour' \in [Worms -> BOOLEAN]
  BY DEF ClientMoves, IInv, TypeOK
<1>4. c \in Space'
  <2>1. Air' = Air
    BY <1>3 DEF map, Air
  <2>2. c \in Cells /\ c \notin mur[w] /\ light \cup solid \subseteq mur[w] \cup deleted[w]
    BY <1>2 DEF AirFor, IInv, WallInv, WallsKnown
  <2>3. c \in deleted[w] \/ c \in Air
    BY <2>2 DEF Air
  <2>4. strayed' \/ c \in Air'
    BY <1>2, <2>1, <2>3
  <2> QED
    BY <2>2, <2>4, SpaceOnMap DEF Space
<1>5. msg \in (Steps \cup Shots)'
  BY <1>4 DEF Steps
<1>6. pos' \in [Worms -> Cells]
  BY <1>2, RestOnMap DEF IInv, TypeOK
<1> HIDE DEF msg
<1>7. strayed' \in BOOLEAN /\ (strayed => strayed')
  BY <1>2
<1> QED
  BY <1>2, <1>3, <1>5, <1>6, <1>7, SendStep

LEMMA ClientShootsStep == ASSUME IInv, NEW w \in Worms, ClientShoots(w) PROVE IInv'
<1>1. PICK weapon \in {"LanceMissile", "Batte", "PassTour"}, v \in Speeds :
        inbox' = Append(inbox, [type |-> "SHOOT", weapon |-> weapon, speed |-> v])
  BY DEF ClientShoots
<1> DEFINE msg == [type |-> "SHOOT", weapon |-> weapon, speed |-> v]
<1>2. msg \in (Steps \cup Shots)'
  BY DEF Shots
<1>3. /\ UNCHANGED <<map, sprites, loop, endTour, currentWorms, blockDeleted, tir, mur, flying, deleted, mail, pos>>
      /\ UNCHANGED strayed
      /\ tour' = [tour EXCEPT ![w] = FALSE]
  BY DEF ClientShoots
<1>4. pos' \in [Worms -> Cells] /\ tour' \in [Worms -> BOOLEAN] /\ strayed' \in BOOLEAN
  BY <1>3 DEF IInv, TypeOK
<1> HIDE DEF msg
<1>5. inbox' = Append(inbox, msg)
  BY <1>1 DEF msg
<1> QED
  BY <1>2, <1>3, <1>4, <1>5, SendStep

LEMMA ClientTimeOverStep == ASSUME IInv, NEW w \in Worms, ClientTimeOver(w) PROVE IInv'
<1>1. /\ UNCHANGED <<map, sprites, loop, endTour, currentWorms, blockDeleted, tir, inbox, mur, pos, mail>>
      /\ UNCHANGED <<flying, deleted, strayed>>
      /\ tour' = [tour EXCEPT ![w] = FALSE]
  BY DEF ClientTimeOver
<1>2. SpriteInv' /\ RestInv' /\ CurrentInv'
  BY <1>1, RoomKept DEF IInv
<1>3. UNCHANGED <<light, solid, waterLevel, t, k, isMovement, then, newRound, tableUpdate, byServ>>
  BY <1>1 DEF map, loop, mail
<1>4. Air' = Air /\ Space' = Space
  BY <1>1, <1>3, SpaceSame
<1>5. tour' \in [Worms -> BOOLEAN]
  BY <1>1 DEF IInv, TypeOK
<1>6. TypeOK'
  BY <1>1, <1>3, <1>5 DEF IInv, TypeOK
<1>7. WallInv' /\ MailInv'
  BY <1>1, <1>3, <1>4 DEF IInv, WallInv, WallsKnown, MailInv, Steps, Rounds, Reports, Updates
<1> QED
  BY <1>2, <1>6, <1>7 DEF IInv

(* A client takes the messages of a shot.                                  *)
LEMMA ClientSimulatesStep == ASSUME IInv, NEW w \in Worms, ClientSimulates(w) PROVE IInv'
<1>1. /\ UNCHANGED <<map, sprites, loop, endTour, currentWorms, blockDeleted, tir, inbox, mur, pos, tour>>
      /\ UNCHANGED <<deleted, strayed, newRound>>
      /\ tableUpdate[w] \notin {Nothing, TooMany}
      /\ tableUpdate' = [tableUpdate EXCEPT ![w] = Nothing]
      /\ byServ' = [byServ EXCEPT ![w] = tableUpdate[w]]
      /\ flying' = [flying EXCEPT ![w] = @ \/ tableUpdate[w].weapon = "LanceMissile"]
  BY DEF ClientSimulates
<1>2. SpriteInv' /\ RestInv' /\ CurrentInv'
  BY <1>1, RoomKept DEF IInv
<1>3. UNCHANGED <<light, solid, waterLevel, t, k, isMovement, then>>
  BY <1>1 DEF map, loop
<1>4. Air' = Air /\ Space' = Space
  BY <1>1, <1>3, SpaceSame
<1>5. flying' \in [Worms -> BOOLEAN]
  BY <1>1 DEF IInv, TypeOK
<1>6. TypeOK'
  BY <1>1, <1>3, <1>5 DEF IInv, TypeOK
<1>7. WallInv'
  BY <1>1, <1>3 DEF IInv, WallInv, WallsKnown
<1>8. tableUpdate' \in [Worms -> Updates] /\ byServ' \in [Worms -> Reports \cup {Nothing}]
  <2>1. tableUpdate \in [Worms -> Updates] /\ byServ \in [Worms -> Reports \cup {Nothing}]
    BY DEF IInv, MailInv
  <2>2. tableUpdate[w] \in Reports /\ Nothing \in Updates
    BY <1>1, <2>1 DEF Updates
  <2> QED
    BY <1>1, <2>1, <2>2
<1>9. MailInv'
  BY <1>1, <1>3, <1>4, <1>8 DEF IInv, MailInv, Steps, Rounds, Reports, Updates
<1> QED
  BY <1>2, <1>6, <1>7, <1>9 DEF IInv

(* A client's own explosion: what it removes is in deleted.                *)
LEMMA ClientExplodesStep == ASSUME IInv, NEW w \in Worms, ClientExplodes(w) PROVE IInv'
<1>1. PICK c \in Impacts :
        LET gone == Disc(c) \cap mur[w] \cap Ground
        IN  /\ mur' = [mur EXCEPT ![w] = @ \ gone]
            /\ deleted' = [deleted EXCEPT ![w] = @ \cup gone]
            /\ \E d \in {pos[w]} \cup (IF tour[w] THEN Thrown \ (mur[w] \ gone) ELSE {}) :
                 pos' = [pos EXCEPT ![w] = d]
  BY DEF ClientExplodes
<1> DEFINE gone == Disc(c) \cap mur[w] \cap Ground
<1>2. /\ UNCHANGED <<map, sprites, loop, endTour, currentWorms, blockDeleted, tir, inbox, tour, strayed, mail>>
      /\ flying' = [flying EXCEPT ![w] = FALSE]
      /\ mur' = [mur EXCEPT ![w] = @ \ gone]
      /\ deleted' = [deleted EXCEPT ![w] = @ \cup gone]
  BY <1>1 DEF ClientExplodes
<1>3. gone \subseteq Ground
  OBVIOUS
<1> HIDE DEF gone
<1>4. SpriteInv' /\ RestInv' /\ CurrentInv'
  BY <1>2, RoomKept DEF IInv
<1>5. UNCHANGED <<light, solid, waterLevel, t, k, isMovement, then, newRound, tableUpdate, byServ>>
  BY <1>2 DEF map, loop, mail
<1>6. Air' = Air /\ Space' = Space
  BY <1>2, <1>5, SpaceSame
<1>7. pos' \in [Worms -> Cells]
  <2>1. pos \in [Worms -> Cells] /\ pos[w] \in Cells /\ Thrown \subseteq Cells
    BY BoardAssumption DEF IInv, TypeOK
  <2>2. PICK d \in Cells : pos' = [pos EXCEPT ![w] = d]
    BY <1>1, <2>1
  <2> QED
    BY <2>1, <2>2
<1>8. /\ mur' \in [Worms -> SUBSET (Ground \cup Rock)] /\ flying' \in [Worms -> BOOLEAN]
      /\ deleted' \in [Worms -> SUBSET Ground]
  BY <1>2, <1>3 DEF IInv, TypeOK
<1>9. TypeOK'
  BY <1>2, <1>5, <1>7, <1>8 DEF IInv, TypeOK
<1>10. \A u \in Worms : mur[u] \cup deleted[u] \subseteq mur'[u] \cup deleted'[u]
  BY <1>2 DEF IInv, TypeOK
<1>11. WallInv'
  BY <1>2, <1>5, <1>10 DEF IInv, WallInv, WallsKnown
<1>12. MailInv'
  BY <1>2, <1>5, <1>6 DEF IInv, MailInv, Steps, Rounds, Reports, Updates
<1> QED
  BY <1>4, <1>9, <1>11, <1>12 DEF IInv

(* A client applies what the room told it, once it has put back what its   *)
(* own explosions removed.                                                 *)
LEMMA SynchronizeStep == ASSUME IInv, NEW w \in Worms, Synchronize(w) PROVE IInv'
<1> DEFINE gone == Row(newRound[w].level) \cup IF byServ[w] = Nothing THEN {} ELSE byServ[w].blocks
<1>1. /\ UNCHANGED <<map, sprites, loop, endTour, currentWorms, blockDeleted, tir, inbox>>
      /\ UNCHANGED <<flying, strayed, tableUpdate>>
      /\ tour' = [tour EXCEPT ![w] = newRound[w].id = w]
      /\ mur' = [mur EXCEPT ![w] = (@ \cup deleted[w]) \ gone]
      /\ deleted' = [deleted EXCEPT ![w] = {}]
      /\ newRound' = [newRound EXCEPT ![w] = Nothing]
      /\ byServ' = [byServ EXCEPT ![w] = Nothing]
      /\ newRound[w] # Nothing
  BY DEF Synchronize
<1>2. SpriteInv' /\ RestInv' /\ CurrentInv'
  BY <1>1, RoomKept DEF IInv
<1>3. UNCHANGED <<light, solid, waterLevel, t, k, isMovement, then>>
  BY <1>1 DEF map, loop
<1>4. newRound[w] \in Rounds /\ byServ[w] \in Reports \cup {Nothing}
  BY <1>1 DEF IInv, MailInv
<1>5. gone \cap (light \cup solid) = {}
  <2>1. Row(newRound[w].level) \cap (light \cup solid) = {}
    <3> SUFFICES ASSUME NEW c \in light \cup solid, c[2] = Height - newRound[w].level PROVE FALSE
      BY DEF Row
    <3>1. c[2] < Height - waterLevel
      BY DEF IInv, WallInv, WallsKnown
    <3>2. Height \in Int /\ waterLevel \in Nat /\ c[2] \in Int
      <4>1. Height \in Nat /\ waterLevel \in Nat /\ c \in Cells
        BY BoardAssumption DEF IInv, TypeOK
      <4>2. c[2] \in 0 .. Height - 1
        BY <4>1 DEF Cells
      <4> QED
        BY <4>1, <4>2
    <3>3. newRound[w].level \in 0 .. waterLevel
      BY <1>4 DEF Rounds
    <3> QED
      BY <3>1, <3>2, <3>3
  <2>2. ASSUME byServ[w] # Nothing PROVE byServ[w].blocks \cap (light \cup solid) = {}
    <3>1. byServ[w].blocks \subseteq Ground \ light
      BY <1>4, <2>2 DEF Reports
    <3>2. solid \subseteq Rock /\ Rock \cap Ground = {}
      BY BoardAssumption DEF IInv, WallInv, WallsKnown
    <3> QED
      BY <3>1, <3>2
  <2> QED
    BY <2>1, <2>2
<1> HIDE DEF gone
<1>6. /\ mur' \in [Worms -> SUBSET (Ground \cup Rock)] /\ deleted' \in [Worms -> SUBSET Ground]
      /\ \A u \in Worms : light \cup solid \subseteq mur'[u] \cup deleted'[u]
  <2>1. /\ mur \in [Worms -> SUBSET (Ground \cup Rock)] /\ deleted \in [Worms -> SUBSET Ground]
        /\ \A u \in Worms : light \cup solid \subseteq mur[u] \cup deleted[u]
    BY DEF IInv, TypeOK, WallInv, WallsKnown
  <2>2. light \cup solid \subseteq (mur[w] \cup deleted[w]) \ gone
    BY <1>5, <2>1
  <2> QED
    BY <1>1, <2>1, <2>2
<1>7. pos' \in [Worms -> Cells]
  <2>1. CASE byServ[w] = Nothing
    BY <2>1 DEF Synchronize, IInv, TypeOK
  <2>2. CASE byServ[w] # Nothing
    <3> DEFINE worms == byServ[w].worms
               at == (CHOOSE d \in worms : d.id = w).at
    <3>1. pos' = [u \in Worms |-> IF u = w /\ \E d \in worms : d.id = w THEN at ELSE pos[u]]
      BY <2>2 DEF Synchronize
    <3>2. worms \subseteq [id : Worms, at : Cells]
      BY <1>4, <2>2 DEF Reports
    <3>3. (\E d \in worms : d.id = w) => at \in Cells
      BY <3>2
    <3>4. \A u \in Worms : pos[u] \in Cells
      BY DEF IInv, TypeOK
    <3> HIDE DEF worms, at
    <3> QED
      BY <3>1, <3>3, <3>4
  <2> QED
    BY <2>1, <2>2
<1>8. tour' \in [Worms -> BOOLEAN]
  <2>1. (newRound[w].id = w) \in BOOLEAN
    OBVIOUS
  <2> QED
    BY <1>1, <2>1 DEF IInv, TypeOK
<1>9. Air' = Air /\ Space' = Space
  BY <1>1, <1>3, SpaceSame
<1>10. TypeOK'
  BY <1>1, <1>3, <1>6, <1>7, <1>8 DEF IInv, TypeOK
<1>11. WallInv'
  BY <1>1, <1>3, <1>6 DEF IInv, WallInv, WallsKnown
<1>12. MailInv'
  <2>1. newRound' \in [Worms -> Rounds \cup {Nothing}] /\ byServ' \in [Worms -> Reports \cup {Nothing}]
    BY <1>1 DEF IInv, MailInv
  <2> QED
    BY <1>1, <1>3, <1>9, <2>1 DEF IInv, MailInv, Steps, Rounds, Reports, Updates
<1> QED
  BY <1>2, <1>10, <1>11, <1>12 DEF IInv

-----------------------------------------------------------------------------
(* The theorems *)

(* At the start every worm stands on a wall, above the water, and the      *)
(* clients have the room's map.                                            *)
LEMMA InitInv == ASSUME Init PROVE IInv
<1>1. /\ light = Ground /\ solid = Rock /\ waterLevel = 0
      /\ sprites = [w \in Worms |-> Lombric(w)]
      /\ t = 0 /\ k = 0 /\ isMovement = FALSE /\ then = "recv"
      /\ endTour = FALSE /\ currentWorms = 1 /\ blockDeleted = {}
      /\ inbox = <<>>
      /\ mur = [w \in Worms |-> Ground \cup Rock] /\ pos = Place
      /\ tour = [w \in Worms |-> w = 1] /\ tir = "PassTour"
      /\ flying = [w \in Worms |-> FALSE] /\ deleted = [w \in Worms |-> {}] /\ strayed = FALSE
      /\ newRound = [w \in Worms |-> Nothing]
      /\ tableUpdate = [w \in Worms |-> Nothing] /\ byServ = [w \in Worms |-> Nothing]
  BY DEF Init
<1>2. /\ Height \in Nat \ {0} /\ Ground \subseteq Cells /\ Rock \subseteq Cells \ Ground
      /\ InitVie \in Nat \ {0}
      /\ \A w \in Worms : <<Place[w][1], Place[w][2] + 1>> \in Ground \cup Rock
  BY BoardAssumption
<1>3. Air = Cells \ (Ground \cup Rock) /\ Space = Air
  BY <1>1 DEF Air, Space
<1>4. ASSUME NEW w \in Worms
      PROVE  /\ Lombric(w) \in Sprites /\ Sound(Lombric(w), Space) /\ Settled(Lombric(w), Air, waterLevel)
             /\ Lombric(w).id = w
  <2> DEFINE s == Lombric(w)
  <2>1. /\ w \in Nat /\ w # 0 /\ Place[w] \in Air /\ Place[w][1] \in Int /\ Place[w][2] \in Int
        /\ Place[w] = <<Place[w][1], Place[w][2]>>
    BY <1>3, Placed
  <2>2. s = [kind |-> "lombric", id |-> w, x |-> Place[w][1], y |-> Place[w][2], vie |-> InitVie, mv |-> Still]
    BY DEF Lombric
  <2> HIDE DEF s
  <2>3. Cell(s) = Place[w] /\ Below(Cell(s)) = <<Place[w][1], Place[w][2] + 1>>
    BY <2>1, <2>2 DEF Cell, Below
  <2>4. Below(Cell(s)) \notin Air /\ Place[w][2] + 1 \in 0 .. Height - 1
    <3>1. <<Place[w][1], Place[w][2] + 1>> \in Ground \cup Rock
      BY <1>2
    <3>2. <<Place[w][1], Place[w][2] + 1>> \in Cells
      BY <1>2, <3>1
    <3> QED
      BY <1>3, <2>3, <3>1, <3>2 DEF Cells
  <2>5. Place[w][2] < Height - waterLevel - 1
    BY <1>1, <1>2, <2>1, <2>4
  <2>6. s \in Sprites
    BY <1>2, <2>1, <2>2 DEF Sprites, Kinds
  <2>7. Sound(s, Space)
    BY <1>2, <1>3, <2>1, <2>2, <2>3 DEF Sound
  <2>8. Settled(s, Air, waterLevel)
    BY <1>2, <2>2, <2>4, <2>5 DEF Settled
  <2> QED
    BY <2>2, <2>6, <2>7, <2>8 DEF s
<1>5. sprites \in Seq(Sprites) /\ Len(sprites) \in Nat /\ DOMAIN sprites = Worms
  <2>1. DOMAIN sprites = 1 .. Len(Place) /\ sprites = [i \in 1 .. Len(Place) |-> sprites[i]]
    BY <1>1, Placed
  <2>2. \A i \in 1 .. Len(Place) : sprites[i] \in Sprites
    BY <1>1, <1>4, Placed
  <2> QED
    BY <2>1, <2>2, Placed, Mapped
<1>6. \A i \in DOMAIN sprites : /\ sprites[i] \in Sprites /\ Sound(sprites[i], Space)
                                /\ Settled(sprites[i], Air, waterLevel) /\ sprites[i].id = i
  BY <1>1, <1>4, <1>5
<1>7. TypeOK
  <2>1. \A i \in DOMAIN sprites : /\ sprites[i].kind \in {"lombric", "projectile", "box"}
                                  /\ sprites[i].id \in Worms \cup {0}
                                  /\ sprites[i].vie <= MaxVie \/ sprites[i].vie <= InitVie
    BY <1>6 DEF Sprites, Kinds, Sound
  <2>2. t \in Nat /\ k \in 0 .. Len(sprites) + 1 /\ waterLevel \in 0 .. Height
    BY <1>1, <1>2, <1>5
  <2>3. isMovement \in BOOLEAN /\ endTour \in BOOLEAN /\ currentWorms \in Worms
    BY <1>1, Placed
  <2>4. pos \in [Worms -> Cells]
    <3>1. Place = [w \in Worms |-> Place[w]]
      BY BoardAssumption DEF Worms
    <3> QED
      BY <1>1, <3>1, Placed
  <2>5. mur \in [Worms -> SUBSET (Ground \cup Rock)] /\ tour \in [Worms -> BOOLEAN]
    BY <1>1
  <2>6. /\ light \subseteq Cells /\ solid \subseteq Cells \ light /\ blockDeleted \subseteq Ground
        /\ then \in {"recv", "moved", "shot", "risen", "choose", "over"}
        /\ tir \in {"LanceMissile", "Batte", "PassTour"}
    BY <1>1, <1>2
  <2>7. flying \in [Worms -> BOOLEAN] /\ deleted \in [Worms -> SUBSET Ground] /\ strayed \in BOOLEAN
    BY <1>1
  <2> QED
    BY <2>1, <2>2, <2>3, <2>4, <2>5, <2>6, <2>7 DEF TypeOK
<1>8. SpriteInv
  BY <1>5, <1>6 DEF SpriteInv
<1>9. WallInv
  <2>1. \A c \in Cells : c[2] < Height - 0
    BY <1>2 DEF Cells
  <2> QED
    BY <1>1, <1>2, <2>1 DEF WallInv, WallsKnown
<1>10. MailInv
  BY <1>1 DEF MailInv, Updates
<1>11. RestInv
  BY <1>1, <1>6 DEF RestInv, WaitsFor
<1>12. CurrentInv
  <2>1. 1 \in DOMAIN sprites /\ sprites[1].id = 1
    BY <1>5, <1>6, Placed
  <2>2. 1 \in AliveIds
    BY <2>1 DEF AliveIds
  <2> QED
    BY <1>1, <2>2 DEF CurrentInv
<1> QED
  BY <1>7, <1>8, <1>9, <1>10, <1>11, <1>12 DEF IInv

(* Every step keeps the invariant.                                         *)
LEMMA NextInv == ASSUME IInv, Next PROVE IInv'
<1>1. CASE UpdateSprite
  BY <1>1, SurviveStep, DieStep
<1>2. CASE NextSweep
  BY <1>2, SweepStep
<1>3. CASE HandleMove
  BY <1>3, HandleMoveStep
<1>4. CASE HandleShoot
  BY <1>4, HandleShootStep
<1>5. CASE ShotDone
  BY <1>5, ShotDoneStep
<1>6. CASE MoveDone
  BY <1>6, MoveDoneStep
<1>7. CASE RiseDone
  BY <1>7, RiseDoneStep
<1>8. CASE Choose
  BY <1>8, ChooseStep
<1>9. CASE RoundTimeOver
  BY <1>9, RoundTimeOverStep
<1>10. ASSUME NEW w \in Worms, Client(w) PROVE IInv'
  BY <1>10, ClientMovesStep, ClientShootsStep, ClientTimeOverStep, ClientSimulatesStep, ClientExplodesStep,
     SynchronizeStep DEF Client
<1> QED
  BY <1>1, <1>2, <1>3, <1>4, <1>5, <1>6, <1>7, <1>8, <1>9, <1>10 DEF Next, Room

LEMMA StutterInv == ASSUME IInv, UNCHANGED vars PROVE IInv'
<1>1. /\ UNCHANGED <<light, solid, waterLevel, sprites, t, k, isMovement, then, endTour, currentWorms>>
      /\ UNCHANGED <<map, loop, blockDeleted, tir, inbox, mur, pos, tour, flying, deleted, strayed>>
      /\ UNCHANGED <<newRound, tableUpdate, byServ>>
  BY DEF vars, map, loop, client, mail
<1>2. SpriteInv' /\ RestInv' /\ CurrentInv' /\ Air' = Air /\ Space' = Space
  BY <1>1, RoomKept, SpaceSame DEF IInv
<1>3. TypeOK' /\ WallInv'
  BY <1>1 DEF IInv, TypeOK, WallInv, WallsKnown
<1>4. MailInv'
  BY <1>1, <1>2 DEF IInv, MailInv, Steps, Rounds, Reports, Updates
<1> QED
  BY <1>2, <1>3, <1>4 DEF IInv

(* The inductive invariant holds in every behaviour of the board.          *)
THEOREM BoardInv == Spec => []IInv
<1>1. Init => IInv
  BY InitInv
<1>2. IInv /\ [Next]_vars => IInv'
  BY NextInv, StutterInv
<1> QED
  BY <1>1, <1>2, PTL DEF Spec

(* Every variable of the room and of its clients has its type; no life is  *)
(* above what the parameters of the game allow (lombric.cpp:108-111).      *)
THEOREM BoardTyped == Spec => []TypeOK
<1>1. IInv => TypeOK
  BY DEF IInv
<1> QED
  BY <1>1, BoardInv, PTL

(* As long as no client has walked into a cell that its own simulation of  *)
(* a shot alone made air, no worm and no box is inside a wall or outside   *)
(* the map, though the room does not check the moves it is sent            *)
(* (partie_serv.cpp:96-116, partie.cpp:330-334).                           *)
THEOREM NeverBuried == Spec => []NotBuried
<1>1. IInv => NotBuried
  BY DEF IInv, SpriteInv, Sound, NotBuried, Space
<1> QED
  BY <1>1, BoardInv, PTL

(* Where the room has a wall a client has one, or has removed it by an     *)
(* explosion of its own that synchronizeMap will undo, whenever it learns  *)
(* what the shots and the water removed (partie.cpp:86-132 and 480-494).   *)
THEOREM ClientsKnowTheWalls == Spec => []WallsKnown
<1>1. IInv => WallsKnown
  BY DEF IInv, WallInv
<1> QED
  BY <1>1, BoardInv, PTL

(* When update has returned every worm is alive, stands still on a wall,   *)
(* and is above the water (partie_serv.cpp:56-96 and 147-156).             *)
THEOREM UpdateLeavesRest == Spec => []AtRest
<1>1. IInv => AtRest
  BY DEF IInv, RestInv, Settled, AtRest, Lombrics
<1> QED
  BY <1>1, BoardInv, PTL

(* Whenever a round is given, and no worm may be in a wall, there is a     *)
(* place where a health box can fall: the constructor that draws one ends  *)
(* (sprite.cpp:5-30).                                                      *)
THEOREM BoxesFall == Spec => []BoxFindsPlace
<1>1. IInv => BoxFindsPlace
  <2> SUFFICES ASSUME IInv, ~strayed, then = "choose", NEW u \in AliveIds PROVE BoxCells # {}
    BY DEF BoxFindsPlace
  <2>1. PICK i \in DOMAIN sprites : sprites[i].id = u /\ u # 0
    BY DEF AliveIds
  <2> DEFINE s == sprites[i]
             c == Cell(s)
  <2>2. s \in Sprites /\ Sound(s, Space) /\ Settled(s, Air, waterLevel)
    BY Waiting
  <2>3. c \in Air /\ Below(c) \notin Air /\ s.y < Height - waterLevel - 1
    BY <2>1, <2>2 DEF Sound, Settled, Space
  <2>4. c = <<s.x, s.y>> /\ c[2] = s.y /\ s.y \in Int /\ Below(c) = <<c[1], c[2] + 1>>
    BY <2>2 DEF Cell, Sprites, Below
  <2>5. waterLevel \in Nat /\ Height \in Nat
    BY BoardAssumption DEF IInv, TypeOK
  <2> HIDE DEF c
  <2>6. c[2] \in c[2] .. Height - 2 /\ c[2] < Height - waterLevel
    BY <2>3, <2>4, <2>5
  <2>7. \A z \in c[2] .. c[2] : <<c[1], z>> \in Air
    <3>1. \A z \in c[2] .. c[2] : z = c[2]
      BY <2>4
    <3>2. <<c[1], c[2]>> = c
      BY <2>4
    <3> QED
      BY <2>3, <3>1, <3>2
  <2>8. <<c[1], c[2] + 1>> \notin Air
    BY <2>3, <2>4
  <2>9. c \in BoxCells
    BY <2>3, <2>6, <2>7, <2>8 DEF BoxCells
  <2> QED
    BY <2>9
<1> QED
  BY <1>1, BoardInv, PTL

-----------------------------------------------------------------------------
(* update comes to an end: the invariant *)

(* How many rows a worm or a box has fallen d updates after its start.     *)
Sinks(s, d) == IF s.kind = "box" THEN (d * d) \div 4 ELSE d * d
Drop(s, d) == (Sinks(s, d) + 8) \div 16

(* A worm sent off by a bat or an explosion lands within Flight updates.   *)
Blown(s, n) ==
  /\ s.kind = "lombric" /\ s.mv.y >= 0 /\ s.mv.vy >= -Fastest
  /\ s.mv.t0 <= Flight /\ s.mv.t0 <= n /\ n <= s.mv.t0 + Flight

(* A sprite that fell from where it had no floor started no later than ten *)
(* updates for each row above it.                                          *)
Falling(s, n, air) ==
  /\ s.mv.vx = 0 /\ s.mv.vy = 0
  /\ <<s.mv.x, s.mv.y>> \in air /\ <<s.mv.x, s.mv.y + 1>> \in air
  /\ s.mv.t0 < n /\ s.y = s.mv.y + Drop(s, n - 1 - s.mv.t0)
  /\ s.mv.t0 <= 2 * Flight + 10 * s.mv.y

(* A sprite whose next update is the n-th.  What stands still has a floor, *)
(* unless a projectile has just removed it.                                *)
OnTime(s, n, air, level) ==
  /\ s.kind = "projectile" => /\ s.mv.t0 = 0 /\ s.mv.y >= -1 /\ s.mv.vy >= -Fastest
                              /\ n <= Flight
  /\ s.kind # "projectile" /\ s.mv # Still => Blown(s, n) \/ Falling(s, n, air)
  /\ s.mv = Still /\ n > Flight + 1 =>
       /\ Below(Cell(s)) \notin air
       /\ s.kind = "lombric" => s.vie > 0 /\ s.y < Height - level - 1

NextUpdate(i) == IF i < k THEN t + 1 ELSE t

(* Nothing flies or falls after LastFall, so that no worm comes to a box.  *)
TimeInv ==
  /\ \A i \in DOMAIN sprites : OnTime(sprites[i], NextUpdate(i), Air, waterLevel)
  /\ \A i, j \in DOMAIN sprites :
       sprites[i].kind = "box" /\ NextUpdate(i) > LastFall + 1 /\ sprites[j].id # 0
         => Cell(sprites[j]) # Cell(sprites[i])
  /\ isMovement => t <= LastFall + 1
  /\ t <= LastFall + 2
  /\ ~isMovement => \A i \in DOMAIN sprites : i < k => sprites[i].mv = Still
  /\ then \in {"recv", "choose", "over"} => \A i \in DOMAIN sprites : sprites[i].mv = Still

LEMMA Times ==
  /\ Height \in Nat \ {0} /\ Fastest \in Nat /\ Flight \in Nat /\ Flight = Fastest + Height + 16
  /\ LastFall \in Nat /\ LastFall = 2 * Flight + 10 * Height
BY BoardAssumption, FastestAssumption DEF Flight, LastFall

(* Ten updates a row, ...                                                  *)
LEMMA SinksFacts ==
  ASSUME NEW s, NEW d \in Nat
  PROVE  /\ Sinks(s, d) \in Nat /\ Drop(s, d) \in Nat
         /\ d = 0 => Drop(s, d) = 0
         /\ d >= 10 => Sinks(s, d) >= 25
         /\ d >= 20 => Sinks(s, d) >= 5 * d
         /\ s.kind = "box" /\ d <= 9 => Sinks(s, d) <= 20
         /\ s.kind # "box" /\ d <= 4 => Sinks(s, d) <= 16
         /\ s.kind # "box" /\ d >= 4 => Sinks(s, d) >= 16
<1> DEFINE q == d * d
<1>1. q \in Nat
  BY Squares
<1>2. d = 0 => q = 0
  OBVIOUS
<1>3. d >= 10 => q >= 10 * d
  OBVIOUS
<1>4. d >= 20 => q >= 20 * d
  OBVIOUS
<1>5. d <= 9 => q <= 81
  <2>1. d <= 9 => d \in 0 .. 9
    OBVIOUS
  <2> QED
    BY <2>1
<1>6. d <= 4 => q <= 16
  <2>1. d <= 4 => d \in 0 .. 4
    OBVIOUS
  <2> QED
    BY <2>1
<1>7. d >= 4 => q >= 4 * d
  OBVIOUS
<1> HIDE DEF q
<1>8. Sinks(s, d) = IF s.kind = "box" THEN q \div 4 ELSE q
  BY DEF Sinks, q
<1>9. Sinks(s, d) \in Nat
  BY <1>1, <1>8
<1>10. Drop(s, d) \in Nat
  BY <1>9 DEF Drop
<1> QED
  BY <1>1, <1>2, <1>3, <1>4, <1>5, <1>6, <1>7, <1>8, <1>9, <1>10 DEF Drop

(* ... at any time of a fall, ...                                          *)
LEMMA TenUpdates ==
  ASSUME NEW s, NEW d \in Nat
  PROVE  d <= 10 * Drop(s, d) + 9
<1> DEFINE e == Sinks(s, d)
<1>1. e \in Nat /\ (d >= 10 => e >= 25) /\ (d >= 20 => e >= 5 * d) /\ Drop(s, d) = (e + 8) \div 16
  BY SinksFacts DEF Drop
<1> HIDE DEF e
<1> QED
  BY <1>1

(* ... and when a fall ends that has come past the second row.             *)
LEMMA TenUpdatesDown ==
  ASSUME NEW s, NEW d \in Nat \ {0}, Drop(s, d) >= 2
  PROVE  d <= 10 * Drop(s, d - 1)
<1> DEFINE c == d - 1
           e == Sinks(s, d)
           f == Sinks(s, c)
<1>0. c \in Nat
  OBVIOUS
<1>1. /\ e \in Nat /\ Drop(s, d) = (e + 8) \div 16
      /\ s.kind = "box" /\ d <= 9 => e <= 20
      /\ s.kind # "box" /\ d <= 4 => e <= 16
  BY SinksFacts DEF Drop
<1>2. /\ f \in Nat /\ Drop(s, c) = (f + 8) \div 16
      /\ c >= 10 => f >= 25
      /\ c >= 20 => f >= 5 * c
      /\ s.kind # "box" /\ c >= 4 => f >= 16
  BY <1>0, SinksFacts DEF Drop
<1>3. s.kind = "box" /\ c = 9 => f = 20
  BY DEF Sinks
<1> HIDE DEF e, f
<1>4. e >= 24
  BY <1>1
<1>5. s.kind = "box" => c >= 9
  BY <1>1, <1>4
<1>6. s.kind # "box" => c >= 4
  BY <1>1, <1>4
<1> QED
  BY <1>0, <1>2, <1>3, <1>5, <1>6

(* Gravity brings down in time whatever is not sent up too fast.           *)
LEMMA FlightEnds ==
  ASSUME NEW y \in Int, NEW vy \in Int, NEW d \in Int, y >= -1, vy >= -Fastest, d >= Flight
  PROVE  16 * y + vy * d + d * d \in Int /\ 16 * y + vy * d + d * d >= 16 * Height
<1> DEFINE m == Height + 16
           a == d - m
           b == d + vy - m
<1>1. m \in Nat /\ a \in Nat /\ b \in Nat
  BY Times
<1> HIDE DEF a, b, m
<1>2. m * a \in Nat /\ m * b \in Nat /\ a * b \in Nat /\ m * m \in Nat
  BY <1>1
<1>3. d = m + a /\ d + vy = m + b
  BY <1>1, Times DEF a, b, m
<1>4. vy * d + d * d = (d + vy) * d
  OBVIOUS
<1>5. (m + b) * (m + a) = m * m + m * a + m * b + a * b
  BY <1>1
<1>6. vy * d + d * d >= m * m
  BY <1>1, <1>2, <1>3, <1>4, <1>5
<1>7. m * m >= 16 * Height + 16
  <2>1. Height * Height \in Nat /\ m * m = Height * Height + 32 * Height + 256
    BY Times DEF m
  <2> QED
    BY <2>1, Times
<1>8. vy * d \in Int /\ d * d \in Int
  OBVIOUS
<1> QED
  BY <1>2, <1>6, <1>7, <1>8, Times

LEMMA FlightLands ==
  ASSUME NEW s \in Sprites, s.kind # "box", s.mv # Still, t \in Nat,
         s.mv.y >= -1, s.mv.vy >= -Fastest, t >= s.mv.t0 + Flight
  PROVE  Lands(s)
<1> DEFINE d == t - s.mv.t0
           b == 16 * s.mv.y + s.mv.vy * d + d * d
<1>1. s.mv \in Flights
  BY DEF Sprites
<1>2. s.mv.y \in Int /\ s.mv.vy \in Int /\ d \in Int /\ d >= Flight
  BY <1>1, Times DEF Flights
<1>3. b \in Int /\ b >= 16 * Height
  BY <1>2, FlightEnds
<1>4. Position(s)[2] = Round(b)
  BY DEF Position
<1> HIDE DEF b, d
<1>5. Round(b) >= Height
  BY <1>3, Times DEF Round
<1>6. Position(s) \notin Air
  BY <1>4, <1>5, Times DEF Air, Cells
<1> QED
  BY <1>6 DEF Lands

(* Where a fall is.                                                        *)
LEMMA FallPosition ==
  ASSUME NEW s \in Sprites, s.mv # Still, t \in Nat, s.mv.vx = 0, s.mv.vy = 0,
         <<s.mv.x, s.mv.y>> \in Air, s.mv.t0 <= t
  PROVE  /\ Position(s) = <<s.mv.x, s.mv.y + Drop(s, t - s.mv.t0)>>
         /\ t - s.mv.t0 \in Nat /\ s.mv.x \in Nat /\ s.mv.y \in Nat /\ s.mv.t0 \in Nat
<1> DEFINE d == t - s.mv.t0
           e == Sinks(s, d)
<1>1. s.mv \in Flights
  BY DEF Sprites
<1>2. s.mv.x \in Nat /\ s.mv.y \in Nat
  BY BoardAssumption DEF Air, Cells
<1>3. d \in Nat
  BY <1>1 DEF Flights
<1>4. e \in Nat /\ Drop(s, d) = (e + 8) \div 16
  BY <1>3, SinksFacts DEF Drop
<1>5. Position(s) = <<Round(16 * s.mv.x + 0 * d), Round(16 * s.mv.y + 0 * d + e)>>
  BY DEF Position, Sinks
<1> HIDE DEF e, d
<1>6. 0 * d = 0
  BY <1>3
<1>7. Round(16 * s.mv.x) = s.mv.x
  BY <1>2 DEF Round
<1>8. Round(16 * s.mv.y + e) = s.mv.y + (e + 8) \div 16
  <2>1. \A y, n \in Nat : (16 * y + n + 8) \div 16 = y + (n + 8) \div 16
    OBVIOUS
  <2>2. 16 * s.mv.y + e >= 0
    BY <1>2, <1>4
  <2> QED
    BY <1>2, <1>4, <2>1, <2>2 DEF Round
<1>9. 16 * s.mv.x + 0 * d = 16 * s.mv.x /\ 16 * s.mv.y + 0 * d + e = 16 * s.mv.y + e
  BY <1>2, <1>4, <1>6
<1>10. s.mv.t0 \in Nat
  BY <1>1 DEF Flights
<1> QED
  BY <1>2, <1>3, <1>4, <1>5, <1>7, <1>8, <1>9, <1>10 DEF d

-----------------------------------------------------------------------------
(* One sprite *)

(* What flies or falls is not late.                                        *)
LEMMA MovingSoon ==
  ASSUME NEW s \in Sprites, Sound(s, Air), NEW n \in Nat, NEW level, OnTime(s, n, Air, level), s.mv # Still
  PROVE  n <= LastFall
<1>1. s.mv \in Flights /\ s.mv.t0 \in Nat
  BY DEF Sprites, Flights
<1>2. CASE s.kind = "projectile"
  BY <1>2, Times DEF OnTime
<1>3. CASE s.kind # "projectile" /\ Blown(s, n)
  BY <1>1, <1>3, Times DEF Blown
<1>4. CASE s.kind # "projectile" /\ Falling(s, n, Air)
  <2> DEFINE d == n - 1 - s.mv.t0
  <2>1. s.y \in Int /\ s.y < Height
    BY <1>4, Times DEF Sound, Cell, Air, Cells
  <2>2. s.mv.y \in Nat
    BY <1>4, BoardAssumption DEF Falling, Air, Cells
  <2>3. d \in Nat /\ s.y = s.mv.y + Drop(s, d) /\ s.mv.t0 <= 2 * Flight + 10 * s.mv.y
    BY <1>1, <1>4 DEF Falling
  <2>4. Drop(s, d) \in Nat /\ d <= 10 * Drop(s, d) + 9
    BY <2>3, SinksFacts, TenUpdates
  <2>5. n = d + 1 + s.mv.t0
    BY <1>1
  <2> HIDE DEF d
  <2> QED
    BY <1>1, <2>1, <2>2, <2>3, <2>4, <2>5, Times
<1> QED
  BY <1>2, <1>3, <1>4 DEF OnTime

(* A worm or box on its way lands, or goes on.                             *)
LEMMA MovesOnTime ==
  ASSUME NEW s \in Sprites, Sound(s, Air), t \in Nat, s.kind # "projectile", s.mv # Still,
         NEW level, OnTime(s, t, Air, level)
  PROVE  LET m == Moves(s)
         IN  /\ Lands(s) => m.mv = Still /\ t <= 2 * Flight + 10 * m.y
             /\ ~Lands(s) => m.mv = s.mv /\ (Blown(m, t + 1) \/ Falling(m, t + 1, Air))
<1> DEFINE m == Moves(s)
           p == Position(s)
<1>1. s.mv \in Flights /\ s.mv.t0 \in Nat /\ s.x \in Nat /\ s.y \in Nat
  BY BoardAssumption DEF Sprites, Flights, Sound, Cell, Air, Cells
<1>2. ASSUME Lands(s) PROVE m.mv = Still /\ m.y = s.y
  BY <1>2 DEF Moves, Sprites
<1>3. ASSUME ~Lands(s)
      PROVE  m.mv = s.mv /\ m.kind = s.kind /\ m.x = p[1] /\ m.y = p[2]
  <2>1. m = [s EXCEPT !.x = p[1], !.y = p[2]]
    BY <1>3 DEF Moves
  <2> HIDE DEF m, p
  <2> QED
    BY <2>1 DEF Sprites
<1> HIDE DEF m
<1>4. CASE Blown(s, t)
  <2>1. s.kind # "box" /\ s.mv.y >= -1 /\ s.mv.vy >= -Fastest
    BY <1>1, <1>4 DEF Blown, Flights
  <2>2. ~Lands(s) => ~(t >= s.mv.t0 + Flight)
    BY <2>1, FlightLands
  <2>3. ~Lands(s) => Blown(m, t + 1)
    BY <1>1, <1>3, <1>4, <2>2, Times DEF Blown
  <2>4. t <= 2 * Flight + 10 * s.y
    BY <1>1, <1>4, Times DEF Blown
  <2> QED
    BY <1>2, <1>3, <2>3, <2>4 DEF m
<1>5. CASE Falling(s, t, Air)
  <2> DEFINE d == t - s.mv.t0
  <2>1. /\ p = <<s.mv.x, s.mv.y + Drop(s, d)>>
        /\ d \in Nat \ {0} /\ s.mv.x \in Nat /\ s.mv.y \in Nat
        /\ s.y = s.mv.y + Drop(s, d - 1)
        /\ s.mv.t0 <= 2 * Flight + 10 * s.mv.y
    <3>1. s.mv.t0 <= t /\ t - 1 - s.mv.t0 = d - 1 /\ d # 0
      BY <1>1, <1>5 DEF Falling
    <3>2. p = <<s.mv.x, s.mv.y + Drop(s, d)>> /\ d \in Nat /\ s.mv.x \in Nat /\ s.mv.y \in Nat
      BY <1>5, <3>1, FallPosition DEF Falling
    <3> QED
      BY <1>5, <3>1, <3>2 DEF Falling
  <2>2. t = s.mv.t0 + d
    BY <1>1
  <2>3. d - 1 \in Nat
    BY <2>1
  <2>4. Drop(s, d) \in Nat /\ Drop(s, d - 1) \in Nat
    BY <2>1, <2>3, SinksFacts
  <2>5. ASSUME Lands(s) PROVE t <= 2 * Flight + 10 * s.y
    <3>1. Position(s) \notin Air
      BY <2>5 DEF Lands
    <3>2. Drop(s, d) # 0
      BY <1>5, <2>1, <3>1 DEF Falling
    <3>3. Drop(s, d) # 1
      BY <1>5, <2>1, <3>1 DEF Falling
    <3>4. d <= 10 * Drop(s, d - 1)
      BY <2>1, <2>4, <3>2, <3>3, TenUpdatesDown
    <3> QED
      BY <1>1, <2>1, <2>2, <2>4, <3>4, Times
  <2>6. ASSUME ~Lands(s) PROVE Falling(m, t + 1, Air)
    <3>1. m.mv = s.mv /\ m.kind = s.kind /\ m.x = s.mv.x /\ m.y = s.mv.y + Drop(s, d)
      BY <1>3, <2>1, <2>6
    <3>2. t + 1 - 1 - m.mv.t0 = d /\ m.mv.t0 < t + 1
      BY <1>1, <2>1, <2>2, <3>1
    <3>3. Drop(m, d) = Drop(s, d)
      BY <3>1 DEF Drop, Sinks
    <3> QED
      BY <1>5, <3>1, <3>2, <3>3 DEF Falling
  <2> QED
    BY <1>2, <1>3, <2>5, <2>6 DEF m
<1> QED
  BY <1>4, <1>5 DEF OnTime

(* A worm or box without a floor begins to fall.                           *)
LEMMA FallsOnTime ==
  ASSUME NEW m \in Sprites, t \in Nat, Cell(m) \in Air, Below(Cell(m)) \in Air, t <= 2 * Flight + 10 * m.y
  PROVE  Falling(Launch(m, 0, 0), t + 1, Air)
<1> DEFINE f == [x |-> m.x, y |-> m.y, vx |-> 0, vy |-> 0, t0 |-> t]
           r == Launch(m, 0, 0)
<1>1. r = [m EXCEPT !.mv = f]
  BY DEF Launch
<1>2. r.mv = f /\ r.y = m.y /\ m.y \in Int
  BY <1>1 DEF Sprites
<1>3. Cell(m) = <<m.x, m.y>> /\ Below(Cell(m)) = <<m.x, m.y + 1>>
  BY DEF Cell, Below
<1>4. t + 1 - 1 - t = 0 /\ t < t + 1
  OBVIOUS
<1>5. Drop(r, 0) = 0
  BY SinksFacts
<1> HIDE DEF r
<1> QED
  BY <1>2, <1>3, <1>4, <1>5 DEF Falling, r

(* An update keeps a worm or box in time, whether it lands, falls on ...   *)
LEMMA FallenOnTime ==
  ASSUME NEW s \in Sprites, Sound(s, Air), t \in Nat, s.kind # "projectile",
         NEW level, OnTime(s, t, Air, level), Falls(Moves(s)).mv # Still
  PROVE  Blown(Falls(Moves(s)), t + 1) \/ Falling(Falls(Moves(s)), t + 1, Air)
<1> DEFINE m == Moves(s)
<1>1. m \in Sprites /\ Cell(m) \in Air
  BY MovesFacts DEF Sound
<1>2. s.mv = Still => m = s
  BY DEF Moves
<1>3. s.mv # Still => /\ Lands(s) => m.mv = Still /\ t <= 2 * Flight + 10 * m.y
                      /\ ~Lands(s) => m.mv = s.mv /\ (Blown(m, t + 1) \/ Falling(m, t + 1, Air))
  BY MovesOnTime
<1> HIDE DEF m
<1>4. CASE m.mv = Still /\ Below(Cell(m)) \in Air
  <2>1. Falls(m) = Launch(m, 0, 0)
    BY <1>4 DEF Falls
  <2>2. m.y \in Nat
    BY <1>1, BoardAssumption DEF Cell, Air, Cells
  <2>3. t <= 2 * Flight + 10 * m.y
    <3>1. CASE s.mv = Still
      BY <1>2, <1>4, <2>2, <3>1, Times DEF OnTime
    <3>2. CASE s.mv # Still
      BY <1>3, <1>4, <3>2
    <3> QED
      BY <3>1, <3>2
  <2> QED
    BY <1>1, <1>4, <2>1, <2>3, FallsOnTime DEF m
<1>5. CASE ~(m.mv = Still /\ Below(Cell(m)) \in Air)
  <2>1. Falls(m) = m
    BY <1>5 DEF Falls
  <2>2. m.mv # Still
    BY <2>1 DEF m
  <2>3. s.mv # Still /\ ~Lands(s)
    BY <1>2, <1>3, <2>2
  <2> QED
    BY <1>3, <2>1, <2>3 DEF m
<1> QED
  BY <1>4, <1>5

(* ... or comes to rest.                                                   *)
LEMMA UpdatedOnTime ==
  ASSUME NEW s \in Sprites, Sound(s, Air), t \in Nat, waterLevel \in Int,
         OnTime(s, t, Air, waterLevel), Survives(s, Updated(s))
  PROVE  OnTime(Updated(s), t + 1, Air, waterLevel)
<1> DEFINE r == Updated(s)
           f == Falls(Moves(s))
<1>1. /\ r \in Sprites /\ Sound(r, Air) /\ r.kind = s.kind /\ r.id = s.id
      /\ s.kind = "lombric" => r.vie > 0
      /\ r.mv = Still => Settled(r, Air, waterLevel)
  BY UpdatedFacts
<1>2. f \in Sprites /\ (f.mv = Still => Below(Cell(f)) \notin Air)
  BY MovesFacts, FallsFacts
<1>3. CASE s.kind = "projectile"
  <2>1. r = Moves(s)
    BY <1>3 DEF Updated
  <2>2. ~Lands(s) /\ s.mv # Still
    BY <1>3 DEF Survives, Sound
  <2>3. r.mv = s.mv
    BY <2>1, <2>2, MovesFacts
  <2>4. ~(t >= s.mv.t0 + Flight)
    BY <1>3, <2>2, FlightLands DEF OnTime
  <2>5. t + 1 <= Flight
    BY <1>3, <2>4, Times DEF OnTime
  <2> QED
    BY <1>1, <1>3, <2>2, <2>3, <2>5 DEF OnTime
<1>4. CASE s.kind # "projectile"
  <2>0. f.mv # Still => Blown(f, t + 1) \/ Falling(f, t + 1, Air)
    BY <1>4, FallenOnTime
  <2>1. r = f \/ (s.kind = "lombric" /\ r = [f EXCEPT !.vie = Life(s, f)])
    BY <1>4 DEF Updated, Sprites, Kinds
  <2> HIDE DEF f, r
  <2>2. r.mv = f.mv /\ r.kind = f.kind /\ r.x = f.x /\ r.y = f.y
    BY <1>2, <2>1 DEF Sprites
  <2>3. r.mv # Still => Blown(r, t + 1) \/ Falling(r, t + 1, Air)
    <3>1. \A d : Drop(r, d) = Drop(f, d)
      BY <2>2 DEF Drop, Sinks
    <3> QED
      BY <2>0, <2>2, <3>1 DEF Blown, Falling
  <2>4. r.mv = Still => Below(Cell(r)) \notin Air
    BY <1>2, <2>2 DEF Cell
  <2>5. r.mv = Still /\ r.kind = "lombric" => r.vie > 0 /\ r.y < Height - waterLevel - 1
    BY <1>1, Placed DEF Settled, Sound
  <2> QED
    BY <1>1, <1>4, <2>3, <2>4, <2>5 DEF OnTime, r
<1> QED
  BY <1>3, <1>4

(* What is at rest stays, as long as nothing changes around it.            *)
LEMMA RestsOn ==
  ASSUME NEW s \in Sprites, Sound(s, Air), NEW n \in Nat, n > LastFall,
         OnTime(s, n, Air, waterLevel), waterLevel \in Nat
  PROVE  s.mv = Still /\ Updated(s) = s /\ (s.kind = "box" \/ (s.kind = "lombric" /\ Survives(s, s)))
<1>1. s.mv = Still
  BY MovingSoon, Times
<1>2. n > Flight + 1
  BY Times
<1>3. Below(Cell(s)) \notin Air /\ (s.kind = "lombric" => s.vie > 0 /\ s.y < Height - waterLevel - 1)
  BY <1>1, <1>2 DEF OnTime
<1>4. s.kind # "projectile"
  BY <1>1 DEF Sound
<1>5. Falls(Moves(s)) = s
  BY <1>1, <1>3 DEF Moves, Falls
<1>6. CASE s.kind = "lombric"
  <2>1. Life(s, s) = s.vie
    <3>1. s.vie \in Int /\ s.y \in Int /\ Height \in Int
      BY Times DEF Sprites
    <3>2. ~Lands(s)
      BY <1>1 DEF Lands
    <3>3. ~(s.y >= Height - waterLevel - 1) /\ ~(s.vie < 0)
      BY <1>3, <1>6, <3>1
    <3> QED
      BY <3>2, <3>3 DEF Life
  <2>2. Updated(s) = [s EXCEPT !.vie = s.vie]
    BY <1>5, <1>6, <2>1 DEF Updated
  <2>3. Updated(s) = s
    BY <2>2 DEF Sprites
  <2>4. Survives(s, s)
    BY <1>3, <1>6 DEF Survives
  <2> QED
    BY <1>1, <1>6, <2>3, <2>4
<1>7. CASE s.kind = "box"
  BY <1>1, <1>5, <1>7 DEF Updated
<1> QED
  BY <1>4, <1>6, <1>7 DEF Sprites, Kinds

-----------------------------------------------------------------------------
(* update comes to an end: the steps *)

(* A box that nobody takes is where no worm is.                            *)
LEMMA NotTaken ==
  ASSUME sprites \in Seq(Sprites), NEW b, Taker(b) = {}
  PROVE  \A i \in DOMAIN sprites : sprites[i].id # 0 => Cell(sprites[i]) # Cell(b)
<1> DEFINE T == {i \in DOMAIN sprites : sprites[i].id # 0 /\ Cell(sprites[i]) = Cell(b)}
<1> SUFFICES ASSUME T # {} PROVE FALSE
  OBVIOUS
<1>1. Len(sprites) \in Nat /\ DOMAIN sprites = 1 .. Len(sprites)
  BY Elements
<1>2. T \in SUBSET Nat
  BY <1>1
<1> HIDE DEF T
<1>3. PICK i \in T : \A j \in T : i <= j
  BY <1>2, Least
<1>4. \A j \in 1 .. i - 1 : j \in DOMAIN sprites /\ j \notin T
  BY <1>1, <1>2, <1>3 DEF T
<1>5. i \in Taker(b)
  BY <1>3, <1>4 DEF T, Taker
<1> QED
  BY <1>5

(* The sprites and their times.                                            *)
LEMMA Timed ==
  ASSUME IInv, ~strayed, TimeInv
  PROVE  /\ sprites \in Seq(Sprites) /\ Len(sprites) \in Nat /\ DOMAIN sprites = 1 .. Len(sprites)
         /\ t \in Nat /\ k \in Nat /\ waterLevel \in Nat
         /\ \A i \in DOMAIN sprites : /\ sprites[i] \in Sprites /\ Sound(sprites[i], Air) /\ i \in Nat
                                      /\ NextUpdate(i) \in Nat /\ NextUpdate(i) \in t .. t + 1
                                      /\ OnTime(sprites[i], NextUpdate(i), Air, waterLevel)
<1>1. /\ sprites \in Seq(Sprites) /\ Len(sprites) \in Nat /\ DOMAIN sprites = 1 .. Len(sprites)
      /\ \A i \in DOMAIN sprites : sprites[i] \in Sprites /\ Sound(sprites[i], Air)
  BY Elements DEF IInv, SpriteInv, Space
<1>2. t \in Nat /\ k \in Nat /\ waterLevel \in Nat
  BY <1>1, Times DEF IInv, TypeOK
<1>3. \A i \in DOMAIN sprites : i \in Nat /\ NextUpdate(i) \in Nat /\ NextUpdate(i) \in t .. t + 1
  BY <1>1, <1>2 DEF NextUpdate
<1> QED
  BY <1>1, <1>2, <1>3 DEF TimeInv

LEMMA SurviveInTime ==
  ASSUME IInv, ~strayed, TimeInv, UpdateSprite, Survives(sprites[k], Updated(sprites[k]))
  PROVE  TimeInv'
<1> DEFINE s == sprites[k]
           r == Updated(s)
<1>1. /\ sprites \in Seq(Sprites) /\ Len(sprites) \in Nat /\ DOMAIN sprites = 1 .. Len(sprites)
      /\ t \in Nat /\ k \in Nat /\ waterLevel \in Nat
      /\ \A i \in DOMAIN sprites : /\ sprites[i] \in Sprites /\ Sound(sprites[i], Air) /\ i \in Nat
                                   /\ NextUpdate(i) \in Nat /\ NextUpdate(i) \in t .. t + 1
                                   /\ OnTime(sprites[i], NextUpdate(i), Air, waterLevel)
  BY Timed
<1>2. k \in DOMAIN sprites /\ NextUpdate(k) = t
  BY <1>1 DEF UpdateSprite, NextUpdate
<1>3. /\ sprites' = [sprites EXCEPT ![k] = r] /\ k' = k + 1
      /\ isMovement' = (isMovement \/ r.mv # Still)
      /\ UNCHANGED <<light, solid, waterLevel, t, then>>
  BY DEF UpdateSprite
<1>4. s \in Sprites /\ Sound(s, Air) /\ OnTime(s, t, Air, waterLevel) /\ waterLevel \in Int
  BY <1>1, <1>2
<1>5. r \in Sprites /\ Sound(r, Air) /\ r.kind = s.kind /\ r.id = s.id
  BY <1>1, <1>4, UpdatedFacts
<1>6. OnTime(r, t + 1, Air, waterLevel)
  BY <1>1, <1>4, UpdatedOnTime
<1>7. Air' = Air
  BY <1>3 DEF Air
<1>8. t > LastFall => r = s /\ s.mv = Still
  BY <1>1, <1>4, RestsOn
<1>9. s.kind = "box" => Taker(r) = {}
  BY DEF Survives
<1> HIDE DEF s, r
<1>10. /\ DOMAIN sprites' = DOMAIN sprites
       /\ \A i \in DOMAIN sprites : sprites'[i] = IF i = k THEN r ELSE sprites[i]
  BY <1>1, <1>3
<1>11. \A i \in DOMAIN sprites : NextUpdate(i)' = IF i = k THEN t + 1 ELSE NextUpdate(i)
  BY <1>1, <1>3 DEF NextUpdate
<1>12. \A i \in DOMAIN sprites' : OnTime(sprites'[i], NextUpdate(i)', Air', waterLevel')
  BY <1>1, <1>3, <1>6, <1>7, <1>10, <1>11
<1>13. ASSUME NEW i \in DOMAIN sprites', NEW j \in DOMAIN sprites',
              sprites'[i].kind = "box", NextUpdate(i)' > LastFall + 1, sprites'[j].id # 0
       PROVE  Cell(sprites'[j]) # Cell(sprites'[i])
  <2>1. t > LastFall
    <3>1. NextUpdate(i)' = t + 1 \/ NextUpdate(i)' = NextUpdate(i)
      BY <1>10, <1>11
    <3>2. NextUpdate(i) \in t .. t + 1
      BY <1>1, <1>10
    <3>3. t \in Nat
      BY <1>1
    <3> QED
      BY <1>13, <3>1, <3>2, <3>3, Times
  <2>2. sprites'[i] = sprites[i] /\ sprites'[j] = sprites[j]
    BY <1>8, <1>10, <2>1 DEF s
  <2>3. CASE i = k
    <3>1. Taker(s) = {}
      BY <1>8, <1>9, <1>13, <2>1, <2>2, <2>3 DEF s
    <3> QED
      BY <1>1, <1>10, <1>13, <2>2, <2>3, <3>1, NotTaken DEF s
  <2>4. CASE i # k
    BY <1>10, <1>11, <1>13, <2>2, <2>4 DEF TimeInv
  <2> QED
    BY <2>3, <2>4
<1>14. isMovement' => t <= LastFall + 1
  <2>1. r.mv # Still => t + 1 <= LastFall
    BY <1>1, <1>5, <1>6, MovingSoon
  <2>2. isMovement' => isMovement \/ r.mv # Still
    BY <1>3
  <2>3. isMovement => t <= LastFall + 1
    BY DEF TimeInv
  <2>4. t \in Nat
    BY <1>1
  <2> QED
    BY <2>1, <2>2, <2>3, <2>4, Times
<1>15. ~isMovement' => \A i \in DOMAIN sprites' : i < k' => sprites'[i].mv = Still
  <2> SUFFICES ASSUME ~isMovement', NEW i \in DOMAIN sprites', i < k'
               PROVE  sprites'[i].mv = Still
    OBVIOUS
  <2>1. ~isMovement /\ r.mv = Still
    BY <1>3
  <2>2. i = k \/ i < k
    BY <1>1, <1>3, <1>10
  <2>3. i < k => sprites[i].mv = Still
    BY <1>10, <2>1 DEF TimeInv
  <2> QED
    BY <1>10, <2>1, <2>2, <2>3
<1>16. then' \notin {"recv", "choose", "over"}
  BY <1>1, <1>2, <1>3 DEF IInv, RestInv
<1> QED
  BY <1>3, <1>12, <1>13, <1>14, <1>15, <1>16 DEF TimeInv, LastFall, Flight

(* An explosion sends nobody up faster than Fastest.                       *)
LEMMA BlowBounded ==
  ASSUME NEW dx \in Int, NEW dy \in Int, dx * dx + dy * dy <= Radius * Radius
  PROVE  Blow * dy >= -Fastest
<1>1. Radius \in Nat /\ Blow \in Int /\ Fastest \in Nat /\ Blow * Radius >= -Fastest /\ Blow * Radius <= Fastest
  BY BoardAssumption, FastestAssumption
<1>2. dx * dx \in Nat /\ dy * dy \in Nat /\ Radius * Radius \in Nat
  BY <1>1, Squares
<1>3. (dy - Radius) * (dy + Radius) = dy * dy - Radius * Radius
  BY <1>1
<1>4. ~(dy > Radius)
  <2> SUFFICES ASSUME dy > Radius PROVE FALSE
    OBVIOUS
  <2>1. (dy - Radius) \in Nat \ {0} /\ (dy + Radius) \in Nat \ {0}
    BY <1>1
  <2>2. \A a, b \in Nat \ {0} : a * b > 0
    OBVIOUS
  <2>3. (dy - Radius) * (dy + Radius) > 0
    BY <2>1, <2>2
  <2>4. dy * dy <= Radius * Radius
    BY <1>2
  <2> QED
    BY <1>2, <1>3, <2>3, <2>4
<1>5. ~(dy < -Radius)
  <2> SUFFICES ASSUME dy < -Radius PROVE FALSE
    OBVIOUS
  <2>1. (Radius - dy) \in Nat \ {0} /\ (-dy - Radius) \in Nat \ {0}
    BY <1>1
  <2>2. \A a, b \in Nat \ {0} : a * b > 0
    OBVIOUS
  <2>3. (Radius - dy) * (-dy - Radius) = dy * dy - Radius * Radius
    BY <1>1
  <2> QED
    BY <1>2, <2>1, <2>2, <2>3
<1>6. \A a, b \in Nat : a * b \in Nat
  OBVIOUS
<1>7. Blow * dy \in Int
  BY <1>1
<1>8. CASE Blow >= 0
  <2>1. Blow * (dy + Radius) \in Nat
    BY <1>1, <1>5, <1>6, <1>8
  <2>2. Blow * (dy + Radius) = Blow * dy + Blow * Radius
    BY <1>1
  <2> QED
    BY <1>1, <1>7, <2>1, <2>2
<1>9. CASE Blow < 0
  <2>1. (-Blow) * (Radius - dy) \in Nat
    BY <1>1, <1>4, <1>6, <1>9
  <2>2. (-Blow) * (Radius - dy) = Blow * dy - Blow * Radius
    BY <1>1
  <2> QED
    BY <1>1, <1>7, <2>1, <2>2
<1> QED
  BY <1>1, <1>8, <1>9

(* A worm that an explosion sends off.                                     *)
LEMMA ExplodedOnTime ==
  ASSUME NEW s \in Sprites, Sound(s, Air), NEW c, c[1] \in Int, c[2] \in Int, t \in Nat, t <= Flight,
         NEW n \in t .. t + 1, OnTime(s, n, Air, waterLevel), NEW air, Air \subseteq air
  PROVE  OnTime(Explosed(s, c), n, air, waterLevel) /\ Cell(Explosed(s, c)) = Cell(s)
<1> DEFINE dx == s.x - c[1]
           dy == s.y - c[2]
           r == Explosed(s, c)
<1>1. dx \in Int /\ dy \in Int /\ n \in Nat /\ n <= Flight + 1
  BY Times DEF Sprites
<1>2. CASE s.id # 0 /\ dx * dx + dy * dy <= Radius * Radius
  <2> DEFINE a == AddLife(s, - Loss[dx * dx + dy * dy])
             f == [x |-> a.x, y |-> a.y, vx |-> Blow * dx, vy |-> Blow * dy, t0 |-> t]
  <2>1. Loss[dx * dx + dy * dy] \in Nat
    <3> HIDE DEF dx, dy
    <3>1. dx * dx \in Nat /\ dy * dy \in Nat /\ Radius * Radius \in Nat
      BY <1>1, BoardAssumption, Squares
    <3>2. dx * dx + dy * dy \in 0 .. Radius * Radius
      BY <1>2, <3>1
    <3> QED
      BY <3>2, BoardAssumption
  <2>2. a \in Sprites /\ a.kind = s.kind /\ a.id = s.id /\ a.x = s.x /\ a.y = s.y
    <3>1. - Loss[dx * dx + dy * dy] \in Int
      BY <2>1
    <3> HIDE DEF dx, dy
    <3> QED
      BY <3>1, AddLifeFacts
  <2>3. r = [a EXCEPT !.mv = f]
    BY <1>2 DEF Explosed, Launch
  <2>4. Blow * dy >= -Fastest
    BY <1>1, <1>2, BlowBounded
  <2>5. s.kind = "lombric" /\ s.y \in Nat
    <3>1. s.kind = "lombric" /\ <<s.x, s.y>> \in Cells
      BY <1>2 DEF Sound, Cell, Air
    <3> QED
      BY <3>1, Times DEF Cells
  <2>8. Blow * dx \in Int /\ Blow * dy \in Int
    BY <1>1, BoardAssumption
  <2> HIDE DEF a, dx, dy
  <2>9. f \in Flights
    BY <2>2, <2>8 DEF Sprites, Flights
  <2>6. f # Still
    BY <2>9, FlightMoves
  <2>7. r.mv = f /\ r.kind = "lombric" /\ r.x = s.x /\ r.y = s.y
    BY <2>2, <2>3, <2>5 DEF Sprites
  <2> HIDE DEF r
  <2>10. Blown(r, n)
    BY <1>1, <2>2, <2>4, <2>5, <2>7, Times DEF Blown
  <2> QED
    BY <2>6, <2>7, <2>10 DEF OnTime, Cell, r
<1>3. CASE ~(s.id # 0 /\ dx * dx + dy * dy <= Radius * Radius)
  <2>1. r = s
    BY <1>3 DEF Explosed
  <2> HIDE DEF r
  <2>2. Falling(s, n, Air) => Falling(s, n, air)
    BY DEF Falling
  <2>3. ~(n > Flight + 1)
    BY <1>1, Times
  <2> QED
    BY <2>1, <2>2, <2>3 DEF OnTime, r
<1> QED
  BY <1>2, <1>3

(* What a death changes of the other sprites.                              *)
LEMMA DiesOnTime ==
  ASSUME IInv, ~strayed, TimeInv, k \in DOMAIN sprites, NEW r, Dies(sprites[k], r), UNCHANGED solid
  PROVE  \E q \in Seq(Sprites) :
           /\ Len(q) = Len(sprites) /\ sprites' = RemoveAt(q, k)
           /\ \A i \in DOMAIN sprites : i # k =>
                /\ q[i].kind = sprites[i].kind /\ q[i].id = sprites[i].id /\ Cell(q[i]) = Cell(sprites[i])
                /\ OnTime(q[i], NextUpdate(i), Air', waterLevel)
<1> DEFINE s == sprites[k]
<1>1. /\ sprites \in Seq(Sprites) /\ Len(sprites) \in Nat /\ DOMAIN sprites = 1 .. Len(sprites)
      /\ t \in Nat /\ k \in Nat /\ waterLevel \in Nat
      /\ \A i \in DOMAIN sprites : /\ sprites[i] \in Sprites /\ Sound(sprites[i], Air) /\ i \in Nat
                                   /\ NextUpdate(i) \in Nat /\ NextUpdate(i) \in t .. t + 1
                                   /\ OnTime(sprites[i], NextUpdate(i), Air, waterLevel)
  BY Timed
<1>2. NextUpdate(k) = t
  BY <1>1 DEF NextUpdate
<1>3. CASE s.kind = "projectile"
  <2> DEFINE gone == Disc(Cell(s)) \cap light
             q == [i \in DOMAIN sprites |-> Explosed(sprites[i], Cell(s))]
  <2>1. sprites' = RemoveAt(q, k) /\ light' = light \ gone
    BY <1>3 DEF Dies
  <2>2. Air \subseteq Air'
    BY <2>1 DEF Air
  <2>3. Cell(s)[1] \in Int /\ Cell(s)[2] \in Int
    BY <1>1 DEF Cell, Sprites
  <2>4. t <= Flight
    BY <1>1, <1>2, <1>3 DEF OnTime
  <2>5. \A i \in DOMAIN sprites : /\ q[i] \in Sprites /\ q[i].kind = sprites[i].kind /\ q[i].id = sprites[i].id
                                  /\ Cell(q[i]) = Cell(sprites[i])
                                  /\ OnTime(q[i], NextUpdate(i), Air', waterLevel)
    BY <1>1, <2>2, <2>3, <2>4, ExplosedFacts, ExplodedOnTime
  <2>6. DOMAIN q = 1 .. Len(sprites) /\ q = [i \in 1 .. Len(sprites) |-> q[i]]
    BY <1>1
  <2> HIDE DEF q
  <2>7. q \in Seq(Sprites) /\ Len(q) = Len(sprites)
    BY <1>1, <2>5, <2>6, Mapped
  <2> QED
    BY <2>1, <2>5, <2>7
<1>4. CASE s.kind = "box"
  <2> DEFINE q == [i \in DOMAIN sprites |->
                     IF i \in Taker(r) THEN AddLife(sprites[i], BoxVie) ELSE sprites[i]]
  <2>1. sprites' = RemoveAt(q, k) /\ UNCHANGED light
    BY <1>4 DEF Dies
  <2>2. Air' = Air
    BY <2>1 DEF Air
  <2>3. BoxVie \in Int /\ BoxVie >= 0
    BY BoardAssumption
  <2>4. \A i \in DOMAIN sprites : q[i] = AddLife(sprites[i], BoxVie) \/ q[i] = sprites[i]
    OBVIOUS
  <2>5. DOMAIN q = 1 .. Len(sprites) /\ q = [i \in 1 .. Len(sprites) |-> q[i]]
    BY <1>1
  <2> HIDE DEF q
  <2>6. ASSUME NEW i \in DOMAIN sprites
        PROVE  /\ q[i] \in Sprites /\ q[i].kind = sprites[i].kind /\ q[i].id = sprites[i].id
               /\ Cell(q[i]) = Cell(sprites[i])
               /\ OnTime(q[i], NextUpdate(i), Air, waterLevel)
    <3>1. CASE q[i] = sprites[i]
      BY <1>1, <3>1
    <3>2. CASE q[i] = AddLife(sprites[i], BoxVie)
      <4>1. sprites[i] \in Sprites /\ OnTime(sprites[i], NextUpdate(i), Air, waterLevel)
        BY <1>1
      <4>2. /\ q[i] \in Sprites /\ q[i].kind = sprites[i].kind /\ q[i].id = sprites[i].id
            /\ q[i].x = sprites[i].x /\ q[i].y = sprites[i].y /\ q[i].mv = sprites[i].mv
            /\ sprites[i].vie > 0 => q[i].vie > 0
        BY <2>3, <3>2, <4>1, AddLifeFacts
      <4>3. \A d : Drop(q[i], d) = Drop(sprites[i], d)
        BY <4>2 DEF Drop, Sinks
      <4> QED
        BY <4>1, <4>2, <4>3 DEF OnTime, Blown, Falling, Cell
    <3> QED
      BY <2>4, <3>1, <3>2
  <2>7. q \in Seq(Sprites) /\ Len(q) = Len(sprites)
    <3>1. \A i \in 1 .. Len(sprites) : q[i] \in Sprites
      BY <1>1, <2>6
    <3> QED
      BY <1>1, <2>5, <3>1, Mapped
  <2> QED
    BY <2>1, <2>2, <2>6, <2>7
<1>5. CASE s.kind = "lombric"
  <2>1. sprites' = RemoveAt(sprites, k) /\ UNCHANGED light
    BY <1>5 DEF Dies
  <2>2. Air' = Air
    BY <2>1 DEF Air
  <2> QED
    BY <1>1, <2>1, <2>2
<1> QED
  BY <1>1, <1>3, <1>4, <1>5 DEF Sprites, Kinds

LEMMA DieInTime ==
  ASSUME IInv, ~strayed, TimeInv, UpdateSprite, ~Survives(sprites[k], Updated(sprites[k]))
  PROVE  TimeInv'
<1> DEFINE s == sprites[k]
           r == Updated(s)
<1>1. /\ sprites \in Seq(Sprites) /\ Len(sprites) \in Nat /\ DOMAIN sprites = 1 .. Len(sprites)
      /\ t \in Nat /\ k \in Nat /\ waterLevel \in Nat
      /\ \A i \in DOMAIN sprites : /\ sprites[i] \in Sprites /\ Sound(sprites[i], Air) /\ i \in Nat
                                   /\ NextUpdate(i) \in Nat /\ NextUpdate(i) \in t .. t + 1
                                   /\ OnTime(sprites[i], NextUpdate(i), Air, waterLevel)
  BY Timed
<1>2. k \in DOMAIN sprites /\ NextUpdate(k) = t
  BY <1>1 DEF UpdateSprite, NextUpdate
<1>3. /\ Dies(s, r) /\ k' = k /\ isMovement' = TRUE
      /\ UNCHANGED <<solid, waterLevel, t, then>>
  BY DEF UpdateSprite
<1>4. t <= LastFall + 1
  <2> SUFFICES ASSUME t > LastFall + 1 PROVE FALSE
    BY <1>1, Times
  <2>1. r = s /\ s.mv = Still /\ s.kind \in {"box", "lombric"} /\ (s.kind = "lombric" => Survives(s, s))
    <3>1. t > LastFall
      BY <1>1, Times
    <3> QED
      BY <1>1, <1>2, <3>1, RestsOn
  <2>2. s.kind = "box" /\ Taker(s) # {}
    BY <2>1 DEF Survives
  <2>3. PICK i \in DOMAIN sprites : sprites[i].id # 0 /\ Cell(sprites[i]) = Cell(s)
    BY <2>2 DEF Taker
  <2> QED
    BY <1>2, <2>2, <2>3 DEF TimeInv
<1> HIDE DEF r
<1>5. PICK q \in Seq(Sprites) :
        /\ Len(q) = Len(sprites) /\ sprites' = RemoveAt(q, k)
        /\ \A i \in DOMAIN sprites : i # k =>
             /\ q[i].kind = sprites[i].kind /\ q[i].id = sprites[i].id /\ Cell(q[i]) = Cell(sprites[i])
             /\ OnTime(q[i], NextUpdate(i), Air', waterLevel)
  BY <1>2, <1>3, DiesOnTime
<1> DEFINE was(j) == IF j < k THEN j ELSE j + 1
<1>6. /\ DOMAIN sprites' \subseteq Nat
      /\ \A j \in DOMAIN sprites' : was(j) \in DOMAIN sprites /\ was(j) # k /\ sprites'[j] = q[was(j)]
                                    /\ NextUpdate(j)' = NextUpdate(was(j))
  <2>1. /\ sprites' \in Seq(Sprites) /\ Len(sprites') = Len(sprites) - 1
        /\ \A j \in 1 .. Len(sprites) - 1 : sprites'[j] = IF j < k THEN q[j] ELSE q[j + 1]
    <3>1. k \in 1 .. Len(q) /\ Len(q) = Len(sprites) /\ sprites' = RemoveAt(q, k)
      BY <1>1, <1>2, <1>5
    <3> QED
      BY <3>1, RemoveAtFacts
  <2>2. DOMAIN sprites' = 1 .. Len(sprites) - 1
    BY <2>1, Elements
  <2> QED
    BY <1>1, <1>2, <1>3, <2>1, <2>2 DEF NextUpdate
<1> HIDE DEF was, s
<1>7. \A j \in DOMAIN sprites' : OnTime(sprites'[j], NextUpdate(j)', Air', waterLevel')
  BY <1>3, <1>5, <1>6
<1>8. ASSUME NEW i \in DOMAIN sprites', NEW j \in DOMAIN sprites',
             sprites'[i].kind = "box", NextUpdate(i)' > LastFall + 1, sprites'[j].id # 0
      PROVE  Cell(sprites'[j]) # Cell(sprites'[i])
  <2>1. /\ was(i) \in DOMAIN sprites /\ was(j) \in DOMAIN sprites
        /\ sprites[was(i)].kind = "box" /\ NextUpdate(was(i)) > LastFall + 1 /\ sprites[was(j)].id # 0
        /\ Cell(sprites'[j]) = Cell(sprites[was(j)]) /\ Cell(sprites'[i]) = Cell(sprites[was(i)])
    BY <1>5, <1>6, <1>8
  <2> QED
    BY <2>1 DEF TimeInv
<1>9. then' \notin {"recv", "choose", "over"}
  BY <1>1, <1>2, <1>3 DEF IInv, RestInv
<1>10. t' <= LastFall + 2
  BY <1>3 DEF TimeInv
<1> QED
  BY <1>3, <1>4, <1>7, <1>8, <1>9, <1>10 DEF TimeInv, LastFall, Flight

LEMMA SweepInTime ==
  ASSUME IInv, ~strayed, TimeInv, NextSweep
  PROVE  TimeInv'
<1>1. /\ sprites \in Seq(Sprites) /\ Len(sprites) \in Nat /\ DOMAIN sprites = 1 .. Len(sprites)
      /\ t \in Nat /\ k \in Nat /\ waterLevel \in Nat
      /\ \A i \in DOMAIN sprites : /\ sprites[i] \in Sprites /\ Sound(sprites[i], Air) /\ i \in Nat
                                   /\ NextUpdate(i) \in Nat /\ NextUpdate(i) \in t .. t + 1
                                   /\ OnTime(sprites[i], NextUpdate(i), Air, waterLevel)
  BY Timed
<1>2. /\ k > Len(sprites) /\ isMovement /\ t' = t + 1 /\ k' = 1 /\ ~isMovement'
      /\ UNCHANGED <<light, solid, waterLevel, sprites, then>>
  BY DEF NextSweep, map
<1>3. Air' = Air
  BY <1>2 DEF Air
<1>4. \A i \in DOMAIN sprites : NextUpdate(i)' = NextUpdate(i)
  BY <1>1, <1>2 DEF NextUpdate
<1>5. t' <= LastFall + 2
  BY <1>1, <1>2, Times DEF TimeInv
<1>6. \A i \in DOMAIN sprites' : ~(i < k')
  BY <1>1, <1>2
<1>7. then' \notin {"recv", "choose", "over"}
  BY <1>2 DEF IInv, RestInv
<1>8. \A i, j \in DOMAIN sprites :
        sprites[i].kind = "box" /\ NextUpdate(i) > LastFall + 1 /\ sprites[j].id # 0
          => Cell(sprites[j]) # Cell(sprites[i])
  BY DEF TimeInv
<1> QED
  BY <1>1, <1>2, <1>3, <1>4, <1>5, <1>6, <1>7, <1>8 DEF TimeInv, LastFall, Flight

(* Before update starts and after it returned.                             *)
LEMMA StillInTime ==
  ASSUME t' = 0, k' \in Nat, ~isMovement',
         \A i \in DOMAIN sprites' : sprites'[i].mv = Still /\ sprites'[i].kind # "projectile"
  PROVE  TimeInv'
<1>1. \A i \in DOMAIN sprites' : NextUpdate(i)' <= 1 /\ NextUpdate(i)' \in Nat
  BY DEF NextUpdate
<1>2. \A i \in DOMAIN sprites' : OnTime(sprites'[i], NextUpdate(i)', Air', waterLevel')
  BY <1>1, Times DEF OnTime
<1>3. \A i \in DOMAIN sprites' : ~(NextUpdate(i)' > LastFall + 1)
  BY <1>1, Times
<1>4. t' <= LastFall + 2
  BY Times
<1> QED
  BY <1>2, <1>3, <1>4 DEF TimeInv, LastFall, Flight

(* While the room waits, and when update has returned, nothing moves.      *)
LEMMA AllStill ==
  ASSUME IInv, ~strayed, TimeInv, then \in {"recv", "choose"} \/ \E caller : Returns(caller)
  PROVE  \A i \in DOMAIN sprites : sprites[i].mv = Still /\ sprites[i].kind # "projectile"
<1>1. /\ Len(sprites) \in Nat /\ DOMAIN sprites = 1 .. Len(sprites) /\ k \in Nat
      /\ \A i \in DOMAIN sprites : Sound(sprites[i], Air)
  BY Timed
<1>2. \A i \in DOMAIN sprites : sprites[i].mv = Still
  <2>1. CASE then \in {"recv", "choose"}
    BY <2>1 DEF TimeInv
  <2>2. ASSUME NEW caller, Returns(caller) PROVE \A i \in DOMAIN sprites : sprites[i].mv = Still
    <3>1. \A i \in DOMAIN sprites : i < k
      BY <1>1, <2>2 DEF Returns
    <3> QED
      BY <2>2, <3>1 DEF Returns, TimeInv
  <2> QED
    BY <2>1, <2>2
<1> QED
  BY <1>1, <1>2 DEF Sound

(* The steps that start update, or choose what follows it.                 *)
LEMMA RoundInTime ==
  ASSUME IInv, ~strayed, TimeInv, ShotDone \/ MoveDone \/ RiseDone \/ RoundTimeOver
  PROVE  TimeInv'
<1>1. then \in {"recv", "choose"} \/ \E caller : Returns(caller)
  BY DEF ShotDone, MoveDone, RiseDone, RoundTimeOver
<1>2. \A i \in DOMAIN sprites : sprites[i].mv = Still /\ sprites[i].kind # "projectile"
  BY <1>1, AllStill
<1>3. UNCHANGED sprites /\ (EndRound \/ \E next : Leaves(next))
  BY DEF ShotDone, MoveDone, RiseDone, RoundTimeOver
<1>4. t' = 0 /\ k' \in Nat /\ ~isMovement'
  BY <1>3 DEF EndRound, Leaves, Update
<1> QED
  BY <1>2, <1>3, <1>4, StillInTime

LEMMA MoveInTime ==
  ASSUME IInv, ~strayed, TimeInv, HandleMove
  PROVE  TimeInv'
<1> DEFINE mine == {i \in DOMAIN sprites : sprites[i].id = Received.id}
           to == Received.to
<1>0. Receives("POS_LOMB_S")
  BY Zenon DEF HandleMove
<1>1. then = "recv"
  BY <1>0, Reading
<1>2. \A i \in DOMAIN sprites : sprites[i].mv = Still /\ sprites[i].kind # "projectile"
  BY <1>1, AllStill
<1>3. /\ sprites \in Seq(Sprites) /\ Len(sprites) \in Nat /\ t = 0 /\ ~isMovement
      /\ \A i \in DOMAIN sprites : sprites[i] \in Sprites
  BY <1>1, Waiting
<1>4. CASE /\ \E i \in mine : sprites' = [sprites EXCEPT ![i].x = to[1], ![i].y = to[2]]
           /\ Update("moved")
  <2>1. PICK i \in mine : sprites' = [sprites EXCEPT ![i].x = to[1], ![i].y = to[2]]
    BY <1>4
  <2> DEFINE r == [sprites[i] EXCEPT !.x = to[1], !.y = to[2]]
  <2>2. i \in DOMAIN sprites /\ sprites[i] \in Sprites
    BY <1>3
  <2>3. sprites' = [sprites EXCEPT ![i] = r]
    BY <2>1, <2>2, <1>3
  <2>4. r.mv = sprites[i].mv /\ r.kind = sprites[i].kind
    <3> HIDE DEF to, mine
    <3> QED
      BY <2>2 DEF Sprites
  <2> HIDE DEF r, to, mine
  <2>5. \A j \in DOMAIN sprites' : sprites'[j].mv = Still /\ sprites'[j].kind # "projectile"
    BY <1>2, <2>2, <2>3, <2>4
  <2>6. t' = 0 /\ k' \in Nat /\ ~isMovement'
    BY <1>4 DEF Update
  <2> QED
    BY <2>5, <2>6, StillInTime
<1>5. CASE then' = "moved" /\ k' = Len(sprites) + 1 /\ UNCHANGED <<t, isMovement, sprites>>
  <2>1. k' \in Nat /\ t' = 0 /\ ~isMovement'
    BY <1>3, <1>5
  <2> QED
    BY <1>2, <1>5, <2>1, StillInTime
<1> QED
  BY <1>4, <1>5 DEF HandleMove

LEMMA ChooseInTime ==
  ASSUME IInv, ~strayed, TimeInv, Choose
  PROVE  TimeInv'
<1>1. then = "choose" /\ UNCHANGED <<t, k, isMovement>>
  BY DEF Choose
<1>2. \A i \in DOMAIN sprites : sprites[i].mv = Still /\ sprites[i].kind # "projectile"
  BY <1>1, AllStill
<1>3. sprites \in Seq(Sprites) /\ t = 0 /\ k = 0 /\ ~isMovement
  BY <1>1, Waiting
<1>4. UNCHANGED sprites \/ \E c : sprites' = Append(sprites, HealthBox(c))
  BY DEF Choose
<1>5. \A i \in DOMAIN sprites' : sprites'[i].mv = Still /\ sprites'[i].kind # "projectile"
  <2>1. CASE UNCHANGED sprites
    BY <1>2, <2>1
  <2>2. ASSUME NEW c, sprites' = Append(sprites, HealthBox(c))
        PROVE  \A i \in DOMAIN sprites' : sprites'[i].mv = Still /\ sprites'[i].kind # "projectile"
    <3>1. HealthBox(c).mv = Still /\ HealthBox(c).kind # "projectile"
      BY DEF HealthBox
    <3> DEFINE b == HealthBox(c)
    <3> HIDE DEF b
    <3>2. \A i \in DOMAIN Append(sprites, b) : (i \in DOMAIN sprites /\ Append(sprites, b)[i] = sprites[i])
                                               \/ Append(sprites, b)[i] = b
      BY <1>3
    <3> QED
      BY <1>2, <2>2, <3>1, <3>2 DEF b
  <2> QED
    BY <1>4, <2>1, <2>2
<1> QED
  BY <1>1, <1>3, <1>5, StillInTime

(* A shot sends off a projectile, a bat the worms it hits.                 *)
LEMMA FiredOnTime ==
  ASSUME sprites \in Seq(Sprites), \A i \in DOMAIN sprites : Sound(sprites[i], Air),
         \A i \in DOMAIN sprites : sprites[i].mv = Still /\ sprites[i].kind # "projectile",
         currentWorms \in AliveIds, NEW shot \in Shots
  PROVE  \A i \in DOMAIN Fired(shot) : OnTime(Fired(shot)[i], 0, Air, waterLevel)
<1>1. /\ Len(sprites) \in Nat /\ DOMAIN sprites = 1 .. Len(sprites)
      /\ \A i \in DOMAIN sprites : sprites[i] \in Sprites /\ Sound(sprites[i], Air)
  BY Elements
<1>2. shot.speed[1] \in Int /\ shot.speed[2] \in Int /\ shot.speed[2] >= -Fastest
  BY BoardAssumption, FastestAssumption DEF Shots
<1>3. Shooter \in DOMAIN sprites
  <2>1. \E i \in DOMAIN sprites : sprites[i].id = currentWorms
    BY DEF AliveIds
  <2> QED
    BY <2>1 DEF Shooter
<1>4. \A i \in DOMAIN sprites : sprites[i].x \in Int /\ sprites[i].y \in Nat
  <2> SUFFICES ASSUME NEW i \in DOMAIN sprites PROVE sprites[i].x \in Int /\ sprites[i].y \in Nat
    OBVIOUS
  <2>1. sprites[i] \in Sprites /\ Cell(sprites[i]) \in Air
    BY <1>1 DEF Sound
  <2> QED
    BY <2>1, BoardAssumption DEF Cell, Air, Cells, Sprites
<1>5. \A i \in DOMAIN sprites : OnTime(sprites[i], 0, Air, waterLevel)
  BY Times DEF OnTime
<1>6. CASE shot.weapon = "LanceMissile"
  <2> DEFINE c == <<sprites[Shooter].x, sprites[Shooter].y - 1>>
             p == Projectile(c, shot.speed)
             f == [x |-> c[1], y |-> c[2], vx |-> shot.speed[1], vy |-> shot.speed[2], t0 |-> 0]
  <2>1. c[1] \in Int /\ c[2] \in Int /\ c[2] >= -1
    BY <1>3, <1>4
  <2> HIDE DEF c
  <2>2. f \in Flights /\ f.t0 = 0 /\ f.y >= -1 /\ f.vy >= -Fastest
    BY <1>2, <2>1 DEF Flights
  <2>3. p = [kind |-> "projectile", id |-> 0, x |-> c[1], y |-> c[2], vie |-> 1, mv |-> f]
    BY DEF Projectile
  <2>4. f # Still
    BY <2>2, FlightMoves
  <2> HIDE DEF f
  <2>5. p \in Sprites
    BY <2>1, <2>2, <2>3 DEF Sprites, Kinds
  <2>6. OnTime(p, 0, Air, waterLevel)
    BY <2>2, <2>3, <2>4, Times DEF OnTime
  <2>7. Fired(shot) = Append(sprites, p)
    BY <1>6 DEF Fired, c
  <2> HIDE DEF p
  <2>8. /\ DOMAIN Fired(shot) = 1 .. Len(sprites) + 1
        /\ \A i \in 1 .. Len(sprites) : Fired(shot)[i] = sprites[i]
        /\ Fired(shot)[Len(sprites) + 1] = p
    BY <2>5, <2>7, WriteQueue
  <2>9. \A i \in DOMAIN Fired(shot) : i \in 1 .. Len(sprites) \/ i = Len(sprites) + 1
    BY <1>1, <2>8
  <2> QED
    BY <1>1, <1>5, <2>6, <2>8, <2>9
<1>7. CASE shot.weapon = "Batte"
  <2> DEFINE f(i) == [x |-> sprites[i].x, y |-> sprites[i].y, vx |-> shot.speed[1],
                      vy |-> shot.speed[2], t0 |-> 0]
             b(i) == [sprites[i] EXCEPT !.mv = f(i)]
             q == [i \in DOMAIN sprites |-> IF Hit(i) THEN AddLife(b(i), -BatLoss) ELSE sprites[i]]
  <2>1. Fired(shot) = q
    BY <1>7 DEF Fired
  <2>2. -BatLoss \in Int
    BY BoardAssumption
  <2>3. ASSUME NEW i \in DOMAIN sprites, Hit(i)
        PROVE  OnTime(AddLife(b(i), -BatLoss), 0, Air, waterLevel)
    <3>1. sprites[i] \in Sprites /\ sprites[i].x \in Int /\ sprites[i].y \in Nat
      BY <1>1, <1>4
    <3>2. sprites[i].kind = "lombric"
      BY <1>1, <2>3 DEF Hit, Sound
    <3>3. f(i) \in Flights /\ f(i).t0 = 0 /\ f(i).y >= 0 /\ f(i).vy >= -Fastest
      BY <1>2, <3>1 DEF Flights
    <3> HIDE DEF f
    <3>4. b(i) \in Sprites /\ b(i).mv = f(i) /\ b(i).kind = "lombric"
      BY <3>1, <3>2, <3>3 DEF Sprites
    <3> HIDE DEF b
    <3> DEFINE r == AddLife(b(i), -BatLoss)
    <3>5. r.mv = f(i) /\ r.kind = "lombric"
      BY <2>2, <3>4, AddLifeFacts
    <3> HIDE DEF r
    <3>6. r.mv # Still
      BY <3>3, <3>5, FlightMoves
    <3>7. Blown(r, 0)
      BY <3>3, <3>5, Times DEF Blown
    <3>8. OnTime(r, 0, Air, waterLevel)
      BY <3>5, <3>6, <3>7 DEF OnTime
    <3> QED
      BY <3>8 DEF r
  <2> QED
    BY <1>5, <2>1, <2>3
<1>8. CASE shot.weapon = "PassTour"
  <2>1. Fired(shot) = sprites
    BY <1>8 DEF Fired
  <2> QED
    BY <1>5, <2>1
<1> QED
  BY <1>6, <1>7, <1>8 DEF Shots

LEMMA ShootInTime ==
  ASSUME IInv, ~strayed, TimeInv, HandleShoot
  PROVE  TimeInv'
<1>1. /\ then = "recv" /\ Received \in Steps \cup Shots /\ Received.type = "SHOOT"
  BY Reading DEF HandleShoot
<1>2. Received \in Shots
  BY <1>1 DEF Steps
<1>3. /\ sprites \in Seq(Sprites) /\ Space = Air
      /\ \A i \in DOMAIN sprites : Sound(sprites[i], Air)
  BY <1>1, Waiting DEF Space
<1>4. \A i \in DOMAIN sprites : sprites[i].mv = Still /\ sprites[i].kind # "projectile"
  BY <1>1, AllStill
<1>5. currentWorms \in AliveIds
  BY <1>1 DEF IInv, CurrentInv
<1>6. /\ UNCHANGED <<light, solid, waterLevel>> /\ sprites' = Fired(Received)
      /\ t' = 0 /\ k' = 1 /\ isMovement' = FALSE /\ then' = "shot"
  BY DEF HandleShoot, Update, map
<1>7. Air' = Air
  BY <1>6 DEF Air
<1>8. \A i \in DOMAIN sprites' : OnTime(sprites'[i], 0, Air', waterLevel')
  BY <1>2, <1>3, <1>4, <1>5, <1>6, <1>7, FiredOnTime
<1>9. sprites' \in Seq(Sprites)
  BY <1>2, <1>3, <1>5, <1>6, FiredFacts
<1>10. \A i \in DOMAIN sprites' : ~(i < 1)
  BY <1>9, Elements
<1>11. \A i \in DOMAIN sprites' : NextUpdate(i)' = 0
  BY <1>6, <1>10 DEF NextUpdate
<1>12. ~(0 > LastFall + 1) /\ 0 <= LastFall + 2
  BY Times
<1>13. /\ \A i \in DOMAIN sprites' : OnTime(sprites'[i], NextUpdate(i)', Air', waterLevel')
       /\ \A i \in DOMAIN sprites' : ~(NextUpdate(i)' > LastFall + 1)
       /\ t' <= LastFall + 2
  BY <1>6, <1>8, <1>11, <1>12
<1>14. \A i \in DOMAIN sprites' : ~(i < k')
  BY <1>6, <1>10
<1> QED
  BY <1>6, <1>13, <1>14 DEF TimeInv, LastFall, Flight

(* Where nothing of the room changes.                                      *)
LEMMA RoomInTime ==
  ASSUME TimeInv, UNCHANGED <<map, sprites, loop>>
  PROVE  TimeInv'
<1>1. UNCHANGED <<light, solid, waterLevel, sprites, t, k, isMovement, then>>
  BY DEF map, loop
<1>2. Air' = Air
  BY <1>1 DEF Air
<1>3. \A i \in DOMAIN sprites : NextUpdate(i)' = NextUpdate(i)
  BY <1>1 DEF NextUpdate
<1> QED
  BY <1>1, <1>2, <1>3 DEF TimeInv, LastFall, Flight

LEMMA InitInTime == ASSUME Init PROVE TimeInv
<1>1. t = 0 /\ k = 0 /\ ~isMovement /\ then = "recv"
  BY DEF Init
<1>2. \A i \in DOMAIN sprites : sprites[i].mv = Still /\ sprites[i].kind # "projectile"
  BY DEF Init, Lombric
<1>3. \A i \in DOMAIN sprites : NextUpdate(i) \in Nat /\ NextUpdate(i) <= 1
  BY <1>1 DEF NextUpdate
<1>4. /\ \A i \in DOMAIN sprites : OnTime(sprites[i], NextUpdate(i), Air, waterLevel)
      /\ \A i \in DOMAIN sprites : ~(NextUpdate(i) > LastFall + 1)
      /\ t <= LastFall + 2
  BY <1>1, <1>2, <1>3, Times DEF OnTime
<1> QED
  BY <1>1, <1>2, <1>4 DEF TimeInv

LEMMA NextInTime == ASSUME IInv, ~strayed, TimeInv, Next PROVE TimeInv'
<1>1. CASE UpdateSprite
  <2>1. k \in DOMAIN sprites
    BY <1>1 DEF UpdateSprite
  <2>2. CASE Survives(sprites[k], Updated(sprites[k]))
    BY <1>1, <2>2, SurviveInTime
  <2>3. CASE ~Survives(sprites[k], Updated(sprites[k]))
    BY <1>1, <2>3, DieInTime
  <2> QED
    BY <2>2, <2>3
<1>2. CASE NextSweep
  BY <1>2, SweepInTime
<1>3. CASE HandleMove
  BY <1>3, MoveInTime
<1>4. CASE HandleShoot
  BY <1>4, ShootInTime
<1>5. CASE ShotDone \/ MoveDone \/ RiseDone \/ RoundTimeOver
  BY <1>5, RoundInTime
<1>6. CASE Choose
  BY <1>6, ChooseInTime
<1>7. ASSUME NEW w \in Worms, Client(w)
      PROVE  TimeInv'
  <2>1. UNCHANGED <<map, sprites, loop>>
    BY <1>7 DEF Client, ClientMoves, ClientShoots, ClientTimeOver, ClientSimulates, ClientExplodes, Synchronize
  <2> QED
    BY <2>1, RoomInTime
<1> QED
  BY <1>1, <1>2, <1>3, <1>4, <1>5, <1>6, <1>7 DEF Next, Room

(* Nothing takes back that a client has strayed.                           *)
LEMMA StrayedStays == ASSUME Next PROVE strayed => strayed'
<1>1. CASE Room \/ RoundTimeOver
  <2>1. UNCHANGED client
    BY <1>1 DEF Room, UpdateSprite, NextSweep, HandleMove, HandleShoot, ShotDone, MoveDone, RiseDone, Choose,
                RoundTimeOver
  <2> QED
    BY <2>1 DEF client
<1>2. ASSUME NEW w \in Worms, Client(w) PROVE strayed => strayed'
  BY <1>2 DEF Client, ClientMoves, ClientShoots, ClientTimeOver, ClientSimulates, ClientExplodes, Synchronize
<1> QED
  BY <1>1, <1>2 DEF Next

(* Partie::update always comes to an end, unless a client has walked into  *)
(* what only its own explosion removed: a bound on its sweeps that holds   *)
(* for every map, every shot, every explosion and every fall it sets off   *)
(* (partie_serv.cpp:147-156).                                              *)
THEOREM UpdateEnds == Spec => []UpdateReturns
<1> DEFINE Inv == IInv /\ (strayed \/ TimeInv)
<1>1. Init => Inv
  BY InitInv, InitInTime
<1>2. Inv /\ [Next]_vars => Inv'
  <2> SUFFICES ASSUME IInv, strayed \/ TimeInv, [Next]_vars PROVE IInv' /\ (strayed' \/ TimeInv')
    OBVIOUS
  <2>1. CASE Next
    <3>1. IInv'
      BY <2>1, NextInv
    <3>2. strayed => strayed'
      BY <2>1, StrayedStays
    <3>3. ASSUME ~strayed PROVE TimeInv'
      BY <2>1, <3>3, NextInTime
    <3> QED
      BY <3>1, <3>2, <3>3
  <2>2. CASE UNCHANGED vars
    <3>1. UNCHANGED <<map, sprites, loop>> /\ UNCHANGED strayed
      BY <2>2 DEF vars, client
    <3> QED
      BY <2>2, <3>1, StutterInv, RoomInTime
  <2> QED
    BY <2>1, <2>2
<1>3. Inv => UpdateReturns
  BY DEF TimeInv, UpdateReturns
<1> HIDE DEF Inv
<1> QED
  BY <1>1, <1>2, <1>3, PTL DEF Spec

=============================================================================
