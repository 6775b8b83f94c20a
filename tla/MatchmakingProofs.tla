-------------------------- MODULE MatchmakingProofs --------------------------
(***************************************************************************)
(* Proofs about Matchmaking, for every finite set of users, any number of  *)
(* rooms and places and any bounds: a search is answered once, who sees a  *)
(* lobby is a player of the room its session forwards to, and Matchmaking  *)
(* implements Lobbies.  All are about messages on their way, so the        *)
(* invariants count them (RequestInv: one request for each user, wherever  *)
(* it is) and order them (LobbyInv: who is let in hears of it before it    *)
(* hears of the end, and of the end before the closing; EndsInv: who hears *)
(* of an end is in a room that ended).                                     *)
(***************************************************************************)
EXTENDS Matchmaking, QueueLemmas, FiniteSetTheorems, FunctionTheorems, TLAPS

-----------------------------------------------------------------------------
(* Counting in queues *)

Count(q, S) == Cardinality({i \in DOMAIN q : q[i] \in S})

(* Each element of T in a queue comes after one of S.                      *)
Led(q, T, S) == \A i \in DOMAIN q : q[i] \in T => \E j \in 1 .. i - 1 : q[j] \in S

(* What is counted is finite, and positive when there is one.              *)
LEMMA CountType ==
  ASSUME NEW S, NEW q \in Seq(S), NEW T
  PROVE  /\ IsFiniteSet({i \in DOMAIN q : q[i] \in T})
         /\ Count(q, T) \in Nat
         /\ Count(q, T) > 0 <=> \E i \in DOMAIN q : q[i] \in T
<1> DEFINE I == {i \in DOMAIN q : q[i] \in T}
<1>1. Len(q) \in Nat /\ DOMAIN q = 1 .. Len(q)
  BY Elements
<1>2. IsFiniteSet(1 .. Len(q))
  BY <1>1, FS_Interval
<1>3. I \in SUBSET (1 .. Len(q))
  BY <1>1
<1>4. Count(q, T) = Cardinality(I)
  BY DEF Count
<1>7. I # {} <=> \E i \in DOMAIN q : q[i] \in T
  OBVIOUS
<1> HIDE DEF I
<1>5. IsFiniteSet(I) /\ Cardinality(I) \in Nat
  BY <1>2, <1>3, FS_Subset, FS_CardinalityType
<1>6. Cardinality(I) = 0 <=> I = {}
  BY <1>5, FS_EmptySet
<1> QED
  BY <1>4, <1>5, <1>6, <1>7 DEF I

(* An empty queue holds nothing.                                           *)
LEMMA CountEmpty == \A T : Count(<<>>, T) = 0
<1> SUFFICES ASSUME NEW T PROVE Count(<<>>, T) = 0
  OBVIOUS
<1>1. {i \in DOMAIN <<>> : <<>>[i] \in T} = {}
  OBVIOUS
<1> QED
  BY <1>1, FS_EmptySet DEF Count

(* Writing adds one if what is written is counted.                         *)
LEMMA CountAppend ==
  ASSUME NEW S, NEW q \in Seq(S), NEW x \in S, NEW T
  PROVE  Count(Append(q, x), T) = IF x \in T THEN Count(q, T) + 1 ELSE Count(q, T)
<1> DEFINE p == Append(q, x)
           I == {i \in DOMAIN q : q[i] \in T}
           J == {i \in DOMAIN p : p[i] \in T}
<1>1. /\ Len(q) \in Nat /\ DOMAIN q = 1 .. Len(q) /\ DOMAIN p = 1 .. Len(q) + 1
      /\ \A i \in 1 .. Len(q) : p[i] = q[i]
      /\ p[Len(q) + 1] = x
  BY WriteQueue
<1> HIDE DEF p
<1>2. IsFiniteSet(I) /\ Count(q, T) = Cardinality(I) /\ Count(p, T) = Cardinality(J)
  BY CountType DEF Count
<1>3. Len(q) + 1 \notin I
  BY <1>1
<1>4. CASE x \in T
  <2>1. J = I \cup {Len(q) + 1}
    BY <1>1, <1>4
  <2> HIDE DEF I, J
  <2> QED
    BY <1>2, <1>3, <1>4, <2>1, FS_AddElement DEF p
<1>5. CASE x \notin T
  <2>1. J = I
    BY <1>1, <1>5
  <2> QED
    BY <1>2, <1>5, <2>1 DEF p
<1> QED
  BY <1>4, <1>5

(* Reading takes one away if what is read is counted.                      *)
LEMMA CountTail ==
  ASSUME NEW S, NEW q \in Seq(S), q # <<>>, NEW T
  PROVE  Count(q, T) = IF Head(q) \in T THEN Count(Tail(q), T) + 1 ELSE Count(Tail(q), T)
<1> DEFINE p == Tail(q)
           I == {i \in DOMAIN p : p[i] \in T}
           J == {i \in DOMAIN q : q[i] \in T}
           f == [i \in I |-> i + 1]
<1>1. /\ Len(q) \in Nat /\ Len(q) >= 1 /\ DOMAIN q = 1 .. Len(q) /\ DOMAIN p = 1 .. Len(q) - 1
      /\ Head(q) = q[1] /\ p \in Seq(S)
      /\ \A i \in 1 .. Len(q) - 1 : p[i] = q[i + 1]
  BY ReadQueue
<1> HIDE DEF p
<1>2. IsFiniteSet(I) /\ IsFiniteSet(J) /\ Count(p, T) = Cardinality(I) /\ Count(q, T) = Cardinality(J)
  BY <1>1, CountType DEF Count
<1>3. Cardinality(J \ {1}) = Cardinality(I)
  <2>1. \A i \in I : f[i] = i + 1 /\ f[i] \in J \ {1}
    BY <1>1
  <2>2. \A i, j \in I : f[i] = f[j] => i = j
    BY <1>1, <2>1
  <2>3. \A j \in J \ {1} : \E i \in I : f[i] = j
    <3> SUFFICES ASSUME NEW j \in J \ {1} PROVE \E i \in I : f[i] = j
      OBVIOUS
    <3>1. j \in 2 .. Len(q) /\ q[j] \in T
      BY <1>1
    <3>2. j - 1 \in 1 .. Len(q) - 1 /\ (j - 1) + 1 = j
      BY <1>1, <3>1
    <3>3. p[j - 1] = q[j]
      BY <1>1, <3>2
    <3>4. j - 1 \in I
      BY <1>1, <3>1, <3>2, <3>3
    <3> QED
      BY <2>1, <3>2, <3>4
  <2>4. f \in [I -> J \ {1}]
    BY <2>1
  <2> HIDE DEF f, I, J
  <2>5. f \in Bijection(I, J \ {1})
    BY <2>2, <2>3, <2>4, Fun_IsBij
  <2>6. ExistsBijection(I, J \ {1})
    BY <2>5, Fun_ExistsBij
  <2> QED
    BY <1>2, <2>6, FS_Bijection
<1>4. 1 \in J <=> Head(q) \in T
  BY <1>1
<1> HIDE DEF I, J
<1>5. Cardinality(J \ {1}) = IF 1 \in J THEN Cardinality(J) - 1 ELSE Cardinality(J)
  BY <1>2, FS_RemoveElement
<1>6. Cardinality(J) \in Nat
  BY <1>2, FS_CardinalityType
<1> QED
  BY <1>2, <1>3, <1>4, <1>5, <1>6 DEF p

(* What is written keeps the order if it is not of T, or an element of S   *)
(* is before it.                                                           *)
LEMMA LedAppend ==
  ASSUME NEW M, NEW q \in Seq(M), NEW x \in M, NEW T, NEW S, Led(q, T, S), x \notin T \/ Count(q, S) > 0
  PROVE  Led(Append(q, x), T, S)
<1> DEFINE p == Append(q, x)
<1>1. /\ Len(q) \in Nat /\ DOMAIN q = 1 .. Len(q) /\ DOMAIN p = 1 .. Len(q) + 1
      /\ \A i \in 1 .. Len(q) : p[i] = q[i]
      /\ p[Len(q) + 1] = x
  BY WriteQueue
<1>2. x \notin T \/ \E j \in 1 .. Len(q) : q[j] \in S
  BY <1>1, CountType
<1> HIDE DEF p
<1>3. ASSUME NEW i \in DOMAIN p, p[i] \in T
      PROVE  \E j \in 1 .. i - 1 : p[j] \in S
  <2>1. CASE i \in 1 .. Len(q)
    <3>1. PICK j \in 1 .. i - 1 : q[j] \in S
      BY <1>1, <1>3, <2>1 DEF Led
    <3>2. j \in 1 .. Len(q)
      BY <1>1, <2>1
    <3> QED
      BY <1>1, <3>1, <3>2
  <2>2. CASE i = Len(q) + 1
    <3>1. PICK j \in 1 .. Len(q) : q[j] \in S
      BY <1>1, <1>2, <1>3, <2>2
    <3> QED
      BY <1>1, <2>2, <3>1
  <2> QED
    BY <1>1, <2>1, <2>2
<1> QED
  BY <1>3 DEF Led, p

(* The head is not of T, and the order stays when it is not of S either.   *)
LEMMA LedTail ==
  ASSUME NEW M, NEW q \in Seq(M), q # <<>>, NEW T, NEW S, Led(q, T, S)
  PROVE  /\ Head(q) \notin T
         /\ Head(q) \notin S => Led(Tail(q), T, S)
<1> DEFINE p == Tail(q)
<1>1. /\ Len(q) \in Nat /\ Len(q) >= 1 /\ DOMAIN q = 1 .. Len(q) /\ DOMAIN p = 1 .. Len(q) - 1
      /\ Head(q) = q[1] /\ \A i \in 1 .. Len(q) - 1 : p[i] = q[i + 1]
  BY ReadQueue
<1>2. Head(q) \notin T
  <2>1. 1 \in DOMAIN q /\ 1 .. 1 - 1 = {}
    BY <1>1
  <2> QED
    BY <1>1, <2>1 DEF Led
<1> HIDE DEF p
<1>3. ASSUME NEW i \in DOMAIN p, p[i] \in T, q[1] \notin S
      PROVE  \E j \in 1 .. i - 1 : p[j] \in S
  <2>1. i + 1 \in DOMAIN q /\ q[i + 1] \in T
    BY <1>1, <1>3
  <2>2. PICK j \in 1 .. (i + 1) - 1 : q[j] \in S
    BY <2>1 DEF Led
  <2>3. j # 1 /\ j \in 2 .. i /\ i \in 1 .. Len(q) - 1
    BY <1>1, <1>3, <2>2
  <2>4. j - 1 \in 1 .. i - 1 /\ j - 1 \in 1 .. Len(q) - 1 /\ (j - 1) + 1 = j
    BY <1>1, <2>3
  <2>5. p[j - 1] = q[j]
    BY <1>1, <2>4
  <2> QED
    BY <2>2, <2>4, <2>5
<1> QED
  BY <1>1, <1>2, <1>3 DEF Led, p

(* Without elements of T there is nothing to order.                        *)
LEMMA LedNone ==
  ASSUME NEW M, NEW q \in Seq(M), NEW T, NEW S, Count(q, T) = 0
  PROVE  Led(q, T, S)
<1>1. ~(Count(q, T) > 0)
  OBVIOUS
<1>2. ~\E i \in DOMAIN q : q[i] \in T
  BY <1>1, CountType
<1> QED
  BY <1>2 DEF Led

-----------------------------------------------------------------------------
(* The invariant *)

Of(type) == {m \in Messages : m.type = type}
From(type, u) == {m \in Messages : m.type = type /\ m.user = u}

(* The broker searches for users, and an INFO_ROOM is about a user; a room *)
(* hears of a quit only from a session that was dropped.                   *)
BrokerMail == {m \in Messages : m.type = "CLIENT_LOOKUP_MATCH" => m.user \in Users}
RoomMail == {m \in Messages : /\ m.type = "INFO_ROOM" => m.user \in Users
                              /\ m.type = "CLIENT_QUIT_ROOM" => m.user \in dropped}

SenderInv == inbox \in Seq(BrokerMail) /\ rinbox \in [RoomIds -> Seq(RoomMail)]

(* A room that has not started has no players and no messages.             *)
ThreadInv == \A r \in RoomIds : thread[r] \in {"none", "starting"} => m_players[r] = {} /\ rinbox[r] = <<>>

(* Who waits for a room to answer a PING is outside of games; a frame is   *)
(* half read only by who was let in by it.                                 *)
PingInv ==
  \A u \in Users : /\ ping[u] # NoRoom => client[u] = "asking" /\ ~is_on_game[u]
                   /\ half[u] => client[u] = "joined"

Lookups(u) == From("CLIENT_LOOKUP_MATCH", u)
Creates(u) == From("CLIENT_CREATE_ROOM", u)
LookupAnswers == Of("CLIENT_LOOKUP_RESPONSE")
CreateAnswers == Of("CLIENT_CREATE_ROOM_RESPONSE")

(* A search is in the queue of the broker, on its way there, or on its way *)
(* back as an answer; a request to create a room likewise.                 *)
Searches(u) == Count(waiting_players, {u}) + Count(inbox, Lookups(u)) + Count(sub[u], LookupAnswers)
Creations(u) == Count(inbox, Creates(u)) + Count(sub[u], CreateAnswers)
Dropped(u) == IF u \in dropped THEN 1 ELSE 0
Wishes(u, wish) == IF client[u] = wish THEN 1 ELSE 0

(* A user has one request with the broker, the one its client waits for;   *)
(* an old connection may have left another. Who plays has none.            *)
RequestInv ==
  \A u \in Users :
    /\ Searches(u) <= Wishes(u, "looking") + Dropped(u)
    /\ Creations(u) <= Wishes(u, "creating") + Dropped(u)
    /\ u \notin dropped /\ is_on_game[u] => Searches(u) = 0 /\ Creations(u) = 0

(* The rooms that hear their players, the players of a room, and what is   *)
(* on its way between a session and its room.                              *)
Open == {"lobby", "playing", "ended", "overrun"}
Over == {"ended", "overrun"}
In(u) == \E r \in RoomIds : thread[r] \in Open /\ u \in m_players[r]
Asking(u) == From("INFO_ROOM", u)
Infos == Of("INFO_ROOM")
Ends == Of("END_GAME")
Closes == Of("ROOM_CLOSED")

(* The players of an open room are in its game, those that see a lobby are *)
(* in that of game_url, ...                                                *)
Member(u) ==
  /\ \A r \in RoomIds : thread[r] \in Open /\ u \in m_players[r]
                         => game_url[u] = r /\ is_on_game[u] /\ client[u] # "joined"
  /\ client[u] \in {"joined", "entering", "lobby"} => is_on_game[u]
  /\ client[u] = "lobby" => game_url[u] \in RoomIds /\ u \in m_players[game_url[u]]

(* ... who asked to enter is not in a room yet and hears nothing from one, *)
(* ...                                                                     *)
Asks(u) ==
  \A r \in RoomIds :
    /\ Count(rinbox[r], Asking(u)) <= 1
    /\ Count(rinbox[r], Asking(u)) > 0 =>
         /\ client[u] = "entering" /\ game_url[u] = r /\ ~In(u)
         /\ Count(sub[u], Infos) = 0 /\ Count(sub[u], Ends) = 0 /\ Count(sub[u], Closes) = 0

(* ... who was let in hears of it before it hears of the end, ...          *)
Enters(u) ==
  client[u] = "entering" =>
    /\ In(u) => Count(sub[u], Infos) > 0
    /\ Count(sub[u], Infos) > 0 => game_url[u] \in RoomIds /\ u \in m_players[game_url[u]]
    /\ Led(sub[u], Ends, Infos)

(* ... and the end is told before the closing, once, to players that are   *)
(* in no room any more.                                                    *)
Leaving(u) ==
  /\ Count(sub[u], Closes) <= 1
  /\ Count(sub[u], Closes) > 0 => is_on_game[u] /\ ~In(u) /\ client[u] # "joined"
  /\ client[u] \in {"entering", "lobby"} =>
       /\ \A r \in RoomIds : thread[r] \in Over /\ u \in m_players[r] => Count(sub[u], Ends) > 0
       /\ Led(sub[u], Closes, Ends)

LobbyOf(u) == Member(u) /\ Asks(u) /\ Enters(u) /\ Leaving(u)
LobbyInv == OwnIds => \A u \in Users \ dropped : LobbyOf(u)

BaseInv == TypeOK /\ SenderInv /\ ThreadInv /\ PingInv
IInv == BaseInv /\ RequestInv /\ LobbyInv

-----------------------------------------------------------------------------
(* Messages *)

Types == OfRoom \cup {"CLIENT_CREATE_ROOM", "CLIENT_LOOKUP_MATCH", "NOTIF", "START",
            "CLIENT_QUIT_ROOM", "CLIENT_CREATE_ROOM_RESPONSE", "CLIENT_LOOKUP_RESPONSE"}

(* What Msg makes.                                                         *)
LEMMA MsgFacts ==
  ASSUME NEW type \in Types, NEW r \in RoomIds \cup {NoRoom}, NEW v \in Names
  PROVE  LET m == Msg(type, r, v)
         IN  /\ m \in Messages /\ m.type = type /\ m.room = r /\ m.user = v
             /\ \A x : m \in Of(x) <=> type = x
             /\ \A x, w : m \in From(x, w) <=> type = x /\ v = w
BY DEF Msg, Messages, Types, Of, From

LEMMA Constants ==
  /\ QueueMax \in Nat /\ MaxRooms \in Nat /\ MaxEvents \in Nat
  /\ Unsent \notin Users /\ NoRoom \notin RoomIds
  /\ Users \subseteq Names /\ Unsent \in Names
BY MatchmakingAssumption DEF Unsent, NoRoom, RoomIds, Names

(* Delivering a message to some sessions.                                  *)
LEMMA Delivered ==
  ASSUME sub \in [Users -> Seq(Messages)], NEW us, NEW m \in Messages, ToSessions(us, m)
  PROVE  /\ sub' \in [Users -> Seq(Messages)]
         /\ \A v \in Users : sub'[v] = IF v \in us /\ client[v] \notin Deaf THEN Append(sub[v], m) ELSE sub[v]
<1>1. sub' = [v \in Users |-> IF v \in us /\ client[v] \notin Deaf THEN Append(sub[v], m) ELSE sub[v]]
  BY DEF ToSessions, Deliver
<1>2. \A v \in Users : sub[v] \in Seq(Messages) /\ Append(sub[v], m) \in Seq(Messages)
  BY WriteQueue
<1> QED
  BY <1>1, <1>2

(* A session reads the first message of its socket.                        *)
LEMMA ReadSub ==
  ASSUME sub \in [Users -> Seq(Messages)], NEW u \in Users, sub[u] # <<>>, sub' = [sub EXCEPT ![u] = Tail(@)]
  PROVE  /\ sub' \in [Users -> Seq(Messages)] /\ Head(sub[u]) \in Messages
         /\ sub'[u] = Tail(sub[u]) /\ \A v \in Users : v # u => sub'[v] = sub[v]
<1>1. sub[u] \in Seq(Messages)
  OBVIOUS
<1>2. Tail(sub[u]) \in Seq(Messages) /\ Head(sub[u]) \in Messages
  BY <1>1, ReadQueue
<1> QED
  BY <1>2

(* Publishing to the room that has an id.                                  *)
LEMMA Published ==
  ASSUME NEW S, rinbox \in [RoomIds -> Seq(S)], NEW r, NEW m \in S, ToRoom(r, m)
  PROVE  /\ rinbox' \in [RoomIds -> Seq(S)]
         /\ \A k \in RoomIds : rinbox'[k] = IF Hears(k, r) THEN Append(rinbox[k], m) ELSE rinbox[k]
<1>1. rinbox' = [k \in RoomIds |-> IF Hears(k, r) THEN Append(rinbox[k], m) ELSE rinbox[k]]
  BY DEF ToRoom
<1>2. \A k \in RoomIds : rinbox[k] \in Seq(S) /\ Append(rinbox[k], m) \in Seq(S)
  BY WriteQueue
<1> QED
  BY <1>1, <1>2

(* The broker pings the rooms: only PINGs are added, to subscribed rooms.  *)
LEMMA Pings ==
  ASSUME NEW S, NEW q \in [RoomIds -> Seq(S)], \A r \in RoomIds : Msg("PING", r, Unsent) \in S
  PROVE  /\ ping_rooms(q) \in [RoomIds -> Seq(S)]
         /\ \A k \in RoomIds : \/ ping_rooms(q)[k] = q[k]
                               \/ /\ Subscribed(k)
                                  /\ \E r \in RoomIds : ping_rooms(q)[k] = Append(q[k], Msg("PING", r, Unsent))
<1> DEFINE c(k) == Subscribed(k) /\ room_id[k] \in OpenRooms /\ Len(q[k]) < QueueMax
           m(k) == Msg("PING", room_id[k], Unsent)
<1>1. ping_rooms(q) = [k \in RoomIds |-> IF c(k) THEN Append(q[k], m(k)) ELSE q[k]]
  BY DEF ping_rooms
<1>2. ASSUME NEW k \in RoomIds, c(k)
      PROVE  /\ Append(q[k], m(k)) \in Seq(S)
             /\ Subscribed(k) /\ room_id[k] \in RoomIds
  <2>1. room_id[k] \in RoomIds
    BY <1>2 DEF OpenRooms
  <2>2. m(k) \in S /\ q[k] \in Seq(S)
    BY <2>1
  <2> QED
    BY <1>2, <2>1, <2>2, WriteQueue
<1> HIDE DEF c
<1>3. \A k \in RoomIds : (IF c(k) THEN Append(q[k], m(k)) ELSE q[k]) \in Seq(S)
  BY <1>2
<1> QED
  BY <1>1, <1>2, <1>3

(* The queues of the rooms after the top of the broker's loop.             *)
LEMMA AtTopFacts ==
  ASSUME NEW S, rinbox \in [RoomIds -> Seq(S)], \A r \in RoomIds : Msg("PING", r, Unsent) \in S
  PROVE  /\ AtTop \in [RoomIds -> Seq(S)]
         /\ \A k \in RoomIds : \/ AtTop[k] = rinbox[k]
                               \/ /\ Subscribed(k)
                                  /\ \E r \in RoomIds : AtTop[k] = Append(rinbox[k], Msg("PING", r, Unsent))
<1>1. AtTop = rinbox \/ AtTop = ping_rooms(rinbox)
  BY DEF AtTop
<1> QED
  BY <1>1, Pings

(* The messages of each queue are messages.                                *)
LEMMA MailMessages ==
  /\ BrokerMail \subseteq Messages /\ RoomMail \subseteq Messages
  /\ Seq(BrokerMail) \subseteq Seq(Messages)
  /\ [RoomIds -> Seq(RoomMail)] \subseteq [RoomIds -> Seq(Messages)]
<1>1. BrokerMail \subseteq Messages /\ RoomMail \subseteq Messages
  BY DEF BrokerMail, RoomMail
<1>2. Seq(BrokerMail) \subseteq Seq(Messages) /\ Seq(RoomMail) \subseteq Seq(Messages)
  BY <1>1, Larger
<1> QED
  BY <1>1, <1>2

(* The messages that are fit for each queue.                               *)
LEMMA Fit ==
  ASSUME NEW type \in Types, NEW r \in RoomIds \cup {NoRoom}, NEW v \in Names
  PROVE  LET m == Msg(type, r, v)
         IN  /\ type # "CLIENT_LOOKUP_MATCH" \/ v \in Users => m \in BrokerMail
             /\ type \notin {"INFO_ROOM", "CLIENT_QUIT_ROOM"} => m \in RoomMail
             /\ type = "INFO_ROOM" /\ v \in Users => m \in RoomMail
<1> DEFINE m == Msg(type, r, v)
<1>1. m \in Messages /\ m.type = type /\ m.user = v
  BY MsgFacts
<1> HIDE DEF m
<1> QED
  BY <1>1 DEF BrokerMail, RoomMail, m

(* A PING may be published to any room.                                    *)
LEMMA PingFits == \A r \in RoomIds : Msg("PING", r, Unsent) \in RoomMail
<1> SUFFICES ASSUME NEW r \in RoomIds PROVE Msg("PING", r, Unsent) \in RoomMail
  OBVIOUS
<1>1. "PING" \in Types /\ "PING" \notin {"INFO_ROOM", "CLIENT_QUIT_ROOM"}
  BY DEF Types, OfRoom
<1> QED
  BY <1>1, Fit, Constants

(* What the broker reads, and what it leaves for the rooms.                *)
LEMMA BrokerReads ==
  ASSUME BaseInv, NEW type, Reads(type)
  PROVE  /\ inbox # <<>> /\ inbox' = Tail(inbox) /\ ~hung
         /\ inbox \in Seq(BrokerMail) /\ inbox' \in Seq(BrokerMail) /\ inbox' \in Seq(Messages)
         /\ Head(inbox) \in BrokerMail /\ Head(inbox) \in Messages /\ Head(inbox).type = type
<1>1. inbox \in Seq(BrokerMail) /\ inbox # <<>> /\ inbox' = Tail(inbox) /\ Head(inbox).type = type /\ ~hung
  BY DEF BaseInv, SenderInv, Reads
<1>2. Tail(inbox) \in Seq(BrokerMail) /\ Head(inbox) \in BrokerMail
  BY <1>1, ReadQueue
<1> QED
  BY <1>1, <1>2, MailMessages

(* What a room reads.                                                      *)
LEMMA RoomTakes ==
  ASSUME BaseInv, NEW r \in RoomIds, NEW type, Takes(r, type)
  PROVE  /\ ~hung /\ rinbox[r] # <<>> /\ rinbox[r] \in Seq(Messages)
         /\ rinbox' \in [RoomIds -> Seq(RoomMail)]
         /\ rinbox'[r] = Tail(rinbox[r]) /\ \A l \in RoomIds : l # r => rinbox'[l] = rinbox[l]
         /\ Head(rinbox[r]) \in RoomMail /\ Head(rinbox[r]) \in Messages /\ Head(rinbox[r]).type = type
<1>1. /\ rinbox \in [RoomIds -> Seq(RoomMail)] /\ rinbox[r] # <<>> /\ Head(rinbox[r]).type = type /\ ~hung
      /\ rinbox' = [rinbox EXCEPT ![r] = Tail(@)]
  BY DEF BaseInv, SenderInv, Takes
<1>2. rinbox[r] \in Seq(RoomMail)
  BY <1>1
<1>3. Tail(rinbox[r]) \in Seq(RoomMail) /\ Head(rinbox[r]) \in RoomMail
  BY <1>1, <1>2, ReadQueue
<1>4. rinbox[r] \in Seq(Messages) /\ Head(rinbox[r]) \in Messages
  BY <1>2, <1>3, MailMessages, Larger
<1> QED
  BY <1>1, <1>3, <1>4

-----------------------------------------------------------------------------
(* Types, senders, and the life of a room *)

LEMMA SessionBase ==
  ASSUME BaseInv, NEW u \in Users, Session(u)
  PROVE  BaseInv'
<1>1. /\ UNCHANGED <<waiting_players, inbox, thread, owner, room_id, m_players, rinbox>>
      /\ UNCHANGED <<same_second, finished, hung, dropped, chats>>
  BY DEF Session, JoinAnswer, JoinTimeout, ReadShifted, Receive, broker, rooms, rows, bounds
<1>2. SenderInv' /\ ThreadInv'
  BY <1>1 DEF BaseInv, SenderInv, ThreadInv, BrokerMail, RoomMail
<1>3. CASE JoinAnswer(u)
  <2>1. /\ half' = [half EXCEPT ![u] = TRUE] /\ is_on_game' = [is_on_game EXCEPT ![u] = TRUE]
        /\ game_url' = [game_url EXCEPT ![u] = ping[u]] /\ ping' = [ping EXCEPT ![u] = NoRoom]
        /\ client' = [client EXCEPT ![u] = "joined"] /\ UNCHANGED sub
    BY <1>3 DEF JoinAnswer
  <2>2. TypeOK'
    BY <1>1, <2>1 DEF BaseInv, TypeOK, Clients
  <2>3. PingInv'
    BY <2>1 DEF BaseInv, TypeOK, PingInv
  <2> QED
    BY <1>2, <2>2, <2>3 DEF BaseInv
<1>4. CASE JoinTimeout(u)
  <2>1. /\ UNCHANGED <<half, is_on_game, game_url, sub>> /\ ping' = [ping EXCEPT ![u] = NoRoom]
        /\ client' = [client EXCEPT ![u] = "menu"] /\ ping[u] # NoRoom
    BY <1>4 DEF JoinTimeout
  <2>2. TypeOK'
    BY <1>1, <2>1 DEF BaseInv, TypeOK, Clients
  <2>3. PingInv'
    BY <2>1 DEF BaseInv, TypeOK, PingInv
  <2> QED
    BY <1>2, <2>2, <2>3 DEF BaseInv
<1>5. CASE ReadShifted(u)
  <2>1. /\ half[u] /\ sub[u] # <<>> /\ sub' = [sub EXCEPT ![u] = Tail(@)]
        /\ half' = [half EXCEPT ![u] = Len(sub[u]) > 1] /\ UNCHANGED <<client, is_on_game, game_url, ping>>
    BY <1>5 DEF ReadShifted
  <2>2. sub' \in [Users -> Seq(Messages)]
    BY <2>1, ReadSub DEF BaseInv, TypeOK
  <2>3. (Len(sub[u]) > 1) \in BOOLEAN
    OBVIOUS
  <2>4. half' \in [Users -> BOOLEAN]
    BY <2>1, <2>3 DEF BaseInv, TypeOK
  <2>5. TypeOK'
    BY <1>1, <2>1, <2>2, <2>4 DEF BaseInv, TypeOK
  <2>6. PingInv'
    BY <2>1 DEF BaseInv, TypeOK, PingInv
  <2> QED
    BY <1>2, <2>5, <2>6 DEF BaseInv
<1>6. CASE Receive(u)
  <2> DEFINE m == Head(sub[u])
  <2>1. /\ sub[u] # <<>> /\ sub' = [sub EXCEPT ![u] = Tail(@)] /\ ~half[u] /\ ping[u] = NoRoom
        /\ UNCHANGED <<half, ping>>
    BY <1>6 DEF Receive
  <2>2. sub' \in [Users -> Seq(Messages)] /\ m.room \in RoomIds \cup {NoRoom}
    BY <2>1, ReadSub DEF BaseInv, TypeOK, Messages
  <2>3. /\ \/ UNCHANGED client
           \/ \E c \in {"lobby", "menu", "joined"} : client' = [client EXCEPT ![u] = c]
        /\ UNCHANGED is_on_game \/ \E b \in BOOLEAN : is_on_game' = [is_on_game EXCEPT ![u] = b]
        /\ UNCHANGED game_url \/ game_url' = [game_url EXCEPT ![u] = m.room]
    BY <1>6 DEF Receive, Answered
  <2>4. client' \in [Users -> Clients] /\ \A v \in Users : v # u => client'[v] = client[v]
    BY <2>3 DEF BaseInv, TypeOK, Clients
  <2>5. is_on_game' \in [Users -> BOOLEAN] /\ \A v \in Users : v # u => is_on_game'[v] = is_on_game[v]
    BY <2>3 DEF BaseInv, TypeOK
  <2>6. game_url' \in [Users -> RoomIds \cup {NoRoom}]
    BY <2>2, <2>3 DEF BaseInv, TypeOK
  <2>7. TypeOK'
    BY <1>1, <2>1, <2>2, <2>4, <2>5, <2>6 DEF BaseInv, TypeOK
  <2>8. PingInv'
    BY <2>1, <2>4, <2>5 DEF BaseInv, PingInv
  <2> QED
    BY <1>2, <2>7, <2>8 DEF BaseInv
<1> QED
  BY <1>3, <1>4, <1>5, <1>6 DEF Session

(* What is published to a room reaches rooms that have subscribed.         *)
LEMMA ToRoomBase ==
  ASSUME BaseInv, NEW r, NEW m \in RoomMail, ToRoom(r, m)
  PROVE  /\ rinbox' \in [RoomIds -> Seq(RoomMail)] /\ rinbox' \in [RoomIds -> Seq(Messages)]
         /\ \A k \in RoomIds : thread[k] \in {"none", "starting"} => rinbox'[k] = rinbox[k]
<1>1. rinbox \in [RoomIds -> Seq(RoomMail)]
  BY DEF BaseInv, SenderInv
<1>2. /\ rinbox' \in [RoomIds -> Seq(RoomMail)]
      /\ \A k \in RoomIds : rinbox'[k] = IF Hears(k, r) THEN Append(rinbox[k], m) ELSE rinbox[k]
  BY <1>1, Published
<1>3. \A k \in RoomIds : thread[k] \in {"none", "starting"} => ~Hears(k, r)
  BY DEF Hears, Subscribed
<1> QED
  BY <1>2, <1>3, MailMessages

(* The pings at the top of the broker's loop do too.                       *)
LEMMA AtTopBase ==
  ASSUME BaseInv
  PROVE  /\ AtTop \in [RoomIds -> Seq(RoomMail)] /\ AtTop \in [RoomIds -> Seq(Messages)]
         /\ \A k \in RoomIds : thread[k] \in {"none", "starting"} => AtTop[k] = rinbox[k]
<1>1. rinbox \in [RoomIds -> Seq(RoomMail)]
  BY DEF BaseInv, SenderInv
<1>2. /\ AtTop \in [RoomIds -> Seq(RoomMail)]
      /\ \A k \in RoomIds : AtTop[k] = rinbox[k] \/ Subscribed(k)
  BY <1>1, AtTopFacts, PingFits
<1>3. \A k \in RoomIds : thread[k] \in {"none", "starting"} => ~Subscribed(k)
  BY DEF Subscribed
<1> QED
  BY <1>2, <1>3, MailMessages

(* A search is broadcast as PINGs.                                         *)
LEMMA BroadcastBase ==
  ASSUME BaseInv
  PROVE  LET q == ping_rooms(AtTop)
         IN  /\ q \in [RoomIds -> Seq(RoomMail)] /\ q \in [RoomIds -> Seq(Messages)]
             /\ \A k \in RoomIds : thread[k] \in {"none", "starting"} => q[k] = rinbox[k]
<1>1. AtTop \in [RoomIds -> Seq(RoomMail)]
  BY AtTopBase
<1>2. /\ ping_rooms(AtTop) \in [RoomIds -> Seq(RoomMail)]
      /\ \A k \in RoomIds : ping_rooms(AtTop)[k] = AtTop[k] \/ Subscribed(k)
  BY <1>1, Pings, PingFits
<1>3. \A k \in RoomIds : thread[k] \in {"none", "starting"} => ~Subscribed(k)
  BY DEF Subscribed
<1> QED
  BY <1>2, <1>3, AtTopBase, MailMessages

LEMMA ToBrokerBase ==
  ASSUME BaseInv, NEW m \in BrokerMail, ToBroker(m)
  PROVE  inbox' = Append(inbox, m) /\ inbox' \in Seq(BrokerMail) /\ inbox' \in Seq(Messages)
<1>1. inbox \in Seq(BrokerMail) /\ inbox' = Append(inbox, m)
  BY DEF BaseInv, SenderInv, ToBroker
<1> QED
  BY <1>1, WriteQueue, MailMessages

(* A request to the broker, ...                                            *)
LEMMA RequestBase ==
  ASSUME BaseInv, NEW u \in Users, CreateRoom(u) \/ FindMatch(u)
  PROVE  BaseInv'
<1>1. PICK wish \in {"creating", "looking"}, type \in {"CLIENT_CREATE_ROOM", "CLIENT_LOOKUP_MATCH"} :
        /\ ping[u] = NoRoom /\ ~half[u] /\ client' = [client EXCEPT ![u] = wish]
        /\ UNCHANGED inbox \/ ToBroker(Msg(type, NoRoom, u))
        /\ UNCHANGED <<is_on_game, game_url, sub, half, ping, waiting_players, rooms, rows, hung, bounds>>
  <2>1. CASE CreateRoom(u)
    BY <2>1 DEF CreateRoom, Request, Silent
  <2>2. CASE FindMatch(u)
    BY <2>2 DEF FindMatch, Request, Silent
  <2> QED
    BY <2>1, <2>2
<1>2. /\ UNCHANGED <<is_on_game, game_url, sub, half, ping, waiting_players, thread, owner, room_id>>
      /\ UNCHANGED <<m_players, rinbox, same_second, finished, hung, dropped, chats>>
  BY <1>1 DEF rooms, rows, bounds
<1>3. type \in Types /\ NoRoom \in RoomIds \cup {NoRoom} /\ u \in Names
  BY Constants DEF Types
<1>4. Msg(type, NoRoom, u) \in BrokerMail
  BY <1>3, Fit
<1>5. inbox' \in Seq(BrokerMail) /\ inbox' \in Seq(Messages)
  <2>1. CASE UNCHANGED inbox
    BY <2>1, MailMessages DEF BaseInv, SenderInv
  <2> QED
    BY <1>1, <1>4, <2>1, ToBrokerBase
<1>6. TypeOK'
  BY <1>1, <1>2, <1>5 DEF BaseInv, TypeOK, Clients
<1>7. SenderInv' /\ ThreadInv'
  BY <1>2, <1>5 DEF BaseInv, SenderInv, ThreadInv, BrokerMail, RoomMail
<1>8. PingInv'
  BY <1>1, <1>2 DEF BaseInv, TypeOK, PingInv
<1> QED
  BY <1>6, <1>7, <1>8 DEF BaseInv

(* ... or to a room.                                                       *)
LEMMA JoinPartieBase ==
  ASSUME BaseInv, NEW u \in Users, JoinPartie(u)
  PROVE  BaseInv'
<1>1. PICK r \in RoomIds :
        /\ ping[u] = NoRoom /\ ~half[u] /\ client' = [client EXCEPT ![u] = "asking"]
        /\ \/ is_on_game[u] /\ UNCHANGED <<ping, rinbox>>
           \/ ~is_on_game[u] /\ ping' = [ping EXCEPT ![u] = r] /\ ToRoom(r, Msg("PING", r, u))
        /\ UNCHANGED <<is_on_game, game_url, sub, half, broker, thread, owner, room_id, m_players, rows, hung, bounds>>
  BY DEF JoinPartie, Request, Silent
<1>2. /\ UNCHANGED <<is_on_game, game_url, sub, half, waiting_players, inbox, thread, owner, room_id>>
      /\ UNCHANGED <<m_players, same_second, finished, hung, dropped, chats>>
  BY <1>1 DEF broker, rows, bounds
<1>3. "PING" \in Types /\ u \in Names /\ "PING" \notin {"INFO_ROOM", "CLIENT_QUIT_ROOM"}
  BY Constants DEF Types, OfRoom
<1>4. Msg("PING", r, u) \in RoomMail
  BY <1>3, Fit
<1>5. /\ rinbox' \in [RoomIds -> Seq(RoomMail)] /\ rinbox' \in [RoomIds -> Seq(Messages)]
      /\ \A k \in RoomIds : thread[k] \in {"none", "starting"} => rinbox'[k] = rinbox[k]
  <2>1. CASE UNCHANGED rinbox
    BY <2>1, MailMessages DEF BaseInv, SenderInv
  <2>2. CASE ToRoom(r, Msg("PING", r, u))
    BY <1>4, <2>2, ToRoomBase
  <2> QED
    BY <1>1, <2>1, <2>2
<1>6. ping' \in [Users -> RoomIds \cup {NoRoom}] /\ \A v \in Users : v # u => ping'[v] = ping[v]
  BY <1>1 DEF BaseInv, TypeOK
<1>7. TypeOK'
  BY <1>1, <1>2, <1>5, <1>6 DEF BaseInv, TypeOK, Clients
<1>8. SenderInv' /\ ThreadInv'
  BY <1>2, <1>5 DEF BaseInv, SenderInv, ThreadInv, BrokerMail, RoomMail
<1>9. PingInv'
  BY <1>1, <1>2, <1>6 DEF BaseInv, TypeOK, PingInv
<1> QED
  BY <1>7, <1>8, <1>9 DEF BaseInv

(* What goes to the room of the session: INFO_ROOM and the start.          *)
LEMMA ForwardBase ==
  ASSUME BaseInv, NEW u \in Users, GetInfoRoom(u) \/ StartGame(u)
  PROVE  BaseInv'
<1>1. PICK type \in {"INFO_ROOM", "START"} :
        /\ ping[u] = NoRoom /\ ~half[u]
        /\ UNCHANGED client \/ client' = [client EXCEPT ![u] = "entering"]
        /\ UNCHANGED rinbox \/ ToRoom(game_url[u], Msg(type, game_url[u], u))
        /\ UNCHANGED <<is_on_game, game_url, sub, half, ping, broker, thread, owner, room_id, m_players>>
        /\ UNCHANGED <<rows, hung, bounds>>
  <2>1. CASE GetInfoRoom(u)
    BY <2>1 DEF GetInfoRoom, Silent
  <2>2. CASE StartGame(u)
    BY <2>2 DEF StartGame, Silent, session
  <2> QED
    BY <2>1, <2>2
<1>2. /\ UNCHANGED <<is_on_game, game_url, sub, half, ping, waiting_players, inbox, thread, owner, room_id>>
      /\ UNCHANGED <<m_players, same_second, finished, hung, dropped, chats>>
  BY <1>1 DEF broker, rows, bounds
<1>3. type \in Types /\ u \in Names /\ game_url[u] \in RoomIds \cup {NoRoom} /\ type # "CLIENT_QUIT_ROOM"
  BY Constants DEF Types, OfRoom, BaseInv, TypeOK
<1>4. Msg(type, game_url[u], u) \in RoomMail
  BY <1>3, Fit
<1>5. /\ rinbox' \in [RoomIds -> Seq(RoomMail)] /\ rinbox' \in [RoomIds -> Seq(Messages)]
      /\ \A k \in RoomIds : thread[k] \in {"none", "starting"} => rinbox'[k] = rinbox[k]
  <2>1. CASE UNCHANGED rinbox
    BY <2>1, MailMessages DEF BaseInv, SenderInv
  <2>2. CASE ToRoom(game_url[u], Msg(type, game_url[u], u))
    BY <1>4, <2>2, ToRoomBase
  <2> QED
    BY <1>1, <2>1, <2>2
<1>6. TypeOK'
  BY <1>1, <1>2, <1>5 DEF BaseInv, TypeOK, Clients
<1>7. SenderInv' /\ ThreadInv'
  BY <1>2, <1>5 DEF BaseInv, SenderInv, ThreadInv, BrokerMail, RoomMail
<1>8. PingInv'
  BY <1>1, <1>2 DEF BaseInv, TypeOK, PingInv
<1> QED
  BY <1>6, <1>7, <1>8 DEF BaseInv

(* A guest that quits tells nobody.                                        *)
LEMMA QuitRoomBase ==
  ASSUME BaseInv, NEW u \in Users, QuitRoom(u)
  PROVE  BaseInv'
<1>1. /\ client[u] = "lobby" /\ \E c \in {"left", "menu"} : client' = [client EXCEPT ![u] = c]
      /\ UNCHANGED <<is_on_game, game_url, sub, half, ping, waiting_players, inbox, thread, owner, room_id>>
      /\ UNCHANGED <<m_players, rinbox, same_second, finished, hung, dropped, chats>>
  BY DEF QuitRoom, rooms, rows, broker, bounds
<1>2. TypeOK'
  BY <1>1 DEF BaseInv, TypeOK, Clients
<1>3. SenderInv' /\ ThreadInv' /\ PingInv'
  BY <1>1 DEF BaseInv, SenderInv, ThreadInv, PingInv, BrokerMail, RoomMail, TypeOK
<1> QED
  BY <1>2, <1>3 DEF BaseInv

(* A notification goes to the broker.                                      *)
LEMMA SendChatBase ==
  ASSUME BaseInv, NEW u \in Users, SendChat(u)
  PROVE  BaseInv'
<1>1. /\ Events < MaxEvents /\ ToBroker(Msg("NOTIF", NoRoom, u)) /\ chats' = chats + 1
      /\ UNCHANGED <<client, is_on_game, game_url, sub, half, ping, waiting_players, thread, owner, room_id>>
      /\ UNCHANGED <<m_players, rinbox, same_second, finished, hung, dropped>>
  BY DEF SendChat, session, rooms, rows
<1>2. "NOTIF" \in Types /\ NoRoom \in RoomIds \cup {NoRoom} /\ u \in Names
  BY Constants DEF Types
<1>3. Msg("NOTIF", NoRoom, u) \in BrokerMail
  BY <1>2, Fit
<1>4. inbox' \in Seq(BrokerMail) /\ inbox' \in Seq(Messages)
  BY <1>1, <1>3, ToBrokerBase
<1>5. Cardinality(dropped) \in Nat
  BY MatchmakingAssumption, FS_Subset, FS_CardinalityType DEF BaseInv, TypeOK
<1>6. chats' \in 0 .. MaxEvents
  BY <1>1, <1>5, Constants DEF Events, BaseInv, TypeOK
<1>7. TypeOK'
  BY <1>1, <1>4, <1>6 DEF BaseInv, TypeOK
<1>8. SenderInv' /\ ThreadInv' /\ PingInv'
  BY <1>1, <1>4 DEF BaseInv, SenderInv, ThreadInv, PingInv, BrokerMail, RoomMail
<1> QED
  BY <1>7, <1>8 DEF BaseInv

LEMMA DisconnectBase ==
  ASSUME BaseInv, NEW u \in Users, Disconnect(u)
  PROVE  BaseInv'
<1> DEFINE m == Msg("CLIENT_QUIT_ROOM", game_url[u], u)
<1>1. /\ ping[u] = NoRoom /\ ~half[u] /\ dropped' = dropped \cup {u}
      /\ client' = [client EXCEPT ![u] = "off"] /\ is_on_game' = [is_on_game EXCEPT ![u] = FALSE]
      /\ UNCHANGED rinbox \/ ToRoom(game_url[u], m)
      /\ UNCHANGED <<game_url, sub, half, ping, waiting_players, inbox, thread, owner, room_id, m_players>>
      /\ UNCHANGED <<same_second, finished, hung, chats>>
  BY DEF Disconnect, Silent, broker, rows
<1>2. "CLIENT_QUIT_ROOM" \in Types /\ u \in Names /\ game_url[u] \in RoomIds \cup {NoRoom}
  BY Constants DEF Types, BaseInv, TypeOK
<1>3. m \in Messages /\ m.type = "CLIENT_QUIT_ROOM" /\ m.user = u
  BY <1>2, MsgFacts
<1> HIDE DEF m
<1>4. m \in RoomMail' /\ RoomMail \subseteq RoomMail'
  BY <1>1, <1>3 DEF RoomMail
<1>5. rinbox \in [RoomIds -> Seq(RoomMail')]
  <2>1. Seq(RoomMail) \subseteq Seq(RoomMail')
    BY <1>4, Larger
  <2> QED
    BY <2>1 DEF BaseInv, SenderInv
<1>6. /\ rinbox' \in [RoomIds -> Seq(RoomMail')]
      /\ \A k \in RoomIds : thread[k] \in {"none", "starting"} => rinbox'[k] = rinbox[k]
  <2>1. CASE UNCHANGED rinbox
    BY <1>5, <2>1
  <2>2. CASE ToRoom(game_url[u], m)
    <3>1. /\ rinbox' \in [RoomIds -> Seq(RoomMail')]
          /\ \A k \in RoomIds : rinbox'[k] = IF Hears(k, game_url[u]) THEN Append(rinbox[k], m) ELSE rinbox[k]
      BY <1>4, <1>5, <2>2, Published
    <3>2. \A k \in RoomIds : thread[k] \in {"none", "starting"} => ~Hears(k, game_url[u])
      BY DEF Hears, Subscribed
    <3> QED
      BY <3>1, <3>2
  <2> QED
    BY <1>1, <2>1, <2>2
<1>7. rinbox' \in [RoomIds -> Seq(Messages)]
  <2>1. RoomMail' \subseteq Messages
    BY DEF RoomMail
  <2>2. Seq(RoomMail') \subseteq Seq(Messages)
    BY <2>1, Larger
  <2> QED
    BY <1>6, <2>2
<1>8. TypeOK'
  BY <1>1, <1>7 DEF BaseInv, TypeOK, Clients
<1>9. SenderInv'
  BY <1>1, <1>6 DEF BaseInv, SenderInv, BrokerMail
<1>10. ThreadInv'
  BY <1>1, <1>6 DEF BaseInv, ThreadInv
<1>11. PingInv'
  BY <1>1 DEF BaseInv, TypeOK, PingInv
<1> QED
  BY <1>8, <1>9, <1>10, <1>11 DEF BaseInv

LEMMA ReconnectBase ==
  ASSUME BaseInv, NEW u \in Users, Reconnect(u)
  PROVE  BaseInv'
<1>1. /\ client[u] = "off" /\ client' = [client EXCEPT ![u] = "menu"]
      /\ UNCHANGED <<is_on_game, game_url, sub, half, ping, waiting_players, inbox, thread, owner, room_id>>
      /\ UNCHANGED <<m_players, rinbox, same_second, finished, hung, dropped, chats>>
  BY DEF Reconnect, rooms, rows, broker, bounds
<1>2. TypeOK'
  BY <1>1 DEF BaseInv, TypeOK, Clients
<1>3. SenderInv' /\ ThreadInv' /\ PingInv'
  BY <1>1 DEF BaseInv, SenderInv, ThreadInv, PingInv, BrokerMail, RoomMail, TypeOK
<1> QED
  BY <1>2, <1>3 DEF BaseInv

(* The broker.                                                             *)
LEMMA BrokerQueues ==
  ASSUME BaseInv, rinbox' \in [RoomIds -> Seq(RoomMail)], inbox' \in Seq(BrokerMail), UNCHANGED dropped,
         \A k \in RoomIds : thread'[k] \in {"none", "starting"} =>
           thread[k] \in {"none", "starting"} /\ m_players'[k] = m_players[k] /\ rinbox'[k] = rinbox[k]
  PROVE  SenderInv' /\ ThreadInv'
BY DEF BaseInv, SenderInv, ThreadInv, BrokerMail, RoomMail

LEMMA BrokerCreatesBase ==
  ASSUME BaseInv, BrokerCreates
  PROVE  BaseInv'
<1> DEFINE v == Head(inbox).user
<1>1. PICK k \in RoomIds, id \in RoomIds :
        /\ \E now \in {same_second, {}} : same_second' = now \cup {k}
        /\ thread' = [thread EXCEPT ![k] = "starting"] /\ owner' = [owner EXCEPT ![k] = v]
        /\ room_id' = [room_id EXCEPT ![k] = id] /\ thread[k] = "none"
        /\ ToSessions({v}, Msg("CLIENT_CREATE_ROOM_RESPONSE", id, Unsent))
  BY DEF BrokerCreates
<1>2. /\ Reads("CLIENT_CREATE_ROOM") /\ rinbox' = AtTop
      /\ UNCHANGED <<client, is_on_game, game_url, half, ping, m_players, finished, waiting_players, hung>>
      /\ UNCHANGED <<dropped, chats>>
  BY DEF BrokerCreates, bounds
<1>3. /\ inbox' \in Seq(BrokerMail) /\ inbox' \in Seq(Messages) /\ v \in Names
  BY <1>2, BrokerReads DEF Messages
<1>4. Msg("CLIENT_CREATE_ROOM_RESPONSE", id, Unsent) \in Messages
  BY MsgFacts, Constants DEF Types
<1>5. sub' \in [Users -> Seq(Messages)]
  BY <1>1, <1>4, Delivered DEF BaseInv, TypeOK
<1>6. /\ rinbox' \in [RoomIds -> Seq(RoomMail)] /\ rinbox' \in [RoomIds -> Seq(Messages)]
      /\ \A l \in RoomIds : thread[l] \in {"none", "starting"} => rinbox'[l] = rinbox[l]
  BY <1>2, AtTopBase
<1>7. /\ thread' \in [RoomIds -> Lives] /\ \A l \in RoomIds : l # k => thread'[l] = thread[l]
      /\ owner' \in [RoomIds -> Names] /\ room_id' \in [RoomIds -> RoomIds \cup {NoRoom}]
      /\ same_second' \subseteq RoomIds
  BY <1>1, <1>3 DEF BaseInv, TypeOK, Lives
<1>8. TypeOK'
  BY <1>2, <1>3, <1>5, <1>6, <1>7 DEF BaseInv, TypeOK
<1>9. \A l \in RoomIds : thread'[l] \in {"none", "starting"} =>
        thread[l] \in {"none", "starting"} /\ m_players'[l] = m_players[l] /\ rinbox'[l] = rinbox[l]
  BY <1>1, <1>2, <1>6, <1>7
<1>10. SenderInv' /\ ThreadInv'
  BY <1>2, <1>3, <1>6, <1>9, BrokerQueues
<1>11. PingInv'
  BY <1>2 DEF BaseInv, PingInv
<1> QED
  BY <1>8, <1>10, <1>11 DEF BaseInv

LEMMA BrokerLooksUpBase ==
  ASSUME BaseInv, BrokerLooksUp
  PROVE  BaseInv'
<1>1. /\ Reads("CLIENT_LOOKUP_MATCH") /\ rinbox' = ping_rooms(AtTop)
      /\ waiting_players' = Append(waiting_players, Head(inbox).user)
      /\ UNCHANGED <<client, is_on_game, game_url, sub, half, ping, thread, owner, room_id, m_players>>
      /\ UNCHANGED <<same_second, finished, hung, dropped, chats>>
  BY DEF BrokerLooksUp, session, rows, bounds
<1>2. inbox' \in Seq(BrokerMail) /\ inbox' \in Seq(Messages) /\ Head(inbox).user \in Users
  BY <1>1, BrokerReads DEF BrokerMail
<1>3. waiting_players' \in Seq(Users)
  BY <1>1, <1>2, WriteQueue DEF BaseInv, TypeOK
<1>4. /\ rinbox' \in [RoomIds -> Seq(RoomMail)] /\ rinbox' \in [RoomIds -> Seq(Messages)]
      /\ \A k \in RoomIds : thread[k] \in {"none", "starting"} => rinbox'[k] = rinbox[k]
  BY <1>1, BroadcastBase
<1>5. TypeOK'
  BY <1>1, <1>2, <1>3, <1>4 DEF BaseInv, TypeOK
<1>6. SenderInv' /\ ThreadInv'
  BY <1>1, <1>2, <1>4, BrokerQueues
<1>7. PingInv'
  BY <1>1 DEF BaseInv, PingInv
<1> QED
  BY <1>5, <1>6, <1>7 DEF BaseInv

LEMMA BrokerSendsBase ==
  ASSUME BaseInv, BrokerTimeout \/ BrokerMatches \/ BrokerForwards
  PROVE  BaseInv'
<1>1. /\ rinbox' = AtTop
      /\ UNCHANGED <<client, is_on_game, game_url, half, ping, thread, owner, room_id, m_players>>
      /\ UNCHANGED <<same_second, finished, hung, dropped, chats>>
  BY DEF BrokerTimeout, BrokerMatches, BrokerForwards, session, rows, broker, bounds
<1>2. inbox' \in Seq(BrokerMail) /\ inbox' \in Seq(Messages)
  <2>1. CASE BrokerTimeout
    BY <2>1, MailMessages DEF BrokerTimeout, broker, BaseInv, SenderInv
  <2>2. CASE BrokerMatches
    <3>1. Reads("PING")
      BY <2>2 DEF BrokerMatches
    <3> QED
      BY <3>1, BrokerReads
  <2>3. CASE BrokerForwards
    <3>1. Reads("NOTIF")
      BY <2>3 DEF BrokerForwards
    <3> QED
      BY <3>1, BrokerReads
  <2> QED
    BY <2>1, <2>2, <2>3
<1>3. sub' \in [Users -> Seq(Messages)] /\ waiting_players' \in Seq(Users)
  <2>1. CASE UNCHANGED <<sub, waiting_players>>
    BY <2>1 DEF BaseInv, TypeOK
  <2>2. CASE BrokerMatches /\ waiting_players # <<>> /\ Head(inbox).room # NoRoom
    <3>1. /\ Reads("PING") /\ waiting_players' = Tail(waiting_players)
          /\ ToSessions({Head(waiting_players)}, Msg("CLIENT_LOOKUP_RESPONSE", Head(inbox).room, Unsent))
      BY <2>2 DEF BrokerMatches
    <3>2. Head(inbox).room \in RoomIds \cup {NoRoom}
      BY <3>1, BrokerReads DEF Messages
    <3>3. Msg("CLIENT_LOOKUP_RESPONSE", Head(inbox).room, Unsent) \in Messages
      BY <3>2, MsgFacts, Constants DEF Types
    <3>4. sub' \in [Users -> Seq(Messages)]
      BY <3>1, <3>3, Delivered DEF BaseInv, TypeOK
    <3>5. waiting_players' \in Seq(Users)
      BY <2>2, <3>1, ReadQueue DEF BaseInv, TypeOK
    <3> QED
      BY <3>4, <3>5
  <2>3. CASE BrokerForwards
    <3>1. ToSessions({Head(inbox).user}, Msg("NOTIF", NoRoom, Unsent)) /\ UNCHANGED waiting_players
      BY <2>3 DEF BrokerForwards
    <3>2. Msg("NOTIF", NoRoom, Unsent) \in Messages
      BY MsgFacts, Constants DEF Types
    <3>3. sub' \in [Users -> Seq(Messages)]
      BY <3>1, <3>2, Delivered DEF BaseInv, TypeOK
    <3> QED
      BY <3>1, <3>3 DEF BaseInv, TypeOK
  <2>4. CASE BrokerTimeout
    BY <2>4 DEF BrokerTimeout, session, broker, BaseInv, TypeOK
  <2>5. CASE BrokerMatches /\ ~(waiting_players # <<>> /\ Head(inbox).room # NoRoom)
    BY <2>1, <2>5 DEF BrokerMatches
  <2> QED
    BY <2>2, <2>3, <2>4, <2>5
<1>4. /\ rinbox' \in [RoomIds -> Seq(RoomMail)] /\ rinbox' \in [RoomIds -> Seq(Messages)]
      /\ \A k \in RoomIds : thread[k] \in {"none", "starting"} => rinbox'[k] = rinbox[k]
  BY <1>1, AtTopBase
<1>5. TypeOK'
  BY <1>1, <1>2, <1>3, <1>4 DEF BaseInv, TypeOK
<1>6. SenderInv' /\ ThreadInv'
  BY <1>1, <1>2, <1>4, BrokerQueues
<1>7. PingInv'
  BY <1>1 DEF BaseInv, PingInv
<1> QED
  BY <1>5, <1>6, <1>7 DEF BaseInv

(* The rooms.                                                              *)
LEMMA SubscribeBase ==
  ASSUME BaseInv, NEW k \in RoomIds, Subscribe(k)
  PROVE  BaseInv'
<1>1. /\ thread' = [thread EXCEPT ![k] = "lobby"]
      /\ UNCHANGED <<client, is_on_game, game_url, sub, half, ping, waiting_players, inbox, owner, room_id>>
      /\ UNCHANGED <<m_players, rinbox, same_second, finished, hung, dropped, chats>>
  BY DEF Subscribe, session, rows, broker, bounds
<1>2. TypeOK'
  BY <1>1 DEF BaseInv, TypeOK, Lives
<1>3. SenderInv' /\ PingInv'
  BY <1>1 DEF BaseInv, SenderInv, PingInv, BrokerMail, RoomMail
<1>4. ThreadInv'
  BY <1>1 DEF BaseInv, TypeOK, ThreadInv
<1> QED
  BY <1>2, <1>3, <1>4 DEF BaseInv

LEMMA RoomAnswersBase ==
  ASSUME BaseInv, NEW k \in RoomIds, RoomAnswers(k)
  PROVE  BaseInv'
<1> DEFINE v == Head(rinbox[k]).user
           r == IF Cardinality(m_players[k]) < MaxPlayers THEN room_id[k] ELSE NoRoom
           m == Msg("PING", r, Unsent)
<1>1. /\ thread[k] = "lobby" /\ Takes(k, "PING")
      /\ \/ ToBroker(m) /\ UNCHANGED sub
         \/ ToSessions({v}, m) /\ UNCHANGED inbox
      /\ UNCHANGED <<client, is_on_game, game_url, half, ping, thread, owner, room_id, m_players>>
      /\ UNCHANGED <<same_second, finished, waiting_players, hung, dropped, chats>>
  BY DEF RoomAnswers, rows, bounds
<1>2. "PING" \in Types /\ Unsent \in Names /\ r \in RoomIds \cup {NoRoom}
  BY Constants DEF Types, OfRoom, BaseInv, TypeOK
<1> HIDE DEF r
<1>3. m \in Messages /\ m \in BrokerMail
  BY <1>2, MsgFacts, Fit
<1> HIDE DEF m
<1>4. inbox' \in Seq(BrokerMail) /\ inbox' \in Seq(Messages)
  <2>1. CASE UNCHANGED inbox
    BY <2>1, MailMessages DEF BaseInv, SenderInv
  <2> QED
    BY <1>1, <1>3, <2>1, ToBrokerBase
<1>5. sub' \in [Users -> Seq(Messages)]
  <2>1. CASE UNCHANGED sub
    BY <2>1 DEF BaseInv, TypeOK
  <2> QED
    BY <1>1, <1>3, <2>1, Delivered DEF BaseInv, TypeOK
<1>6. /\ rinbox' \in [RoomIds -> Seq(RoomMail)] /\ rinbox' \in [RoomIds -> Seq(Messages)]
      /\ \A l \in RoomIds : l # k => rinbox'[l] = rinbox[l]
  BY <1>1, RoomTakes, MailMessages
<1>7. TypeOK'
  BY <1>1, <1>4, <1>5, <1>6 DEF BaseInv, TypeOK
<1>8. SenderInv' /\ ThreadInv'
  BY <1>1, <1>4, <1>6, BrokerQueues
<1>9. PingInv'
  BY <1>1 DEF BaseInv, PingInv
<1> QED
  BY <1>7, <1>8, <1>9 DEF BaseInv

LEMMA RoomEntersBase ==
  ASSUME BaseInv, NEW k \in RoomIds, RoomEnters(k)
  PROVE  BaseInv'
<1> DEFINE v == Head(rinbox[k]).user
           m == Msg("INFO_ROOM", room_id[k], Unsent)
<1>1. /\ thread[k] = "lobby" /\ Takes(k, "INFO_ROOM") /\ m_players' = [m_players EXCEPT ![k] = @ \cup {v}]
      /\ ToSessions({v}, m)
      /\ UNCHANGED <<client, is_on_game, game_url, half, ping, thread, owner, room_id, waiting_players, inbox>>
      /\ UNCHANGED <<same_second, finished, hung, dropped, chats>>
  BY DEF RoomEnters, rows, broker, bounds
<1>2. m \in Messages
  BY MsgFacts, Constants DEF Types, OfRoom, BaseInv, TypeOK
<1>3. sub' \in [Users -> Seq(Messages)]
  BY <1>1, <1>2, Delivered DEF BaseInv, TypeOK
<1>4. /\ rinbox' \in [RoomIds -> Seq(RoomMail)] /\ rinbox' \in [RoomIds -> Seq(Messages)]
      /\ \A l \in RoomIds : l # k => rinbox'[l] = rinbox[l]
      /\ v \in Users
  <2>1. Head(rinbox[k]) \in RoomMail /\ Head(rinbox[k]).type = "INFO_ROOM"
    BY <1>1, RoomTakes
  <2>2. v \in Users
    BY <2>1 DEF RoomMail
  <2> QED
    BY <1>1, <2>2, RoomTakes, MailMessages
<1>5. m_players' \in [RoomIds -> SUBSET Users] /\ \A l \in RoomIds : l # k => m_players'[l] = m_players[l]
  <2>1. m_players[k] \cup {v} \in SUBSET Users
    BY <1>4 DEF BaseInv, TypeOK
  <2> QED
    BY <1>1, <2>1 DEF BaseInv, TypeOK
<1>6. TypeOK'
  BY <1>1, <1>3, <1>4, <1>5 DEF BaseInv, TypeOK
<1>7. inbox' \in Seq(BrokerMail)
  BY <1>1 DEF BaseInv, SenderInv
<1>8. SenderInv' /\ ThreadInv'
  BY <1>1, <1>4, <1>5, <1>7, BrokerQueues
<1>9. PingInv'
  BY <1>1 DEF BaseInv, PingInv
<1> QED
  BY <1>6, <1>8, <1>9 DEF BaseInv

(* The actions that only read the room's queue.                            *)
LEMMA RoomReadsBase ==
  ASSUME BaseInv, NEW k \in RoomIds, RoomStarts(k) \/ RoomIgnores(k) \/ RoomQuit(k)
  PROVE  BaseInv'
<1>1. /\ \E type : Takes(k, type)
      /\ UNCHANGED <<client, is_on_game, game_url, sub, half, ping, waiting_players, inbox, owner, room_id>>
      /\ UNCHANGED <<same_second, finished, dropped, chats>>
  <2>1. CASE RoomStarts(k)
    BY <2>1 DEF RoomStarts, session, broker, rows, bounds
  <2>2. CASE RoomIgnores(k)
    BY <2>2 DEF RoomIgnores, session, broker, rows, bounds
  <2>3. CASE RoomQuit(k)
    BY <2>3 DEF RoomQuit, session, broker, rows, bounds
  <2> QED
    BY <2>1, <2>2, <2>3
<1>2. /\ thread[k] \in {"lobby", "playing"}
      /\ \E life \in {"lobby", "playing", "ended"} : thread' = [thread EXCEPT ![k] = life]
      /\ \E left \in SUBSET Users : m_players' = [m_players EXCEPT ![k] = left]
      /\ hung' \in BOOLEAN
  <2>0. thread \in [RoomIds -> Lives] /\ m_players \in [RoomIds -> SUBSET Users] /\ hung \in BOOLEAN
    BY DEF BaseInv, TypeOK
  <2>1. CASE RoomStarts(k)
    <3>1. thread[k] = "lobby" /\ thread' = [thread EXCEPT ![k] = "playing"] /\ UNCHANGED <<m_players, hung>>
      BY <2>1 DEF RoomStarts
    <3>2. m_players' = [m_players EXCEPT ![k] = m_players[k]]
      BY <2>0, <3>1
    <3> QED
      BY <2>0, <3>1, <3>2
  <2>2. CASE RoomIgnores(k)
    <3>1. thread[k] = "playing" /\ UNCHANGED <<thread, m_players, hung>>
      BY <2>2 DEF RoomIgnores
    <3>2. m_players' = [m_players EXCEPT ![k] = m_players[k]] /\ thread' = [thread EXCEPT ![k] = "playing"]
      BY <2>0, <3>1
    <3> QED
      BY <2>0, <3>1, <3>2
  <2>3. CASE RoomQuit(k)
    <3> DEFINE left == m_players[k] \ {Head(rinbox[k]).user}
    <3>1. /\ thread[k] \in {"lobby", "playing"} /\ m_players' = [m_players EXCEPT ![k] = left]
          /\ hung' = (left # {})
          /\ thread' = [thread EXCEPT ![k] = IF left = {} THEN "ended" ELSE @]
      BY <2>3 DEF RoomQuit
    <3>2. left \in SUBSET Users
      BY <2>0
    <3>3. (left # {}) \in BOOLEAN
      OBVIOUS
    <3> HIDE DEF left
    <3>4. hung' \in BOOLEAN
      BY <3>1, <3>3
    <3>5. \E life \in {"lobby", "playing", "ended"} : thread' = [thread EXCEPT ![k] = life]
      BY <3>1
    <3> QED
      BY <3>1, <3>2, <3>4, <3>5
  <2> QED
    BY <2>1, <2>2, <2>3
<1>3. /\ rinbox' \in [RoomIds -> Seq(RoomMail)] /\ rinbox' \in [RoomIds -> Seq(Messages)]
      /\ \A l \in RoomIds : l # k => rinbox'[l] = rinbox[l]
  BY <1>1, RoomTakes, MailMessages
<1>4. /\ thread' \in [RoomIds -> Lives] /\ m_players' \in [RoomIds -> SUBSET Users]
      /\ thread'[k] \notin {"none", "starting"}
      /\ \A l \in RoomIds : l # k => thread'[l] = thread[l] /\ m_players'[l] = m_players[l]
  BY <1>2 DEF BaseInv, TypeOK, Lives
<1>5. TypeOK'
  BY <1>1, <1>2, <1>3, <1>4 DEF BaseInv, TypeOK
<1>6. inbox' \in Seq(BrokerMail) /\ UNCHANGED dropped
  BY <1>1 DEF BaseInv, SenderInv
<1>7. SenderInv' /\ ThreadInv'
  BY <1>3, <1>4, <1>6, BrokerQueues
<1>8. PingInv'
  BY <1>1 DEF BaseInv, PingInv
<1> QED
  BY <1>5, <1>7, <1>8 DEF BaseInv

(* The actions that end a room's life and tell its players.                *)
LEMMA RoomEndsBase ==
  ASSUME BaseInv, NEW k \in RoomIds, RoomEndGame(k) \/ RoomExits(k)
  PROVE  BaseInv'
<1>1. PICK type \in {"END_GAME", "ROOM_CLOSED"} :
        /\ ToSessions(m_players[k], Msg(type, room_id[k], Unsent))
        /\ thread[k] \in {"playing", "ended", "overrun"}
        /\ \E life \in {"ended", "overrun", "exited"} : thread' = [thread EXCEPT ![k] = life]
        /\ UNCHANGED rinbox \/ rinbox' = [rinbox EXCEPT ![k] = <<>>]
        /\ UNCHANGED finished \/ finished' = [finished EXCEPT ![room_id[k]] = TRUE]
        /\ UNCHANGED <<client, is_on_game, game_url, half, ping, waiting_players, inbox, owner, room_id>>
        /\ UNCHANGED <<m_players, same_second, hung, dropped, chats>>
  <2>1. CASE RoomEndGame(k)
    BY <2>1 DEF RoomEndGame, rows, broker, bounds
  <2>2. CASE RoomExits(k)
    BY <2>2 DEF RoomExits, broker, bounds
  <2> QED
    BY <2>1, <2>2
<1>2. Msg(type, room_id[k], Unsent) \in Messages
  <2>1. type \in Types /\ room_id[k] \in RoomIds \cup {NoRoom} /\ Unsent \in Names
    BY Constants DEF Types, OfRoom, BaseInv, TypeOK
  <2> QED
    BY <2>1, MsgFacts
<1>3. sub' \in [Users -> Seq(Messages)]
  BY <1>1, <1>2, Delivered DEF BaseInv, TypeOK
<1>4. /\ rinbox' \in [RoomIds -> Seq(RoomMail)] /\ rinbox' \in [RoomIds -> Seq(Messages)]
      /\ \A l \in RoomIds : l # k => rinbox'[l] = rinbox[l]
  <2>1. rinbox \in [RoomIds -> Seq(RoomMail)] /\ <<>> \in Seq(RoomMail)
    BY DEF BaseInv, SenderInv
  <2>2. rinbox' \in [RoomIds -> Seq(RoomMail)] /\ \A l \in RoomIds : l # k => rinbox'[l] = rinbox[l]
    BY <1>1, <2>1
  <2> QED
    BY <2>2, MailMessages
<1>5. /\ thread' \in [RoomIds -> Lives] /\ thread'[k] \notin {"none", "starting"}
      /\ \A l \in RoomIds : l # k => thread'[l] = thread[l]
  BY <1>1 DEF BaseInv, TypeOK, Lives
<1>6. finished' \in [RoomIds -> BOOLEAN]
  BY <1>1 DEF BaseInv, TypeOK
<1>7. TypeOK'
  BY <1>1, <1>3, <1>4, <1>5, <1>6 DEF BaseInv, TypeOK
<1>8. inbox' \in Seq(BrokerMail)
  BY <1>1 DEF BaseInv, SenderInv
<1>9. SenderInv' /\ ThreadInv'
  BY <1>1, <1>4, <1>5, <1>8, BrokerQueues
<1>10. PingInv'
  BY <1>1 DEF BaseInv, PingInv
<1> QED
  BY <1>7, <1>9, <1>10 DEF BaseInv

(* The initial states, and the steps of Next.                              *)
LEMMA InitBase == Init => BaseInv
<1> SUFFICES ASSUME Init PROVE BaseInv
  OBVIOUS
<1>1. /\ NoRoom \in RoomIds \cup {NoRoom} /\ Unsent \in Names /\ 0 \in 0 .. MaxEvents
      /\ \A S : <<>> \in Seq(S)
  BY Constants
<1>2. TypeOK
  BY <1>1 DEF Init, TypeOK, Clients, Lives
<1>3. SenderInv /\ ThreadInv /\ PingInv
  BY <1>1 DEF Init, SenderInv, ThreadInv, PingInv
<1> QED
  BY <1>2, <1>3 DEF BaseInv

LEMMA StutterBase == BaseInv /\ UNCHANGED vars => BaseInv'
BY DEF vars, session, rooms, rows, broker, bounds, BaseInv, TypeOK, SenderInv, ThreadInv, PingInv,
       BrokerMail, RoomMail

LEMMA NextBase == BaseInv /\ [Next]_vars => BaseInv'
BY RequestBase, JoinPartieBase, ForwardBase, QuitRoomBase, SendChatBase, DisconnectBase, ReconnectBase, SessionBase,
   BrokerSendsBase, BrokerCreatesBase, BrokerLooksUpBase, SubscribeBase, RoomAnswersBase, RoomEntersBase,
   RoomReadsBase, RoomEndsBase, StutterBase DEF Next, Broker, Room

-----------------------------------------------------------------------------
(* Requests and their answers *)

LEMMA Numbers ==
  ASSUME TypeOK, NEW v \in Users
  PROVE  /\ Count(waiting_players, {v}) \in Nat
         /\ Count(inbox, Lookups(v)) \in Nat /\ Count(sub[v], LookupAnswers) \in Nat
         /\ Count(inbox, Creates(v)) \in Nat /\ Count(sub[v], CreateAnswers) \in Nat
         /\ Searches(v) \in Nat /\ Creations(v) \in Nat
<1>1. waiting_players \in Seq(Users) /\ inbox \in Seq(Messages) /\ sub[v] \in Seq(Messages)
  BY DEF TypeOK
<1>2. /\ Count(waiting_players, {v}) \in Nat
      /\ Count(inbox, Lookups(v)) \in Nat /\ Count(sub[v], LookupAnswers) \in Nat
      /\ Count(inbox, Creates(v)) \in Nat /\ Count(sub[v], CreateAnswers) \in Nat
  BY <1>1, CountType
<1> QED
  BY <1>2 DEF Searches, Creations

(* The numbers of requests are numbers.                                    *)
LEMMA NumbersNext ==
  ASSUME TypeOK', NEW v \in Users
  PROVE  /\ Count(waiting_players', {v}) \in Nat
         /\ Count(inbox', Lookups(v)) \in Nat /\ Count(sub'[v], LookupAnswers) \in Nat
         /\ Count(inbox', Creates(v)) \in Nat /\ Count(sub'[v], CreateAnswers) \in Nat
<1>1. waiting_players' \in Seq(Users) /\ inbox' \in Seq(Messages) /\ sub'[v] \in Seq(Messages)
  BY DEF TypeOK
<1> QED
  BY <1>1, CountType

(* What the broker reads is one less in its socket.                        *)
LEMMA InboxRead ==
  ASSUME BaseInv, NEW type, Reads(type), NEW T
  PROVE  Count(inbox, T) = IF Head(inbox) \in T THEN Count(inbox', T) + 1 ELSE Count(inbox', T)
<1>1. inbox \in Seq(BrokerMail) /\ inbox # <<>> /\ inbox' = Tail(inbox)
  BY BrokerReads
<1> QED
  BY <1>1, CountTail

(* A message to some sessions adds one to theirs at most.                  *)
LEMMA SubGrows ==
  ASSUME BaseInv, NEW us, NEW m \in Messages, ToSessions(us, m), NEW v \in Users, NEW T
  PROVE  /\ Count(sub'[v], T) <= Count(sub[v], T) + 1
         /\ ~(v \in us /\ m \in T) => Count(sub'[v], T) = Count(sub[v], T)
<1>1. sub \in [Users -> Seq(Messages)] /\ sub[v] \in Seq(Messages)
  BY DEF BaseInv, TypeOK
<1>2. sub'[v] = IF v \in us /\ client[v] \notin Deaf THEN Append(sub[v], m) ELSE sub[v]
  BY <1>1, Delivered
<1>3. Count(sub[v], T) \in Nat
  BY <1>1, CountType
<1>4. Count(Append(sub[v], m), T) = IF m \in T THEN Count(sub[v], T) + 1 ELSE Count(sub[v], T)
  BY <1>1, CountAppend
<1> QED
  BY <1>2, <1>3, <1>4

(* What is sent to the broker is one more in its socket.                   *)
LEMMA InboxGrows ==
  ASSUME BaseInv, NEW m \in BrokerMail, ToBroker(m), NEW T
  PROVE  Count(inbox', T) = IF m \in T THEN Count(inbox, T) + 1 ELSE Count(inbox, T)
<1>1. inbox \in Seq(BrokerMail) /\ inbox' = Append(inbox, m)
  BY ToBrokerBase DEF BaseInv, SenderInv
<1> QED
  BY <1>1, CountAppend

(* A step that changes neither what a client does nor is_on_game only has  *)
(* to keep the requests from growing.                                      *)
LEMMA Quiet ==
  ASSUME BaseInv, BaseInv', RequestInv, UNCHANGED <<client, is_on_game>>, dropped \subseteq dropped',
         \A v \in Users : Searches(v)' <= Searches(v) /\ Creations(v)' <= Creations(v)
  PROVE  RequestInv'
<1> SUFFICES ASSUME NEW v \in Users
             PROVE  /\ Searches(v)' <= Wishes(v, "looking")' + Dropped(v)'
                    /\ Creations(v)' <= Wishes(v, "creating")' + Dropped(v)'
                    /\ v \notin dropped' /\ is_on_game'[v] => Searches(v)' = 0 /\ Creations(v)' = 0
  BY DEF RequestInv
<1>0. TypeOK /\ TypeOK'
  BY DEF BaseInv
<1>1. Searches(v) \in Nat /\ Creations(v) \in Nat /\ Searches(v)' \in Nat /\ Creations(v)' \in Nat
  BY <1>0, Numbers, NumbersNext DEF Searches, Creations
<1>2. /\ Wishes(v, "looking")' = Wishes(v, "looking") /\ Wishes(v, "looking") \in {0, 1}
      /\ Wishes(v, "creating")' = Wishes(v, "creating") /\ Wishes(v, "creating") \in {0, 1}
      /\ Dropped(v) <= Dropped(v)' /\ Dropped(v) \in {0, 1} /\ Dropped(v)' \in {0, 1}
  BY DEF Wishes, Dropped
<1>3. /\ Searches(v) <= Wishes(v, "looking") + Dropped(v)
      /\ Creations(v) <= Wishes(v, "creating") + Dropped(v)
      /\ v \notin dropped /\ is_on_game[v] => Searches(v) = 0 /\ Creations(v) = 0
  BY DEF RequestInv
<1>4. Searches(v)' <= Searches(v) /\ Creations(v)' <= Creations(v)
  OBVIOUS
<1>5. v \notin dropped' /\ is_on_game'[v] => v \notin dropped /\ is_on_game[v]
  OBVIOUS
<1> QED
  BY <1>1, <1>2, <1>3, <1>4, <1>5

(* The steps that leave all requests where they are, or drop them.         *)
LEMMA Untouched ==
  ASSUME BaseInv, BaseInv', RequestInv, UNCHANGED <<client, is_on_game, waiting_players>>, dropped \subseteq dropped',
         \A v \in Users : /\ Count(inbox', Lookups(v)) <= Count(inbox, Lookups(v))
                          /\ Count(inbox', Creates(v)) <= Count(inbox, Creates(v))
                          /\ Count(sub'[v], LookupAnswers) <= Count(sub[v], LookupAnswers)
                          /\ Count(sub'[v], CreateAnswers) <= Count(sub[v], CreateAnswers)
  PROVE  RequestInv'
<1>1. \A v \in Users : Searches(v)' <= Searches(v) /\ Creations(v)' <= Creations(v)
  <2> TAKE v \in Users
  <2>1. Count(waiting_players', {v}) = Count(waiting_players, {v})
    OBVIOUS
  <2>2. TypeOK /\ TypeOK'
    BY DEF BaseInv
  <2> QED
    BY <2>1, <2>2, Numbers, NumbersNext DEF Searches, Creations
<1> QED
  BY <1>1, Quiet

(* The kinds of requests and of their answers.                             *)
LEMMA Classes ==
  ASSUME NEW type \in Types, NEW r \in RoomIds \cup {NoRoom}, NEW v \in Names
  PROVE  LET m == Msg(type, r, v)
         IN  /\ m \in Messages
             /\ \A w : m \in Lookups(w) <=> type = "CLIENT_LOOKUP_MATCH" /\ v = w
             /\ \A w : m \in Creates(w) <=> type = "CLIENT_CREATE_ROOM" /\ v = w
             /\ m \in LookupAnswers <=> type = "CLIENT_LOOKUP_RESPONSE"
             /\ m \in CreateAnswers <=> type = "CLIENT_CREATE_ROOM_RESPONSE"
BY MsgFacts DEF Lookups, Creates, LookupAnswers, CreateAnswers

(* Messages that are no answers.                                           *)
LEMMA NoAnswer ==
  ASSUME BaseInv, NEW us, NEW type \in Types \ {"CLIENT_LOOKUP_RESPONSE", "CLIENT_CREATE_ROOM_RESPONSE"},
         NEW r \in RoomIds \cup {NoRoom}, ToSessions(us, Msg(type, r, Unsent)), NEW v \in Users
  PROVE  /\ Count(sub'[v], LookupAnswers) = Count(sub[v], LookupAnswers)
         /\ Count(sub'[v], CreateAnswers) = Count(sub[v], CreateAnswers)
<1> DEFINE m == Msg(type, r, Unsent)
<1>1. m \in Messages /\ m \notin LookupAnswers /\ m \notin CreateAnswers
  BY Constants, Classes
<1>2. ToSessions(us, m)
  OBVIOUS
<1> HIDE DEF m
<1> QED
  BY <1>1, <1>2, SubGrows

(* Messages that are no requests.                                          *)
LEMMA NoRequest ==
  ASSUME BaseInv, NEW type \in Types \ {"CLIENT_LOOKUP_MATCH", "CLIENT_CREATE_ROOM"},
         NEW r \in RoomIds \cup {NoRoom}, NEW w \in Names, ToBroker(Msg(type, r, w)), NEW v \in Users
  PROVE  /\ Count(inbox', Lookups(v)) = Count(inbox, Lookups(v))
         /\ Count(inbox', Creates(v)) = Count(inbox, Creates(v))
<1> DEFINE m == Msg(type, r, w)
<1>1. m \in BrokerMail /\ m \notin Lookups(v) /\ m \notin Creates(v)
  BY Classes, Fit
<1>2. ToBroker(m)
  OBVIOUS
<1> HIDE DEF m
<1> QED
  BY <1>1, <1>2, InboxGrows

(* The steps that move no request and no answer.                           *)
LEMMA SameCounts ==
  ASSUME BaseInv, BaseInv', RequestInv, UNCHANGED <<client, is_on_game, waiting_players>>, dropped \subseteq dropped',
         UNCHANGED inbox \/ \A v \in Users : /\ Count(inbox', Lookups(v)) = Count(inbox, Lookups(v))
                                             /\ Count(inbox', Creates(v)) = Count(inbox, Creates(v)),
         UNCHANGED sub \/ \A v \in Users : /\ Count(sub'[v], LookupAnswers) = Count(sub[v], LookupAnswers)
                                           /\ Count(sub'[v], CreateAnswers) = Count(sub[v], CreateAnswers)
  PROVE  RequestInv'
<1>1. TypeOK
  BY DEF BaseInv
<1>2. \A v \in Users : /\ Count(inbox', Lookups(v)) = Count(inbox, Lookups(v))
                       /\ Count(inbox', Creates(v)) = Count(inbox, Creates(v))
                       /\ Count(sub'[v], LookupAnswers) = Count(sub[v], LookupAnswers)
                       /\ Count(sub'[v], CreateAnswers) = Count(sub[v], CreateAnswers)
  OBVIOUS
<1>3. \A v \in Users : /\ Count(inbox', Lookups(v)) <= Count(inbox, Lookups(v))
                       /\ Count(inbox', Creates(v)) <= Count(inbox, Creates(v))
                       /\ Count(sub'[v], LookupAnswers) <= Count(sub[v], LookupAnswers)
                       /\ Count(sub'[v], CreateAnswers) <= Count(sub[v], CreateAnswers)
  <2> TAKE v \in Users
  <2>1. /\ Count(inbox, Lookups(v)) \in Nat /\ Count(sub[v], LookupAnswers) \in Nat
        /\ Count(inbox, Creates(v)) \in Nat /\ Count(sub[v], CreateAnswers) \in Nat
    BY <1>1, Numbers
  <2> QED
    BY <1>2, <2>1
<1> QED
  BY <1>3, Untouched

(* The rooms neither ask nor answer requests.                              *)
LEMMA RoomRequests ==
  ASSUME BaseInv, BaseInv', RequestInv, NEW k \in RoomIds, Room(k) \/ RoomEndGame(k)
  PROVE  RequestInv'
<1>0. /\ room_id[k] \in RoomIds \cup {NoRoom} /\ Unsent \in Names
      /\ \A type \in OfRoom : type \in Types \ {"CLIENT_LOOKUP_RESPONSE", "CLIENT_CREATE_ROOM_RESPONSE"}
      /\ \A type \in OfRoom : type \in Types \ {"CLIENT_LOOKUP_MATCH", "CLIENT_CREATE_ROOM"}
      /\ OfRoom = {"PING", "INFO_ROOM", "END_GAME", "ROOM_CLOSED"}
  BY Constants DEF BaseInv, TypeOK, OfRoom, Types
<1>1. CASE Subscribe(k) \/ RoomStarts(k) \/ RoomIgnores(k) \/ RoomQuit(k)
  <2>1. UNCHANGED <<client, is_on_game, waiting_players, inbox, sub, dropped>>
    BY <1>1 DEF Subscribe, RoomStarts, RoomIgnores, RoomQuit, session, broker, bounds
  <2> QED
    BY <2>1, SameCounts
<1>2. CASE RoomAnswers(k)
  <2> DEFINE r == IF Cardinality(m_players[k]) < MaxPlayers THEN room_id[k] ELSE NoRoom
             v == Head(rinbox[k]).user
  <2>1. /\ UNCHANGED <<client, is_on_game, waiting_players, dropped>>
        /\ \/ ToBroker(Msg("PING", r, Unsent)) /\ UNCHANGED sub
           \/ ToSessions({v}, Msg("PING", r, Unsent)) /\ UNCHANGED inbox
    BY <1>2 DEF RoomAnswers, bounds
  <2>2. r \in RoomIds \cup {NoRoom}
    BY <1>0
  <2> HIDE DEF r, v
  <2>3. CASE ToBroker(Msg("PING", r, Unsent)) /\ UNCHANGED sub
    BY <1>0, <2>1, <2>2, <2>3, NoRequest, SameCounts
  <2>4. CASE ToSessions({v}, Msg("PING", r, Unsent)) /\ UNCHANGED inbox
    BY <1>0, <2>1, <2>2, <2>4, NoAnswer, SameCounts
  <2> QED
    BY <2>1, <2>3, <2>4
<1>3. CASE RoomEnters(k)
  <2> DEFINE v == Head(rinbox[k]).user
  <2>1. /\ UNCHANGED <<client, is_on_game, waiting_players, dropped, inbox>>
        /\ ToSessions({v}, Msg("INFO_ROOM", room_id[k], Unsent))
    BY <1>3 DEF RoomEnters, bounds, broker
  <2> HIDE DEF v
  <2> QED
    BY <1>0, <2>1, NoAnswer, SameCounts
<1>4. CASE RoomEndGame(k)
  <2>1. /\ UNCHANGED <<client, is_on_game, waiting_players, dropped, inbox>>
        /\ ToSessions(m_players[k], Msg("END_GAME", room_id[k], Unsent))
    BY <1>4 DEF RoomEndGame, bounds, broker
  <2> QED
    BY <1>0, <2>1, NoAnswer, SameCounts
<1>5. CASE RoomExits(k)
  <2>1. /\ UNCHANGED <<client, is_on_game, waiting_players, dropped, inbox>>
        /\ ToSessions(m_players[k], Msg("ROOM_CLOSED", room_id[k], Unsent))
    BY <1>5 DEF RoomExits, bounds, broker
  <2> QED
    BY <1>0, <2>1, NoAnswer, SameCounts
<1> QED
  BY <1>1, <1>2, <1>3, <1>4, <1>5 DEF Room

(* The request the broker reads.                                           *)
LEMMA HeadClasses ==
  ASSUME BaseInv, NEW type, Reads(type), NEW v
  PROVE  /\ Head(inbox) \in Lookups(v) <=> type = "CLIENT_LOOKUP_MATCH" /\ v = Head(inbox).user
         /\ Head(inbox) \in Creates(v) <=> type = "CLIENT_CREATE_ROOM" /\ v = Head(inbox).user
<1>1. Head(inbox) \in Messages /\ Head(inbox).type = type
  BY BrokerReads
<1> QED
  BY <1>1 DEF Lookups, Creates, From

(* The broker moves a request on: from its socket to its queue, from there *)
(* to the answer; an answer to nobody's session is lost.                   *)
LEMMA BrokerRequests ==
  ASSUME BaseInv, BaseInv', RequestInv, Broker
  PROVE  RequestInv'
<1>0. TypeOK /\ TypeOK' /\ waiting_players \in Seq(Users)
  BY DEF BaseInv, TypeOK
<1>1. CASE BrokerTimeout
  <2>1. UNCHANGED <<client, is_on_game, waiting_players, inbox, sub, dropped>>
    BY <1>1 DEF BrokerTimeout, session, broker, bounds
  <2> QED
    BY <2>1, SameCounts
<1>2. CASE BrokerForwards
  <2>1. /\ UNCHANGED <<client, is_on_game, waiting_players, dropped>> /\ Reads("NOTIF")
        /\ ToSessions({Head(inbox).user}, Msg("NOTIF", NoRoom, Unsent))
    BY <1>2 DEF BrokerForwards, bounds
  <2>2. \A v \in Users : /\ Count(inbox', Lookups(v)) = Count(inbox, Lookups(v))
                         /\ Count(inbox', Creates(v)) = Count(inbox, Creates(v))
    <3> TAKE v \in Users
    <3>1. Head(inbox) \notin Lookups(v) /\ Head(inbox) \notin Creates(v)
      BY <2>1, HeadClasses
    <3> QED
      BY <2>1, <3>1, InboxRead
  <2>3. "NOTIF" \in Types \ {"CLIENT_LOOKUP_RESPONSE", "CLIENT_CREATE_ROOM_RESPONSE"} /\ NoRoom \in RoomIds \cup {NoRoom}
    BY DEF Types
  <2>4. \A v \in Users : /\ Count(sub'[v], LookupAnswers) = Count(sub[v], LookupAnswers)
                         /\ Count(sub'[v], CreateAnswers) = Count(sub[v], CreateAnswers)
    BY <2>1, <2>3, NoAnswer
  <2> QED
    BY <2>1, <2>2, <2>4, SameCounts
<1>3. CASE BrokerCreates
  <2> DEFINE w == Head(inbox).user
  <2>1. PICK id \in RoomIds : ToSessions({w}, Msg("CLIENT_CREATE_ROOM_RESPONSE", id, Unsent))
    BY <1>3 DEF BrokerCreates
  <2>2. Reads("CLIENT_CREATE_ROOM") /\ UNCHANGED <<client, is_on_game, waiting_players, dropped>>
    BY <1>3 DEF BrokerCreates, bounds
  <2> DEFINE m == Msg("CLIENT_CREATE_ROOM_RESPONSE", id, Unsent)
  <2>3. m \in Messages /\ m \notin LookupAnswers
    BY Constants, Classes DEF Types
  <2>4. ToSessions({w}, m)
    BY <2>1
  <2> HIDE DEF m
  <2>5. \A v \in Users : Searches(v)' <= Searches(v) /\ Creations(v)' <= Creations(v)
    <3> TAKE v \in Users
    <3>1. /\ Count(waiting_players', {v}) = Count(waiting_players, {v})
          /\ Count(inbox', Lookups(v)) = Count(inbox, Lookups(v))
      <4>1. Head(inbox) \notin Lookups(v)
        BY <2>2, HeadClasses
      <4> QED
        BY <2>2, <4>1, InboxRead
    <3>2. Count(inbox, Creates(v)) = IF v = w THEN Count(inbox', Creates(v)) + 1 ELSE Count(inbox', Creates(v))
      <4>1. Head(inbox) \in Creates(v) <=> v = w
        BY <2>2, HeadClasses
      <4> QED
        BY <2>2, <4>1, InboxRead
    <3>3. /\ Count(sub'[v], LookupAnswers) = Count(sub[v], LookupAnswers)
          /\ Count(sub'[v], CreateAnswers) <= Count(sub[v], CreateAnswers) + 1
          /\ v # w => Count(sub'[v], CreateAnswers) = Count(sub[v], CreateAnswers)
      BY <2>3, <2>4, SubGrows
    <3>4. /\ Count(waiting_players, {v}) \in Nat /\ Count(waiting_players', {v}) \in Nat
          /\ Count(inbox, Lookups(v)) \in Nat /\ Count(inbox', Lookups(v)) \in Nat
          /\ Count(inbox, Creates(v)) \in Nat /\ Count(inbox', Creates(v)) \in Nat
          /\ Count(sub[v], LookupAnswers) \in Nat /\ Count(sub'[v], LookupAnswers) \in Nat
          /\ Count(sub[v], CreateAnswers) \in Nat /\ Count(sub'[v], CreateAnswers) \in Nat
      BY <1>0, Numbers, NumbersNext
    <3> HIDE DEF w
    <3> QED
      BY <3>1, <3>2, <3>3, <3>4 DEF Searches, Creations
  <2> QED
    BY <2>2, <2>5, Quiet
<1>4. CASE BrokerLooksUp
  <2> DEFINE w == Head(inbox).user
  <2>1. /\ Reads("CLIENT_LOOKUP_MATCH") /\ UNCHANGED <<client, is_on_game, sub, dropped>>
        /\ waiting_players' = Append(waiting_players, w)
    BY <1>4 DEF BrokerLooksUp, session, bounds
  <2>2. w \in Users
    BY <2>1, BrokerReads DEF BrokerMail
  <2>3. \A v \in Users : Searches(v)' <= Searches(v) /\ Creations(v)' <= Creations(v)
    <3> TAKE v \in Users
    <3>1. Count(waiting_players', {v}) = IF w = v THEN Count(waiting_players, {v}) + 1 ELSE Count(waiting_players, {v})
      BY <1>0, <2>1, <2>2, CountAppend
    <3>2. /\ Count(inbox, Lookups(v)) = IF w = v THEN Count(inbox', Lookups(v)) + 1 ELSE Count(inbox', Lookups(v))
          /\ Count(inbox', Creates(v)) = Count(inbox, Creates(v))
      <4>1. (Head(inbox) \in Lookups(v) <=> w = v) /\ Head(inbox) \notin Creates(v)
        BY <2>1, HeadClasses
      <4> QED
        BY <2>1, <4>1, InboxRead
    <3>3. /\ Count(sub'[v], LookupAnswers) = Count(sub[v], LookupAnswers)
          /\ Count(sub'[v], CreateAnswers) = Count(sub[v], CreateAnswers)
      BY <2>1
    <3>4. /\ Count(waiting_players, {v}) \in Nat /\ Count(waiting_players', {v}) \in Nat
          /\ Count(inbox, Lookups(v)) \in Nat /\ Count(inbox', Lookups(v)) \in Nat
          /\ Count(inbox, Creates(v)) \in Nat /\ Count(inbox', Creates(v)) \in Nat
          /\ Count(sub[v], LookupAnswers) \in Nat /\ Count(sub'[v], LookupAnswers) \in Nat
          /\ Count(sub[v], CreateAnswers) \in Nat /\ Count(sub'[v], CreateAnswers) \in Nat
      BY <1>0, Numbers, NumbersNext
    <3> HIDE DEF w
    <3> QED
      BY <3>1, <3>2, <3>3, <3>4 DEF Searches, Creations
  <2> QED
    BY <2>1, <2>3, Quiet
<1>5. CASE BrokerMatches
  <2>1. /\ Reads("PING") /\ UNCHANGED <<client, is_on_game, dropped>>
        /\ \/ UNCHANGED <<sub, waiting_players>>
           \/ /\ waiting_players # <<>> /\ waiting_players' = Tail(waiting_players)
              /\ ToSessions({Head(waiting_players)}, Msg("CLIENT_LOOKUP_RESPONSE", Head(inbox).room, Unsent))
    BY <1>5 DEF BrokerMatches, bounds
  <2>2. \A v \in Users : /\ Count(inbox', Lookups(v)) = Count(inbox, Lookups(v))
                         /\ Count(inbox', Creates(v)) = Count(inbox, Creates(v))
    <3> TAKE v \in Users
    <3>1. Head(inbox) \notin Lookups(v) /\ Head(inbox) \notin Creates(v)
      BY <2>1, HeadClasses
    <3> QED
      BY <2>1, <3>1, InboxRead
  <2>3. CASE UNCHANGED <<sub, waiting_players>>
    BY <2>1, <2>2, <2>3, SameCounts
  <2>4. CASE /\ waiting_players # <<>> /\ waiting_players' = Tail(waiting_players)
             /\ ToSessions({Head(waiting_players)}, Msg("CLIENT_LOOKUP_RESPONSE", Head(inbox).room, Unsent))
    <3> DEFINE w == Head(waiting_players)
               m == Msg("CLIENT_LOOKUP_RESPONSE", Head(inbox).room, Unsent)
    <3>1. Head(inbox).room \in RoomIds \cup {NoRoom}
      BY <2>1, BrokerReads DEF Messages
    <3>2. m \in Messages /\ m \notin CreateAnswers
      BY <3>1, Constants, Classes DEF Types
    <3>3. ToSessions({w}, m)
      BY <2>4
    <3> HIDE DEF m
    <3>4. \A v \in Users : Searches(v)' <= Searches(v) /\ Creations(v)' <= Creations(v)
      <4> TAKE v \in Users
      <4>1. Count(waiting_players, {v}) = IF w = v THEN Count(waiting_players', {v}) + 1 ELSE Count(waiting_players', {v})
        BY <1>0, <2>4, CountTail
      <4>2. /\ Count(sub'[v], CreateAnswers) = Count(sub[v], CreateAnswers)
            /\ Count(sub'[v], LookupAnswers) <= Count(sub[v], LookupAnswers) + 1
            /\ v # w => Count(sub'[v], LookupAnswers) = Count(sub[v], LookupAnswers)
        BY <3>2, <3>3, SubGrows
      <4>3. /\ Count(waiting_players, {v}) \in Nat /\ Count(waiting_players', {v}) \in Nat
            /\ Count(inbox, Lookups(v)) \in Nat /\ Count(inbox', Lookups(v)) \in Nat
            /\ Count(inbox, Creates(v)) \in Nat /\ Count(inbox', Creates(v)) \in Nat
            /\ Count(sub[v], LookupAnswers) \in Nat /\ Count(sub'[v], LookupAnswers) \in Nat
            /\ Count(sub[v], CreateAnswers) \in Nat /\ Count(sub'[v], CreateAnswers) \in Nat
        BY <1>0, Numbers, NumbersNext
      <4> HIDE DEF w
      <4> QED
        BY <2>2, <4>1, <4>2, <4>3 DEF Searches, Creations
    <3> QED
      BY <2>1, <3>4, Quiet
  <2> QED
    BY <2>1, <2>3, <2>4
<1> QED
  BY <1>1, <1>2, <1>3, <1>4, <1>5 DEF Broker

(* A step about one user, the requests of the others staying the same.     *)
LEMMA Others ==
  ASSUME BaseInv, BaseInv', RequestInv, NEW u \in Users, dropped \subseteq dropped',
         \A v \in Users \ {u} : /\ client'[v] = client[v] /\ is_on_game'[v] = is_on_game[v]
                                /\ Searches(v)' <= Searches(v) /\ Creations(v)' <= Creations(v),
         /\ Searches(u)' <= Wishes(u, "looking")' + Dropped(u)'
         /\ Creations(u)' <= Wishes(u, "creating")' + Dropped(u)'
         /\ u \notin dropped' /\ is_on_game'[u] => Searches(u)' = 0 /\ Creations(u)' = 0
  PROVE  RequestInv'
<1> SUFFICES ASSUME NEW v \in Users
             PROVE  /\ Searches(v)' <= Wishes(v, "looking")' + Dropped(v)'
                    /\ Creations(v)' <= Wishes(v, "creating")' + Dropped(v)'
                    /\ v \notin dropped' /\ is_on_game'[v] => Searches(v)' = 0 /\ Creations(v)' = 0
  BY DEF RequestInv
<1>1. CASE v = u
  BY <1>1 DEF Searches, Creations, Wishes, Dropped
<1>2. CASE v # u
  <2>0. TypeOK /\ TypeOK'
    BY DEF BaseInv
  <2>1. Searches(v) \in Nat /\ Creations(v) \in Nat /\ Searches(v)' \in Nat /\ Creations(v)' \in Nat
    <3>1. Searches(v) \in Nat /\ Creations(v) \in Nat
      BY <2>0, Numbers
    <3>2. /\ Count(waiting_players', {v}) \in Nat
          /\ Count(inbox', Lookups(v)) \in Nat /\ Count(sub'[v], LookupAnswers) \in Nat
          /\ Count(inbox', Creates(v)) \in Nat /\ Count(sub'[v], CreateAnswers) \in Nat
      BY <2>0, NumbersNext
    <3>3. Searches(v)' \in Nat /\ Creations(v)' \in Nat
      BY <3>2 DEF Searches, Creations
    <3> QED
      BY <3>1, <3>3
  <2>2. /\ Wishes(v, "looking")' = Wishes(v, "looking") /\ Wishes(v, "looking") \in {0, 1}
        /\ Wishes(v, "creating")' = Wishes(v, "creating") /\ Wishes(v, "creating") \in {0, 1}
        /\ Dropped(v) <= Dropped(v)' /\ Dropped(v) \in {0, 1} /\ Dropped(v)' \in {0, 1}
    BY <1>2 DEF Wishes, Dropped
  <2>3. /\ Searches(v) <= Wishes(v, "looking") + Dropped(v)
        /\ Creations(v) <= Wishes(v, "creating") + Dropped(v)
        /\ v \notin dropped /\ is_on_game[v] => Searches(v) = 0 /\ Creations(v) = 0
    BY DEF RequestInv
  <2>4. Searches(v)' <= Searches(v) /\ Creations(v)' <= Creations(v)
    BY <1>2 DEF Searches, Creations
  <2>5. v \notin dropped' /\ is_on_game'[v] => v \notin dropped /\ is_on_game[v]
    BY <1>2
  <2> QED
    BY <2>1, <2>2, <2>3, <2>4, <2>5
<1> QED
  BY <1>1, <1>2

(* A client that waits for no answer of the broker, or that leaves, may do *)
(* anything else.                                                          *)
LEMMA Idle ==
  ASSUME BaseInv, BaseInv', RequestInv, NEW u \in Users, UNCHANGED <<waiting_players, inbox, sub>>,
         \/ client[u] \notin {"looking", "creating"} /\ UNCHANGED dropped
         \/ dropped' = dropped \cup {u} /\ u \notin dropped,
         \A v \in Users \ {u} : client'[v] = client[v] /\ is_on_game'[v] = is_on_game[v]
  PROVE  RequestInv'
<1>0. TypeOK /\ TypeOK'
  BY DEF BaseInv
<1>1. \A v \in Users : /\ Searches(v)' = Searches(v) /\ Creations(v)' = Creations(v)
                       /\ Searches(v) \in Nat /\ Creations(v) \in Nat
  <2> TAKE v \in Users
  <2>1. Searches(v)' = Searches(v) /\ Creations(v)' = Creations(v)
    BY DEF Searches, Creations
  <2>2. Searches(v) \in Nat /\ Creations(v) \in Nat
    BY <1>0, Numbers
  <2> QED
    BY <2>1, <2>2
<1>2. \A v \in Users : Searches(v)' <= Searches(v) /\ Creations(v)' <= Creations(v)
  BY <1>1 DEF Searches, Creations
<1>3. /\ Searches(u) <= Wishes(u, "looking") + Dropped(u)
      /\ Creations(u) <= Wishes(u, "creating") + Dropped(u)
  BY DEF RequestInv
<1>4. /\ Searches(u) <= Dropped(u)' /\ Creations(u) <= Dropped(u)'
      /\ u \notin dropped' => Searches(u) = 0 /\ Creations(u) = 0
  <2>1. Searches(u) \in Nat /\ Creations(u) \in Nat
    BY <1>1
  <2>2. \/ Wishes(u, "looking") = 0 /\ Wishes(u, "creating") = 0 /\ Dropped(u)' = Dropped(u)
        \/ Dropped(u) = 0 /\ Dropped(u)' = 1
    BY DEF Wishes, Dropped
  <2>3. /\ Wishes(u, "looking") \in {0, 1} /\ Wishes(u, "creating") \in {0, 1} /\ Dropped(u) \in {0, 1}
        /\ Dropped(u)' = IF u \in dropped' THEN 1 ELSE 0
    BY DEF Wishes, Dropped
  <2> QED
    BY <1>3, <2>1, <2>2, <2>3
<1>5. /\ Wishes(u, "looking")' \in {0, 1} /\ Wishes(u, "creating")' \in {0, 1} /\ Dropped(u)' \in {0, 1}
  BY DEF Wishes, Dropped
<1>6. /\ Searches(u)' <= Wishes(u, "looking")' + Dropped(u)'
      /\ Creations(u)' <= Wishes(u, "creating")' + Dropped(u)'
      /\ u \notin dropped' /\ is_on_game'[u] => Searches(u)' = 0 /\ Creations(u)' = 0
  <2>1. Searches(u)' = Searches(u) /\ Creations(u)' = Creations(u) /\ Searches(u) \in Nat /\ Creations(u) \in Nat
    BY <1>1
  <2> QED
    BY <1>4, <1>5, <2>1
<1> QED
  BY <1>2, <1>6, Others

(* A new request goes from a client in the menus to the broker.            *)
LEMMA RequestRequests ==
  ASSUME BaseInv, BaseInv', RequestInv, NEW u \in Users, CreateRoom(u) \/ FindMatch(u)
  PROVE  RequestInv'
<1>0. TypeOK /\ TypeOK'
  BY DEF BaseInv
<1>1. PICK wish \in {"creating", "looking"} :
        /\ client[u] = "menu" /\ client' = [client EXCEPT ![u] = wish]
        /\ \/ UNCHANGED inbox
           \/ ~is_on_game[u] /\ wish = "creating" /\ ToBroker(Msg("CLIENT_CREATE_ROOM", NoRoom, u))
           \/ ~is_on_game[u] /\ wish = "looking" /\ ToBroker(Msg("CLIENT_LOOKUP_MATCH", NoRoom, u))
        /\ UNCHANGED <<is_on_game, sub, waiting_players, dropped>>
  <2>1. CASE CreateRoom(u)
    BY <2>1 DEF CreateRoom, Request, bounds
  <2>2. CASE FindMatch(u)
    BY <2>2 DEF FindMatch, Request, bounds
  <2> QED
    BY <2>1, <2>2
<1>2. client'[u] = wish /\ \A v \in Users \ {u} : client'[v] = client[v] /\ is_on_game'[v] = is_on_game[v]
  BY <1>0, <1>1 DEF TypeOK
<1>3. CASE UNCHANGED inbox
  BY <1>1, <1>2, <1>3, Idle
<1>4. ASSUME NEW type \in {"CLIENT_CREATE_ROOM", "CLIENT_LOOKUP_MATCH"}, ~is_on_game[u],
             ToBroker(Msg(type, NoRoom, u)), wish = "looking" <=> type = "CLIENT_LOOKUP_MATCH"
      PROVE  RequestInv'
  <2> DEFINE m == Msg(type, NoRoom, u)
  <2>1. /\ m \in BrokerMail
        /\ \A v \in Users : /\ m \in Lookups(v) <=> type = "CLIENT_LOOKUP_MATCH" /\ u = v
                            /\ m \in Creates(v) <=> type = "CLIENT_CREATE_ROOM" /\ u = v
    <3>1. type \in Types /\ NoRoom \in RoomIds \cup {NoRoom} /\ u \in Names
      BY Constants DEF Types
    <3> QED
      BY <3>1, Classes, Fit
  <2>2. ToBroker(m)
    BY <1>4
  <2> HIDE DEF m
  <2>3. \A v \in Users :
          /\ Count(inbox', Lookups(v)) = IF type = "CLIENT_LOOKUP_MATCH" /\ u = v
                                         THEN Count(inbox, Lookups(v)) + 1 ELSE Count(inbox, Lookups(v))
          /\ Count(inbox', Creates(v)) = IF type = "CLIENT_CREATE_ROOM" /\ u = v
                                         THEN Count(inbox, Creates(v)) + 1 ELSE Count(inbox, Creates(v))
    BY <2>1, <2>2, InboxGrows
  <2>4. \A v \in Users : /\ Count(waiting_players', {v}) = Count(waiting_players, {v})
                         /\ Count(sub'[v], LookupAnswers) = Count(sub[v], LookupAnswers)
                         /\ Count(sub'[v], CreateAnswers) = Count(sub[v], CreateAnswers)
    BY <1>1
  <2>5. \A v \in Users : Count(waiting_players, {v}) \in Nat
                         /\ Count(inbox, Lookups(v)) \in Nat /\ Count(sub[v], LookupAnswers) \in Nat
                         /\ Count(inbox, Creates(v)) \in Nat /\ Count(sub[v], CreateAnswers) \in Nat
    BY <1>0, Numbers
  <2>6. \A v \in Users \ {u} : Searches(v)' <= Searches(v) /\ Creations(v)' <= Creations(v)
    <3> TAKE v \in Users \ {u}
    <3>1. /\ Count(inbox', Lookups(v)) = Count(inbox, Lookups(v))
          /\ Count(inbox', Creates(v)) = Count(inbox, Creates(v))
      BY <2>3
    <3>2. /\ Count(waiting_players', {v}) = Count(waiting_players, {v})
          /\ Count(sub'[v], LookupAnswers) = Count(sub[v], LookupAnswers)
          /\ Count(sub'[v], CreateAnswers) = Count(sub[v], CreateAnswers)
      BY <2>4
    <3>3. /\ Count(waiting_players, {v}) \in Nat
          /\ Count(inbox, Lookups(v)) \in Nat /\ Count(sub[v], LookupAnswers) \in Nat
          /\ Count(inbox, Creates(v)) \in Nat /\ Count(sub[v], CreateAnswers) \in Nat
      BY <2>5
    <3> QED
      BY <3>1, <3>2, <3>3 DEF Searches, Creations
  <2>7. /\ Searches(u)' = IF wish = "looking" THEN Searches(u) + 1 ELSE Searches(u)
        /\ Creations(u)' = IF wish = "creating" THEN Creations(u) + 1 ELSE Creations(u)
        /\ Searches(u) \in Nat /\ Creations(u) \in Nat
    <3>1. wish = "creating" <=> type = "CLIENT_CREATE_ROOM"
      BY <1>4
    <3> QED
      BY <1>4, <2>3, <2>4, <2>5, <3>1 DEF Searches, Creations
  <2>8. Searches(u) <= Dropped(u) /\ Creations(u) <= Dropped(u)
    <3>1. /\ Searches(u) <= Wishes(u, "looking") + Dropped(u)
          /\ Creations(u) <= Wishes(u, "creating") + Dropped(u)
      BY DEF RequestInv
    <3>2. Wishes(u, "looking") = 0 /\ Wishes(u, "creating") = 0 /\ Dropped(u) \in {0, 1}
      BY <1>1 DEF Wishes, Dropped
    <3> QED
      BY <3>1, <3>2
  <2>9. /\ Wishes(u, "looking")' = IF wish = "looking" THEN 1 ELSE 0
        /\ Wishes(u, "creating")' = IF wish = "creating" THEN 1 ELSE 0
        /\ Dropped(u)' = Dropped(u) /\ Dropped(u) \in {0, 1}
    BY <1>1, <1>2 DEF Wishes, Dropped
  <2>10. /\ Searches(u)' <= Wishes(u, "looking")' + Dropped(u)'
         /\ Creations(u)' <= Wishes(u, "creating")' + Dropped(u)'
    BY <2>7, <2>8, <2>9
  <2>11. ~is_on_game'[u]
    BY <1>1, <1>4
  <2> QED
    BY <1>1, <1>2, <2>6, <2>10, <2>11, Others
<1> QED
  BY <1>1, <1>3, <1>4

(* What a client and its session do without the broker.                    *)
LEMMA ClientRequests ==
  ASSUME BaseInv, BaseInv', RequestInv, NEW u \in Users,
         \/ JoinPartie(u) \/ GetInfoRoom(u) \/ QuitRoom(u) \/ Disconnect(u) \/ Reconnect(u)
         \/ JoinAnswer(u) \/ JoinTimeout(u)
  PROVE  RequestInv'
<1>1. client \in [Users -> Clients] /\ is_on_game \in [Users -> BOOLEAN]
  BY DEF BaseInv, TypeOK
<1>2. CASE JoinPartie(u)
  <2>1. /\ client[u] = "menu" /\ client' = [client EXCEPT ![u] = "asking"]
        /\ UNCHANGED <<is_on_game, sub, waiting_players, inbox, dropped>>
    BY <1>2 DEF JoinPartie, Request, broker, bounds
  <2> QED
    BY <1>1, <2>1, Idle
<1>3. CASE GetInfoRoom(u)
  <2>1. /\ client[u] = "joined" /\ client' = [client EXCEPT ![u] = "entering"]
        /\ UNCHANGED <<is_on_game, sub, waiting_players, inbox, dropped>>
    BY <1>3 DEF GetInfoRoom, broker, bounds
  <2> QED
    BY <1>1, <2>1, Idle
<1>4. CASE Disconnect(u)
  <2>1. /\ client' = [client EXCEPT ![u] = "off"] /\ is_on_game' = [is_on_game EXCEPT ![u] = FALSE]
        /\ dropped' = dropped \cup {u} /\ u \notin dropped /\ UNCHANGED <<sub, waiting_players, inbox>>
    BY <1>4 DEF Disconnect, broker
  <2> QED
    BY <1>1, <2>1, Idle
<1>5. CASE Reconnect(u)
  <2>1. /\ client[u] = "off" /\ client' = [client EXCEPT ![u] = "menu"]
        /\ UNCHANGED <<is_on_game, sub, waiting_players, inbox, dropped>>
    BY <1>5 DEF Reconnect, broker, bounds
  <2> QED
    BY <1>1, <2>1, Idle
<1>6. CASE JoinAnswer(u)
  <2>1. /\ ping[u] # NoRoom
        /\ client' = [client EXCEPT ![u] = "joined"] /\ is_on_game' = [is_on_game EXCEPT ![u] = TRUE]
        /\ UNCHANGED <<sub, waiting_players, inbox, dropped>>
    BY <1>6 DEF JoinAnswer, broker, bounds
  <2>2. client[u] = "asking"
    BY <2>1 DEF BaseInv, PingInv
  <2> QED
    BY <1>1, <2>1, <2>2, Idle
<1>7. CASE JoinTimeout(u)
  <2>1. /\ ping[u] # NoRoom /\ client' = [client EXCEPT ![u] = "menu"]
        /\ UNCHANGED <<is_on_game, sub, waiting_players, inbox, dropped>>
    BY <1>7 DEF JoinTimeout, broker, bounds
  <2>2. client[u] = "asking"
    BY <2>1 DEF BaseInv, PingInv
  <2> QED
    BY <1>1, <2>1, <2>2, Idle
<1>8. CASE QuitRoom(u)
  <2>1. /\ client[u] = "lobby" /\ \E c : client' = [client EXCEPT ![u] = c]
        /\ UNCHANGED <<is_on_game, sub, waiting_players, inbox, dropped>>
    BY <1>8 DEF QuitRoom, broker, bounds
  <2> QED
    BY <1>1, <2>1, Idle
<1> QED
  BY <1>2, <1>3, <1>4, <1>5, <1>6, <1>7, <1>8

(* A start and a notification are no requests.                             *)
LEMMA SendRequests ==
  ASSUME BaseInv, BaseInv', RequestInv, NEW u \in Users, StartGame(u) \/ SendChat(u)
  PROVE  RequestInv'
<1>1. CASE StartGame(u)
  <2>1. UNCHANGED <<client, is_on_game, waiting_players, inbox, sub, dropped>>
    BY <1>1 DEF StartGame, session, broker, bounds
  <2> QED
    BY <2>1, SameCounts
<1>2. CASE SendChat(u)
  <2>1. /\ UNCHANGED <<client, is_on_game, waiting_players, sub, dropped>> /\ ToBroker(Msg("NOTIF", NoRoom, u))
    BY <1>2 DEF SendChat, session
  <2>2. /\ "NOTIF" \in Types \ {"CLIENT_LOOKUP_MATCH", "CLIENT_CREATE_ROOM"} /\ NoRoom \in RoomIds \cup {NoRoom}
        /\ u \in Names
    BY Constants DEF Types
  <2> QED
    BY <2>1, <2>2, NoRequest, SameCounts
<1> QED
  BY <1>1, <1>2

(* A session that reads: nothing is added, and an answer of the broker     *)
(* finds the client that asked, which may then go to a room.               *)
LEMMA ReadRequests ==
  ASSUME BaseInv, BaseInv', RequestInv, NEW u \in Users, ReadShifted(u) \/ Receive(u)
  PROVE  RequestInv'
<1> DEFINE m == Head(sub[u])
<1>0. /\ TypeOK /\ TypeOK' /\ sub \in [Users -> Seq(Messages)] /\ sub[u] \in Seq(Messages)
      /\ client \in [Users -> Clients] /\ is_on_game \in [Users -> BOOLEAN]
  BY DEF BaseInv, TypeOK
<1>1. /\ sub[u] # <<>> /\ sub' = [sub EXCEPT ![u] = Tail(@)]
      /\ UNCHANGED <<waiting_players, inbox, dropped>>
  BY DEF ReadShifted, Receive, broker, bounds
<1>2. m \in Messages /\ sub'[u] = Tail(sub[u]) /\ \A v \in Users : v # u => sub'[v] = sub[v]
  BY <1>0, <1>1, ReadSub
<1>3. /\ Count(sub[u], LookupAnswers) = IF m.type = "CLIENT_LOOKUP_RESPONSE" THEN Count(sub'[u], LookupAnswers) + 1
                                        ELSE Count(sub'[u], LookupAnswers)
      /\ Count(sub[u], CreateAnswers) = IF m.type = "CLIENT_CREATE_ROOM_RESPONSE" THEN Count(sub'[u], CreateAnswers) + 1
                                        ELSE Count(sub'[u], CreateAnswers)
  <2>1. /\ m \in LookupAnswers <=> m.type = "CLIENT_LOOKUP_RESPONSE"
        /\ m \in CreateAnswers <=> m.type = "CLIENT_CREATE_ROOM_RESPONSE"
    BY <1>2 DEF LookupAnswers, CreateAnswers, Of
  <2>2. \A T : Count(sub[u], T) = IF m \in T THEN Count(sub'[u], T) + 1 ELSE Count(sub'[u], T)
    BY <1>0, <1>1, <1>2, CountTail
  <2> HIDE DEF m
  <2> QED
    BY <2>1, <2>2
<1>4. /\ Count(waiting_players, {u}) \in Nat /\ Count(waiting_players', {u}) = Count(waiting_players, {u})
      /\ Count(inbox, Lookups(u)) \in Nat /\ Count(inbox', Lookups(u)) = Count(inbox, Lookups(u))
      /\ Count(inbox, Creates(u)) \in Nat /\ Count(inbox', Creates(u)) = Count(inbox, Creates(u))
      /\ Count(sub'[u], LookupAnswers) \in Nat /\ Count(sub'[u], CreateAnswers) \in Nat
  <2>1. /\ Count(waiting_players, {u}) \in Nat /\ Count(inbox, Lookups(u)) \in Nat /\ Count(inbox, Creates(u)) \in Nat
    BY <1>0, Numbers
  <2>2. Count(sub'[u], LookupAnswers) \in Nat /\ Count(sub'[u], CreateAnswers) \in Nat
    BY <1>0, NumbersNext
  <2> QED
    BY <1>1, <2>1, <2>2
<1> HIDE DEF m
<1>5. /\ Searches(u) = IF m.type = "CLIENT_LOOKUP_RESPONSE" THEN Searches(u)' + 1 ELSE Searches(u)'
      /\ Creations(u) = IF m.type = "CLIENT_CREATE_ROOM_RESPONSE" THEN Creations(u)' + 1 ELSE Creations(u)'
      /\ Searches(u)' \in Nat /\ Creations(u)' \in Nat
  BY <1>3, <1>4 DEF Searches, Creations
<1>6. \A v \in Users \ {u} : Searches(v)' <= Searches(v) /\ Creations(v)' <= Creations(v)
  <2> TAKE v \in Users \ {u}
  <2>1. /\ Searches(v)' = Searches(v) /\ Creations(v)' = Creations(v)
    BY <1>1, <1>2 DEF Searches, Creations
  <2>2. Searches(v) \in Nat /\ Creations(v) \in Nat
    BY <1>0, Numbers
  <2> QED
    BY <2>1, <2>2
<1>7. /\ Searches(u) <= Wishes(u, "looking") + Dropped(u)
      /\ Creations(u) <= Wishes(u, "creating") + Dropped(u)
      /\ u \notin dropped /\ is_on_game[u] => Searches(u) = 0 /\ Creations(u) = 0
  BY DEF RequestInv
<1>8. /\ Dropped(u)' = Dropped(u) /\ Dropped(u) \in {0, 1} /\ (u \notin dropped' => Dropped(u) = 0)
      /\ u \notin dropped' <=> u \notin dropped
      /\ Wishes(u, "looking") = IF client[u] = "looking" THEN 1 ELSE 0
      /\ Wishes(u, "creating") = IF client[u] = "creating" THEN 1 ELSE 0
      /\ Wishes(u, "looking")' = IF client'[u] = "looking" THEN 1 ELSE 0
      /\ Wishes(u, "creating")' = IF client'[u] = "creating" THEN 1 ELSE 0
  BY <1>1 DEF Wishes, Dropped
<1>9. CASE m.type = "CLIENT_LOOKUP_RESPONSE" /\ ~half[u]
  <2>1. /\ client' = IF client[u] = "looking" THEN [client EXCEPT ![u] = "joined"] ELSE client
        /\ is_on_game' = [is_on_game EXCEPT ![u] = TRUE]
    BY <1>9 DEF Receive, Answered, ReadShifted, OfRoom, m
  <2>2. /\ client'[u] = IF client[u] = "looking" THEN "joined" ELSE client[u]
        /\ \A v \in Users \ {u} : client'[v] = client[v] /\ is_on_game'[v] = is_on_game[v]
    BY <1>0, <2>1
  <2>3. /\ Searches(u)' <= Wishes(u, "looking")' + Dropped(u)'
        /\ Creations(u)' <= Wishes(u, "creating")' + Dropped(u)'
        /\ u \notin dropped' => Searches(u)' = 0 /\ Creations(u)' = 0
    BY <1>5, <1>7, <1>8, <1>9, <2>2
  <2> QED
    BY <1>1, <1>6, <2>2, <2>3, Others
<1>10. CASE m.type = "CLIENT_CREATE_ROOM_RESPONSE" /\ ~half[u]
  <2>1. /\ client' = IF client[u] = "creating" THEN [client EXCEPT ![u] = "joined"] ELSE client
        /\ is_on_game' = [is_on_game EXCEPT ![u] = TRUE]
    BY <1>10 DEF Receive, Answered, ReadShifted, OfRoom, m
  <2>2. /\ client'[u] = IF client[u] = "creating" THEN "joined" ELSE client[u]
        /\ \A v \in Users \ {u} : client'[v] = client[v] /\ is_on_game'[v] = is_on_game[v]
    BY <1>0, <2>1
  <2>3. /\ Searches(u)' <= Wishes(u, "looking")' + Dropped(u)'
        /\ Creations(u)' <= Wishes(u, "creating")' + Dropped(u)'
        /\ u \notin dropped' => Searches(u)' = 0 /\ Creations(u)' = 0
    BY <1>5, <1>7, <1>8, <1>10, <2>2
  <2> QED
    BY <1>1, <1>6, <2>2, <2>3, Others
<1>11. CASE half[u] \/ m.type \notin {"CLIENT_LOOKUP_RESPONSE", "CLIENT_CREATE_ROOM_RESPONSE"}
  <2>1. /\ UNCHANGED is_on_game \/ is_on_game' = [is_on_game EXCEPT ![u] = FALSE]
        /\ \/ UNCHANGED client
           \/ client[u] = "entering" /\ client' = [client EXCEPT ![u] = "lobby"]
           \/ client[u] = "lobby" /\ client' = [client EXCEPT ![u] = "menu"]
    BY <1>11 DEF Receive, Answered, ReadShifted, OfRoom, m
  <2>2. /\ client'[u] = client[u] \/ /\ client[u] \in {"entering", "lobby"} /\ client'[u] \in {"lobby", "menu"}
        /\ is_on_game'[u] => is_on_game[u]
        /\ \A v \in Users \ {u} : client'[v] = client[v] /\ is_on_game'[v] = is_on_game[v]
    BY <1>0, <2>1
  <2>3. /\ Searches(u)' <= Searches(u) /\ Creations(u)' <= Creations(u)
    BY <1>5
  <2>4. /\ Searches(u)' <= Wishes(u, "looking")' + Dropped(u)'
        /\ Creations(u)' <= Wishes(u, "creating")' + Dropped(u)'
        /\ u \notin dropped' /\ is_on_game'[u] => Searches(u)' = 0 /\ Creations(u)' = 0
    BY <1>5, <1>7, <1>8, <2>2, <2>3
  <2> QED
    BY <1>1, <1>6, <2>2, <2>4, Others
<1> QED
  BY <1>9, <1>10, <1>11

LEMMA StutterRequests == RequestInv /\ UNCHANGED vars => RequestInv'
BY DEF vars, session, broker, bounds, RequestInv, Searches, Creations, Wishes, Dropped

(* Every step keeps the requests counted.                                  *)
LEMMA NextRequests == BaseInv /\ RequestInv /\ [Next]_vars => RequestInv'
BY NextBase, RequestRequests, ClientRequests, SendRequests, ReadRequests, BrokerRequests, RoomRequests,
   StutterRequests DEF Next, Session

LEMMA InitRequests == Init => RequestInv
<1> SUFFICES ASSUME Init, NEW u \in Users
             PROVE  Searches(u) = 0 /\ Creations(u) = 0
  <2>1. \A u \in Users : /\ Wishes(u, "looking") \in {0, 1} /\ Wishes(u, "creating") \in {0, 1}
                         /\ Dropped(u) \in {0, 1}
    BY DEF Wishes, Dropped
  <2> QED
    BY <2>1 DEF RequestInv
<1>1. waiting_players = <<>> /\ inbox = <<>> /\ sub[u] = <<>>
  BY DEF Init
<1> QED
  BY <1>1, CountEmpty DEF Searches, Creations

LEMMA InductiveStep == BaseInv /\ RequestInv /\ [Next]_vars => (BaseInv /\ RequestInv)'
BY NextBase, NextRequests

(* The model counts the searches of a user as the invariant does.          *)
LEMMA SearchesCounted == TypeOK => \A u \in Users : Outstanding(u) = Searches(u)
<1> SUFFICES ASSUME TypeOK, NEW u \in Users PROVE Outstanding(u) = Searches(u)
  OBVIOUS
<1>1. {i \in DOMAIN waiting_players : waiting_players[i] = u} = {i \in DOMAIN waiting_players : waiting_players[i] \in {u}}
  OBVIOUS
<1>2. {i \in DOMAIN inbox : inbox[i].type = "CLIENT_LOOKUP_MATCH" /\ inbox[i].user = u}
        = {i \in DOMAIN inbox : inbox[i] \in Lookups(u)}
  <2>1. \A i \in DOMAIN inbox : inbox[i] \in Messages
    BY Elements DEF TypeOK
  <2> QED
    BY <2>1 DEF Lookups, From
<1>3. {i \in DOMAIN sub[u] : sub[u][i].type = "CLIENT_LOOKUP_RESPONSE"} = {i \in DOMAIN sub[u] : sub[u][i] \in LookupAnswers}
  <2>1. \A i \in DOMAIN sub[u] : sub[u][i] \in Messages
    BY Elements DEF TypeOK
  <2> QED
    BY <2>1 DEF LookupAnswers, Of
<1> QED
  BY <1>1, <1>2, <1>3 DEF Outstanding, Searches, Count

(* The sessions, the broker, the rooms and their queues have the types     *)
(* that user_thread.cpp:15-35, broker.cpp:15-26 and game_thread.cpp:14-23  *)
(* give them, for any number of users and rooms and any bounds.            *)
THEOREM MatchmakingTyped == Spec => []TypeOK
<1>1. Init => BaseInv
  BY InitBase
<1>2. BaseInv /\ [Next]_vars => BaseInv'
  BY NextBase
<1>3. BaseInv => TypeOK
  BY DEF BaseInv
<1> QED
  BY <1>1, <1>2, <1>3, PTL DEF Spec

(* However many rooms answer however many broadcasts of the broker         *)
(* (broker.cpp:52-64), a player who looks for a match is matched at most   *)
(* once: its search is in one place between its message and the answer.    *)
THEOREM PlayersMatchedOnce == Spec => []MatchedOnce
<1>1. Init => BaseInv /\ RequestInv
  BY InitBase, InitRequests
<1>2. BaseInv /\ RequestInv /\ [Next]_vars => (BaseInv /\ RequestInv)'
  BY InductiveStep
<1>3. BaseInv /\ RequestInv => MatchedOnce
  BY SearchesCounted DEF BaseInv, RequestInv, MatchedOnce, Wishes, Dropped
<1> QED
  BY <1>1, <1>2, <1>3, PTL DEF Spec

-----------------------------------------------------------------------------
(* Lobbies *)

LEMMA LobbyNumbers ==
  ASSUME TypeOK, NEW u \in Users
  PROVE  /\ Count(sub[u], Infos) \in Nat /\ Count(sub[u], Ends) \in Nat /\ Count(sub[u], Closes) \in Nat
         /\ \A r \in RoomIds : Count(rinbox[r], Asking(u)) \in Nat
<1>1. sub[u] \in Seq(Messages) /\ \A r \in RoomIds : rinbox[r] \in Seq(Messages)
  BY DEF TypeOK
<1> QED
  BY <1>1, CountType

(* The numbers of messages about a lobby are numbers.                      *)
LEMMA LobbyNumbersNext ==
  ASSUME TypeOK', NEW u \in Users
  PROVE  /\ Count(sub'[u], Infos) \in Nat /\ Count(sub'[u], Ends) \in Nat /\ Count(sub'[u], Closes) \in Nat
         /\ \A r \in RoomIds : Count(rinbox'[r], Asking(u)) \in Nat
<1>1. sub'[u] \in Seq(Messages) /\ \A r \in RoomIds : rinbox'[r] \in Seq(Messages)
  BY DEF TypeOK
<1> QED
  BY <1>1, CountType

(* A step that a user's session and rooms do not notice, but for a request *)
(* that a room drops, keeps what is known of the user.                     *)
LEMMA Frame ==
  ASSUME NEW u \in Users, TypeOK, TypeOK', LobbyOf(u),
         client'[u] = client[u], is_on_game'[u] = is_on_game[u], game_url'[u] = game_url[u],
         \A r \in RoomIds :
           /\ thread'[r] \in Open /\ u \in m_players'[r] => thread[r] \in Open /\ u \in m_players[r]
           /\ thread'[r] \in Over /\ u \in m_players'[r] => thread[r] \in Over /\ u \in m_players[r]
           /\ u \in m_players[r] => u \in m_players'[r]
           /\ Count(rinbox'[r], Asking(u)) <= Count(rinbox[r], Asking(u)),
         Count(sub'[u], Infos) = Count(sub[u], Infos),
         Count(sub'[u], Ends) = Count(sub[u], Ends),
         Count(sub'[u], Closes) = Count(sub[u], Closes),
         Led(sub[u], Ends, Infos) => Led(sub'[u], Ends, Infos),
         Led(sub[u], Closes, Ends) => Led(sub'[u], Closes, Ends)
  PROVE  LobbyOf(u)'
<1>1. Member(u) /\ Asks(u) /\ Enters(u) /\ Leaving(u)
  BY DEF LobbyOf
<1>2. In(u)' => In(u)
  BY DEF In
<1>3. Member(u)'
  BY <1>1 DEF Member
<1>4. Asks(u)'
  <2> SUFFICES ASSUME NEW r \in RoomIds
               PROVE  /\ Count(rinbox'[r], Asking(u)) <= 1
                      /\ Count(rinbox'[r], Asking(u)) > 0 =>
                           /\ client'[u] = "entering" /\ game_url'[u] = r /\ ~In(u)'
                           /\ Count(sub'[u], Infos) = 0 /\ Count(sub'[u], Ends) = 0 /\ Count(sub'[u], Closes) = 0
    BY DEF Asks
  <2>1. /\ Count(rinbox[r], Asking(u)) <= 1
        /\ Count(rinbox[r], Asking(u)) > 0 =>
             /\ client[u] = "entering" /\ game_url[u] = r /\ ~In(u)
             /\ Count(sub[u], Infos) = 0 /\ Count(sub[u], Ends) = 0 /\ Count(sub[u], Closes) = 0
    BY <1>1 DEF Asks
  <2>2. Count(rinbox'[r], Asking(u)) \in Nat /\ Count(rinbox[r], Asking(u)) \in Nat
    BY LobbyNumbers, LobbyNumbersNext
  <2>3. Count(rinbox'[r], Asking(u)) <= 1 /\ (Count(rinbox'[r], Asking(u)) > 0 => Count(rinbox[r], Asking(u)) > 0)
    BY <2>1, <2>2
  <2> QED
    BY <1>2, <2>1, <2>3
<1>5. Enters(u)'
  BY <1>1, <1>2 DEF Enters
<1>6. Leaving(u)'
  BY <1>1, <1>2 DEF Leaving
<1> QED
  BY <1>3, <1>4, <1>5, <1>6 DEF LobbyOf

(* The kinds of messages about a lobby.                                    *)
LEMMA RoomClasses ==
  ASSUME NEW type \in Types, NEW r \in RoomIds \cup {NoRoom}, NEW v \in Names
  PROVE  LET m == Msg(type, r, v)
         IN  /\ m \in Messages
             /\ m \in Infos <=> type = "INFO_ROOM"
             /\ m \in Ends <=> type = "END_GAME"
             /\ m \in Closes <=> type = "ROOM_CLOSED"
             /\ \A u : m \in Asking(u) <=> type = "INFO_ROOM" /\ v = u
BY MsgFacts DEF Infos, Ends, Closes, Asking

(* What a message to some sessions adds to them.                           *)
LEMMA SubCounts ==
  ASSUME BaseInv, NEW us, NEW m \in Messages, ToSessions(us, m), NEW v \in Users, NEW T, NEW S
  PROVE  /\ Count(sub'[v], T) = IF v \in us /\ client[v] \notin Deaf /\ m \in T THEN Count(sub[v], T) + 1
                                ELSE Count(sub[v], T)
         /\ Led(sub[v], T, S) /\ (v \notin us \/ m \notin T \/ Count(sub[v], S) > 0) => Led(sub'[v], T, S)
<1>1. sub \in [Users -> Seq(Messages)] /\ sub[v] \in Seq(Messages)
  BY DEF BaseInv, TypeOK
<1>2. sub'[v] = IF v \in us /\ client[v] \notin Deaf THEN Append(sub[v], m) ELSE sub[v]
  BY <1>1, Delivered
<1>3. Count(Append(sub[v], m), T) = IF m \in T THEN Count(sub[v], T) + 1 ELSE Count(sub[v], T)
  BY <1>1, CountAppend
<1>4. Led(sub[v], T, S) /\ (m \notin T \/ Count(sub[v], S) > 0) => Led(Append(sub[v], m), T, S)
  BY <1>1, LedAppend
<1> QED
  BY <1>2, <1>3, <1>4

(* A message that is not about a lobby changes nothing of it.              *)
LEMMA OtherMail ==
  ASSUME BaseInv, NEW us, NEW type \in Types \ {"INFO_ROOM", "END_GAME", "ROOM_CLOSED"}, NEW r \in RoomIds \cup {NoRoom},
         ToSessions(us, Msg(type, r, Unsent)), NEW v \in Users
  PROVE  /\ Count(sub'[v], Infos) = Count(sub[v], Infos)
         /\ Count(sub'[v], Ends) = Count(sub[v], Ends)
         /\ Count(sub'[v], Closes) = Count(sub[v], Closes)
         /\ Led(sub[v], Ends, Infos) => Led(sub'[v], Ends, Infos)
         /\ Led(sub[v], Closes, Ends) => Led(sub'[v], Closes, Ends)
<1> DEFINE m == Msg(type, r, Unsent)
<1>1. m \in Messages /\ m \notin Infos /\ m \notin Ends /\ m \notin Closes
  BY Constants, RoomClasses
<1>2. ToSessions(us, m)
  OBVIOUS
<1> HIDE DEF m
<1> QED
  BY <1>1, <1>2, SubCounts

(* Rooms with ids of their own hear what is published to them only.        *)
LEMMA OwnRooms ==
  ASSUME OwnIds, BaseInv, NEW k \in RoomIds, NEW r
  PROVE  Hears(k, r) <=> thread[k] \in Open /\ k = r
<1>1. thread[k] \in Open => room_id[k] = k
  BY DEF OwnIds, Open
<1> QED
  BY <1>1 DEF Hears, Subscribed, Open

(* A message to a room adds a request to enter if it is one.               *)
LEMMA ToRoomAsks ==
  ASSUME OwnIds, BaseInv, NEW r, NEW m \in RoomMail, ToRoom(r, m), NEW u, NEW k \in RoomIds
  PROVE  Count(rinbox'[k], Asking(u)) = IF thread[k] \in Open /\ k = r /\ m \in Asking(u)
                                        THEN Count(rinbox[k], Asking(u)) + 1 ELSE Count(rinbox[k], Asking(u))
<1>1. rinbox \in [RoomIds -> Seq(RoomMail)] /\ rinbox[k] \in Seq(RoomMail)
  BY DEF BaseInv, SenderInv
<1>2. rinbox'[k] = IF Hears(k, r) THEN Append(rinbox[k], m) ELSE rinbox[k]
  BY <1>1, Published
<1>3. Count(Append(rinbox[k], m), Asking(u)) = IF m \in Asking(u) THEN Count(rinbox[k], Asking(u)) + 1
                                               ELSE Count(rinbox[k], Asking(u))
  BY <1>1, CountAppend
<1> QED
  BY <1>2, <1>3, OwnRooms

(* A PING is no request to enter ...                                       *)
LEMMA PingAsks ==
  ASSUME NEW q \in [RoomIds -> Seq(RoomMail)], NEW u, NEW k \in RoomIds
  PROVE  Count(ping_rooms(q)[k], Asking(u)) = Count(q[k], Asking(u))
<1>1. CASE ping_rooms(q)[k] = q[k]
  BY <1>1
<1>2. ASSUME NEW r \in RoomIds, ping_rooms(q)[k] = Append(q[k], Msg("PING", r, Unsent))
      PROVE  Count(ping_rooms(q)[k], Asking(u)) = Count(q[k], Asking(u))
  <2> DEFINE m == Msg("PING", r, Unsent)
  <2>1. m \in RoomMail /\ m \notin Asking(u)
    BY PingFits, RoomClasses, Constants DEF Types, OfRoom
  <2>2. ping_rooms(q)[k] = Append(q[k], m)
    BY <1>2
  <2> HIDE DEF m
  <2>3. Count(Append(q[k], m), Asking(u)) = Count(q[k], Asking(u))
    BY <2>1, CountAppend
  <2> QED
    BY <2>2, <2>3
<1> QED
  BY <1>1, <1>2, Pings, PingFits

(* ... wherever the broker sends it.                                       *)
LEMMA AtTopAsks ==
  ASSUME BaseInv, NEW u, NEW k \in RoomIds
  PROVE  /\ Count(AtTop[k], Asking(u)) = Count(rinbox[k], Asking(u))
         /\ Count(ping_rooms(AtTop)[k], Asking(u)) = Count(rinbox[k], Asking(u))
<1>1. rinbox \in [RoomIds -> Seq(RoomMail)]
  BY DEF BaseInv, SenderInv
<1>2. Count(AtTop[k], Asking(u)) = Count(rinbox[k], Asking(u))
  BY <1>1, PingAsks DEF AtTop
<1>3. Count(ping_rooms(AtTop)[k], Asking(u)) = Count(AtTop[k], Asking(u))
  BY AtTopBase, PingAsks
<1> QED
  BY <1>2, <1>3

(* A room takes requests to enter from its queue one by one.               *)
LEMMA TakesAsks ==
  ASSUME BaseInv, NEW k \in RoomIds, NEW type, Takes(k, type), NEW u, NEW r \in RoomIds
  PROVE  Count(rinbox[r], Asking(u)) = IF r = k /\ type = "INFO_ROOM" /\ Head(rinbox[k]).user = u
                                       THEN Count(rinbox'[r], Asking(u)) + 1 ELSE Count(rinbox'[r], Asking(u))
<1>1. /\ rinbox[k] # <<>> /\ rinbox[k] \in Seq(Messages) /\ rinbox'[k] = Tail(rinbox[k])
      /\ \A l \in RoomIds : l # k => rinbox'[l] = rinbox[l]
      /\ Head(rinbox[k]) \in Messages /\ Head(rinbox[k]).type = type
  BY RoomTakes
<1>2. Head(rinbox[k]) \in Asking(u) <=> type = "INFO_ROOM" /\ Head(rinbox[k]).user = u
  BY <1>1 DEF Asking, From
<1>3. Count(rinbox[k], Asking(u)) = IF Head(rinbox[k]) \in Asking(u) THEN Count(Tail(rinbox[k]), Asking(u)) + 1
                                    ELSE Count(Tail(rinbox[k]), Asking(u))
  BY <1>1, CountTail
<1> QED
  BY <1>1, <1>2, <1>3

(* The broker knows nothing of lobbies.                                    *)
LEMMA BrokerLobby ==
  ASSUME BaseInv, BaseInv', OwnIds, NEW v \in Users, LobbyOf(v), Broker
  PROVE  LobbyOf(v)'
<1>0. /\ TypeOK /\ TypeOK' /\ Unsent \in Names /\ NoRoom \in RoomIds \cup {NoRoom}
      /\ {"CLIENT_CREATE_ROOM_RESPONSE", "CLIENT_LOOKUP_RESPONSE", "NOTIF"} \subseteq Types \ {"INFO_ROOM", "END_GAME", "ROOM_CLOSED"}
  BY Constants DEF BaseInv, Types
<1>1. UNCHANGED <<client, is_on_game, game_url, m_players>>
  BY DEF Broker, BrokerTimeout, BrokerCreates, BrokerLooksUp, BrokerMatches, BrokerForwards, session
<1>2. \A r \in RoomIds : thread'[r] = thread[r] \/ thread'[r] = "starting"
  <2>1. UNCHANGED thread \/ \E k \in RoomIds : thread' = [thread EXCEPT ![k] = "starting"]
    BY DEF Broker, BrokerTimeout, BrokerCreates, BrokerLooksUp, BrokerMatches, BrokerForwards
  <2> QED
    BY <1>0, <2>1 DEF TypeOK
<1>3. \A r \in RoomIds : Count(rinbox'[r], Asking(v)) = Count(rinbox[r], Asking(v))
  <2>1. rinbox' = AtTop \/ rinbox' = ping_rooms(AtTop)
    BY DEF Broker, BrokerTimeout, BrokerCreates, BrokerLooksUp, BrokerMatches, BrokerForwards
  <2> QED
    BY <2>1, AtTopAsks
<1>4. /\ Count(sub'[v], Infos) = Count(sub[v], Infos)
      /\ Count(sub'[v], Ends) = Count(sub[v], Ends)
      /\ Count(sub'[v], Closes) = Count(sub[v], Closes)
      /\ Led(sub[v], Ends, Infos) => Led(sub'[v], Ends, Infos)
      /\ Led(sub[v], Closes, Ends) => Led(sub'[v], Closes, Ends)
  <2>1. CASE UNCHANGED sub
    BY <2>1
  <2>2. CASE BrokerTimeout \/ BrokerLooksUp
    BY <2>1, <2>2 DEF BrokerTimeout, BrokerLooksUp, session
  <2>3. CASE BrokerCreates
    <3> DEFINE w == Head(inbox).user
    <3>1. PICK id \in RoomIds : ToSessions({w}, Msg("CLIENT_CREATE_ROOM_RESPONSE", id, Unsent))
      BY <2>3 DEF BrokerCreates
    <3> HIDE DEF w
    <3> QED
      BY <1>0, <3>1, OtherMail
  <2>4. CASE BrokerMatches
    <3> DEFINE w == Head(waiting_players)
    <3>1. /\ Reads("PING")
          /\ UNCHANGED sub \/ ToSessions({w}, Msg("CLIENT_LOOKUP_RESPONSE", Head(inbox).room, Unsent))
      BY <2>4 DEF BrokerMatches
    <3>2. Head(inbox).room \in RoomIds \cup {NoRoom}
      BY <3>1, BrokerReads DEF Messages
    <3> HIDE DEF w
    <3> QED
      BY <1>0, <2>1, <3>1, <3>2, OtherMail
  <2>5. CASE BrokerForwards
    <3> DEFINE w == Head(inbox).user
    <3>1. ToSessions({w}, Msg("NOTIF", NoRoom, Unsent))
      BY <2>5 DEF BrokerForwards
    <3> HIDE DEF w
    <3> QED
      BY <1>0, <3>1, OtherMail
  <2> QED
    BY <2>2, <2>3, <2>4, <2>5 DEF Broker
<1>5. \A r \in RoomIds : Count(rinbox'[r], Asking(v)) <= Count(rinbox[r], Asking(v))
  BY <1>0, <1>3, LobbyNumbers
<1>6. \A r \in RoomIds : /\ thread'[r] \in Open => thread[r] \in Open
                         /\ thread'[r] \in Over => thread[r] \in Over
  BY <1>2 DEF Open, Over
<1> QED
  BY <1>0, <1>1, <1>4, <1>5, <1>6, Frame

(* Steps of sessions and users that send nothing about a lobby, or that    *)
(* are about another user.                                                 *)
LEMMA SendLobby ==
  ASSUME BaseInv, BaseInv', OwnIds, NEW v \in Users, LobbyOf(v), NEW u \in Users, StartGame(u) \/ SendChat(u)
  PROVE  LobbyOf(v)'
<1>0. TypeOK /\ TypeOK'
  BY DEF BaseInv
<1>1. UNCHANGED <<client, is_on_game, game_url, sub, thread, m_players>>
  BY DEF StartGame, SendChat, session, rooms
<1>2. \A r \in RoomIds : Count(rinbox'[r], Asking(v)) = Count(rinbox[r], Asking(v))
  <2>1. CASE SendChat(u)
    BY <2>1 DEF SendChat, rooms
  <2>2. CASE StartGame(u)
    <3> DEFINE m == Msg("START", game_url[u], u)
    <3>1. ToRoom(game_url[u], m)
      BY <2>2 DEF StartGame
    <3>2. /\ "START" \in Types /\ "START" \notin {"INFO_ROOM", "CLIENT_QUIT_ROOM"} /\ u \in Names
          /\ game_url[u] \in RoomIds \cup {NoRoom}
      BY <1>0, Constants DEF Types, TypeOK
    <3>3. m \in RoomMail /\ m \notin Asking(v)
      BY <3>2, Fit, RoomClasses
    <3> HIDE DEF m
    <3> QED
      BY <3>1, <3>3, ToRoomAsks
  <2> QED
    BY <2>1, <2>2
<1>3. \A r \in RoomIds : Count(rinbox'[r], Asking(v)) <= Count(rinbox[r], Asking(v))
  BY <1>0, <1>2, LobbyNumbers
<1> QED
  BY <1>0, <1>1, <1>3, Frame

(* What another user does is nothing to a lobby.                           *)
LEMMA OtherLobby ==
  ASSUME BaseInv, BaseInv', OwnIds, NEW v \in Users, LobbyOf(v), NEW u \in Users \ {v},
         \/ CreateRoom(u) \/ FindMatch(u) \/ JoinPartie(u) \/ GetInfoRoom(u) \/ QuitRoom(u)
         \/ Disconnect(u) \/ Reconnect(u) \/ Session(u)
  PROVE  LobbyOf(v)'
<1>0. /\ TypeOK /\ TypeOK' /\ client \in [Users -> Clients] /\ is_on_game \in [Users -> BOOLEAN]
      /\ game_url \in [Users -> RoomIds \cup {NoRoom}] /\ sub \in [Users -> Seq(Messages)]
      /\ rinbox \in [RoomIds -> Seq(RoomMail)] /\ u \in Names
  BY Constants DEF BaseInv, TypeOK, SenderInv
<1>1. UNCHANGED <<thread, m_players>>
  BY DEF CreateRoom, FindMatch, JoinPartie, GetInfoRoom, QuitRoom, Disconnect, Reconnect,
         Session, JoinAnswer, JoinTimeout, ReadShifted, Receive, rooms
<1>2. client'[v] = client[v]
  <2>1. UNCHANGED client \/ \E c : client' = [client EXCEPT ![u] = c]
    BY DEF CreateRoom, FindMatch, JoinPartie, GetInfoRoom, QuitRoom, Disconnect, Reconnect, Request,
           Session, JoinAnswer, JoinTimeout, ReadShifted, Receive, Answered
  <2> QED
    BY <1>0, <2>1
<1>3. is_on_game'[v] = is_on_game[v] /\ game_url'[v] = game_url[v]
  <2>1. /\ UNCHANGED is_on_game \/ \E b : is_on_game' = [is_on_game EXCEPT ![u] = b]
        /\ UNCHANGED game_url \/ \E r : game_url' = [game_url EXCEPT ![u] = r]
    BY DEF CreateRoom, FindMatch, JoinPartie, GetInfoRoom, QuitRoom, Disconnect, Reconnect,
           Session, JoinAnswer, JoinTimeout, ReadShifted, Receive
  <2> QED
    BY <1>0, <2>1
<1>4. sub'[v] = sub[v]
  <2>1. UNCHANGED sub \/ sub' = [sub EXCEPT ![u] = Tail(@)]
    BY DEF CreateRoom, FindMatch, JoinPartie, GetInfoRoom, QuitRoom, Disconnect, Reconnect,
           Session, JoinAnswer, JoinTimeout, ReadShifted, Receive
  <2> QED
    BY <1>0, <2>1
<1>5. \A r \in RoomIds : Count(rinbox'[r], Asking(v)) = Count(rinbox[r], Asking(v))
  <2>1. CASE UNCHANGED rinbox
    BY <2>1
  <2>2. CASE CreateRoom(u) \/ FindMatch(u) \/ QuitRoom(u) \/ Reconnect(u) \/ Session(u)
    BY <2>1, <2>2 DEF CreateRoom, FindMatch, QuitRoom, Reconnect, Session, JoinAnswer, JoinTimeout, ReadShifted, Receive, rooms
  <2>3. CASE JoinPartie(u)
    <3>1. PICK r \in RoomIds : UNCHANGED rinbox \/ ToRoom(r, Msg("PING", r, u))
      BY <2>3 DEF JoinPartie
    <3> DEFINE m == Msg("PING", r, u)
    <3>2. "PING" \in Types /\ "PING" \notin {"INFO_ROOM", "CLIENT_QUIT_ROOM"}
      BY DEF Types, OfRoom
    <3>3. m \in RoomMail /\ m \notin Asking(v)
      BY <1>0, <3>2, Fit, RoomClasses
    <3>4. UNCHANGED rinbox \/ ToRoom(r, m)
      BY <3>1
    <3> HIDE DEF m
    <3> QED
      BY <2>1, <3>3, <3>4, ToRoomAsks
  <2>4. CASE GetInfoRoom(u)
    <3> DEFINE m == Msg("INFO_ROOM", game_url[u], u)
    <3>1. UNCHANGED rinbox \/ ToRoom(game_url[u], m)
      BY <2>4 DEF GetInfoRoom
    <3>2. "INFO_ROOM" \in Types /\ game_url[u] \in RoomIds \cup {NoRoom}
      BY <1>0 DEF Types, OfRoom
    <3>3. m \in RoomMail /\ m \notin Asking(v)
      BY <1>0, <3>2, Fit, RoomClasses
    <3> HIDE DEF m
    <3> QED
      BY <2>1, <3>1, <3>3, ToRoomAsks
  <2>5. CASE Disconnect(u)
    <3> DEFINE m == Msg("CLIENT_QUIT_ROOM", game_url[u], u)
    <3>1. UNCHANGED rinbox \/ ToRoom(game_url[u], m)
      BY <2>5 DEF Disconnect
    <3>2. "CLIENT_QUIT_ROOM" \in Types /\ game_url[u] \in RoomIds \cup {NoRoom}
      BY <1>0 DEF Types
    <3>3. m \in Messages /\ m \notin Asking(v)
      BY <1>0, <3>2, RoomClasses
    <3> HIDE DEF m
    <3>4. CASE ToRoom(game_url[u], m)
      <4>1. rinbox \in [RoomIds -> Seq(Messages)]
        BY <1>0 DEF TypeOK
      <4>2. \A k \in RoomIds : rinbox'[k] = IF Hears(k, game_url[u]) THEN Append(rinbox[k], m) ELSE rinbox[k]
        BY <3>3, <3>4, <4>1, Published
      <4>3. \A k \in RoomIds : Count(Append(rinbox[k], m), Asking(v)) = Count(rinbox[k], Asking(v))
        BY <3>3, <4>1, CountAppend
      <4> QED
        BY <4>2, <4>3
    <3> QED
      BY <2>1, <3>1, <3>4
  <2> QED
    BY <2>2, <2>3, <2>4, <2>5
<1>6. \A r \in RoomIds : Count(rinbox'[r], Asking(v)) <= Count(rinbox[r], Asking(v))
  BY <1>0, <1>5, LobbyNumbers
<1> QED
  BY <1>0, <1>1, <1>2, <1>3, <1>4, <1>6, Frame

(* What a client in the menus does, and how one comes back to them.        *)
LEMMA MenuLobby ==
  ASSUME BaseInv, BaseInv', OwnIds, NEW u \in Users, LobbyOf(u),
         CreateRoom(u) \/ FindMatch(u) \/ JoinPartie(u) \/ Reconnect(u) \/ JoinTimeout(u)
  PROVE  LobbyOf(u)'
<1>0. /\ TypeOK /\ TypeOK' /\ client \in [Users -> Clients] /\ u \in Names
      /\ Member(u) /\ Asks(u) /\ Enters(u) /\ Leaving(u)
  BY Constants DEF BaseInv, TypeOK, LobbyOf
<1>1. UNCHANGED <<is_on_game, game_url, sub, thread, m_players>>
  BY DEF CreateRoom, FindMatch, JoinPartie, Reconnect, JoinTimeout, rooms
<1>2. client[u] \notin {"joined", "entering", "lobby"} /\ client'[u] \notin {"joined", "entering", "lobby"}
  <2>1. CASE CreateRoom(u) \/ FindMatch(u) \/ JoinPartie(u) \/ Reconnect(u)
    <3>1. client[u] \in {"menu", "off"} /\ \E c \in {"creating", "looking", "asking", "menu"} : client' = [client EXCEPT ![u] = c]
      BY <2>1 DEF CreateRoom, FindMatch, JoinPartie, Reconnect, Request
    <3> QED
      BY <1>0, <3>1
  <2>2. CASE JoinTimeout(u)
    <3>1. ping[u] # NoRoom /\ client' = [client EXCEPT ![u] = "menu"]
      BY <2>2 DEF JoinTimeout
    <3>2. client[u] = "asking"
      BY <3>1 DEF BaseInv, PingInv
    <3> QED
      BY <1>0, <3>1, <3>2
  <2> QED
    BY <2>1, <2>2
<1>3. \A r \in RoomIds : Count(rinbox'[r], Asking(u)) = Count(rinbox[r], Asking(u))
  <2>1. CASE UNCHANGED rinbox
    BY <2>1
  <2>2. CASE CreateRoom(u) \/ FindMatch(u) \/ Reconnect(u) \/ JoinTimeout(u)
    BY <2>1, <2>2 DEF CreateRoom, FindMatch, Reconnect, JoinTimeout, rooms
  <2>3. CASE JoinPartie(u)
    <3>1. PICK r \in RoomIds : UNCHANGED rinbox \/ ToRoom(r, Msg("PING", r, u))
      BY <2>3 DEF JoinPartie
    <3> DEFINE m == Msg("PING", r, u)
    <3>2. "PING" \in Types /\ "PING" \notin {"INFO_ROOM", "CLIENT_QUIT_ROOM"}
      BY DEF Types, OfRoom
    <3>3. m \in RoomMail /\ m \notin Asking(u)
      BY <1>0, <3>2, Fit, RoomClasses
    <3>4. UNCHANGED rinbox \/ ToRoom(r, m)
      BY <3>1
    <3> HIDE DEF m
    <3> QED
      BY <2>1, <3>3, <3>4, ToRoomAsks
  <2> QED
    BY <2>2, <2>3
<1>4. In(u)' <=> In(u)
  BY <1>1 DEF In
<1>5. Member(u)'
  BY <1>0, <1>1, <1>2 DEF Member
<1>6. Asks(u)'
  BY <1>0, <1>2, <1>3 DEF Asks
<1>7. Enters(u)'
  BY <1>2 DEF Enters
<1>8. Leaving(u)'
  BY <1>0, <1>1, <1>2, <1>4 DEF Leaving
<1> QED
  BY <1>5, <1>6, <1>7, <1>8 DEF LobbyOf

(* A guest that quits its lobby was told nothing of an end.                *)
LEMMA QuitLobby ==
  ASSUME BaseInv, BaseInv', NEW u \in Users, LobbyOf(u), QuitRoom(u)
  PROVE  LobbyOf(u)'
<1>0. /\ TypeOK /\ TypeOK' /\ client \in [Users -> Clients] /\ Member(u) /\ Asks(u) /\ Enters(u) /\ Leaving(u)
  BY DEF BaseInv, TypeOK, LobbyOf
<1>1. client[u] = "lobby" /\ UNCHANGED <<is_on_game, game_url, sub, thread, m_players, rinbox>>
  BY DEF QuitRoom, rooms
<1>2. client'[u] = "left"
  <2>1. is_on_game[u] /\ client' = [client EXCEPT ![u] = IF is_on_game[u] THEN "left" ELSE "menu"]
    BY <1>0, <1>1 DEF Member, QuitRoom
  <2> QED
    BY <1>0, <2>1
<1>3. In(u)' <=> In(u)
  BY <1>1 DEF In
<1>4. Member(u)'
  BY <1>0, <1>1, <1>2 DEF Member
<1>5. Asks(u)'
  BY <1>0, <1>1 DEF Asks
<1>6. Enters(u)'
  BY <1>2 DEF Enters
<1>7. Leaving(u)'
  BY <1>0, <1>1, <1>2, <1>3 DEF Leaving
<1> QED
  BY <1>4, <1>5, <1>6, <1>7 DEF LobbyOf

(* A client that hears of a room it asked for is in no other.              *)
LEMMA JoinLobby ==
  ASSUME BaseInv, BaseInv', NEW u \in Users, LobbyOf(u), JoinAnswer(u)
  PROVE  LobbyOf(u)'
<1>0. /\ client \in [Users -> Clients] /\ is_on_game \in [Users -> BOOLEAN] /\ game_url \in [Users -> RoomIds \cup {NoRoom}]
      /\ Member(u) /\ Asks(u) /\ Leaving(u) /\ TypeOK
  BY DEF BaseInv, TypeOK, LobbyOf
<1>1. /\ ping[u] # NoRoom
      /\ client' = [client EXCEPT ![u] = "joined"] /\ is_on_game' = [is_on_game EXCEPT ![u] = TRUE]
      /\ UNCHANGED <<sub, thread, m_players, rinbox>>
  BY DEF JoinAnswer, rooms
<1>2. client[u] = "asking" /\ ~is_on_game[u]
  BY <1>1 DEF BaseInv, PingInv
<1>3. client'[u] = "joined" /\ is_on_game'[u]
  BY <1>0, <1>1
<1>4. \A r \in RoomIds : ~(thread[r] \in Open /\ u \in m_players[r])
  BY <1>0, <1>2 DEF Member
<1>5. Member(u)'
  BY <1>1, <1>3, <1>4 DEF Member
<1>6. Asks(u)'
  BY <1>0, <1>1, <1>2 DEF Asks
<1>7. Enters(u)'
  BY <1>3 DEF Enters
<1>8. Leaving(u)'
  BY <1>0, <1>1, <1>2, <1>3 DEF Leaving
<1> QED
  BY <1>5, <1>6, <1>7, <1>8 DEF LobbyOf

(* A frame read askew is about no lobby.                                   *)
LEMMA ShiftedLobby ==
  ASSUME BaseInv, BaseInv', NEW u \in Users, LobbyOf(u), ReadShifted(u)
  PROVE  LobbyOf(u)'
<1>0. /\ TypeOK /\ TypeOK' /\ sub \in [Users -> Seq(Messages)] /\ sub[u] \in Seq(Messages)
      /\ Member(u) /\ Asks(u) /\ Leaving(u)
  BY DEF BaseInv, TypeOK, LobbyOf
<1>1. /\ half[u] /\ sub[u] # <<>> /\ sub' = [sub EXCEPT ![u] = Tail(@)]
      /\ UNCHANGED <<client, is_on_game, game_url, thread, m_players, rinbox>>
  BY DEF ReadShifted, rooms
<1>2. client[u] = "joined"
  BY <1>1 DEF BaseInv, PingInv
<1>3. Count(sub'[u], Closes) = 0
  <2>1. Count(sub[u], Closes) = 0
    BY <1>0, <1>2, LobbyNumbers DEF Leaving
  <2>2. sub'[u] = Tail(sub[u])
    BY <1>0, <1>1
  <2>3. Count(sub[u], Closes) = IF Head(sub[u]) \in Closes THEN Count(Tail(sub[u]), Closes) + 1 ELSE Count(Tail(sub[u]), Closes)
    BY <1>0, <1>1, CountTail
  <2>4. Count(sub'[u], Closes) \in Nat
    BY <1>0, LobbyNumbersNext
  <2> QED
    BY <2>1, <2>2, <2>3, <2>4
<1>4. Member(u)'
  BY <1>0, <1>1 DEF Member
<1>5. Asks(u)'
  BY <1>0, <1>1, <1>2 DEF Asks
<1>6. Enters(u)'
  BY <1>1, <1>2 DEF Enters
<1>7. Leaving(u)'
  BY <1>1, <1>2, <1>3 DEF Leaving
<1> QED
  BY <1>4, <1>5, <1>6, <1>7 DEF LobbyOf

(* A client asks the room it has joined once.                              *)
LEMMA GetInfoLobby ==
  ASSUME BaseInv, BaseInv', OwnIds, NEW u \in Users, LobbyOf(u), GetInfoRoom(u)
  PROVE  LobbyOf(u)'
<1> DEFINE m == Msg("INFO_ROOM", game_url[u], u)
<1>0. /\ TypeOK /\ TypeOK' /\ client \in [Users -> Clients] /\ u \in Users /\ u \in Names /\ "INFO_ROOM" \in Types
      /\ game_url[u] \in RoomIds \cup {NoRoom} /\ Member(u) /\ Asks(u)
  BY Constants DEF BaseInv, TypeOK, LobbyOf, Types, OfRoom
<1>1. /\ client[u] = "joined" /\ sub[u] = <<>> /\ client' = [client EXCEPT ![u] = "entering"]
      /\ UNCHANGED rinbox \/ ToRoom(game_url[u], m)
      /\ UNCHANGED <<is_on_game, game_url, sub, thread, m_players>>
  BY DEF GetInfoRoom, Silent
<1>2. client'[u] = "entering"
  BY <1>0, <1>1
<1>3. \A r \in RoomIds : ~(thread[r] \in Open /\ u \in m_players[r])
  BY <1>0, <1>1 DEF Member
<1>4. ~In(u)'
  BY <1>1, <1>3 DEF In
<1>5. /\ Count(sub'[u], Infos) = 0 /\ Count(sub'[u], Ends) = 0 /\ Count(sub'[u], Closes) = 0
      /\ Led(sub'[u], Ends, Infos) /\ Led(sub'[u], Closes, Ends)
  <2>1. sub'[u] = <<>> /\ <<>> \in Seq(Messages)
    BY <1>1
  <2>2. Count(<<>>, Infos) = 0 /\ Count(<<>>, Ends) = 0 /\ Count(<<>>, Closes) = 0
    BY CountEmpty
  <2> QED
    BY <2>1, <2>2, LedNone
<1>6. \A r \in RoomIds : /\ Count(rinbox[r], Asking(u)) = 0
                         /\ Count(rinbox'[r], Asking(u)) = 0 \/ (Count(rinbox'[r], Asking(u)) = 1 /\ game_url'[u] = r)
  <2> TAKE r \in RoomIds
  <2>1. Count(rinbox[r], Asking(u)) = 0
    BY <1>0, <1>1, LobbyNumbers DEF Asks
  <2>2. m \in RoomMail
    BY <1>0, Fit
  <2> HIDE DEF m
  <2>3. ASSUME ToRoom(game_url[u], m)
        PROVE  Count(rinbox'[r], Asking(u)) = 0 \/ (Count(rinbox'[r], Asking(u)) = 1 /\ game_url[u] = r)
    <3>1. Count(rinbox'[r], Asking(u)) = IF thread[r] \in Open /\ r = game_url[u] /\ m \in Asking(u)
                                        THEN Count(rinbox[r], Asking(u)) + 1 ELSE Count(rinbox[r], Asking(u))
      BY <2>2, <2>3, ToRoomAsks
    <3> QED
      BY <2>1, <3>1
  <2>4. ASSUME UNCHANGED rinbox
        PROVE  Count(rinbox'[r], Asking(u)) = 0
    BY <2>1, <2>4
  <2> QED
    BY <1>1, <2>1, <2>3, <2>4
<1>7. Member(u)'
  BY <1>0, <1>1, <1>2, <1>3 DEF Member
<1>8. Asks(u)'
  BY <1>2, <1>4, <1>5, <1>6 DEF Asks
<1>9. Enters(u)'
  BY <1>4, <1>5 DEF Enters
<1>10. Leaving(u)'
  <2>1. \A r \in RoomIds : ~(thread'[r] \in Over /\ u \in m_players'[r])
    BY <1>1, <1>3 DEF Open, Over
  <2> QED
    BY <1>5, <2>1 DEF Leaving
<1> QED
  BY <1>7, <1>8, <1>9, <1>10 DEF LobbyOf

(* Only a client that asked gets an answer of the broker, and it is in no  *)
(* room.                                                                   *)
LEMMA Awaited ==
  ASSUME TypeOK, RequestInv, NEW u \in Users \ dropped, sub[u] # <<>>,
         Head(sub[u]).type \in {"CLIENT_LOOKUP_RESPONSE", "CLIENT_CREATE_ROOM_RESPONSE"}
  PROVE  /\ ~is_on_game[u]
         /\ client[u] = IF Head(sub[u]).type = "CLIENT_LOOKUP_RESPONSE" THEN "looking" ELSE "creating"
<1>1. sub[u] \in Seq(Messages) /\ u \in Users
  BY DEF TypeOK
<1>2. Head(sub[u]) \in LookupAnswers \/ Head(sub[u]) \in CreateAnswers
  <2>1. Head(sub[u]) \in Messages
    BY <1>1, ReadQueue
  <2> QED
    BY <2>1 DEF LookupAnswers, CreateAnswers, Of
<1>3. ASSUME NEW T, Head(sub[u]) \in T
      PROVE  Count(sub[u], T) > 0
  <2>1. Count(sub[u], T) = Count(Tail(sub[u]), T) + 1
    BY <1>1, <1>3, CountTail
  <2>2. Tail(sub[u]) \in Seq(Messages)
    BY <1>1, ReadQueue
  <2>3. Count(Tail(sub[u]), T) \in Nat
    BY <2>2, CountType
  <2> QED
    BY <2>1, <2>3
<1>4. /\ Count(waiting_players, {u}) \in Nat
      /\ Count(inbox, Lookups(u)) \in Nat /\ Count(sub[u], LookupAnswers) \in Nat
      /\ Count(inbox, Creates(u)) \in Nat /\ Count(sub[u], CreateAnswers) \in Nat
  BY <1>1, Numbers
<1>5. /\ Searches(u) <= Wishes(u, "looking")
      /\ Creations(u) <= Wishes(u, "creating")
      /\ is_on_game[u] => Searches(u) = 0 /\ Creations(u) = 0
  <2>1. Dropped(u) = 0
    BY DEF Dropped
  <2>2. Wishes(u, "looking") \in {0, 1} /\ Wishes(u, "creating") \in {0, 1}
    BY DEF Wishes
  <2>3. /\ Searches(u) <= Wishes(u, "looking") + Dropped(u)
        /\ Creations(u) <= Wishes(u, "creating") + Dropped(u)
        /\ is_on_game[u] => Searches(u) = 0 /\ Creations(u) = 0
    BY <1>1 DEF RequestInv
  <2> QED
    BY <2>1, <2>2, <2>3
<1>6. CASE Head(sub[u]).type = "CLIENT_LOOKUP_RESPONSE"
  <2>1. Head(sub[u]) \in LookupAnswers
    BY <1>2, <1>6 DEF CreateAnswers, Of
  <2>2. Searches(u) > 0
    BY <1>3, <1>4, <2>1 DEF Searches
  <2>3. Wishes(u, "looking") = 1 /\ ~is_on_game[u]
    BY <1>4, <1>5, <2>2 DEF Wishes, Searches
  <2> QED
    BY <1>6, <2>3 DEF Wishes
<1>7. CASE Head(sub[u]).type = "CLIENT_CREATE_ROOM_RESPONSE"
  <2>1. Head(sub[u]) \in CreateAnswers
    BY <1>2, <1>7 DEF LookupAnswers, Of
  <2>2. Creations(u) > 0
    BY <1>3, <1>4, <2>1 DEF Creations
  <2>3. Wishes(u, "creating") = 1 /\ ~is_on_game[u]
    BY <1>4, <1>5, <2>2 DEF Wishes, Creations
  <2> QED
    BY <1>7, <2>3 DEF Wishes
<1> QED
  BY <1>6, <1>7

(* What a session reads and relays.                                        *)
LEMMA ReceiveLobby ==
  ASSUME BaseInv, BaseInv', RequestInv, NEW u \in Users \ dropped, LobbyOf(u), Receive(u)
  PROVE  LobbyOf(u)'
<1> DEFINE m == Head(sub[u])
<1>0. /\ TypeOK /\ TypeOK' /\ sub \in [Users -> Seq(Messages)] /\ sub[u] \in Seq(Messages) /\ u \in Users
      /\ client \in [Users -> Clients] /\ is_on_game \in [Users -> BOOLEAN]
      /\ game_url \in [Users -> RoomIds \cup {NoRoom}]
      /\ Member(u) /\ Asks(u) /\ Enters(u) /\ Leaving(u)
  BY DEF BaseInv, TypeOK, LobbyOf
<1>1. /\ sub[u] # <<>> /\ sub' = [sub EXCEPT ![u] = Tail(@)]
      /\ UNCHANGED <<thread, m_players, rinbox>>
  BY DEF Receive, rooms
<1>2. m \in Messages /\ sub'[u] = Tail(sub[u])
  BY <1>0, <1>1, ReadSub
<1>3. /\ m \in Infos <=> m.type = "INFO_ROOM"
      /\ m \in Ends <=> m.type = "END_GAME"
      /\ m \in Closes <=> m.type = "ROOM_CLOSED"
  BY <1>2 DEF Infos, Ends, Closes, Of
<1>4. /\ \A T : Count(sub[u], T) = IF m \in T THEN Count(sub'[u], T) + 1 ELSE Count(sub'[u], T)
      /\ \A T, S : Led(sub[u], T, S) => m \notin T /\ (m \notin S => Led(sub'[u], T, S))
  BY <1>0, <1>1, <1>2, CountTail, LedTail
<1>5. /\ Count(sub'[u], Infos) \in Nat /\ Count(sub'[u], Ends) \in Nat /\ Count(sub'[u], Closes) \in Nat
      /\ \A r \in RoomIds : Count(rinbox[r], Asking(u)) \in Nat
  BY <1>0, LobbyNumbers, LobbyNumbersNext
<1>6. In(u)' <=> In(u)
  BY <1>1 DEF In
<1>7. \A r \in RoomIds : client[u] # "entering" \/ Count(sub[u], Infos) > 0 => Count(rinbox[r], Asking(u)) = 0
  BY <1>0, <1>5 DEF Asks
<1> HIDE DEF m
<1>8. CASE m.type = "ROOM_CLOSED"
  <2>1. is_on_game' = [is_on_game EXCEPT ![u] = FALSE] /\ UNCHANGED <<client, game_url>>
    BY <1>8 DEF Receive, OfRoom, m
  <2>2. ~is_on_game'[u]
    BY <1>0, <2>1
  <2>3. Count(sub'[u], Closes) = 0 /\ ~In(u) /\ client[u] # "joined"
    BY <1>0, <1>3, <1>4, <1>5, <1>8 DEF Leaving
  <2>4. client[u] \notin {"entering", "lobby"}
    BY <1>0, <1>3, <1>4, <1>8 DEF Leaving
  <2>5. Member(u)'
    BY <1>1, <2>1, <2>3, <2>4 DEF Member, In
  <2>6. Asks(u)'
    BY <1>1, <1>7, <2>4 DEF Asks
  <2>7. Enters(u)'
    BY <2>1, <2>4 DEF Enters
  <2>8. Leaving(u)'
    BY <2>1, <2>3, <2>4 DEF Leaving
  <2> QED
    BY <2>5, <2>6, <2>7, <2>8 DEF LobbyOf
<1>9. CASE m.type = "INFO_ROOM"
  <2>1. /\ \/ is_on_game[u] /\ client' = IF client[u] = "entering" THEN [client EXCEPT ![u] = "lobby"] ELSE client
           \/ ~is_on_game[u] /\ UNCHANGED client
        /\ UNCHANGED <<is_on_game, game_url>>
    BY <1>9 DEF Receive, Answered, OfRoom, m
  <2>2. client'[u] = IF client[u] = "entering" THEN "lobby" ELSE client[u]
    BY <1>0, <2>1 DEF Member
  <2>3. /\ Count(sub[u], Infos) > 0
        /\ Count(sub'[u], Ends) = Count(sub[u], Ends) /\ Count(sub'[u], Closes) = Count(sub[u], Closes)
        /\ Led(sub[u], Closes, Ends) => Led(sub'[u], Closes, Ends)
    BY <1>3, <1>4, <1>5, <1>9
  <2>4. client[u] = "entering" => game_url[u] \in RoomIds /\ u \in m_players[game_url[u]]
    BY <1>0, <2>3 DEF Enters
  <2>5. Member(u)'
    BY <1>0, <1>1, <2>1, <2>2, <2>4 DEF Member
  <2>6. Asks(u)'
    BY <1>1, <1>7, <2>3 DEF Asks
  <2>7. Enters(u)'
    BY <2>2 DEF Enters
  <2>8. Leaving(u)'
    BY <1>0, <1>1, <1>6, <2>1, <2>2, <2>3 DEF Leaving
  <2> QED
    BY <2>5, <2>6, <2>7, <2>8 DEF LobbyOf
<1>10. CASE m.type = "END_GAME"
  <2>1. /\ \/ is_on_game[u] /\ client' = IF client[u] = "lobby" THEN [client EXCEPT ![u] = "menu"] ELSE client
           \/ ~is_on_game[u] /\ UNCHANGED client
        /\ UNCHANGED <<is_on_game, game_url>>
    BY <1>10 DEF Receive, Answered, OfRoom, m
  <2>2. client[u] # "entering"
    BY <1>0, <1>3, <1>4, <1>10 DEF Enters
  <2>3. client'[u] \notin {"entering", "lobby"} /\ (client'[u] = "joined" => client[u] = "joined")
    BY <1>0, <2>1, <2>2 DEF Member
  <2>4. Count(sub'[u], Closes) = Count(sub[u], Closes)
    BY <1>3, <1>4, <1>10
  <2>5. Member(u)'
    BY <1>0, <1>1, <2>1, <2>3 DEF Member
  <2>6. Asks(u)'
    BY <1>1, <1>7, <2>2 DEF Asks
  <2>7. Enters(u)'
    BY <2>3 DEF Enters
  <2>8. Leaving(u)'
    BY <1>0, <1>6, <2>1, <2>3, <2>4 DEF Leaving
  <2> QED
    BY <2>5, <2>6, <2>7, <2>8 DEF LobbyOf
<1>11. CASE m.type \notin {"ROOM_CLOSED", "INFO_ROOM", "END_GAME", "CLIENT_LOOKUP_RESPONSE", "CLIENT_CREATE_ROOM_RESPONSE"}
  <2>1. UNCHANGED <<client, is_on_game, game_url>>
    BY <1>11 DEF Receive, OfRoom, m
  <2>2. /\ Count(sub'[u], Infos) = Count(sub[u], Infos)
        /\ Count(sub'[u], Ends) = Count(sub[u], Ends)
        /\ Count(sub'[u], Closes) = Count(sub[u], Closes)
        /\ Led(sub[u], Ends, Infos) => Led(sub'[u], Ends, Infos)
        /\ Led(sub[u], Closes, Ends) => Led(sub'[u], Closes, Ends)
    BY <1>3, <1>4, <1>11
  <2>3. \A r \in RoomIds : Count(rinbox'[r], Asking(u)) <= Count(rinbox[r], Asking(u))
    BY <1>1, <1>5
  <2> QED
    BY <1>0, <1>1, <2>1, <2>2, <2>3, Frame
<1>12. CASE m.type \in {"CLIENT_LOOKUP_RESPONSE", "CLIENT_CREATE_ROOM_RESPONSE"}
  <2> DEFINE wish == IF m.type = "CLIENT_LOOKUP_RESPONSE" THEN "looking" ELSE "creating"
  <2>1. /\ is_on_game' = [is_on_game EXCEPT ![u] = TRUE]
        /\ client' = IF client[u] = wish THEN [client EXCEPT ![u] = "joined"] ELSE client
    BY <1>12 DEF Receive, Answered, OfRoom, m
  <2>2. ~is_on_game[u] /\ client[u] = wish
    BY <1>0, <1>1, <1>12, Awaited DEF m
  <2>3. client'[u] = "joined" /\ is_on_game'[u] /\ client[u] \notin {"joined", "entering", "lobby"}
    BY <1>0, <2>1, <2>2
  <2>4. \A r \in RoomIds : ~(thread[r] \in Open /\ u \in m_players[r])
    BY <1>0, <2>2 DEF Member
  <2>5. Count(sub[u], Closes) = 0
    <3>1. ~(Count(sub[u], Closes) > 0)
      BY <1>0, <2>2 DEF Leaving
    <3>2. Count(sub[u], Closes) \in Nat
      BY <1>0, LobbyNumbers
    <3> QED
      BY <3>1, <3>2
  <2>6. Count(sub'[u], Closes) = 0
    BY <1>4, <1>5, <2>5
  <2>7. Member(u)'
    BY <1>1, <2>3, <2>4 DEF Member
  <2>8. Asks(u)'
    BY <1>1, <1>7, <2>3 DEF Asks
  <2>9. Enters(u)'
    BY <2>3 DEF Enters
  <2>10. Leaving(u)'
    BY <2>3, <2>6 DEF Leaving
  <2> QED
    BY <2>7, <2>8, <2>9, <2>10 DEF LobbyOf
<1> QED
  BY <1>8, <1>9, <1>10, <1>11, <1>12

(* A room that only reads: a user that did not leave stays its player.     *)
LEMMA RoomReadsLobby ==
  ASSUME BaseInv, BaseInv', NEW v \in Users \ dropped, LobbyOf(v), NEW k \in RoomIds,
         Subscribe(k) \/ RoomStarts(k) \/ RoomIgnores(k) \/ RoomQuit(k)
  PROVE  LobbyOf(v)'
<1>0. /\ TypeOK /\ TypeOK' /\ thread \in [RoomIds -> Lives] /\ m_players \in [RoomIds -> SUBSET Users] /\ v \in Users
      /\ rinbox \in [RoomIds -> Seq(Messages)]
  BY DEF BaseInv, TypeOK
<1>1. UNCHANGED <<client, is_on_game, game_url, sub>>
  BY DEF Subscribe, RoomStarts, RoomIgnores, RoomQuit, session
<1>2. \A r \in RoomIds : Count(rinbox'[r], Asking(v)) <= Count(rinbox[r], Asking(v))
  <2> TAKE r \in RoomIds
  <2>0. Count(rinbox'[r], Asking(v)) \in Nat
    BY <1>0, LobbyNumbersNext
  <2>1. CASE UNCHANGED rinbox
    BY <2>0, <2>1
  <2>2. ASSUME NEW type, Takes(k, type)
        PROVE  Count(rinbox'[r], Asking(v)) <= Count(rinbox[r], Asking(v))
    <3>1. Count(rinbox[r], Asking(v)) = IF r = k /\ type = "INFO_ROOM" /\ Head(rinbox[k]).user = v
                                        THEN Count(rinbox'[r], Asking(v)) + 1 ELSE Count(rinbox'[r], Asking(v))
      BY <2>2, TakesAsks
    <3> QED
      BY <2>0, <3>1
  <2>3. UNCHANGED rinbox \/ \E type : Takes(k, type)
    BY DEF Subscribe, RoomStarts, RoomIgnores, RoomQuit
  <2> QED
    BY <2>1, <2>2, <2>3
<1>3. \A r \in RoomIds : v \in m_players'[r] <=> v \in m_players[r]
  <2>1. CASE UNCHANGED m_players
    BY <2>1
  <2>2. CASE RoomQuit(k)
    <3>1. Takes(k, "CLIENT_QUIT_ROOM") /\ m_players' = [m_players EXCEPT ![k] = m_players[k] \ {Head(rinbox[k]).user}]
      BY <2>2 DEF RoomQuit
    <3>2. Head(rinbox[k]) \in RoomMail /\ Head(rinbox[k]).type = "CLIENT_QUIT_ROOM"
      BY <3>1, RoomTakes
    <3>3. Head(rinbox[k]).user # v
      BY <3>2 DEF RoomMail
    <3> QED
      BY <1>0, <3>1, <3>3
  <2>3. UNCHANGED m_players \/ RoomQuit(k)
    BY DEF Subscribe, RoomStarts, RoomIgnores
  <2> QED
    BY <2>1, <2>2, <2>3
<1>4. \A r \in RoomIds : /\ thread'[r] \in Open /\ v \in m_players[r] => thread[r] \in Open
                         /\ thread'[r] \in Over /\ v \in m_players'[r] => thread[r] \in Over
  <2>1. CASE Subscribe(k)
    <3>1. thread[k] = "starting" /\ thread' = [thread EXCEPT ![k] = "lobby"]
      BY <2>1 DEF Subscribe
    <3>2. m_players[k] = {}
      BY <3>1 DEF BaseInv, ThreadInv
    <3> QED
      BY <1>0, <3>1, <3>2 DEF Open, Over
  <2>2. CASE RoomStarts(k) \/ RoomIgnores(k)
    <3>1. thread[k] \in {"lobby", "playing"} /\ thread' = [thread EXCEPT ![k] = "playing"]
      BY <1>0, <2>2 DEF RoomStarts, RoomIgnores
    <3> QED
      BY <1>0, <3>1 DEF Open, Over
  <2>3. CASE RoomQuit(k)
    <3> DEFINE left == m_players[k] \ {Head(rinbox[k]).user}
    <3>1. /\ thread[k] \in {"lobby", "playing"} /\ m_players' = [m_players EXCEPT ![k] = left]
          /\ thread' = [thread EXCEPT ![k] = IF left = {} THEN "ended" ELSE @]
      BY <2>3 DEF RoomQuit
    <3> HIDE DEF left
    <3>2. /\ \A r \in RoomIds : r # k => thread'[r] = thread[r]
          /\ m_players'[k] = left /\ thread'[k] = IF left = {} THEN "ended" ELSE thread[k]
      BY <1>0, <3>1
    <3> QED
      BY <3>1, <3>2 DEF Open, Over
  <2> QED
    BY <2>1, <2>2, <2>3
<1>5. \A r \in RoomIds :
        /\ thread'[r] \in Open /\ v \in m_players'[r] => thread[r] \in Open /\ v \in m_players[r]
        /\ thread'[r] \in Over /\ v \in m_players'[r] => thread[r] \in Over /\ v \in m_players[r]
        /\ v \in m_players[r] => v \in m_players'[r]
  BY <1>3, <1>4
<1> QED
  BY <1>0, <1>1, <1>2, <1>5, Frame

(* A room that answers a PING lets nobody in.                              *)
LEMMA RoomAnswersLobby ==
  ASSUME BaseInv, BaseInv', NEW v \in Users, LobbyOf(v), NEW k \in RoomIds, RoomAnswers(k)
  PROVE  LobbyOf(v)'
<1> DEFINE w == Head(rinbox[k]).user
           r == IF Cardinality(m_players[k]) < MaxPlayers THEN room_id[k] ELSE NoRoom
<1>0. TypeOK /\ TypeOK' /\ r \in RoomIds \cup {NoRoom} /\ "PING" \in Types \ {"INFO_ROOM", "END_GAME", "ROOM_CLOSED"}
  BY DEF BaseInv, TypeOK, Types, OfRoom
<1>1. /\ Takes(k, "PING")
      /\ UNCHANGED sub \/ ToSessions({w}, Msg("PING", r, Unsent))
      /\ UNCHANGED <<client, is_on_game, game_url, thread, m_players>>
  BY DEF RoomAnswers
<1> HIDE DEF w, r
<1>2. /\ Count(sub'[v], Infos) = Count(sub[v], Infos)
      /\ Count(sub'[v], Ends) = Count(sub[v], Ends)
      /\ Count(sub'[v], Closes) = Count(sub[v], Closes)
      /\ Led(sub[v], Ends, Infos) => Led(sub'[v], Ends, Infos)
      /\ Led(sub[v], Closes, Ends) => Led(sub'[v], Closes, Ends)
  <2>1. CASE UNCHANGED sub
    BY <2>1
  <2> QED
    BY <1>0, <1>1, <2>1, OtherMail
<1>3. \A l \in RoomIds : Count(rinbox'[l], Asking(v)) <= Count(rinbox[l], Asking(v))
  <2> TAKE l \in RoomIds
  <2>1. Count(rinbox[l], Asking(v)) = Count(rinbox'[l], Asking(v))
    BY <1>1, TakesAsks
  <2>2. Count(rinbox[l], Asking(v)) \in Nat
    BY <1>0, LobbyNumbers
  <2> QED
    BY <2>1, <2>2
<1> QED
  BY <1>0, <1>1, <1>2, <1>3, Frame

(* The user whose request a lobby takes is in no other room, hears of it,  *)
(* and has asked no other.                                                 *)
LEMMA RoomEntersLobby ==
  ASSUME BaseInv, BaseInv', NEW v \in Users, LobbyOf(v), NEW k \in RoomIds, RoomEnters(k)
  PROVE  LobbyOf(v)'
<1> DEFINE w == Head(rinbox[k]).user
           m == Msg("INFO_ROOM", room_id[k], Unsent)
<1>0. /\ TypeOK /\ TypeOK' /\ m_players \in [RoomIds -> SUBSET Users] /\ "INFO_ROOM" \in Types /\ Unsent \in Names
      /\ room_id[k] \in RoomIds \cup {NoRoom} /\ Member(v) /\ Asks(v) /\ Enters(v) /\ Leaving(v)
  BY Constants DEF BaseInv, TypeOK, LobbyOf, Types, OfRoom
<1>1. /\ thread[k] = "lobby" /\ Takes(k, "INFO_ROOM") /\ m_players' = [m_players EXCEPT ![k] = @ \cup {w}]
      /\ ToSessions({w}, m)
      /\ UNCHANGED <<client, is_on_game, game_url, thread>>
  BY DEF RoomEnters
<1>2. m \in Messages /\ m \in Infos /\ m \notin Ends /\ m \notin Closes
  BY <1>0, RoomClasses
<1> HIDE DEF m
<1>3. /\ \A r \in RoomIds : r # k => m_players'[r] = m_players[r]
      /\ m_players'[k] = m_players[k] \cup {w}
  BY <1>0, <1>1
<1>4. \A r \in RoomIds : Count(rinbox[r], Asking(v)) = IF r = k /\ w = v THEN Count(rinbox'[r], Asking(v)) + 1
                                                       ELSE Count(rinbox'[r], Asking(v))
  BY <1>1, TakesAsks
<1>5. \A r \in RoomIds : Count(rinbox'[r], Asking(v)) \in Nat
  BY <1>0, LobbyNumbersNext
<1> HIDE DEF w
<1>6. CASE w # v
  <2>1. /\ Count(sub'[v], Infos) = Count(sub[v], Infos)
        /\ Count(sub'[v], Ends) = Count(sub[v], Ends)
        /\ Count(sub'[v], Closes) = Count(sub[v], Closes)
        /\ Led(sub[v], Ends, Infos) => Led(sub'[v], Ends, Infos)
        /\ Led(sub[v], Closes, Ends) => Led(sub'[v], Closes, Ends)
    BY <1>1, <1>2, <1>6, SubCounts
  <2>2. \A r \in RoomIds : Count(rinbox'[r], Asking(v)) <= Count(rinbox[r], Asking(v))
    BY <1>4, <1>5, <1>6
  <2>3. \A r \in RoomIds : v \in m_players'[r] <=> v \in m_players[r]
    BY <1>3, <1>6
  <2> QED
    BY <1>0, <1>1, <2>1, <2>2, <2>3, Frame
<1>7. CASE w = v
  <2>1. /\ Count(rinbox[k], Asking(v)) = Count(rinbox'[k], Asking(v)) + 1
        /\ Count(rinbox'[k], Asking(v)) \in Nat
    BY <1>4, <1>5, <1>7
  <2>2. /\ client[v] = "entering" /\ game_url[v] = k /\ ~In(v)
        /\ Count(sub[v], Infos) = 0 /\ Count(sub[v], Ends) = 0 /\ Count(sub[v], Closes) = 0
        /\ Count(rinbox'[k], Asking(v)) = 0
    <3>1. Count(rinbox[k], Asking(v)) > 0 /\ (Count(rinbox[k], Asking(v)) <= 1 => Count(rinbox'[k], Asking(v)) = 0)
      BY <2>1
    <3> QED
      BY <1>0, <3>1 DEF Asks
  <2>3. \A r \in RoomIds : Count(rinbox'[r], Asking(v)) = 0
    <3> SUFFICES ASSUME NEW r \in RoomIds, r # k PROVE Count(rinbox'[r], Asking(v)) = 0
      BY <2>2
    <3>1. Count(rinbox[r], Asking(v)) = Count(rinbox'[r], Asking(v)) /\ Count(rinbox'[r], Asking(v)) \in Nat
      BY <1>4, <1>5
    <3>2. ~(Count(rinbox[r], Asking(v)) > 0)
      BY <1>0, <2>2 DEF Asks
    <3> QED
      BY <3>1, <3>2
  <2>4. /\ Count(sub'[v], Infos) = 1 /\ Count(sub'[v], Ends) = 0 /\ Count(sub'[v], Closes) = 0
        /\ Led(sub'[v], Ends, Infos) /\ Led(sub'[v], Closes, Ends)
    <3>1. /\ Count(sub'[v], Infos) = Count(sub[v], Infos) + 1
          /\ Count(sub'[v], Ends) = Count(sub[v], Ends) /\ Count(sub'[v], Closes) = Count(sub[v], Closes)
      BY <1>1, <1>2, <1>7, <2>2, SubCounts DEF Deaf
    <3>2. sub'[v] \in Seq(Messages)
      BY <1>0 DEF TypeOK
    <3>3. Count(sub'[v], Infos) = 1 /\ Count(sub'[v], Ends) = 0 /\ Count(sub'[v], Closes) = 0
      BY <2>2, <3>1
    <3> QED
      BY <3>2, <3>3, LedNone
  <2>5. \A r \in RoomIds : thread'[r] \in Open /\ v \in m_players'[r] => r = k
    BY <1>1, <1>3, <2>2 DEF In
  <2>6. Member(v)'
    BY <1>0, <1>1, <2>2, <2>5 DEF Member
  <2>7. Asks(v)'
    BY <2>3 DEF Asks
  <2>8. Enters(v)'
    BY <1>1, <1>3, <1>7, <2>2, <2>4 DEF Enters
  <2>9. Leaving(v)'
    <3>1. \A r \in RoomIds : thread'[r] \in Over /\ v \in m_players'[r] => FALSE
      BY <1>1, <2>5 DEF Open, Over
    <3> QED
      BY <2>4, <3>1 DEF Leaving
  <2> QED
    BY <2>6, <2>7, <2>8, <2>9 DEF LobbyOf
<1> QED
  BY <1>6, <1>7

(* The end of a game is told to its players after the room's settings.     *)
LEMMA RoomEndGameLobby ==
  ASSUME BaseInv, BaseInv', NEW v \in Users, LobbyOf(v), NEW k \in RoomIds, RoomEndGame(k)
  PROVE  LobbyOf(v)'
<1> DEFINE m == Msg("END_GAME", room_id[k], Unsent)
<1>0. /\ TypeOK /\ TypeOK' /\ thread \in [RoomIds -> Lives] /\ "END_GAME" \in Types /\ Unsent \in Names
      /\ room_id[k] \in RoomIds \cup {NoRoom} /\ Member(v) /\ Asks(v) /\ Enters(v) /\ Leaving(v)
  BY Constants DEF BaseInv, TypeOK, LobbyOf, Types, OfRoom
<1>1. /\ thread[k] \in {"playing", "ended"} /\ \E life \in Over : thread' = [thread EXCEPT ![k] = life]
      /\ ToSessions(m_players[k], m)
      /\ UNCHANGED <<client, is_on_game, game_url, m_players, rinbox>>
  BY DEF RoomEndGame, Over
<1>2. m \in Messages /\ m \in Ends /\ m \notin Infos /\ m \notin Closes
  BY <1>0, RoomClasses
<1> HIDE DEF m
<1>3. /\ \A r \in RoomIds : r # k => thread'[r] = thread[r]
      /\ thread'[k] \in Over /\ thread[k] \in Open /\ thread'[k] \in Open
  BY <1>0, <1>1 DEF Open, Over
<1>4. \A r \in RoomIds : thread'[r] \in Open <=> thread[r] \in Open
  BY <1>3
<1>5. \A r \in RoomIds : Count(rinbox'[r], Asking(v)) <= Count(rinbox[r], Asking(v))
  BY <1>0, <1>1, LobbyNumbers
<1>6. CASE v \notin m_players[k]
  <2>1. /\ Count(sub'[v], Infos) = Count(sub[v], Infos)
        /\ Count(sub'[v], Ends) = Count(sub[v], Ends)
        /\ Count(sub'[v], Closes) = Count(sub[v], Closes)
        /\ Led(sub[v], Ends, Infos) => Led(sub'[v], Ends, Infos)
        /\ Led(sub[v], Closes, Ends) => Led(sub'[v], Closes, Ends)
    BY <1>1, <1>2, <1>6, SubCounts
  <2>2. \A r \in RoomIds : thread'[r] \in Over /\ v \in m_players'[r] => thread[r] \in Over /\ v \in m_players[r]
    BY <1>1, <1>3, <1>6
  <2> QED
    BY <1>0, <1>1, <1>4, <1>5, <2>1, <2>2, Frame
<1>7. CASE v \in m_players[k]
  <2>1. In(v) /\ (In(v)' <=> In(v))
    BY <1>1, <1>3, <1>4, <1>7 DEF In
  <2>2. /\ Count(sub'[v], Infos) = Count(sub[v], Infos) /\ Count(sub'[v], Closes) = Count(sub[v], Closes)
        /\ Count(sub'[v], Ends) = IF client[v] \notin Deaf THEN Count(sub[v], Ends) + 1 ELSE Count(sub[v], Ends)
        /\ Led(sub[v], Closes, Ends) => Led(sub'[v], Closes, Ends)
        /\ Led(sub[v], Ends, Infos) /\ Count(sub[v], Infos) > 0 => Led(sub'[v], Ends, Infos)
    BY <1>1, <1>2, <1>7, SubCounts
  <2>3. client[v] \in {"entering", "lobby"} => Count(sub'[v], Ends) > 0
    <3>1. Count(sub[v], Ends) \in Nat
      BY <1>0, LobbyNumbers
    <3> QED
      BY <2>2, <3>1 DEF Deaf
  <2>4. Member(v)'
    BY <1>0, <1>1, <1>4 DEF Member
  <2>5. Asks(v)'
    BY <1>0, <1>1, <2>1 DEF Asks
  <2>6. Enters(v)'
    BY <1>0, <1>1, <2>1, <2>2 DEF Enters
  <2>7. Leaving(v)'
    BY <1>0, <1>1, <2>1, <2>2, <2>3 DEF Leaving
  <2> QED
    BY <2>4, <2>5, <2>6, <2>7 DEF LobbyOf
<1> QED
  BY <1>6, <1>7

(* A room that is left is closed for its players once, after its end.      *)
LEMMA RoomExitsLobby ==
  ASSUME BaseInv, BaseInv', NEW v \in Users, LobbyOf(v), NEW k \in RoomIds, RoomExits(k)
  PROVE  LobbyOf(v)'
<1> DEFINE m == Msg("ROOM_CLOSED", room_id[k], Unsent)
<1>0. /\ TypeOK /\ TypeOK' /\ thread \in [RoomIds -> Lives] /\ rinbox \in [RoomIds -> Seq(Messages)]
      /\ "ROOM_CLOSED" \in Types /\ Unsent \in Names
      /\ room_id[k] \in RoomIds \cup {NoRoom} /\ Member(v) /\ Asks(v) /\ Enters(v) /\ Leaving(v)
  BY Constants DEF BaseInv, TypeOK, LobbyOf, Types, OfRoom
<1>1. /\ thread[k] \in Over /\ thread' = [thread EXCEPT ![k] = "exited"]
      /\ ToSessions(m_players[k], m) /\ rinbox' = [rinbox EXCEPT ![k] = <<>>]
      /\ UNCHANGED <<client, is_on_game, game_url, m_players>>
  BY DEF RoomExits, Over
<1>2. m \in Messages /\ m \in Closes /\ m \notin Infos /\ m \notin Ends
  BY <1>0, RoomClasses
<1> HIDE DEF m
<1>3. /\ \A r \in RoomIds : r # k => thread'[r] = thread[r]
      /\ thread[k] \in Open /\ thread'[k] \notin Open /\ thread'[k] \notin Over
  BY <1>0, <1>1 DEF Open, Over
<1>4. \A r \in RoomIds : /\ thread'[r] \in Open => thread[r] \in Open /\ r # k
                         /\ thread'[r] \in Over => thread[r] \in Over
  BY <1>3
<1>5. \A r \in RoomIds : /\ Count(rinbox'[r], Asking(v)) \in Nat
                         /\ Count(rinbox'[r], Asking(v)) <= Count(rinbox[r], Asking(v))
  <2> TAKE r \in RoomIds
  <2>1. rinbox'[r] = <<>> \/ rinbox'[r] = rinbox[r]
    BY <1>0, <1>1
  <2>2. Count(rinbox[r], Asking(v)) \in Nat /\ Count(rinbox'[r], Asking(v)) \in Nat /\ Count(<<>>, Asking(v)) = 0
    BY <1>0, LobbyNumbers, LobbyNumbersNext, CountEmpty
  <2> QED
    BY <2>1, <2>2
<1>6. CASE v \notin m_players[k]
  <2>0. \A T, S : /\ Count(sub'[v], T) = Count(sub[v], T)
                  /\ Led(sub[v], T, S) => Led(sub'[v], T, S)
    BY <1>1, <1>2, <1>6, SubCounts
  <2>1. /\ Count(sub'[v], Infos) = Count(sub[v], Infos)
        /\ Count(sub'[v], Ends) = Count(sub[v], Ends)
        /\ Count(sub'[v], Closes) = Count(sub[v], Closes)
        /\ Led(sub[v], Ends, Infos) => Led(sub'[v], Ends, Infos)
        /\ Led(sub[v], Closes, Ends) => Led(sub'[v], Closes, Ends)
    BY <2>0
  <2> QED
    BY <1>0, <1>1, <1>4, <1>5, <2>1, Frame
<1>7. CASE v \in m_players[k]
  <2>1. In(v) /\ game_url[v] = k /\ is_on_game[v] /\ client[v] # "joined"
    BY <1>0, <1>3, <1>7 DEF In, Member
  <2>2. ~In(v)'
    BY <1>0, <1>1, <1>4, <2>1 DEF In, Member
  <2>3. Count(sub[v], Closes) = 0
    <3>1. Count(sub[v], Closes) \in Nat
      BY <1>0, LobbyNumbers
    <3> QED
      BY <1>0, <2>1, <3>1 DEF Leaving
  <2>4. /\ Count(sub'[v], Infos) = Count(sub[v], Infos) /\ Count(sub'[v], Ends) = Count(sub[v], Ends)
        /\ Count(sub'[v], Closes) = IF client[v] \notin Deaf THEN Count(sub[v], Closes) + 1 ELSE Count(sub[v], Closes)
        /\ Led(sub[v], Ends, Infos) => Led(sub'[v], Ends, Infos)
        /\ Led(sub[v], Closes, Ends) /\ Count(sub[v], Ends) > 0 => Led(sub'[v], Closes, Ends)
    <3>1. \A T, S : /\ Count(sub'[v], T) = IF client[v] \notin Deaf /\ m \in T THEN Count(sub[v], T) + 1 ELSE Count(sub[v], T)
                    /\ Led(sub[v], T, S) /\ (m \notin T \/ Count(sub[v], S) > 0) => Led(sub'[v], T, S)
      BY <1>1, <1>2, <1>7, SubCounts
    <3> QED
      BY <1>2, <3>1
  <2>5. Count(sub'[v], Closes) <= 1
    BY <2>3, <2>4
  <2>6. Member(v)'
    BY <1>0, <1>1, <1>4 DEF Member
  <2>7. Asks(v)'
    <3> SUFFICES ASSUME NEW r \in RoomIds
                 PROVE  Count(rinbox'[r], Asking(v)) = 0
      BY DEF Asks
    <3>1. /\ Count(rinbox'[r], Asking(v)) \in Nat /\ Count(rinbox[r], Asking(v)) \in Nat
          /\ Count(rinbox'[r], Asking(v)) <= Count(rinbox[r], Asking(v))
      BY <1>0, <1>5, LobbyNumbers
    <3>2. ~(Count(rinbox[r], Asking(v)) > 0)
      BY <1>0, <2>1 DEF Asks
    <3> QED
      BY <3>1, <3>2
  <2>8. Enters(v)'
    BY <1>0, <1>1, <2>2, <2>4 DEF Enters
  <2>9. Leaving(v)'
    <3>1. client[v] \in {"entering", "lobby"} => Count(sub[v], Ends) > 0 /\ Led(sub[v], Closes, Ends)
      BY <1>0, <1>1, <1>7 DEF Leaving
    <3>2. \A r \in RoomIds : ~(thread'[r] \in Over /\ v \in m_players'[r])
      BY <1>1, <2>2 DEF In, Open, Over
    <3> QED
      BY <1>1, <2>1, <2>2, <2>4, <2>5, <3>1, <3>2 DEF Leaving
  <2> QED
    BY <2>6, <2>7, <2>8, <2>9 DEF LobbyOf
<1> QED
  BY <1>6, <1>7

(* A room that took another's id keeps it.                                 *)
LEMMA OwnIdsBack ==
  ASSUME BaseInv, [Next]_vars, OwnIds'
  PROVE  OwnIds
<1>1. thread \in [RoomIds -> Lives] /\ room_id \in [RoomIds -> RoomIds \cup {NoRoom}]
  BY DEF BaseInv, TypeOK
<1>2. CASE UNCHANGED room_id /\ \A r \in RoomIds : thread[r] # "none" => thread'[r] # "none"
  BY <1>2 DEF OwnIds
<1>3. CASE BrokerCreates
  <2>1. PICK k \in RoomIds, id \in RoomIds :
          /\ thread[k] = "none" /\ thread' = [thread EXCEPT ![k] = "starting"]
          /\ room_id' = [room_id EXCEPT ![k] = id]
    BY <1>3 DEF BrokerCreates
  <2>2. \A r \in RoomIds : r # k => thread'[r] = thread[r] /\ room_id'[r] = room_id[r]
    BY <1>1, <2>1
  <2> QED
    BY <2>1, <2>2 DEF OwnIds
<1>4. CASE UNCHANGED <<thread, room_id>>
  BY <1>2, <1>4
<1>5. CASE \E u \in Users : \/ CreateRoom(u) \/ FindMatch(u) \/ JoinPartie(u) \/ GetInfoRoom(u) \/ StartGame(u)
                            \/ QuitRoom(u) \/ SendChat(u) \/ Disconnect(u) \/ Reconnect(u) \/ Session(u)
  BY <1>4, <1>5 DEF CreateRoom, FindMatch, JoinPartie, GetInfoRoom, StartGame, QuitRoom, SendChat, Disconnect, Reconnect,
                    Session, JoinAnswer, JoinTimeout, ReadShifted, Receive, rooms
<1>6. CASE BrokerTimeout \/ BrokerLooksUp \/ BrokerMatches \/ BrokerForwards
  BY <1>4, <1>6 DEF BrokerTimeout, BrokerLooksUp, BrokerMatches, BrokerForwards
<1>7. ASSUME NEW k \in RoomIds, Room(k) \/ RoomEndGame(k)
      PROVE  OwnIds
  <2>1. UNCHANGED room_id
    BY <1>7 DEF Room, Subscribe, RoomAnswers, RoomEnters, RoomStarts, RoomIgnores, RoomQuit, RoomEndGame, RoomExits
  <2>2. UNCHANGED thread \/ \E life \in Lives \ {"none"} : thread' = [thread EXCEPT ![k] = life]
    <3>1. CASE RoomQuit(k)
      <4> DEFINE left == m_players[k] \ {Head(rinbox[k]).user}
      <4>1. /\ thread[k] \in {"lobby", "playing"}
            /\ thread' = [thread EXCEPT ![k] = IF left = {} THEN "ended" ELSE @]
        BY <3>1 DEF RoomQuit
      <4> HIDE DEF left
      <4> QED
        BY <4>1 DEF Lives
    <3>2. CASE ~RoomQuit(k)
      BY <1>7, <3>2 DEF Room, Subscribe, RoomAnswers, RoomEnters, RoomStarts, RoomIgnores, RoomEndGame, RoomExits, Lives
    <3> QED
      BY <3>1, <3>2
  <2> QED
    BY <1>1, <1>2, <2>1, <2>2
<1>8. CASE UNCHANGED vars
  BY <1>4, <1>8 DEF vars, rooms
<1> QED
  BY <1>3, <1>5, <1>6, <1>7, <1>8 DEF Next, Broker

LEMMA StutterLobby ==
  ASSUME NEW v \in Users, LobbyOf(v), UNCHANGED vars
  PROVE  LobbyOf(v)'
BY DEF vars, session, rooms, LobbyOf, Member, Asks, Enters, Leaving, In

(* Every step keeps the lobbies.                                           *)
LEMMA NextLobby ==
  ASSUME BaseInv, RequestInv, LobbyInv, [Next]_vars
  PROVE  LobbyInv'
<1>1. BaseInv'
  BY NextBase
<1> SUFFICES ASSUME OwnIds', NEW v \in Users \ dropped'
             PROVE  LobbyOf(v)'
  BY DEF LobbyInv
<1>2. OwnIds
  BY OwnIdsBack
<1>3. dropped \subseteq dropped' /\ \A u \in Users : Disconnect(u) => u \in dropped'
  <2>1. UNCHANGED dropped \/ \E u \in Users : Disconnect(u)
    BY DEF Next, CreateRoom, FindMatch, JoinPartie, GetInfoRoom, StartGame, QuitRoom, SendChat, Reconnect,
           Session, JoinAnswer, JoinTimeout, ReadShifted, Receive, Broker, BrokerTimeout, BrokerCreates,
           BrokerLooksUp, BrokerMatches, BrokerForwards, Room, Subscribe, RoomAnswers, RoomEnters, RoomStarts,
           RoomIgnores, RoomQuit, RoomExits, RoomEndGame, bounds, vars
  <2>2. \A u \in Users : Disconnect(u) => dropped' = dropped \cup {u}
    BY DEF Disconnect
  <2> QED
    BY <2>1, <2>2
<1>4. v \in Users /\ v \in Users \ dropped /\ LobbyOf(v)
  BY <1>2, <1>3 DEF LobbyInv
<1>5. ASSUME NEW u \in Users, StartGame(u) \/ SendChat(u)
      PROVE  LobbyOf(v)'
  BY <1>1, <1>2, <1>4, <1>5, SendLobby
<1>6. ASSUME NEW u \in Users, u # v,
             \/ CreateRoom(u) \/ FindMatch(u) \/ JoinPartie(u) \/ GetInfoRoom(u) \/ QuitRoom(u)
             \/ Disconnect(u) \/ Reconnect(u) \/ Session(u)
      PROVE  LobbyOf(v)'
  BY <1>1, <1>2, <1>4, <1>6, OtherLobby
<1>7. ASSUME CreateRoom(v) \/ FindMatch(v) \/ JoinPartie(v) \/ Reconnect(v) \/ JoinTimeout(v)
      PROVE  LobbyOf(v)'
  BY <1>1, <1>2, <1>4, <1>7, MenuLobby
<1>8. ASSUME GetInfoRoom(v) \/ QuitRoom(v) \/ JoinAnswer(v) \/ ReadShifted(v) \/ Receive(v)
      PROVE  LobbyOf(v)'
  BY <1>1, <1>2, <1>4, <1>8, GetInfoLobby, QuitLobby, JoinLobby, ShiftedLobby, ReceiveLobby
<1>9. ~Disconnect(v)
  BY <1>3, <1>4
<1>10. CASE Broker
  BY <1>1, <1>2, <1>4, <1>10, BrokerLobby
<1>11. ASSUME NEW k \in RoomIds, Room(k) \/ RoomEndGame(k)
       PROVE  LobbyOf(v)'
  BY <1>1, <1>4, <1>11, RoomReadsLobby, RoomAnswersLobby, RoomEntersLobby, RoomEndGameLobby, RoomExitsLobby DEF Room
<1>12. CASE UNCHANGED vars
  BY <1>4, <1>12, StutterLobby
<1>13. ASSUME NEW u \in Users,
              \/ CreateRoom(u) \/ FindMatch(u) \/ JoinPartie(u) \/ GetInfoRoom(u) \/ StartGame(u)
              \/ QuitRoom(u) \/ SendChat(u) \/ Disconnect(u) \/ Reconnect(u) \/ Session(u)
       PROVE  LobbyOf(v)'
  <2>1. CASE u # v
    BY <1>5, <1>6, <1>13, <2>1
  <2>2. CASE u = v
    BY <1>5, <1>7, <1>8, <1>9, <1>13, <2>2 DEF Session
  <2> QED
    BY <2>1, <2>2
<1> QED
  BY <1>10, <1>11, <1>12, <1>13 DEF Next

LEMMA InitLobby == Init => LobbyInv
<1> SUFFICES ASSUME Init, NEW u \in Users PROVE LobbyOf(u)
  BY DEF LobbyInv
<1>1. /\ client[u] = "menu" /\ sub[u] = <<>>
      /\ \A r \in RoomIds : m_players[r] = {} /\ rinbox[r] = <<>>
  BY DEF Init
<1>2. \A T : Count(<<>>, T) = 0
  BY CountEmpty
<1> QED
  BY <1>1, <1>2 DEF LobbyOf, Member, Asks, Enters, Leaving

(* The lobbies of the invariant are those of the property.                 *)
LEMMA LobbiesServed == BaseInv /\ LobbyInv => LobbyServed
<1> SUFFICES ASSUME BaseInv, LobbyInv, NEW u \in Users,
                    client[u] = "lobby", u \notin dropped, OwnIds
             PROVE  is_on_game[u] /\ u \in m_players[game_url[u]]
  BY DEF LobbyServed, OwnIds
<1>1. Member(u)
  BY DEF LobbyInv, LobbyOf
<1> QED
  BY <1>1 DEF Member

(* A client that sees a lobby or a game is a player of the room to which   *)
(* its session forwards what it sends (user_thread.cpp:60-75): m_players   *)
(* of the room, is_on_game and game_url of the session, kept by different  *)
(* threads, agree however the messages between them are ordered.           *)
THEOREM ClientsServedInLobbies == Spec => []LobbyServed
<1>1. Init => IInv
  BY InitBase, InitRequests, InitLobby DEF IInv
<1>2. IInv /\ [Next]_vars => IInv'
  BY InductiveStep, NextLobby DEF IInv
<1>3. IInv => LobbyServed
  BY LobbiesServed DEF IInv
<1> QED
  BY <1>1, <1>2, <1>3, PTL DEF Spec

-----------------------------------------------------------------------------
(* Rooms, as Lobbies promises them.  Who hears of an end is in a room that *)
(* ended.                                                                  *)
Gone == Over \cup {"exited"}
EndsOf(u) == client[u] \in {"entering", "lobby"} /\ Count(sub[u], Ends) > 0
              => game_url[u] \in RoomIds /\ thread[game_url[u]] \in Gone
EndsInv == OwnIds => \A u \in Users \ dropped : EndsOf(u)
Inv == IInv /\ EndsInv

Wanting == {"creating", "looking", "asking", "joined", "entering"}

(* A step that changes nothing of what is promised.                        *)
LEMMA NothingPromised ==
  ASSUME Excused' = Excused, Waiting' = Waiting, Left' = Left,
         \A r \in RoomIds : LifeOf(r)' = LifeOf(r) /\ Seats(r)' = Seats(r) /\ Shown(r)' = Shown(r)
  PROVE  UNCHANGED Promise!vars
BY DEF Promise!vars

(* The steps of a room: its life, and nothing else.                        *)
LEMMA LifeChanges ==
  ASSUME NEW k \in RoomIds, NEW life, LifeOf(k)' = life, \A r \in RoomIds \ {k} : LifeOf(r)' = LifeOf(r),
         Excused' = Excused, Waiting' = Waiting, Left' = Left,
         \A r \in RoomIds : Seats(r)' = Seats(r) /\ Shown(r)' = Shown(r)
  PROVE  Promise!Becomes(k, life)
BY DEF Promise!Becomes

(* What a step about one user changes.                                     *)
LEMMA OneUser ==
  ASSUME TypeOK, NEW u \in Users, NEW c, NEW g,
         client' = [client EXCEPT ![u] = c], game_url' = [game_url EXCEPT ![u] = g],
         UNCHANGED <<thread, room_id, m_players, dropped>>
  PROVE  /\ Excused' = Excused
         /\ \A r \in RoomIds : LifeOf(r)' = LifeOf(r) /\ Seats(r)' = Seats(r)
         /\ u \in Excused \/ (c # "left" /\ client[u] # "left") => Left' = Left
         /\ u \in Excused => Waiting' = Waiting /\ \A r \in RoomIds : Shown(r)' = Shown(r)
         /\ u \notin Excused =>
              /\ c = "left" => Left' = Left \cup {u}
              /\ Waiting' = IF c \in Wanting THEN Waiting \cup {u} ELSE Waiting \ {u}
              /\ \A r \in RoomIds : Shown(r)' = IF c = "lobby" /\ g = r THEN Shown(r) \cup {u} ELSE Shown(r) \ {u}
              /\ u \in Waiting <=> client[u] \in Wanting
              /\ \A r \in RoomIds : u \in Shown(r) <=> client[u] = "lobby" /\ game_url[u] = r
<1>1. client \in [Users -> Clients] /\ game_url \in [Users -> RoomIds \cup {NoRoom}]
  BY DEF TypeOK
<1>2. /\ client'[u] = c /\ game_url'[u] = g
      /\ \A v \in Users : v # u => client'[v] = client[v] /\ game_url'[v] = game_url[v]
  BY <1>1
<1>3. Excused' = Excused
  BY DEF Excused, OwnIds
<1>4. \A r \in RoomIds : LifeOf(r)' = LifeOf(r) /\ Seats(r)' = Seats(r)
  BY <1>3 DEF LifeOf, Seats
<1>5. /\ Waiting = {v \in Users : client[v] \in Wanting} \ Excused
      /\ Waiting' = {v \in Users : client'[v] \in Wanting} \ Excused
      /\ \A r \in RoomIds : /\ Shown(r) = {v \in Users : client[v] = "lobby" /\ game_url[v] = r} \ Excused
                            /\ Shown(r)' = {v \in Users : client'[v] = "lobby" /\ game_url'[v] = r} \ Excused
  BY <1>3 DEF Waiting, Shown, Wanting
<1>8. /\ u \in Excused \/ (c # "left" /\ client[u] # "left") => Left' = Left
      /\ u \notin Excused /\ c = "left" => Left' = Left \cup {u}
  BY <1>2, <1>3 DEF Left
<1> HIDE DEF Wanting
<1>6. CASE u \in Excused
  BY <1>2, <1>3, <1>4, <1>5, <1>6, <1>8
<1>7. CASE u \notin Excused
  <2>1. Waiting' = IF c \in Wanting THEN Waiting \cup {u} ELSE Waiting \ {u}
    BY <1>2, <1>5, <1>7
  <2>2. \A r \in RoomIds : Shown(r)' = IF c = "lobby" /\ g = r THEN Shown(r) \cup {u} ELSE Shown(r) \ {u}
    BY <1>2, <1>5, <1>7
  <2> QED
    BY <1>3, <1>4, <1>5, <1>7, <1>8, <2>1, <2>2
<1> QED
  BY <1>6, <1>7

(* Steps that the clients, the players and the rooms' lives do not notice. *)
LEMMA Unnoticed ==
  ASSUME UNCHANGED <<client, game_url, thread, room_id, m_players, dropped>>
  PROVE  UNCHANGED Promise!vars
<1>1. Excused' = Excused
  BY DEF Excused, OwnIds
<1>2. /\ Waiting' = Waiting /\ Left' = Left
      /\ \A r \in RoomIds : LifeOf(r)' = LifeOf(r) /\ Seats(r)' = Seats(r) /\ Shown(r)' = Shown(r)
  BY <1>1 DEF Waiting, Left, LifeOf, Seats, Shown
<1> QED
  BY <1>1, <1>2, NothingPromised

(* Rooms of Lobbies a user is in are the open rooms he is a player of.     *)
LEMMA RoomsIn ==
  ASSUME BaseInv, NEW u \in Users \ Excused
  PROVE  Promise!RoomsOf(u) = {r \in RoomIds : thread[r] \in Open /\ u \in m_players[r]}
<1>1. \A r \in RoomIds : /\ LifeOf(r) # "closed" <=> thread[r] # "exited"
                         /\ u \in Seats(r) <=> u \in m_players[r]
  BY DEF BaseInv, TypeOK, Lives, LifeOf, Seats
<1>2. \A r \in RoomIds : u \in m_players[r] => thread[r] \in Open \cup {"exited"}
  BY DEF BaseInv, TypeOK, ThreadInv, Lives, Open
<1>3. Promise!RoomsOf(u) = {r \in RoomIds : u \in Seats(r) /\ LifeOf(r) # "closed"}
  BY DEF Promise!RoomsOf
<1> QED
  BY <1>1, <1>2, <1>3 DEF Open

(* Who is excused when rooms have ids of their own.                        *)
LEMMA Unexcused ==
  ASSUME BaseInv, LobbyInv, EndsInv, NEW u \in Users \ Excused
  PROVE  u \in Users \ dropped /\ OwnIds /\ LobbyOf(u) /\ EndsOf(u)
BY DEF Excused, LobbyInv, EndsInv

(* A client in the menus wants a room, ...                                 *)
LEMMA PromiseWish ==
  ASSUME BaseInv, NEW u \in Users, CreateRoom(u) \/ FindMatch(u) \/ JoinPartie(u)
  PROVE  Promise!Next \/ UNCHANGED Promise!vars
<1>0. TypeOK /\ game_url' = [game_url EXCEPT ![u] = game_url[u]]
  BY DEF BaseInv, TypeOK, CreateRoom, FindMatch, JoinPartie
<1>1. PICK c \in {"creating", "looking", "asking"} : client[u] = "menu" /\ client' = [client EXCEPT ![u] = c]
  BY DEF CreateRoom, FindMatch, JoinPartie, Request
<1>2. UNCHANGED <<thread, room_id, m_players, dropped>>
  BY DEF CreateRoom, FindMatch, JoinPartie, rooms, bounds
<1>3. CASE u \in Excused
  <2>1. UNCHANGED Promise!vars
    BY <1>0, <1>1, <1>2, <1>3, OneUser, NothingPromised
  <2> QED
    BY <2>1
<1>4. CASE u \notin Excused
  <2>1. /\ Excused' = Excused /\ Waiting' = Waiting \cup {u} /\ u \notin Waiting
        /\ Left' = Left /\ u \notin Left
        /\ \A r \in RoomIds : /\ LifeOf(r)' = LifeOf(r) /\ Seats(r)' = Seats(r)
                              /\ u \notin Shown(r) /\ Shown(r)' = Shown(r) \ {u}
    <3>1. u \notin Left
      BY <1>1 DEF Left
    <3> QED
      BY <1>0, <1>1, <1>2, <1>4, <3>1, OneUser DEF Wanting
  <2>2. \A r \in RoomIds : Shown(r)' = Shown(r)
    BY <2>1
  <2>3. Promise!Wish(u)
    BY <1>4, <2>1, <2>2 DEF Promise!Wish
  <2> QED
    BY <2>3 DEF Promise!Next
<1> QED
  BY <1>3, <1>4

(* ... goes on wanting it while it is let in, ...                          *)
LEMMA PromiseWait ==
  ASSUME BaseInv, NEW u \in Users, JoinAnswer(u) \/ GetInfoRoom(u) \/ Reconnect(u)
  PROVE  UNCHANGED Promise!vars
<1>0. TypeOK /\ game_url \in [Users -> RoomIds \cup {NoRoom}]
  BY DEF BaseInv, TypeOK
<1>1. PICK c, g : /\ client' = [client EXCEPT ![u] = c] /\ game_url' = [game_url EXCEPT ![u] = g]
                  /\ client[u] \in Wanting <=> c \in Wanting
                  /\ client[u] \notin {"lobby", "left"} /\ c \notin {"lobby", "left"}
  <2>1. CASE JoinAnswer(u)
    <3>1. client[u] = "asking"
      BY <2>1 DEF JoinAnswer, BaseInv, PingInv
    <3>2. client' = [client EXCEPT ![u] = "joined"] /\ game_url' = [game_url EXCEPT ![u] = ping[u]]
      BY <2>1 DEF JoinAnswer
    <3>3. /\ client[u] \in Wanting /\ client[u] \notin {"lobby", "left"}
          /\ "joined" \in Wanting /\ "joined" \notin {"lobby", "left"}
      BY <3>1 DEF Wanting
    <3> QED
      BY <3>2, <3>3
  <2>2. CASE GetInfoRoom(u) \/ Reconnect(u)
    <3>1. game_url' = [game_url EXCEPT ![u] = game_url[u]]
      BY <1>0, <2>2 DEF GetInfoRoom, Reconnect
    <3>2. \/ client[u] = "joined" /\ client' = [client EXCEPT ![u] = "entering"]
          \/ client[u] = "off" /\ client' = [client EXCEPT ![u] = "menu"]
      BY <2>2 DEF GetInfoRoom, Reconnect
    <3> QED
      BY <3>1, <3>2 DEF Wanting
  <2> QED
    BY <2>1, <2>2
<1>2. UNCHANGED <<thread, room_id, m_players, dropped>>
  BY DEF JoinAnswer, GetInfoRoom, Reconnect, rooms, bounds
<1>3. CASE u \in Excused
  BY <1>0, <1>1, <1>2, <1>3, OneUser, NothingPromised
<1>4. CASE u \notin Excused
  <2>1. /\ Excused' = Excused /\ Left' = Left
        /\ Waiting' = IF u \in Waiting THEN Waiting \cup {u} ELSE Waiting \ {u}
        /\ \A r \in RoomIds : /\ LifeOf(r)' = LifeOf(r) /\ Seats(r)' = Seats(r)
                              /\ u \notin Shown(r) /\ Shown(r)' = Shown(r) \ {u}
    BY <1>0, <1>1, <1>2, <1>4, OneUser
  <2>2. Waiting' = Waiting /\ \A r \in RoomIds : Shown(r)' = Shown(r)
    BY <2>1
  <2> QED
    BY <2>1, <2>2, NothingPromised
<1> QED
  BY <1>3, <1>4

(* ... and gives it up if the room does not answer.                        *)
LEMMA PromiseGiveUp ==
  ASSUME BaseInv, LobbyInv, EndsInv, NEW u \in Users, JoinTimeout(u)
  PROVE  Promise!Next \/ UNCHANGED Promise!vars
<1>0. TypeOK /\ game_url' = [game_url EXCEPT ![u] = game_url[u]]
  BY DEF BaseInv, TypeOK, JoinTimeout
<1>1. ping[u] # NoRoom /\ client' = [client EXCEPT ![u] = "menu"] /\ UNCHANGED <<thread, room_id, m_players, dropped>>
  BY DEF JoinTimeout, rooms, bounds
<1>2. client[u] = "asking" /\ ~is_on_game[u]
  BY <1>1 DEF BaseInv, PingInv
<1>3. CASE u \in Excused
  <2>1. UNCHANGED Promise!vars
    BY <1>0, <1>1, <1>3, OneUser, NothingPromised
  <2> QED
    BY <2>1
<1>4. CASE u \notin Excused
  <2>1. /\ Excused' = Excused /\ Left' = Left /\ Waiting' = Waiting \ {u} /\ u \in Waiting
        /\ \A r \in RoomIds : /\ LifeOf(r)' = LifeOf(r) /\ Seats(r)' = Seats(r)
                              /\ u \notin Shown(r) /\ Shown(r)' = Shown(r) \ {u}
    <3>1. client[u] \in Wanting /\ client[u] \notin {"lobby", "left"} /\ "menu" \notin Wanting
      BY <1>2 DEF Wanting
    <3> QED
      BY <1>0, <1>1, <1>4, <3>1, OneUser
  <2>2. \A r \in RoomIds : Shown(r)' = Shown(r)
    BY <2>1
  <2>3. Member(u)
    BY <1>4, Unexcused DEF LobbyOf
  <2>4. Promise!RoomsOf(u) = {}
    BY <1>2, <1>4, <2>3, RoomsIn DEF Member
  <2>5. Promise!GiveUp(u)
    BY <2>1, <2>2, <2>4 DEF Promise!GiveUp
  <2> QED
    BY <2>5 DEF Promise!Next
<1> QED
  BY <1>3, <1>4

(* A guest that leaves its lobby quits the room its client shows.          *)
LEMMA PromiseLeaves ==
  ASSUME BaseInv, LobbyInv, EndsInv, NEW u \in Users, QuitRoom(u)
  PROVE  Promise!Next \/ UNCHANGED Promise!vars
<1>0. TypeOK /\ game_url' = [game_url EXCEPT ![u] = game_url[u]]
  BY DEF BaseInv, TypeOK, QuitRoom
<1>1. /\ client[u] = "lobby" /\ UNCHANGED <<thread, room_id, m_players, dropped>>
      /\ client' = [client EXCEPT ![u] = IF is_on_game[u] THEN "left" ELSE "menu"]
  BY DEF QuitRoom, rooms, bounds
<1>2. CASE u \in Excused
  <2>1. PICK c : client' = [client EXCEPT ![u] = c]
    BY <1>1
  <2>2. UNCHANGED Promise!vars
    BY <1>0, <1>1, <1>2, <2>1, OneUser, NothingPromised
  <2> QED
    BY <2>2
<1>3. CASE u \notin Excused
  <2> DEFINE r == game_url[u]
  <2>1. Member(u)
    BY <1>3, Unexcused DEF LobbyOf
  <2>2. r \in RoomIds /\ client' = [client EXCEPT ![u] = "left"]
    BY <1>1, <2>1 DEF Member
  <2>3. "lobby" \notin Wanting /\ "left" \notin Wanting
    BY DEF Wanting
  <2>4. /\ Excused' = Excused /\ Waiting' = Waiting \ {u} /\ u \notin Waiting /\ Left' = Left \cup {u}
        /\ \A s \in RoomIds : /\ LifeOf(s)' = LifeOf(s) /\ Seats(s)' = Seats(s)
                              /\ u \in Shown(s) <=> s = r
                              /\ Shown(s)' = Shown(s) \ {u}
    <3>1. /\ Excused' = Excused /\ Left' = Left \cup {u}
          /\ \A s \in RoomIds : LifeOf(s)' = LifeOf(s) /\ Seats(s)' = Seats(s)
          /\ Waiting' = IF "left" \in Wanting THEN Waiting \cup {u} ELSE Waiting \ {u}
          /\ \A s \in RoomIds : Shown(s)' = IF "left" = "lobby" /\ game_url[u] = s THEN Shown(s) \cup {u} ELSE Shown(s) \ {u}
          /\ u \in Waiting <=> client[u] \in Wanting
          /\ \A s \in RoomIds : u \in Shown(s) <=> client[u] = "lobby" /\ game_url[u] = s
      BY <1>0, <1>1, <1>3, <2>2, OneUser
    <3> QED
      BY <1>1, <2>3, <3>1
  <2> HIDE DEF r
  <2>5. Waiting' = Waiting /\ \A s \in RoomIds : s # r => Shown(s)' = Shown(s)
    BY <2>4
  <2>6. Promise!Quit(u, r)
    BY <2>2, <2>4, <2>5 DEF Promise!Quit
  <2> QED
    BY <2>2, <2>6 DEF Promise!Next
<1> QED
  BY <1>2, <1>3

(* A connection that closes excuses its user.                              *)
LEMMA PromiseDisconnect ==
  ASSUME BaseInv, NEW u \in Users, Disconnect(u)
  PROVE  Promise!Next \/ UNCHANGED Promise!vars
<1>0. TypeOK /\ client \in [Users -> Clients] /\ dropped \subseteq Users
  BY DEF BaseInv, TypeOK
<1>1. /\ dropped' = dropped \cup {u} /\ client' = [client EXCEPT ![u] = "off"]
      /\ UNCHANGED <<thread, room_id, m_players, game_url>>
  BY DEF Disconnect
<1>2. OwnIds' = OwnIds
  BY <1>1 DEF OwnIds
<1>3. Excused' = Excused \cup {u}
  BY <1>1, <1>2 DEF Excused
<1>4. Excused' \in SUBSET Users /\ Excused \subseteq Excused'
  BY <1>0, <1>3 DEF Excused
<1>5. \A r \in RoomIds : LifeOf(r)' = LifeOf(r)
  BY <1>1 DEF LifeOf
<1>6. \A r \in RoomIds : Seats(r)' = Seats(r) \ Excused'
  BY <1>1, <1>3 DEF Seats
<1>7. \A v \in Users \ Excused' : client'[v] = client[v]
  BY <1>0, <1>1, <1>3
<1>8. Waiting' = Waiting \ Excused'
  BY <1>4, <1>7 DEF Waiting
<1>9. \A r \in RoomIds : Shown(r)' = Shown(r) \ Excused'
  BY <1>1, <1>4, <1>7 DEF Shown
<1>10. Left' = Left \ Excused'
  BY <1>4, <1>7 DEF Left
<1>11. Promise!Excuse
  BY <1>4, <1>5, <1>6, <1>8, <1>9, <1>10 DEF Promise!Excuse
<1> QED
  BY <1>11 DEF Promise!Next

(* The broker's rooms are not open yet. One with the id of another excuses *)
(* everybody.                                                              *)
LEMMA PromiseCreates ==
  ASSUME BaseInv, BrokerCreates
  PROVE  Promise!Next \/ UNCHANGED Promise!vars
<1>0. /\ thread \in [RoomIds -> Lives] /\ dropped \subseteq Users
      /\ UNCHANGED <<client, game_url, m_players, dropped>>
  BY DEF BaseInv, TypeOK, BrokerCreates, bounds
<1>1. PICK k \in RoomIds : thread[k] = "none" /\ thread' = [thread EXCEPT ![k] = "starting"]
  BY DEF BrokerCreates
<1>2. \A r \in RoomIds : LifeOf(r)' = LifeOf(r)
  <2> TAKE r \in RoomIds
  <2>1. CASE r = k
    <3>1. thread[r] = "none" /\ thread'[r] = "starting"
      BY <1>0, <1>1, <2>1
    <3> QED
      BY <3>1 DEF LifeOf
  <2>2. CASE r # k
    <3>1. thread'[r] = thread[r]
      BY <1>0, <1>1, <2>2
    <3> QED
      BY <3>1 DEF LifeOf
  <2> QED
    BY <2>1, <2>2
<1>3. CASE Excused' = Excused
  <2>1. /\ Waiting' = Waiting /\ Left' = Left
        /\ \A r \in RoomIds : Seats(r)' = Seats(r) /\ Shown(r)' = Shown(r)
    BY <1>0, <1>3 DEF Waiting, Left, Seats, Shown
  <2>2. UNCHANGED Promise!vars
    BY <1>2, <1>3, <2>1, NothingPromised
  <2> QED
    BY <2>2
<1>4. CASE Excused' # Excused
  <2>1. Excused' \in SUBSET Users /\ Excused \subseteq Excused'
    <3>1. OwnIds' => OwnIds
      BY OwnIdsBack DEF Next, Broker
    <3> QED
      BY <1>0, <1>4, <3>1 DEF Excused
  <2>2. /\ Waiting' = Waiting \ Excused' /\ Left' = Left \ Excused'
        /\ \A r \in RoomIds : Seats(r)' = Seats(r) \ Excused' /\ Shown(r)' = Shown(r) \ Excused'
    BY <1>0, <2>1 DEF Waiting, Left, Seats, Shown
  <2>3. Promise!Excuse
    BY <1>2, <2>1, <2>2 DEF Promise!Excuse
  <2> QED
    BY <2>3 DEF Promise!Next
<1> QED
  BY <1>3, <1>4

(* What is at the head of a queue counts.                                  *)
LEMMA HeadCounts ==
  ASSUME NEW S, NEW q \in Seq(S), q # <<>>, NEW T, Head(q) \in T
  PROVE  Count(q, T) > 0
<1>1. Tail(q) \in Seq(S)
  BY ReadQueue
<1>2. Count(q, T) = Count(Tail(q), T) + 1
  BY CountTail
<1>3. Count(Tail(q), T) \in Nat
  BY <1>1, CountType
<1> QED
  BY <1>2, <1>3

(* The client shows the room it was let in, and leaves it when it is over. *)
LEMMA PromiseReceive ==
  ASSUME BaseInv, RequestInv, LobbyInv, EndsInv, NEW u \in Users, Receive(u)
  PROVE  Promise!Next \/ UNCHANGED Promise!vars
<1> DEFINE m == Head(sub[u])
<1>0. /\ TypeOK /\ client \in [Users -> Clients] /\ game_url \in [Users -> RoomIds \cup {NoRoom}]
      /\ sub[u] \in Seq(Messages)
  BY DEF BaseInv, TypeOK
<1>1. /\ sub[u] # <<>> /\ m \in Messages
      /\ UNCHANGED <<thread, room_id, m_players, dropped>>
  <2>1. sub[u] # <<>> /\ UNCHANGED <<thread, room_id, m_players, dropped>>
    BY DEF Receive, rooms, bounds
  <2> QED
    BY <1>0, <2>1, ReadQueue
<1> DEFINE Same == client' = [client EXCEPT ![u] = client[u]] /\ game_url' = [game_url EXCEPT ![u] = game_url[u]]
           Sees == /\ is_on_game[u] /\ m.type = "INFO_ROOM" /\ client[u] = "entering"
                   /\ client' = [client EXCEPT ![u] = "lobby"] /\ game_url' = [game_url EXCEPT ![u] = game_url[u]]
           Leaves == /\ m.type = "END_GAME" /\ client[u] = "lobby"
                     /\ client' = [client EXCEPT ![u] = "menu"] /\ game_url' = [game_url EXCEPT ![u] = game_url[u]]
           Joins == /\ m.type \in {"CLIENT_LOOKUP_RESPONSE", "CLIENT_CREATE_ROOM_RESPONSE"}
                    /\ \E c \in {client[u], "joined"} : client' = [client EXCEPT ![u] = c]
                    /\ game_url' = [game_url EXCEPT ![u] = m.room]
<1>2. Same \/ Sees \/ Leaves \/ Joins
  <2>1. UNCHANGED client => client' = [client EXCEPT ![u] = client[u]]
    BY <1>0
  <2>2. UNCHANGED game_url => game_url' = [game_url EXCEPT ![u] = game_url[u]]
    BY <1>0
  <2>3. \A wish, c : Answered(u, wish, c) => \/ UNCHANGED client
                                             \/ client[u] = wish /\ client' = [client EXCEPT ![u] = c]
    BY DEF Answered
  <2>4. \/ UNCHANGED <<client, game_url>>
        \/ /\ UNCHANGED game_url
           /\ \/ is_on_game[u] /\ m.type = "INFO_ROOM" /\ Answered(u, "entering", "lobby")
              \/ m.type = "END_GAME" /\ Answered(u, "lobby", "menu")
        \/ /\ m.type \in {"CLIENT_LOOKUP_RESPONSE", "CLIENT_CREATE_ROOM_RESPONSE"}
           /\ game_url' = [game_url EXCEPT ![u] = m.room]
           /\ \E wish : Answered(u, wish, "joined")
    BY DEF Receive
  <2> QED
    BY <2>1, <2>2, <2>3, <2>4
<1> HIDE DEF m
<1>3. CASE u \in Excused
  <2>1. \E c, g : client' = [client EXCEPT ![u] = c] /\ game_url' = [game_url EXCEPT ![u] = g]
    BY <1>2
  <2>2. UNCHANGED Promise!vars
    BY <1>0, <1>1, <1>3, <2>1, OneUser, NothingPromised
  <2> QED
    BY <2>2
<1>4. CASE u \notin Excused
  <2>1. u \in Users \ dropped /\ Member(u) /\ Enters(u) /\ EndsOf(u)
    BY <1>4, Unexcused DEF LobbyOf
  <2>2. CASE Same
    <3>1. UNCHANGED Promise!vars
      BY <1>0, <1>1, <2>2, Unnoticed
    <3> QED
      BY <3>1
  <2>3. CASE Sees
    <3> DEFINE r == game_url[u]
    <3>1. Count(sub[u], Infos) > 0
      BY <1>0, <1>1, <2>3, HeadCounts DEF Infos, Of, m
    <3>2. r \in RoomIds /\ u \in m_players[r]
      BY <2>1, <2>3, <3>1 DEF Enters
    <3>3. Promise!RoomsOf(u) \subseteq {r}
      BY <1>4, <2>1, RoomsIn DEF Member
    <3>4. "lobby" \notin Wanting /\ "entering" \in Wanting
      BY DEF Wanting
    <3>5. /\ Excused' = Excused /\ Left' = Left /\ Waiting' = Waiting \ {u} /\ u \in Waiting
          /\ \A s \in RoomIds : /\ LifeOf(s)' = LifeOf(s) /\ Seats(s)' = Seats(s)
                                /\ u \notin Shown(s)
                                /\ Shown(s)' = IF s = r THEN Shown(s) \cup {u} ELSE Shown(s) \ {u}
      <4>1. client' = [client EXCEPT ![u] = "lobby"] /\ game_url' = [game_url EXCEPT ![u] = game_url[u]] /\ client[u] = "entering"
        BY <2>3
      <4>2. /\ Excused' = Excused /\ Left' = Left
            /\ \A s \in RoomIds : LifeOf(s)' = LifeOf(s) /\ Seats(s)' = Seats(s)
            /\ Waiting' = IF "lobby" \in Wanting THEN Waiting \cup {u} ELSE Waiting \ {u}
            /\ \A s \in RoomIds : Shown(s)' = IF "lobby" = "lobby" /\ game_url[u] = s THEN Shown(s) \cup {u} ELSE Shown(s) \ {u}
            /\ u \in Waiting <=> client[u] \in Wanting
            /\ \A s \in RoomIds : u \in Shown(s) <=> client[u] = "lobby" /\ game_url[u] = s
        BY <1>0, <1>1, <1>4, <4>1, OneUser
      <4> QED
        BY <3>4, <4>1, <4>2
    <3>6. u \in Seats(r)
      BY <1>4, <3>2 DEF Seats
    <3> HIDE DEF r
    <3>7. \A s \in RoomIds : s # r => Shown(s)' = Shown(s)
      BY <3>5
    <3>8. Promise!See(u, r)
      BY <3>2, <3>3, <3>5, <3>6, <3>7 DEF Promise!See
    <3> QED
      BY <3>2, <3>8 DEF Promise!Next
  <2>4. CASE Leaves
    <3> DEFINE r == game_url[u]
    <3>1. Count(sub[u], Ends) > 0
      BY <1>0, <1>1, <2>4, HeadCounts DEF Ends, Of, m
    <3>2. r \in RoomIds /\ thread[r] \in Gone
      BY <2>1, <2>4, <3>1 DEF EndsOf
    <3>3. LifeOf(r) \in {"over", "closed"}
      BY <3>2 DEF LifeOf, Gone, Over
    <3>4. "lobby" \notin Wanting /\ "menu" \notin Wanting
      BY DEF Wanting
    <3>5. /\ Excused' = Excused /\ Left' = Left /\ Waiting' = Waiting \ {u} /\ u \notin Waiting
          /\ \A s \in RoomIds : /\ LifeOf(s)' = LifeOf(s) /\ Seats(s)' = Seats(s)
                                /\ u \in Shown(s) <=> s = r
                                /\ Shown(s)' = Shown(s) \ {u}
      <4>1. client' = [client EXCEPT ![u] = "menu"] /\ game_url' = [game_url EXCEPT ![u] = game_url[u]] /\ client[u] = "lobby"
        BY <2>4
      <4>2. /\ Excused' = Excused /\ Left' = Left
            /\ \A s \in RoomIds : LifeOf(s)' = LifeOf(s) /\ Seats(s)' = Seats(s)
            /\ Waiting' = IF "menu" \in Wanting THEN Waiting \cup {u} ELSE Waiting \ {u}
            /\ \A s \in RoomIds : Shown(s)' = IF "menu" = "lobby" /\ game_url[u] = s THEN Shown(s) \cup {u} ELSE Shown(s) \ {u}
            /\ u \in Waiting <=> client[u] \in Wanting
            /\ \A s \in RoomIds : u \in Shown(s) <=> client[u] = "lobby" /\ game_url[u] = s
        BY <1>0, <1>1, <1>4, <4>1, OneUser
      <4> QED
        BY <3>4, <4>1, <4>2
    <3> HIDE DEF r
    <3>6. Waiting' = Waiting /\ \A s \in RoomIds : s # r => Shown(s)' = Shown(s)
      BY <3>5
    <3>7. Promise!Leave(u, r)
      BY <3>2, <3>3, <3>5, <3>6 DEF Promise!Leave
    <3> QED
      BY <3>2, <3>7 DEF Promise!Next
  <2>5. CASE Joins
    <3>1. client[u] \in {"looking", "creating"}
      BY <1>0, <1>1, <2>1, <2>5, Awaited DEF m
    <3>2. PICK c \in {client[u], "joined"} : client' = [client EXCEPT ![u] = c]
      BY <2>5
    <3>3. client[u] \in Wanting /\ c \in Wanting /\ client[u] \notin {"lobby", "left"} /\ c \notin {"lobby", "left"}
      BY <3>1 DEF Wanting
    <3>4. /\ Excused' = Excused /\ Left' = Left /\ Waiting' = Waiting \cup {u} /\ u \in Waiting
          /\ \A s \in RoomIds : /\ LifeOf(s)' = LifeOf(s) /\ Seats(s)' = Seats(s)
                                /\ u \notin Shown(s) /\ Shown(s)' = Shown(s) \ {u}
      BY <1>0, <1>1, <1>4, <2>5, <3>2, <3>3, OneUser
    <3>5. Waiting' = Waiting /\ \A s \in RoomIds : Shown(s)' = Shown(s)
      BY <3>4
    <3>6. UNCHANGED Promise!vars
      BY <3>4, <3>5, NothingPromised
    <3> QED
      BY <3>6
  <2> QED
    BY <1>2, <2>2, <2>3, <2>4, <2>5
<1> QED
  BY <1>3, <1>4

(* A lobby lets in who asked, and who asked is in no other room.           *)
LEMMA PromiseEnters ==
  ASSUME BaseInv, LobbyInv, EndsInv, NEW k \in RoomIds, RoomEnters(k)
  PROVE  Promise!Next \/ UNCHANGED Promise!vars
<1> DEFINE u == Head(rinbox[k]).user
<1>0. TypeOK /\ m_players \in [RoomIds -> SUBSET Users]
  BY DEF BaseInv, TypeOK
<1>1. /\ thread[k] = "lobby" /\ Takes(k, "INFO_ROOM") /\ m_players' = [m_players EXCEPT ![k] = @ \cup {u}]
      /\ UNCHANGED <<client, game_url, thread, room_id, dropped>>
  BY DEF RoomEnters, bounds
<1>2. /\ Head(rinbox[k]) \in RoomMail /\ Head(rinbox[k]).type = "INFO_ROOM" /\ rinbox[k] # <<>>
      /\ rinbox[k] \in Seq(Messages) /\ Head(rinbox[k]) \in Messages
  BY <1>1, RoomTakes
<1>3. u \in Users /\ Head(rinbox[k]) \in Asking(u)
  BY <1>2 DEF RoomMail, Asking, From
<1>4. Count(rinbox[k], Asking(u)) > 0
  BY <1>2, <1>3, HeadCounts
<1> HIDE DEF u
<1>5. /\ Excused' = Excused /\ Waiting' = Waiting /\ Left' = Left
      /\ \A r \in RoomIds : LifeOf(r)' = LifeOf(r) /\ Shown(r)' = Shown(r)
  <2>1. Excused' = Excused
    BY <1>1 DEF Excused, OwnIds
  <2> QED
    BY <1>1, <2>1 DEF Waiting, Left, LifeOf, Shown
<1>6. \A r \in RoomIds : m_players'[r] = IF r = k THEN m_players[r] \cup {u} ELSE m_players[r]
  BY <1>0, <1>1
<1>7. CASE u \in Excused
  <2>1. \A r \in RoomIds : Seats(r)' = Seats(r)
    BY <1>5, <1>6, <1>7 DEF Seats
  <2>2. UNCHANGED Promise!vars
    BY <1>5, <2>1, NothingPromised
  <2> QED
    BY <2>2
<1>8. CASE u \notin Excused
  <2>1. Asks(u)
    BY <1>3, <1>8, Unexcused DEF LobbyOf
  <2>2. client[u] = "entering" /\ ~In(u)
    BY <1>4, <2>1 DEF Asks
  <2>3. u \in Waiting
    BY <1>3, <1>8, <2>2 DEF Waiting
  <2>4. Promise!RoomsOf(u) = {}
    BY <1>3, <1>8, <2>2, RoomsIn DEF In
  <2>5. LifeOf(k) = "lobby"
    BY <1>1 DEF LifeOf
  <2>6. \A r \in RoomIds : Seats(r)' = IF r = k THEN Seats(r) \cup {u} ELSE Seats(r)
    BY <1>5, <1>6, <1>8 DEF Seats
  <2>7. Promise!Enter(u, k)
    BY <1>5, <2>3, <2>4, <2>5, <2>6 DEF Promise!Enter
  <2> QED
    BY <1>3, <2>7 DEF Promise!Next
<1> QED
  BY <1>7, <1>8

(* What a room's thread changes.                                           *)
LEMMA OneRoomChanges ==
  ASSUME BaseInv, NEW k \in RoomIds, NEW t, t # "none", thread[k] # "none", thread' = [thread EXCEPT ![k] = t],
         UNCHANGED <<client, game_url, room_id, dropped>>,
         \A r \in RoomIds : m_players'[r] \ dropped = m_players[r] \ dropped
  PROVE  /\ Excused' = Excused /\ Waiting' = Waiting /\ Left' = Left /\ thread'[k] = t
         /\ \A r \in RoomIds : Seats(r)' = Seats(r) /\ Shown(r)' = Shown(r)
         /\ \A r \in RoomIds \ {k} : LifeOf(r)' = LifeOf(r)
<1>1. thread \in [RoomIds -> Lives] /\ dropped \subseteq Users
  BY DEF BaseInv, TypeOK
<1>2. thread'[k] = t /\ \A r \in RoomIds \ {k} : thread'[r] = thread[r]
  BY <1>1
<1>3. Excused' = Excused
  BY <1>2 DEF Excused, OwnIds
<1>4. dropped \subseteq Excused
  BY <1>1 DEF Excused
<1>5. \A r \in RoomIds : Seats(r)' = Seats(r)
  BY <1>3, <1>4 DEF Seats
<1>6. Waiting' = Waiting /\ Left' = Left /\ \A r \in RoomIds : Shown(r)' = Shown(r)
  BY <1>3 DEF Waiting, Left, Shown
<1>7. \A r \in RoomIds \ {k} : LifeOf(r)' = LifeOf(r)
  BY <1>2 DEF LifeOf
<1> QED
  BY <1>2, <1>3, <1>5, <1>6, <1>7

(* A room opens, its game starts and ends, for a second time perhaps, then *)
(* it is closed.                                                           *)
LEMMA PromiseLife ==
  ASSUME BaseInv, NEW k \in RoomIds, Subscribe(k) \/ RoomStarts(k) \/ RoomEndGame(k) \/ RoomExits(k)
  PROVE  Promise!Next \/ UNCHANGED Promise!vars
<1>1. /\ UNCHANGED <<client, game_url, room_id, dropped, m_players>>
      /\ \A r \in RoomIds : m_players'[r] \ dropped = m_players[r] \ dropped
  BY DEF Subscribe, RoomStarts, RoomEndGame, RoomExits, session, bounds
<1>2. CASE Subscribe(k)
  <2>1. thread[k] = "starting" /\ thread' = [thread EXCEPT ![k] = "lobby"]
    BY <1>2 DEF Subscribe
  <2>2. LifeOf(k) = "none" /\ LifeOf(k)' = "lobby"
    <3>1. thread'[k] = "lobby"
      BY <1>1, <2>1, OneRoomChanges
    <3> QED
      BY <2>1, <3>1 DEF LifeOf
  <2>3. Promise!Becomes(k, "lobby")
    BY <1>1, <2>1, <2>2, OneRoomChanges, LifeChanges
  <2>4. Promise!Open(k)
    BY <2>2, <2>3 DEF Promise!Open
  <2> QED
    BY <2>4 DEF Promise!Next
<1>3. CASE RoomStarts(k)
  <2>1. thread[k] = "lobby" /\ thread' = [thread EXCEPT ![k] = "playing"]
    BY <1>3 DEF RoomStarts
  <2>2. LifeOf(k) = "lobby" /\ LifeOf(k)' = "game"
    <3>1. thread'[k] = "playing"
      BY <1>1, <2>1, OneRoomChanges
    <3> QED
      BY <2>1, <3>1 DEF LifeOf
  <2>3. Promise!Becomes(k, "game")
    BY <1>1, <2>1, <2>2, OneRoomChanges, LifeChanges
  <2>4. Promise!Start(k)
    BY <2>2, <2>3 DEF Promise!Start
  <2> QED
    BY <2>4 DEF Promise!Next
<1>6. CASE RoomEndGame(k) /\ thread[k] = "ended"
  <2>1. thread' = [thread EXCEPT ![k] = "overrun"]
    BY <1>6 DEF RoomEndGame
  <2>2. LifeOf(k)' = LifeOf(k)
    <3>1. thread'[k] = "overrun"
      BY <1>1, <1>6, <2>1, OneRoomChanges
    <3> QED
      BY <1>6, <3>1 DEF LifeOf
  <2>3. /\ Excused' = Excused /\ Waiting' = Waiting /\ Left' = Left
        /\ \A r \in RoomIds : LifeOf(r)' = LifeOf(r) /\ Seats(r)' = Seats(r) /\ Shown(r)' = Shown(r)
    BY <1>1, <1>6, <2>1, <2>2, OneRoomChanges
  <2> QED
    BY <2>3, NothingPromised
<1>4. CASE RoomEndGame(k) /\ thread[k] # "ended"
  <2>1. PICK t \in Over : thread[k] = "playing" /\ thread' = [thread EXCEPT ![k] = t]
    BY <1>4 DEF RoomEndGame, Over
  <2>2. t # "none"
    BY DEF Over
  <2>3. LifeOf(k) = "game" /\ LifeOf(k)' = "over"
    BY <1>1, <2>1, <2>2, OneRoomChanges DEF LifeOf, Over
  <2>4. Promise!Becomes(k, "over")
    BY <1>1, <2>1, <2>2, <2>3, OneRoomChanges, LifeChanges
  <2>5. Promise!End(k)
    BY <2>3, <2>4 DEF Promise!End
  <2> QED
    BY <2>5 DEF Promise!Next
<1>5. CASE RoomExits(k)
  <2>1. thread[k] \in Over /\ thread' = [thread EXCEPT ![k] = "exited"]
    BY <1>5 DEF RoomExits, Over
  <2>2. LifeOf(k) = "over" /\ LifeOf(k)' = "closed"
    <3>1. thread'[k] = "exited"
      BY <1>1, <2>1, OneRoomChanges DEF Over
    <3> QED
      BY <2>1, <3>1 DEF LifeOf, Over
  <2>3. Promise!Becomes(k, "closed")
    BY <1>1, <2>1, <2>2, OneRoomChanges, LifeChanges DEF Over
  <2>4. Promise!Close(k)
    BY <2>2, <2>3 DEF Promise!Close
  <2> QED
    BY <2>4 DEF Promise!Next
<1> QED
  BY <1>2, <1>3, <1>4, <1>5, <1>6

(* A room its players left is over, a lobby or a game. Only those that     *)
(* lost a connection leave.                                                *)
LEMMA PromiseQuit ==
  ASSUME BaseInv, NEW k \in RoomIds, RoomQuit(k)
  PROVE  Promise!Next \/ UNCHANGED Promise!vars
<1> DEFINE w == Head(rinbox[k]).user
           left == m_players[k] \ {w}
           t == IF left = {} THEN "ended" ELSE thread[k]
<1>0. /\ thread \in [RoomIds -> Lives] /\ m_players \in [RoomIds -> SUBSET Users] /\ dropped \subseteq Users
  BY DEF BaseInv, TypeOK
<1>1. /\ thread[k] \in {"lobby", "playing"} /\ Takes(k, "CLIENT_QUIT_ROOM")
      /\ m_players' = [m_players EXCEPT ![k] = left]
      /\ UNCHANGED <<client, game_url, room_id, dropped>>
  BY DEF RoomQuit, session, bounds
<1>2. w \in dropped
  BY <1>1, RoomTakes DEF RoomMail
<1>3. thread' = [thread EXCEPT ![k] = t] /\ t # "none" /\ thread[k] # "none"
  BY <1>1 DEF RoomQuit
<1>4. \A r \in RoomIds : m_players'[r] \ dropped = m_players[r] \ dropped
  BY <1>0, <1>1, <1>2
<1>5. left = {} => Seats(k) = {}
  BY <1>0, <1>2 DEF Seats, Excused
<1> HIDE DEF left, w
<1>6. CASE left = {}
  <2>1. thread' = [thread EXCEPT ![k] = "ended"]
    BY <1>3, <1>6
  <2>2. LifeOf(k) \in {"lobby", "game"} /\ LifeOf(k)' = "over"
    BY <1>1, <1>3, <1>4, <2>1, OneRoomChanges DEF LifeOf
  <2>3. Promise!Becomes(k, "over")
    BY <1>1, <1>3, <1>4, <2>1, <2>2, OneRoomChanges, LifeChanges
  <2>4. Promise!Abandon(k)
    BY <1>5, <1>6, <2>2, <2>3 DEF Promise!Abandon
  <2> QED
    BY <2>4 DEF Promise!Next
<1>7. CASE left # {}
  <2>1. UNCHANGED thread
    BY <1>0, <1>3, <1>7
  <2>2. /\ Excused' = Excused /\ Waiting' = Waiting /\ Left' = Left
        /\ \A r \in RoomIds : Seats(r)' = Seats(r) /\ Shown(r)' = Shown(r)
    BY <1>1, <1>3, <1>4, OneRoomChanges
  <2>3. \A r \in RoomIds : LifeOf(r)' = LifeOf(r)
    BY <2>1 DEF LifeOf
  <2> QED
    BY <2>2, <2>3, NothingPromised
<1> QED
  BY <1>6, <1>7

(* Every step is one of Lobbies, or changes nothing of it.                 *)
LEMMA PromiseStep ==
  ASSUME BaseInv, RequestInv, LobbyInv, EndsInv, [Next]_vars
  PROVE  Promise!Next \/ UNCHANGED Promise!vars
<1>1. ASSUME NEW u \in Users,
             \/ CreateRoom(u) \/ FindMatch(u) \/ JoinPartie(u) \/ GetInfoRoom(u) \/ StartGame(u)
             \/ QuitRoom(u) \/ SendChat(u) \/ Disconnect(u) \/ Reconnect(u) \/ Session(u)
      PROVE  Promise!Next \/ UNCHANGED Promise!vars
  <2>1. CASE StartGame(u) \/ SendChat(u) \/ ReadShifted(u)
    <3>1. UNCHANGED <<client, game_url, thread, room_id, m_players, dropped>>
      BY <2>1 DEF StartGame, SendChat, ReadShifted, session, rooms, bounds
    <3>2. UNCHANGED Promise!vars
      BY <3>1, Unnoticed
    <3> QED
      BY <3>2
  <2>2. CASE JoinAnswer(u) \/ GetInfoRoom(u) \/ Reconnect(u)
    <3>1. UNCHANGED Promise!vars
      BY <2>2, PromiseWait
    <3> QED
      BY <3>1
  <2> QED
    BY <1>1, <2>1, <2>2, PromiseWish, PromiseGiveUp, PromiseLeaves, PromiseDisconnect, PromiseReceive DEF Session
<1>2. CASE BrokerTimeout \/ BrokerLooksUp \/ BrokerMatches \/ BrokerForwards
  <2>1. UNCHANGED <<client, game_url, thread, room_id, m_players, dropped>>
    BY <1>2 DEF BrokerTimeout, BrokerLooksUp, BrokerMatches, BrokerForwards, session, bounds
  <2>2. UNCHANGED Promise!vars
    BY <2>1, Unnoticed
  <2> QED
    BY <2>2
<1>3. CASE BrokerCreates
  BY <1>3, PromiseCreates
<1>4. ASSUME NEW k \in RoomIds, Room(k) \/ RoomEndGame(k)
      PROVE  Promise!Next \/ UNCHANGED Promise!vars
  <2>1. CASE RoomAnswers(k) \/ RoomIgnores(k)
    <3>1. UNCHANGED <<client, game_url, thread, room_id, m_players, dropped>>
      BY <2>1 DEF RoomAnswers, RoomIgnores, session, bounds
    <3>2. UNCHANGED Promise!vars
      BY <3>1, Unnoticed
    <3> QED
      BY <3>2
  <2>2. CASE Subscribe(k) \/ RoomStarts(k) \/ RoomEndGame(k) \/ RoomExits(k)
    BY <2>2, PromiseLife
  <2> QED
    BY <1>4, <2>1, <2>2, PromiseEnters, PromiseQuit DEF Room
<1>5. CASE UNCHANGED vars
  <2>1. UNCHANGED Promise!vars
    BY <1>5, Unnoticed DEF vars, session, rooms, bounds
  <2> QED
    BY <2>1
<1> QED
  BY <1>1, <1>2, <1>3, <1>4, <1>5 DEF Next, Broker

-----------------------------------------------------------------------------
(* Who hears of an end is in a room that ended: the invariant.             *)

LEMMA InitEnds == Init => EndsInv
<1> SUFFICES ASSUME Init, NEW u \in Users PROVE EndsOf(u)
  BY DEF EndsInv
<1>1. client[u] = "menu"
  BY DEF Init
<1> QED
  BY <1>1 DEF EndsOf

(* A thread whose game is over does not come back.                         *)
LEMMA GoneForever ==
  ASSUME BaseInv, [Next]_vars, NEW r \in RoomIds, thread[r] \in Gone
  PROVE  thread'[r] \in Gone
<1>0. thread \in [RoomIds -> Lives]
  BY DEF BaseInv, TypeOK
<1>1. CASE UNCHANGED thread
  BY <1>1
<1>2. ASSUME NEW k \in RoomIds, NEW t, thread' = [thread EXCEPT ![k] = t], thread[k] \notin Gone \/ t \in Gone
      PROVE  thread'[r] \in Gone
  BY <1>0, <1>2
<1>3. CASE BrokerCreates
  <2>1. PICK k \in RoomIds : thread[k] = "none" /\ thread' = [thread EXCEPT ![k] = "starting"]
    BY <1>3 DEF BrokerCreates
  <2>2. thread[k] \notin Gone
    BY <2>1 DEF Gone, Over
  <2> QED
    BY <1>2, <2>1, <2>2
<1>4. ASSUME NEW k \in RoomIds, Room(k) \/ RoomEndGame(k)
      PROVE  thread'[r] \in Gone
  <2>1. CASE RoomAnswers(k) \/ RoomEnters(k) \/ RoomIgnores(k)
    BY <1>1, <2>1 DEF RoomAnswers, RoomEnters, RoomIgnores
  <2>2. CASE RoomExits(k)
    BY <1>2, <2>2 DEF RoomExits, Gone
  <2>3. CASE Subscribe(k) \/ RoomStarts(k) \/ RoomQuit(k)
    <3>1. thread[k] \notin Gone
      BY <2>3 DEF Subscribe, RoomStarts, RoomQuit, Gone, Over
    <3>2. \E t : thread' = [thread EXCEPT ![k] = t]
      BY <2>3 DEF Subscribe, RoomStarts, RoomQuit
    <3> QED
      BY <1>2, <3>1, <3>2
  <2>4. CASE RoomEndGame(k)
    <3>1. \E t \in Gone : thread' = [thread EXCEPT ![k] = t]
      BY <2>4 DEF RoomEndGame, Gone, Over
    <3> QED
      BY <1>2, <3>1
  <2> QED
    BY <1>4, <2>1, <2>2, <2>3, <2>4 DEF Room
<1>5. CASE \E u \in Users : \/ CreateRoom(u) \/ FindMatch(u) \/ JoinPartie(u) \/ GetInfoRoom(u) \/ StartGame(u)
                            \/ QuitRoom(u) \/ SendChat(u) \/ Disconnect(u) \/ Reconnect(u) \/ Session(u)
  BY <1>1, <1>5 DEF CreateRoom, FindMatch, JoinPartie, GetInfoRoom, StartGame, QuitRoom, SendChat, Disconnect, Reconnect,
                    Session, JoinAnswer, JoinTimeout, ReadShifted, Receive, rooms
<1>6. CASE BrokerTimeout \/ BrokerLooksUp \/ BrokerMatches \/ BrokerForwards
  BY <1>1, <1>6 DEF BrokerTimeout, BrokerLooksUp, BrokerMatches, BrokerForwards
<1>7. CASE UNCHANGED vars
  BY <1>1, <1>7 DEF vars, rooms
<1> QED
  BY <1>3, <1>4, <1>5, <1>6, <1>7 DEF Next, Broker

(* Only the end of a game is told as one, to the players of its room.      *)
LEMMA EndsTold ==
  ASSUME BaseInv, BaseInv', [Next]_vars, NEW v \in Users, Count(sub'[v], Ends) > 0
  PROVE  Count(sub[v], Ends) > 0 \/ \E k \in RoomIds : RoomEndGame(k) /\ v \in m_players[k]
<1>0. /\ TypeOK /\ TypeOK' /\ sub \in [Users -> Seq(Messages)] /\ Unsent \in Names /\ NoRoom \in RoomIds \cup {NoRoom}
      /\ \A r \in RoomIds : room_id[r] \in RoomIds \cup {NoRoom}
      /\ {"CLIENT_CREATE_ROOM_RESPONSE", "CLIENT_LOOKUP_RESPONSE", "NOTIF", "PING"}
           \subseteq Types \ {"INFO_ROOM", "END_GAME", "ROOM_CLOSED"}
      /\ {"INFO_ROOM", "ROOM_CLOSED", "END_GAME"} \subseteq Types
  BY Constants DEF BaseInv, TypeOK, Types, OfRoom
<1> DEFINE Told == Count(sub[v], Ends) > 0
<1>1. CASE UNCHANGED sub
  BY <1>1
<1>2. ASSUME NEW us, NEW type \in Types \ {"END_GAME"}, NEW r \in RoomIds \cup {NoRoom},
             ToSessions(us, Msg(type, r, Unsent))
      PROVE  Told
  <2> DEFINE m == Msg(type, r, Unsent)
  <2>1. m \in Messages /\ m \notin Ends
    BY <1>0, RoomClasses
  <2>2. ToSessions(us, m)
    BY <1>2
  <2> HIDE DEF m
  <2>3. Count(sub'[v], Ends) = Count(sub[v], Ends)
    BY <2>1, <2>2, SubCounts
  <2> QED
    BY <2>3
<1>3. ASSUME NEW u \in Users, sub[u] # <<>>, sub' = [sub EXCEPT ![u] = Tail(@)]
      PROVE  Told
  <2>1. CASE u # v
    <3>1. sub'[v] = sub[v]
      BY <1>0, <1>3, <2>1
    <3> QED
      BY <3>1
  <2>2. CASE u = v
    <3>1. sub'[v] = Tail(sub[v])
      BY <1>0, <1>3, <2>2
    <3>2. Count(sub[v], Ends) = IF Head(sub[v]) \in Ends THEN Count(sub'[v], Ends) + 1 ELSE Count(sub'[v], Ends)
      BY <1>0, <1>3, <2>2, <3>1, CountTail
    <3>3. Count(sub'[v], Ends) \in Nat
      BY <1>0, LobbyNumbersNext
    <3> QED
      BY <3>2, <3>3
  <2> QED
    BY <2>1, <2>2
<1>4. CASE Broker
  <2>1. CASE BrokerTimeout \/ BrokerLooksUp
    BY <1>1, <2>1 DEF BrokerTimeout, BrokerLooksUp, session
  <2>2. CASE BrokerCreates
    <3> DEFINE w == Head(inbox).user
    <3>1. PICK id \in RoomIds : ToSessions({w}, Msg("CLIENT_CREATE_ROOM_RESPONSE", id, Unsent))
      BY <2>2 DEF BrokerCreates
    <3> HIDE DEF w
    <3> QED
      BY <1>0, <1>2, <3>1
  <2>3. CASE BrokerMatches
    <3> DEFINE w == Head(waiting_players)
    <3>1. /\ Reads("PING")
          /\ UNCHANGED sub \/ ToSessions({w}, Msg("CLIENT_LOOKUP_RESPONSE", Head(inbox).room, Unsent))
      BY <2>3 DEF BrokerMatches
    <3>2. Head(inbox).room \in RoomIds \cup {NoRoom}
      BY <3>1, BrokerReads DEF Messages
    <3> HIDE DEF w
    <3> QED
      BY <1>0, <1>1, <1>2, <3>1, <3>2
  <2>4. CASE BrokerForwards
    <3> DEFINE w == Head(inbox).user
    <3>1. ToSessions({w}, Msg("NOTIF", NoRoom, Unsent))
      BY <2>4 DEF BrokerForwards
    <3> HIDE DEF w
    <3> QED
      BY <1>0, <1>2, <3>1
  <2> QED
    BY <1>4, <2>1, <2>2, <2>3, <2>4 DEF Broker
<1>5. ASSUME NEW k \in RoomIds, Room(k)
      PROVE  Told
  <2>1. CASE Subscribe(k) \/ RoomStarts(k) \/ RoomIgnores(k) \/ RoomQuit(k)
    BY <1>1, <2>1 DEF Subscribe, RoomStarts, RoomIgnores, RoomQuit, session
  <2>2. CASE RoomAnswers(k)
    <3>1. UNCHANGED sub \/ \E us : \E r \in RoomIds \cup {NoRoom} : ToSessions({us}, Msg("PING", r, Unsent))
      <4> DEFINE w == Head(rinbox[k]).user
                 r == IF Cardinality(m_players[k]) < MaxPlayers THEN room_id[k] ELSE NoRoom
      <4>1. UNCHANGED sub \/ ToSessions({w}, Msg("PING", r, Unsent))
        BY <2>2 DEF RoomAnswers
      <4>2. r \in RoomIds \cup {NoRoom}
        BY <1>0
      <4> HIDE DEF w, r
      <4> QED
        BY <4>1, <4>2
    <3> QED
      BY <1>0, <1>1, <1>2, <3>1
  <2>3. CASE RoomEnters(k)
    <3> DEFINE w == Head(rinbox[k]).user
    <3>1. ToSessions({w}, Msg("INFO_ROOM", room_id[k], Unsent))
      BY <2>3 DEF RoomEnters
    <3> HIDE DEF w
    <3> QED
      BY <1>0, <1>2, <3>1
  <2>4. CASE RoomExits(k)
    <3>1. ToSessions(m_players[k], Msg("ROOM_CLOSED", room_id[k], Unsent))
      BY <2>4 DEF RoomExits
    <3> QED
      BY <1>0, <1>2, <3>1
  <2> QED
    BY <1>5, <2>1, <2>2, <2>3, <2>4 DEF Room
<1>6. ASSUME NEW k \in RoomIds, RoomEndGame(k)
      PROVE  Told \/ v \in m_players[k]
  <2> DEFINE m == Msg("END_GAME", room_id[k], Unsent)
  <2>1. ToSessions(m_players[k], m)
    BY <1>6 DEF RoomEndGame
  <2>2. m \in Messages
    BY <1>0, RoomClasses
  <2> HIDE DEF m
  <2>3. v \notin m_players[k] => Count(sub'[v], Ends) = Count(sub[v], Ends)
    BY <2>1, <2>2, SubCounts
  <2> QED
    BY <2>3
<1>7. ASSUME NEW u \in Users,
             \/ CreateRoom(u) \/ FindMatch(u) \/ JoinPartie(u) \/ GetInfoRoom(u) \/ StartGame(u)
             \/ QuitRoom(u) \/ SendChat(u) \/ Disconnect(u) \/ Reconnect(u) \/ Session(u)
      PROVE  Told
  <2>1. UNCHANGED sub \/ (sub[u] # <<>> /\ sub' = [sub EXCEPT ![u] = Tail(@)])
    BY <1>7 DEF CreateRoom, FindMatch, JoinPartie, GetInfoRoom, StartGame, QuitRoom, SendChat, Disconnect, Reconnect,
                Session, JoinAnswer, JoinTimeout, ReadShifted, Receive, session
  <2> QED
    BY <1>1, <1>3, <2>1
<1>8. CASE UNCHANGED vars
  BY <1>1, <1>8 DEF vars, session
<1> QED
  BY <1>4, <1>5, <1>6, <1>7, <1>8 DEF Next

(* A client asks to enter with an empty socket, or was there already.      *)
LEMMA StaysThere ==
  ASSUME BaseInv, RequestInv, [Next]_vars, NEW v \in Users \ dropped, client'[v] \in {"entering", "lobby"}
  PROVE  \/ client[v] \in {"entering", "lobby"} /\ game_url'[v] = game_url[v]
         \/ sub'[v] = <<>>
<1>0. /\ TypeOK /\ client \in [Users -> Clients] /\ game_url \in [Users -> RoomIds \cup {NoRoom}]
      /\ sub \in [Users -> Seq(Messages)]
  BY DEF BaseInv, TypeOK
<1> DEFINE There == client[v] \in {"entering", "lobby"} /\ game_url'[v] = game_url[v]
<1>1. CASE UNCHANGED <<client, game_url>>
  BY <1>1
<1>2. ASSUME NEW u \in Users, u # v, NEW c, NEW g,
             client' = [client EXCEPT ![u] = c], game_url' = [game_url EXCEPT ![u] = g]
      PROVE  There
  BY <1>0, <1>2
<1>3. ASSUME NEW u \in Users,
             \/ CreateRoom(u) \/ FindMatch(u) \/ JoinPartie(u) \/ QuitRoom(u) \/ Reconnect(u) \/ Disconnect(u)
             \/ JoinTimeout(u)
      PROVE  There
  <2>1. /\ \E c \in Clients \ {"entering", "lobby"} : client' = [client EXCEPT ![u] = c]
        /\ game_url' = [game_url EXCEPT ![u] = game_url[u]]
    BY <1>0, <1>3 DEF CreateRoom, FindMatch, JoinPartie, Request, QuitRoom, Reconnect, Disconnect, JoinTimeout, Clients
  <2> QED
    BY <1>0, <1>2, <2>1
<1>4. ASSUME NEW u \in Users, JoinAnswer(u)
      PROVE  There
  <2>1. client' = [client EXCEPT ![u] = "joined"] /\ game_url' = [game_url EXCEPT ![u] = ping[u]]
    BY <1>4 DEF JoinAnswer
  <2> QED
    BY <1>0, <1>2, <2>1
<1>5. ASSUME NEW u \in Users, GetInfoRoom(u)
      PROVE  There \/ sub'[v] = <<>>
  <2>1. /\ client' = [client EXCEPT ![u] = "entering"] /\ game_url' = [game_url EXCEPT ![u] = game_url[u]]
        /\ sub' = sub /\ sub[u] = <<>>
    BY <1>0, <1>5 DEF GetInfoRoom, Silent
  <2> QED
    BY <1>2, <2>1
<1>6. ASSUME NEW u \in Users, Receive(u)
      PROVE  There
  <2> DEFINE m == Head(sub[u])
  <2>1. /\ sub[u] # <<>>
        /\ \/ UNCHANGED game_url
           \/ /\ m.type \in {"CLIENT_LOOKUP_RESPONSE", "CLIENT_CREATE_ROOM_RESPONSE"}
              /\ game_url' = [game_url EXCEPT ![u] = m.room]
              /\ Answered(u, IF m.type = "CLIENT_LOOKUP_RESPONSE" THEN "looking" ELSE "creating", "joined")
        /\ \/ UNCHANGED client
           \/ Answered(u, "entering", "lobby")
           \/ Answered(u, "lobby", "menu")
           \/ Answered(u, IF m.type = "CLIENT_LOOKUP_RESPONSE" THEN "looking" ELSE "creating", "joined")
    BY <1>6 DEF Receive
  <2>2. CASE u # v
    <3>1. \E c : client' = [client EXCEPT ![u] = c]
      BY <1>0, <2>1 DEF Answered
    <3>2. \E g : game_url' = [game_url EXCEPT ![u] = g]
      BY <1>0, <2>1
    <3> QED
      BY <1>2, <2>2, <3>1, <3>2
  <2>3. CASE u = v
    <3>1. CASE UNCHANGED game_url
      BY <1>0, <2>1, <2>3, <3>1 DEF Answered
    <3>2. CASE m.type \in {"CLIENT_LOOKUP_RESPONSE", "CLIENT_CREATE_ROOM_RESPONSE"} /\ ~UNCHANGED game_url
      <4>1. client[u] = IF m.type = "CLIENT_LOOKUP_RESPONSE" THEN "looking" ELSE "creating"
        BY <1>0, <2>1, <2>3, <3>2, Awaited
      <4>2. client' = [client EXCEPT ![u] = "joined"]
        BY <2>1, <3>2, <4>1 DEF Answered
      <4> QED
        BY <1>0, <2>3, <4>2
    <3> QED
      BY <2>1, <3>1, <3>2
  <2> QED
    BY <2>2, <2>3
<1>7. ASSUME NEW u \in Users, StartGame(u) \/ SendChat(u) \/ ReadShifted(u)
      PROVE  There
  BY <1>1, <1>7 DEF StartGame, SendChat, ReadShifted, session
<1>8. CASE Broker
  BY <1>1, <1>8 DEF Broker, BrokerTimeout, BrokerCreates, BrokerLooksUp, BrokerMatches, BrokerForwards, session
<1>9. ASSUME NEW k \in RoomIds, Room(k) \/ RoomEndGame(k)
      PROVE  There
  BY <1>1, <1>9 DEF Room, Subscribe, RoomAnswers, RoomEnters, RoomStarts, RoomIgnores, RoomQuit, RoomExits,
                    RoomEndGame, session
<1>10. CASE UNCHANGED vars
  BY <1>1, <1>10 DEF vars, session
<1> QED
  BY <1>3, <1>4, <1>5, <1>6, <1>7, <1>8, <1>9, <1>10 DEF Next, Session

(* Every step keeps it.                                                    *)
LEMMA NextEnds ==
  ASSUME BaseInv, RequestInv, LobbyInv, EndsInv, [Next]_vars
  PROVE  EndsInv'
<1>1. BaseInv'
  BY NextBase
<1> SUFFICES ASSUME OwnIds', NEW v \in Users \ dropped',
                    client'[v] \in {"entering", "lobby"}, Count(sub'[v], Ends) > 0
             PROVE  game_url'[v] \in RoomIds /\ thread'[game_url'[v]] \in Gone
  BY DEF EndsInv, EndsOf
<1>2. OwnIds
  BY OwnIdsBack
<1>3. v \in Users \ dropped
  <2>1. UNCHANGED dropped \/ \E u \in Users : dropped' = dropped \cup {u}
    BY DEF Next, CreateRoom, FindMatch, JoinPartie, GetInfoRoom, StartGame, QuitRoom, SendChat, Disconnect, Reconnect,
           Session, JoinAnswer, JoinTimeout, ReadShifted, Receive, Broker, BrokerTimeout, BrokerCreates,
           BrokerLooksUp, BrokerMatches, BrokerForwards, Room, Subscribe, RoomAnswers, RoomEnters, RoomStarts,
           RoomIgnores, RoomQuit, RoomExits, RoomEndGame, bounds, vars
  <2> QED
    BY <2>1
<1>4. client[v] \in {"entering", "lobby"} /\ game_url'[v] = game_url[v]
  BY <1>3, StaysThere, CountEmpty
<1>5. EndsOf(v) /\ Member(v)
  BY <1>2, <1>3 DEF EndsInv, LobbyInv, LobbyOf
<1>6. CASE Count(sub[v], Ends) > 0
  <2>1. game_url[v] \in RoomIds /\ thread[game_url[v]] \in Gone
    BY <1>4, <1>5, <1>6 DEF EndsOf
  <2> QED
    BY <1>4, <2>1, GoneForever
<1>7. ASSUME NEW k \in RoomIds, RoomEndGame(k), v \in m_players[k]
      PROVE  game_url'[v] \in RoomIds /\ thread'[game_url'[v]] \in Gone
  <2>0. thread \in [RoomIds -> Lives]
    BY DEF BaseInv, TypeOK
  <2>1. thread[k] \in {"playing", "ended"} /\ \E t \in Over : thread' = [thread EXCEPT ![k] = t]
    BY <1>7 DEF RoomEndGame, Over
  <2>2. game_url[v] = k
    BY <1>5, <1>7, <2>1 DEF Member, Open
  <2>3. thread'[k] \in Gone
    BY <2>0, <2>1 DEF Gone
  <2> QED
    BY <1>4, <2>2, <2>3
<1> QED
  BY <1>1, <1>3, <1>6, <1>7, EndsTold

-----------------------------------------------------------------------------

LEMMA InitPromise == Init => Promise!Init
<1> SUFFICES ASSUME Init PROVE Promise!Init
  OBVIOUS
<1>1. \A r \in RoomIds : thread[r] = "none" /\ m_players[r] = {}
  BY DEF Init
<1>2. OwnIds /\ Excused = {}
  BY <1>1 DEF Init, OwnIds, Excused
<1>3. \A r \in RoomIds : LifeOf(r) = "none" /\ Seats(r) = {}
  BY <1>1 DEF LifeOf, Seats
<1>4. Waiting = {} /\ Left = {} /\ \A r \in RoomIds : Shown(r) = {}
  BY DEF Init, Waiting, Left, Shown
<1> QED
  BY <1>2, <1>3, <1>4 DEF Promise!Init

LEMMA RoomsInductive ==
  /\ Init => Inv
  /\ Inv /\ [Next]_vars => Inv'
<1>1. Init => Inv
  BY InitBase, InitRequests, InitLobby, InitEnds DEF Inv, IInv
<1>2. Inv /\ [Next]_vars => Inv'
  BY InductiveStep, NextLobby, NextEnds DEF Inv, IInv
<1> QED
  BY <1>1, <1>2

(* Sessions, broker and rooms together keep the promises of Lobbies        *)
(* (user_thread.cpp:39-75, broker.cpp:28-96, game_thread.cpp:14-75): who   *)
(* enters a lobby comes from no other room, a client shows a room its user *)
(* is in until the room's game is over or the user quits, who quits has no *)
(* other room after, and a room is closed only when its game is over.      *)
THEOREM RoomsKeepPromises == Spec => ImplementsLobbies
<1>1. Init => Inv /\ Promise!Init
  BY RoomsInductive, InitPromise
<1>2. Inv /\ [Next]_vars => Inv'
  BY RoomsInductive
<1>3. Inv /\ [Next]_vars => [Promise!Next]_(Promise!vars)
  BY PromiseStep DEF Inv, IInv
<1> QED
  BY <1>1, <1>2, <1>3, PTL DEF Spec, ImplementsLobbies, Promise!Spec

(* A user that lost no connection is a player of one open room at a time,  *)
(* and of no other than the one its client shows.                          *)
THEOREM OneRoomAtATime == Spec => []Promise!OneRoom
<1>1. Init => Inv
  BY RoomsInductive
<1>2. Inv /\ [Next]_vars => Inv'
  BY RoomsInductive
<1>3. Inv => Promise!OneRoom
  <2> SUFFICES ASSUME Inv, NEW u \in Users, NEW r \in RoomIds, NEW s \in RoomIds,
                      r \in Promise!RoomsOf(u), s \in Promise!RoomsOf(u) \/ u \in Shown(s)
               PROVE  r = s
    BY DEF Promise!OneRoom
  <2>1. u \in Users \ Excused
    BY DEF Promise!RoomsOf, Seats
  <2>2. Member(u)
    BY <2>1, Unexcused DEF Inv, IInv, LobbyOf
  <2>3. Promise!RoomsOf(u) = {x \in RoomIds : thread[x] \in Open /\ u \in m_players[x]}
    BY <2>1, RoomsIn DEF Inv, IInv
  <2>4. \A x \in Promise!RoomsOf(u) : game_url[u] = x
    BY <2>2, <2>3 DEF Member
  <2>5. u \in Shown(s) => game_url[u] = s
    BY DEF Shown
  <2> QED
    BY <2>4, <2>5
<1> QED
  BY <1>1, <1>2, <1>3, PTL DEF Spec

=============================================================================
