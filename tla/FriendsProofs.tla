---------------------------- MODULE FriendsProofs ----------------------------
(***************************************************************************)
(* Theorems about Friends, for every set of accounts and connections and   *)
(* without any bound on requests, logins and queues.                       *)
(***************************************************************************)
EXTENDS Friends, QueueLemmas, TLAPS

(* A session past its login has a registered user, and one that has        *)
(* subscribed hears that user's channel.                                   *)
SessionInv ==
  \A c \in Conns :
    /\ stage[c] # "out" => usr_id[c] \in registered
    /\ stage[c] = "out" => usr_id[c] = NoUser
    /\ stage[c] \in {"subscribed", "answered", "in"} => usr_id[c] \in channels[c]

(* Requests come from registered users.                                    *)
SenderInv == \A r \in rows : r.sender \in registered

(* connected tells who is there, for users with one session.               *)
ConnectedInv ==
  /\ \A c, d \in Conns : c # d /\ usr_id[c] = usr_id[d] /\ usr_id[c] # NoUser => usr_id[c] \in shared
  /\ \A c \in Conns : usr_id[c] \notin shared \cup {NoUser} => connected[usr_id[c]]

(* A connection hears one user, the one that is logged in, if any, ...     *)
ChannelInv ==
  ~mixed => \A c \in Conns :
    /\ \A u, v \in channels[c] : u = v
    /\ stage[c] # "out" => channels[c] \subseteq {usr_id[c]}

(* ... and whoever is in what its client has, or is on the way to it,      *)
(* asked that user.                                                        *)
Heard(c, v) == \/ v \in answer[c]
               \/ invits[c][v] > 0
               \/ \E i \in DOMAIN sub[c] : sub[c][i] = v
HeardInv ==
  ~mixed /\ ~strayed => \A c \in Conns, v \in Users :
    Heard(c, v) => \E u \in channels[c] : <<v, u>> \in willing
SentInv ==
  ~strayed => /\ \A r \in rows : <<r.sender, r.receiver>> \in willing
              /\ \A i \in DOMAIN inbox : <<inbox[i].from, inbox[i].receiver>> \in willing

IInv == /\ TypeOK /\ SessionInv /\ SenderInv /\ ConnectedInv
        /\ OneRowPerPair /\ RequestTold
        /\ ChannelInv /\ HeardInv /\ SentInv /\ ConsentsUnlessMixed

-----------------------------------------------------------------------------
(* The initial states.                                                     *)
LEMMA InitIInv ==
  ASSUME Init
  PROVE  IInv
<1> USE FriendsAssumption DEF Init
<1>1. TypeOK
  <2>1. inbox \in Seq([from : Users, receiver : Users])
    OBVIOUS
  <2>2. sub \in [Conns -> Seq(Users)]
    OBVIOUS
  <2>3. /\ registered \subseteq Users /\ rows \subseteq Rows /\ willing \subseteq Users \X Users /\ shared \subseteq Users
        /\ mixed \in BOOLEAN /\ strayed \in BOOLEAN
    OBVIOUS
  <2>4. /\ connected \in [Users -> BOOLEAN] /\ usr_id \in [Conns -> Users \cup {NoUser}]
        /\ channels \in [Conns -> SUBSET Users] /\ answer \in [Conns -> SUBSET Users]
        /\ shown \in [Conns -> SUBSET Users] /\ told \in [Conns -> SUBSET Users]
    OBVIOUS
  <2>5. stage \in [Conns -> Stages] /\ invits \in [Conns -> [Users -> Nat]]
    BY DEF Stages, None
  <2> QED
    BY <2>1, <2>2, <2>3, <2>4, <2>5 DEF TypeOK
<1>2. SessionInv /\ SenderInv /\ ConnectedInv /\ ChannelInv
  BY DEF SessionInv, SenderInv, ConnectedInv, ChannelInv
<1>3. HeardInv
  BY DEF HeardInv, Heard, None
<1>4. SentInv /\ OneRowPerPair /\ RequestTold /\ ConsentsUnlessMixed
  BY DEF SentInv, OneRowPerPair, RequestTold, ConsentsUnlessMixed, Consents
<1> QED
  BY <1>1, <1>2, <1>3, <1>4 DEF IInv

(* Nothing changes.                                                        *)
LEMMA StutterIInv ==
  ASSUME IInv, UNCHANGED vars
  PROVE  IInv'
<1> USE DEF vars, tables, session, client, queues, history
<1>1. TypeOK' /\ SessionInv' /\ SenderInv' /\ ConnectedInv' /\ ChannelInv'
  BY DEF IInv, TypeOK, SessionInv, SenderInv, ConnectedInv, ChannelInv
<1>2. HeardInv' /\ SentInv' /\ OneRowPerPair' /\ RequestTold' /\ ConsentsUnlessMixed'
  BY DEF IInv, HeardInv, Heard, SentInv, OneRowPerPair, RequestTold, ConsentsUnlessMixed, Consents
<1> QED
  BY <1>1, <1>2 DEF IInv

-----------------------------------------------------------------------------
(* Types *)

(* An invitation is put in the broker's queue, or not.                     *)
LEMMA InviteTyped ==
  ASSUME TypeOK, NEW u \in Users, NEW v, Invite(u, v)
  PROVE  /\ inbox' \in Seq([from : Users, receiver : Users])
         /\ \A x : Holds(inbox', x) => Holds(inbox, x) \/ x = [from |-> u, receiver |-> v]
         /\ \A x : Holds(inbox, x) => Holds(inbox', x)
         /\ v \in Users /\ connected[v] => Holds(inbox', [from |-> u, receiver |-> v])
<1> DEFINE m == [from |-> u, receiver |-> v]
<1>1. inbox \in Seq([from : Users, receiver : Users])
  BY DEF TypeOK
<1>2. CASE v \in Users /\ connected[v]
  <2>1. m \in [from : Users, receiver : Users] /\ inbox' = Append(inbox, m)
    BY <1>2 DEF Invite
  <2> HIDE DEF m
  <2>2. inbox' \in Seq([from : Users, receiver : Users])
    BY <1>1, <2>1
  <2>3. \A x : Holds(inbox', x) <=> Holds(inbox, x) \/ x = m
    BY <1>1, <2>1, AppendHolds
  <2> QED
    BY <2>2, <2>3 DEF m
<1>3. CASE ~(v \in Users /\ connected[v])
  BY <1>1, <1>3 DEF Invite
<1> QED
  BY <1>2, <1>3

(* Rows stay rows. *)
LEMMA RowsTyped ==
  ASSUME TypeOK, FriendsAssumption
  PROVE  /\ \A u \in Users, v \in Users \cup {NoUser} : add_friend(u, v) => rows' \subseteq Rows /\ next_key' \in Nat
         /\ \A u, v : accept_friend_invite(u, v) => rows' \subseteq Rows
         /\ \A u, v : remove_friend(u, v) => rows' \subseteq Rows
<1> USE DEF TypeOK
<1>1. ASSUME NEW u \in Users, NEW v \in Users \cup {NoUser}, add_friend(u, v)
      PROVE  rows' \subseteq Rows /\ next_key' \in Nat
  <2> DEFINE r == [key |-> next_key, sender |-> u, receiver |-> v, accepted |-> FALSE]
  <2>1. r \in Rows
    BY DEF Rows
  <2>2. rows' = rows \cup {r} /\ next_key' = next_key + 1
    BY <1>1 DEF add_friend
  <2> HIDE DEF r
  <2> QED
    BY <2>1, <2>2
<1>2. ASSUME NEW u, NEW v, accept_friend_invite(u, v)
      PROVE  rows' \subseteq Rows
  <2>1. \A r \in Rows : [r EXCEPT !.accepted = TRUE] \in Rows
    BY DEF Rows
  <2> QED
    BY <1>2, <2>1 DEF accept_friend_invite
<1>3. ASSUME NEW u, NEW v, remove_friend(u, v)
      PROVE  rows' \subseteq Rows
  BY <1>3 DEF remove_friend
<1> QED
  BY <1>1, <1>2, <1>3

(* Every operation keeps the types.                                        *)
LEMMA StepTypeOK ==
  ASSUME FriendsAssumption, TypeOK, SessionInv, Next
  PROVE  TypeOK'
<1> USE DEF TypeOK, Stages
<1>0. \A c \in Conns : stage[c] # "out" => usr_id[c] \in Users
  BY DEF SessionInv
<1>1. ASSUME NEW c \in Conns, NEW u \in Users, Login(c, u)
      PROVE  TypeOK'
  BY <1>1 DEF Login, client, queues
<1>2. ASSUME NEW c \in Conns, NEW v \in Users, AskFriendship(c, v)
      PROVE  TypeOK'
  <2>1. usr_id[c] \in Users
    BY <1>0, <1>2 DEF AskFriendship, Request
  <2>2. rows' \subseteq Rows /\ next_key' \in Nat /\ inbox' \in Seq([from : Users, receiver : Users])
    BY <1>2, <2>1, RowsTyped, InviteTyped DEF AskFriendship
  <2>3. willing' \subseteq Users \X Users
    BY <1>2, <2>1 DEF AskFriendship
  <2> QED
    BY <1>2, <2>2, <2>3 DEF AskFriendship, session, client
<1>3. ASSUME NEW c \in Conns, NEW v \in Users, AcceptFriendship(c, v)
      PROVE  TypeOK'
  <2>1. usr_id[c] \in Users
    BY <1>0, <1>3 DEF AcceptFriendship, Request
  <2>2. rows' \subseteq Rows
    BY <1>3, RowsTyped DEF AcceptFriendship
  <2>3. willing' \subseteq Users \X Users
    BY <1>3, <2>1 DEF AcceptFriendship
  <2>4. invits' \in [Conns -> [Users -> Nat]]
    BY <1>3 DEF AcceptFriendship
  <2> QED
    BY <1>3, <2>2, <2>3, <2>4 DEF AcceptFriendship, session, queues
<1>4. ASSUME NEW c \in Conns, NEW v \in Users, DeleteFriendship(c, v)
      PROVE  TypeOK'
  <2>1. rows' \subseteq Rows
    BY <1>4, RowsTyped DEF DeleteFriendship
  <2> QED
    BY <1>4, <2>1 DEF DeleteFriendship, session, client, queues, history
<1>5. ASSUME NEW c \in Conns, Subscribe(c) \/ Deco(c)
      PROVE  TypeOK'
  <2>1. CASE Subscribe(c)
    BY <1>0, <2>1 DEF Subscribe, tables, client, queues, history
  <2>2. CASE Deco(c)
    BY <1>0, <2>2 DEF Deco, Request, client, queues, history
  <2> QED
    BY <1>5, <2>1, <2>2
<1>6. ASSUME NEW c \in Conns, AllInvitations(c)
      PROVE  TypeOK'
  <2>1. friend_invites(usr_id[c]) \subseteq Users
    BY DEF friend_invites
  <2> QED
    BY <1>6, <2>1 DEF AllInvitations, tables, queues
<1>7. ASSUME NEW c \in Conns, Replace(c)
      PROVE  TypeOK'
  BY <1>7 DEF Replace, tables, queues, history
<1>8. ASSUME NEW c \in Conns, AskUnknown(c)
      PROVE  TypeOK'
  <2>1. usr_id[c] \in Users
    BY <1>0, <1>8 DEF AskUnknown, Request
  <2>2. rows' \subseteq Rows /\ next_key' \in Nat /\ inbox' \in Seq([from : Users, receiver : Users])
    BY <1>8, <2>1, RowsTyped, InviteTyped DEF AskUnknown
  <2> QED
    BY <1>8, <2>2 DEF AskUnknown, session, client
<1>9. ASSUME NEW c \in Conns, FriendshipList(c)
      PROVE  TypeOK'
  <2>1. friend_list(usr_id[c]) \subseteq Users
    BY DEF friend_list
  <2> QED
    BY <1>9, <2>1 DEF FriendshipList, tables, session, queues, history
<1>10. ASSUME NEW c \in Conns, Close(c)
       PROVE  TypeOK'
  BY <1>10 DEF Close, tables, history, None
<1>11. ASSUME NEW c \in Conns, ReceiveInvite(c)
       PROVE  TypeOK'
  <2>1. Head(sub[c]) \in Users /\ Tail(sub[c]) \in Seq(Users)
    BY <1>11, ReadQueue DEF ReceiveInvite
  <2> QED
    BY <1>11, <2>1 DEF ReceiveInvite, tables, session
<1>12. ASSUME Redirect
       PROVE  TypeOK'
  <2>1. Head(inbox) \in [from : Users, receiver : Users] /\ inbox' \in Seq([from : Users, receiver : Users])
    BY <1>12, ReadQueue DEF Redirect
  <2>2. Head(inbox).from \in Users
    BY <2>1
  <2>3. \A c \in Conns : Append(sub[c], Head(inbox).from) \in Seq(Users)
    BY <2>2
  <2> QED
    BY <1>12, <2>1, <2>3 DEF Redirect, tables, session, client, history
<1> QED
  BY <1>1, <1>2, <1>3, <1>4, <1>5, <1>6, <1>7, <1>8, <1>9, <1>10, <1>11, <1>12 DEF Next

-----------------------------------------------------------------------------
(* Sessions *)

(* After an acceptance each row is one that was there, accepted if it is   *)
(* between the two users.                                                  *)
LEMMA AcceptStep ==
  ASSUME TypeOK, NEW u, NEW v, accept_friend_invite(u, v)
  PROVE  \A s \in rows' : \E r \in rows :
           /\ s = IF r \in Between(u, v) THEN [r EXCEPT !.accepted = TRUE] ELSE r
           /\ s.sender = r.sender /\ s.receiver = r.receiver
           /\ s.accepted => r.accepted \/ r \in Between(u, v)
           /\ ~s.accepted => s = r
<1> SUFFICES ASSUME NEW s \in rows'
             PROVE  \E r \in rows :
                      /\ s = IF r \in Between(u, v) THEN [r EXCEPT !.accepted = TRUE] ELSE r
                      /\ s.sender = r.sender /\ s.receiver = r.receiver
                      /\ s.accepted => r.accepted \/ r \in Between(u, v)
                      /\ ~s.accepted => s = r
  OBVIOUS
<1>1. PICK r \in rows : s = IF r \in Between(u, v) THEN [r EXCEPT !.accepted = TRUE] ELSE r
  BY DEF accept_friend_invite
<1>2. r \in Rows
  BY DEF TypeOK
<1>3. r \in Between(u, v) => s.sender = r.sender /\ s.receiver = r.receiver /\ s.accepted
  BY <1>1, <1>2 DEF Rows
<1> QED
  BY <1>1, <1>3

(* Who is logged in, what its session hears and whether it is connected.   *)
LEMMA StepSession ==
  ASSUME FriendsAssumption, TypeOK, SessionInv, ConnectedInv, Next
  PROVE  SessionInv' /\ ConnectedInv'
<1> USE FriendsAssumption DEF TypeOK, Stages, SessionInv, ConnectedInv
<1>1. ASSUME NEW c \in Conns, NEW u \in Users, Login(c, u)
      PROVE  SessionInv' /\ ConnectedInv'
  <2>1. usr_id[c] = NoUser /\ usr_id' = [usr_id EXCEPT ![c] = u]
    BY <1>1 DEF Login
  <2>2. connected' = [connected EXCEPT ![u] = TRUE] /\ registered' = registered \cup {u}
    BY <1>1 DEF Login
  <2>3. /\ shared \subseteq shared'
        /\ \A d \in Conns \ {c} : usr_id[d] = u => u \in shared'
    BY <1>1 DEF Login
  <2>4. stage' = [stage EXCEPT ![c] = "authenticated"] /\ channels' = channels
    BY <1>1 DEF Login
  <2>5. SessionInv'
    BY <2>1, <2>2, <2>4
  <2>6. ConnectedInv'
    BY <2>1, <2>2, <2>3
  <2> QED
    BY <2>5, <2>6
<1>2. ASSUME NEW c \in Conns, Deco(c)
      PROVE  SessionInv' /\ ConnectedInv'
  <2>1. /\ usr_id[c] \in Users
        /\ usr_id' = [usr_id EXCEPT ![c] = NoUser]
        /\ connected' = [connected EXCEPT ![usr_id[c]] = FALSE]
        /\ stage' = [stage EXCEPT ![c] = "out"]
        /\ UNCHANGED <<registered, channels, shared>>
    BY <1>2 DEF Deco, Request, history
  <2>2. SessionInv'
    BY <2>1
  <2>3. ConnectedInv'
    BY <2>1
  <2> QED
    BY <2>2, <2>3
<1>3. ASSUME NEW c \in Conns, Close(c)
      PROVE  SessionInv' /\ ConnectedInv'
  BY <1>3 DEF Close, tables, history
<1>4. ASSUME NEW c \in Conns, Subscribe(c) \/ AllInvitations(c) \/ Replace(c)
      PROVE  SessionInv' /\ ConnectedInv'
  <2>1. SessionInv'
    BY <1>4 DEF Subscribe, AllInvitations, Replace, tables
  <2>2. ConnectedInv'
    BY <1>4 DEF Subscribe, AllInvitations, Replace, tables, history
  <2> QED
    BY <2>1, <2>2
<1>5. ASSUME UNCHANGED <<registered, connected, session, shared>>
      PROVE  SessionInv' /\ ConnectedInv'
  BY <1>5 DEF session
<1>6. ASSUME NEW c \in Conns, NEW v \in Users,
             AskFriendship(c, v) \/ AcceptFriendship(c, v) \/ DeleteFriendship(c, v)
      PROVE  SessionInv' /\ ConnectedInv'
  BY <1>5, <1>6 DEF AskFriendship, AcceptFriendship, DeleteFriendship, history
<1>7. ASSUME NEW c \in Conns, AskUnknown(c) \/ FriendshipList(c) \/ ReceiveInvite(c)
      PROVE  SessionInv' /\ ConnectedInv'
  BY <1>5, <1>7 DEF AskUnknown, FriendshipList, ReceiveInvite, tables, history
<1>8. ASSUME Redirect
      PROVE  SessionInv' /\ ConnectedInv'
  BY <1>5, <1>8 DEF Redirect, tables, history
<1> QED
  BY <1>1, <1>2, <1>3, <1>4, <1>6, <1>7, <1>8 DEF Next

(* Only registered users send requests.                                    *)
LEMMA StepSender ==
  ASSUME TypeOK, SessionInv, SenderInv, Next
  PROVE  SenderInv'
<1> USE DEF SenderInv
<1>1. registered \subseteq registered'
  BY DEF Next, Login, Subscribe, AllInvitations, Replace, AskFriendship, AskUnknown, AcceptFriendship, FriendshipList,
         DeleteFriendship, Deco, Close, Redirect, ReceiveInvite, tables
<1>2. ASSUME NEW u \in registered, NEW v, add_friend(u, v)
      PROVE  SenderInv'
  BY <1>1, <1>2 DEF add_friend
<1>3. ASSUME NEW u, NEW v, accept_friend_invite(u, v)
      PROVE  SenderInv'
  BY <1>1, <1>3, AcceptStep
<1>4. ASSUME rows' \subseteq rows
      PROVE  SenderInv'
  BY <1>1, <1>4
<1>5. \A c \in Conns : Request(c) => usr_id[c] \in registered
  BY DEF Request, SessionInv
<1>6. ASSUME NEW c \in Conns, NEW v \in Users,
             AskFriendship(c, v) \/ AcceptFriendship(c, v) \/ DeleteFriendship(c, v) \/ Login(c, v)
      PROVE  SenderInv'
  BY <1>2, <1>3, <1>4, <1>5, <1>6 DEF AskFriendship, AcceptFriendship, DeleteFriendship, Login, remove_friend
<1>7. ASSUME NEW c \in Conns, AskUnknown(c)
      PROVE  SenderInv'
  BY <1>2, <1>5, <1>7 DEF AskUnknown
<1>8. ASSUME NEW c \in Conns, Subscribe(c) \/ AllInvitations(c) \/ Replace(c) \/ FriendshipList(c) \/ Deco(c)
                              \/ Close(c) \/ ReceiveInvite(c)
      PROVE  SenderInv'
  BY <1>4, <1>8 DEF Subscribe, AllInvitations, Replace, FriendshipList, Deco, Close, ReceiveInvite, tables
<1>9. ASSUME Redirect
      PROVE  SenderInv'
  BY <1>4, <1>9 DEF Redirect, tables
<1> QED
  BY <1>6, <1>7, <1>8, <1>9 DEF Next

-----------------------------------------------------------------------------
(* The table: what a step may do to it                                     *)

(* Rows go, are accepted, or one comes between two users that had none; or *)
(* a request strayed.                                                      *)
LEMMA RowsStep ==
  ASSUME Next
  PROVE  \/ rows' \subseteq rows
         \/ \E c \in Conns, v \in Users :
              /\ Request(c) /\ Between(usr_id[c], v) = {}
              /\ add_friend(usr_id[c], v)
         \/ \E c \in Conns, v \in Users : AcceptFriendship(c, v) /\ accept_friend_invite(usr_id[c], v)
         \/ strayed'
<1>1. ASSUME NEW c \in Conns, NEW v \in Users, AskFriendship(c, v), ~(rows' \subseteq rows)
      PROVE  Request(c) /\ Between(usr_id[c], v) = {} /\ add_friend(usr_id[c], v)
  BY <1>1 DEF AskFriendship, all_friends
<1>2. ASSUME NEW c \in Conns, NEW v \in Users, AcceptFriendship(c, v), ~(rows' \subseteq rows)
      PROVE  accept_friend_invite(usr_id[c], v)
  BY <1>2 DEF AcceptFriendship, remove_friend
<1>3. ASSUME NEW c \in Conns, NEW v \in Users, DeleteFriendship(c, v) \/ Login(c, v)
      PROVE  rows' \subseteq rows
  BY <1>3 DEF DeleteFriendship, Login, remove_friend
<1>4. ASSUME NEW c \in Conns, Subscribe(c) \/ AllInvitations(c) \/ Replace(c) \/ FriendshipList(c) \/ Deco(c)
                              \/ Close(c) \/ ReceiveInvite(c)
      PROVE  rows' \subseteq rows
  BY <1>4 DEF Subscribe, AllInvitations, Replace, FriendshipList, Deco, Close, ReceiveInvite, tables
<1>5. ASSUME NEW c \in Conns, AskUnknown(c)
      PROVE  strayed'
  BY <1>5 DEF AskUnknown
<1>6. ASSUME Redirect
      PROVE  rows' \subseteq rows
  BY <1>6 DEF Redirect, tables
<1> QED
  BY <1>1, <1>2, <1>3, <1>4, <1>5, <1>6 DEF Next

(* History only grows.                                                     *)
LEMMA HistoryGrows ==
  ASSUME TypeOK, Next
  PROVE  /\ willing \subseteq willing' /\ shared \subseteq shared'
         /\ mixed => mixed'
         /\ strayed => strayed'
<1>1. ASSUME NEW c \in Conns, NEW v \in Users,
             AskFriendship(c, v) \/ AcceptFriendship(c, v) \/ DeleteFriendship(c, v) \/ Login(c, v)
      PROVE  willing \subseteq willing' /\ shared \subseteq shared' /\ (mixed => mixed') /\ (strayed => strayed')
  <2>1. CASE Login(c, v)
    <3>1. mixed => mixed'
      BY <2>1, Zenon DEF Login
    <3>2. willing' = willing /\ strayed' = strayed /\ shared \subseteq shared'
      BY <2>1 DEF Login
    <3> QED
      BY <3>1, <3>2
  <2>2. CASE ~Login(c, v)
    BY <1>1, <2>2 DEF AskFriendship, AcceptFriendship, DeleteFriendship, history
  <2> QED
    BY <2>1, <2>2
<1>2. ASSUME NEW c \in Conns, Subscribe(c) \/ AllInvitations(c) \/ Replace(c) \/ FriendshipList(c) \/ Deco(c)
                              \/ Close(c) \/ ReceiveInvite(c) \/ AskUnknown(c)
      PROVE  willing \subseteq willing' /\ shared \subseteq shared' /\ (mixed => mixed') /\ (strayed => strayed')
  BY <1>2 DEF Subscribe, AllInvitations, Replace, FriendshipList, Deco, Close, ReceiveInvite, AskUnknown, history
<1>3. ASSUME Redirect
      PROVE  willing \subseteq willing' /\ shared \subseteq shared' /\ (mixed => mixed') /\ (strayed => strayed')
  BY <1>3 DEF Redirect, history
<1> QED
  BY <1>1, <1>2, <1>3 DEF Next

(* Every operation keeps one row for a pair.                               *)
LEMMA StepOneRow ==
  ASSUME TypeOK, SessionInv, OneRowPerPair, Next
  PROVE  OneRowPerPair'
<1> USE DEF OneRowPerPair
<1>1. strayed => strayed'
  BY HistoryGrows
<1>2. CASE rows' \subseteq rows
  BY <1>1, <1>2
<1>3. ASSUME NEW c \in Conns, NEW v \in Users, Between(usr_id[c], v) = {}, add_friend(usr_id[c], v)
      PROVE  OneRowPerPair'
  <2> DEFINE n == [key |-> next_key, sender |-> usr_id[c], receiver |-> v, accepted |-> FALSE]
  <2>1. rows' = rows \cup {n} /\ {n.sender, n.receiver} = {usr_id[c], v}
    BY <1>3 DEF add_friend
  <2>2. \A r \in rows : {r.sender, r.receiver} # {usr_id[c], v}
    BY <1>3 DEF Between
  <2> HIDE DEF n
  <2>3. SUFFICES ASSUME ~strayed', NEW r \in rows', NEW s \in rows', {r.sender, r.receiver} = {s.sender, s.receiver}
                 PROVE  r = s
    OBVIOUS
  <2>4. CASE r \in rows /\ s \in rows
    BY <1>1, <2>3, <2>4
  <2>5. CASE r = n \/ s = n
    BY <2>1, <2>2, <2>3, <2>5
  <2> QED
    BY <2>1, <2>4, <2>5
<1>4. ASSUME NEW c \in Conns, NEW v \in Users, accept_friend_invite(usr_id[c], v)
      PROVE  OneRowPerPair'
  <2> SUFFICES ASSUME ~strayed', NEW s1 \in rows', NEW s2 \in rows',
                      {s1.sender, s1.receiver} = {s2.sender, s2.receiver}
               PROVE  s1 = s2
    OBVIOUS
  <2>1. PICK r1 \in rows : /\ s1 = IF r1 \in Between(usr_id[c], v) THEN [r1 EXCEPT !.accepted = TRUE] ELSE r1
                           /\ s1.sender = r1.sender /\ s1.receiver = r1.receiver
    BY <1>4, AcceptStep
  <2>2. PICK r2 \in rows : /\ s2 = IF r2 \in Between(usr_id[c], v) THEN [r2 EXCEPT !.accepted = TRUE] ELSE r2
                           /\ s2.sender = r2.sender /\ s2.receiver = r2.receiver
    BY <1>4, AcceptStep
  <2>3. r1 = r2
    BY <1>1, <2>1, <2>2
  <2> QED
    BY <2>1, <2>2, <2>3
<1> QED
  BY <1>2, <1>3, <1>4, RowsStep

-----------------------------------------------------------------------------
(* Requests and those who are told of them                                 *)

(* A request its receiver's client has not been told of, and where the     *)
(* news of it may be.                                                      *)
Untold(c, r) ==
  /\ stage[c] \in {"answered", "in"} /\ usr_id[c] = r.receiver
  /\ ~r.accepted /\ ~strayed /\ r.receiver \notin shared
  /\ r.sender \notin told[c]
(* The news of a request is in the broker's queue or in the session's.     *)
OnTheWay(c, r) == Holds(inbox, [from |-> r.sender, receiver |-> r.receiver]) \/ Holds(sub[c], r.sender)

LEMMA ToldMeans == RequestTold <=> \A c \in Conns, r \in rows : Untold(c, r) => OnTheWay(c, r)
BY DEF RequestTold, Untold, OnTheWay, Holds

(* Steps that make no request, read no queue and let no client forget.     *)
LEMMA KeepsTold ==
  ASSUME RequestTold, shared \subseteq shared', strayed => strayed',
         \A s \in rows' : ~s.accepted => s \in rows,
         \A c \in Conns : stage'[c] \in {"answered", "in"} =>
            stage[c] \in {"answered", "in"} /\ usr_id'[c] = usr_id[c] /\ told'[c] = told[c],
         \A c \in Conns : stage'[c] \in {"answered", "in"} => \A x : Holds(sub[c], x) => Holds(sub'[c], x),
         \A x : Holds(inbox, x) => Holds(inbox', x)
  PROVE  RequestTold'
<1> SUFFICES ASSUME NEW c \in Conns, NEW r \in rows', Untold(c, r)' PROVE OnTheWay(c, r)'
  BY DEF RequestTold, Untold, OnTheWay, Holds
<1>1. r \in rows /\ Untold(c, r)
  BY DEF Untold
<1>2. OnTheWay(c, r)
  BY <1>1, ToldMeans
<1> QED
  BY <1>2 DEF OnTheWay, Untold

(* Every operation keeps the requests told.                                *)
LEMMA StepTold ==
  ASSUME FriendsAssumption, TypeOK, SessionInv, SenderInv, ConnectedInv, RequestTold, Next
  PROVE  RequestTold'
<1>0. shared \subseteq shared' /\ (strayed => strayed')
  BY HistoryGrows
<1>1. ASSUME NEW c \in Conns, NEW u \in Users, Login(c, u)
      PROVE  RequestTold'
  <2>1. stage' = [stage EXCEPT ![c] = "authenticated"]
    BY <1>1 DEF Login
  <2>2. /\ usr_id' = [usr_id EXCEPT ![c] = u] /\ told' = [told EXCEPT ![c] = {}]
        /\ UNCHANGED <<rows, inbox, sub>>
    BY <1>1 DEF Login, queues
  <2> QED
    BY <1>0, <2>1, <2>2, KeepsTold DEF TypeOK
<1>2. ASSUME NEW d \in Conns, NEW v \in Users, AskFriendship(d, v)
      PROVE  RequestTold'
  <2>1. usr_id[d] \in Users
    BY <1>2 DEF AskFriendship, Request, SessionInv, TypeOK
  <2>2. UNCHANGED <<connected, stage, usr_id, told, sub, shared, strayed>>
    BY <1>2 DEF AskFriendship, session
  <2>3. CASE UNCHANGED <<rows, inbox>>
    BY <1>0, <2>2, <2>3, KeepsTold
  <2>4. CASE add_friend(usr_id[d], v) /\ Invite(usr_id[d], v)
    <3> DEFINE n == [key |-> next_key, sender |-> usr_id[d], receiver |-> v, accepted |-> FALSE]
    <3>1. rows' = rows \cup {n} /\ n.sender = usr_id[d] /\ n.receiver = v
      BY <2>4 DEF add_friend
    <3>2. /\ \A x : Holds(inbox, x) => Holds(inbox', x)
          /\ connected[v] => Holds(inbox', [from |-> usr_id[d], receiver |-> v])
      BY <2>1, <2>4, InviteTyped
    <3> HIDE DEF n
    <3> SUFFICES ASSUME NEW c \in Conns, NEW r \in rows', Untold(c, r)'
                 PROVE  OnTheWay(c, r)'
      BY DEF RequestTold, Untold, OnTheWay, Holds
    <3>3. Untold(c, r)
      BY <2>2 DEF Untold
    <3>4. CASE r \in rows
      <4>1. OnTheWay(c, r)
        BY <3>3, <3>4, ToldMeans
      <4> QED
        BY <2>2, <3>2, <4>1 DEF OnTheWay
    <3>5. CASE r = n
      <4>1. usr_id[c] = v /\ v \notin shared
        BY <3>1, <3>3, <3>5 DEF Untold
      <4>2. connected[v]
        BY <4>1 DEF ConnectedInv, FriendsAssumption
      <4> QED
        BY <3>1, <3>2, <3>5, <4>2 DEF OnTheWay
    <3> QED
      BY <3>1, <3>4, <3>5
  <2> QED
    BY <1>2, <2>3, <2>4 DEF AskFriendship
<1>3. ASSUME NEW d \in Conns, NEW v \in Users, AcceptFriendship(d, v)
      PROVE  RequestTold'
  <2>1. UNCHANGED <<stage, usr_id, told, inbox, sub>>
    BY <1>3 DEF AcceptFriendship, session, queues
  <2>2. \A s \in rows' : ~s.accepted => s \in rows
    BY <1>3, AcceptStep DEF AcceptFriendship, remove_friend
  <2> QED
    BY <1>0, <2>1, <2>2, KeepsTold
<1>4. ASSUME NEW d \in Conns, NEW v \in Users, DeleteFriendship(d, v)
      PROVE  RequestTold'
  <2>1. UNCHANGED <<stage, usr_id, told, inbox, sub>> /\ rows' \subseteq rows
    BY <1>4 DEF DeleteFriendship, remove_friend, session, queues, history
  <2> QED
    BY <1>0, <2>1, KeepsTold
<1>5. ASSUME NEW d \in Conns, Subscribe(d) \/ Deco(d)
      PROVE  RequestTold'
  <2>1. UNCHANGED <<rows, told, inbox, sub>>
    BY <1>5 DEF Subscribe, Deco, tables, queues, history
  <2>2. \/ stage' = [stage EXCEPT ![d] = "subscribed"] /\ usr_id' = usr_id
        \/ stage' = [stage EXCEPT ![d] = "out"] /\ usr_id' = [usr_id EXCEPT ![d] = NoUser]
    BY <1>5 DEF Subscribe, Deco
  <2> QED
    BY <1>0, <2>1, <2>2, KeepsTold DEF TypeOK
<1>6. ASSUME NEW d \in Conns, Close(d)
      PROVE  RequestTold'
  <2>1. UNCHANGED <<rows, told, inbox>>
    BY <1>6 DEF Close, tables, history
  <2>2. /\ stage' = [stage EXCEPT ![d] = "out"] /\ usr_id' = [usr_id EXCEPT ![d] = NoUser]
        /\ sub' = [sub EXCEPT ![d] = <<>>]
    BY <1>6 DEF Close
  <2> QED
    BY <1>0, <2>1, <2>2, KeepsTold DEF TypeOK
<1>7. ASSUME NEW d \in Conns, AllInvitations(d)
      PROVE  RequestTold'
  <2>1. /\ UNCHANGED <<rows, registered, usr_id, inbox, sub, shared, strayed>>
        /\ stage' = [stage EXCEPT ![d] = "answered"]
        /\ told' = [told EXCEPT ![d] = @ \cup friend_invites(usr_id[d])]
    BY <1>7 DEF AllInvitations, tables, queues
  <2> SUFFICES ASSUME NEW c \in Conns, NEW r \in rows', Untold(c, r)'
               PROVE  OnTheWay(c, r)'
    BY DEF RequestTold, Untold, OnTheWay, Holds
  <2>2. CASE c # d
    <3>1. r \in rows /\ Untold(c, r)
      BY <2>1, <2>2 DEF Untold, TypeOK
    <3> QED
      BY <2>1, <3>1, ToldMeans DEF OnTheWay
  <2>3. CASE c = d
    <3>1. r \in rows /\ r.receiver = usr_id[d] /\ ~r.accepted
      BY <2>1, <2>3 DEF Untold
    <3>2. r.sender \in registered /\ r \in Between(usr_id[d], r.sender)
      BY <3>1 DEF SenderInv, Between
    <3>3. r.sender \in friend_invites(usr_id[d])
      BY <3>1, <3>2 DEF friend_invites
    <3> QED
      BY <2>1, <2>3, <3>3 DEF Untold, TypeOK
  <2> QED
    BY <2>2, <2>3
<1>8. ASSUME NEW d \in Conns, Replace(d)
      PROVE  RequestTold'
  <2>1. /\ UNCHANGED <<rows, told, inbox, sub, usr_id>>
        /\ stage[d] = "answered" /\ stage' = [stage EXCEPT ![d] = "in"]
    BY <1>8 DEF Replace, tables, queues, history
  <2> QED
    BY <1>0, <2>1, KeepsTold DEF TypeOK
<1>9. ASSUME NEW d \in Conns, AskUnknown(d)
      PROVE  RequestTold'
  BY <1>9 DEF AskUnknown, RequestTold
<1>10. ASSUME NEW d \in Conns, FriendshipList(d)
       PROVE  RequestTold'
  <2>1. UNCHANGED <<stage, usr_id, told, rows, inbox, sub>>
    BY <1>10 DEF FriendshipList, tables, session, queues, history
  <2> QED
    BY <1>0, <2>1, KeepsTold
<1>11. ASSUME NEW d \in Conns, ReceiveInvite(d)
       PROVE  RequestTold'
  <2>1. /\ UNCHANGED <<rows, usr_id, stage, inbox, shared, strayed>>
        /\ sub[d] # <<>> /\ sub' = [sub EXCEPT ![d] = Tail(@)]
        /\ told' = [told EXCEPT ![d] = @ \cup {Head(sub[d])}]
    BY <1>11 DEF ReceiveInvite, tables, session
  <2> SUFFICES ASSUME NEW c \in Conns, NEW r \in rows', Untold(c, r)'
               PROVE  OnTheWay(c, r)'
    BY DEF RequestTold, Untold, OnTheWay, Holds
  <2>2. r \in rows /\ Untold(c, r)
    BY <2>1 DEF Untold, TypeOK
  <2>3. OnTheWay(c, r)
    BY <2>2, ToldMeans
  <2>4. CASE c # d
    BY <2>1, <2>3, <2>4 DEF OnTheWay, TypeOK
  <2>5. CASE c = d
    <3>1. r.sender # Head(sub[d])
      BY <2>1, <2>5 DEF Untold, TypeOK
    <3>2. \A x : Holds(sub[d], x) => x = Head(sub[d]) \/ Holds(Tail(sub[d]), x)
      BY <2>1, TailHolds DEF TypeOK
    <3> QED
      BY <2>1, <2>3, <2>5, <3>1, <3>2 DEF OnTheWay, TypeOK
  <2> QED
    BY <2>4, <2>5
<1>12. ASSUME Redirect
       PROVE  RequestTold'
  <2> DEFINE m == Head(inbox)
  <2>1. /\ UNCHANGED <<rows, usr_id, stage, told, channels, shared, strayed>>
        /\ inbox # <<>> /\ inbox' = Tail(inbox)
        /\ sub' = [c \in Conns |-> IF m.receiver \in channels[c] THEN Append(sub[c], m.from) ELSE sub[c]]
    BY <1>12 DEF Redirect, tables, session, client, history
  <2>2. m \in [from : Users, receiver : Users]
    BY <2>1, ReadQueue DEF TypeOK
  <2>3. \A x : Holds(inbox, x) => x = m \/ Holds(inbox', x)
    BY <2>1, TailHolds DEF TypeOK
  <2> HIDE DEF m
  <2>4. \A c \in Conns : /\ \A x : Holds(sub[c], x) => Holds(sub'[c], x)
                         /\ m.receiver \in channels[c] => Holds(sub'[c], m.from)
    <3> TAKE c \in Conns
    <3>1. \A x : Holds(Append(sub[c], m.from), x) <=> Holds(sub[c], x) \/ x = m.from
      BY <2>2, AppendHolds DEF TypeOK
    <3> QED
      BY <2>1, <3>1
  <2> SUFFICES ASSUME NEW c \in Conns, NEW r \in rows', Untold(c, r)'
               PROVE  OnTheWay(c, r)'
    BY DEF RequestTold, Untold, OnTheWay, Holds
  <2>5. r \in rows /\ Untold(c, r) /\ r.receiver \in channels[c]
    BY <2>1 DEF Untold, SessionInv
  <2>6. OnTheWay(c, r)
    BY <2>5, ToldMeans
  <2>7. CASE m = [from |-> r.sender, receiver |-> r.receiver]
    BY <2>4, <2>5, <2>7 DEF OnTheWay
  <2>8. CASE m # [from |-> r.sender, receiver |-> r.receiver]
    BY <2>3, <2>4, <2>6, <2>8 DEF OnTheWay
  <2> QED
    BY <2>7, <2>8
<1> QED
  BY <1>1, <1>2, <1>3, <1>4, <1>5, <1>6, <1>7, <1>8, <1>9, <1>10, <1>11, <1>12 DEF Next

-----------------------------------------------------------------------------
(* Consent *)

LEMMA StepChannel ==
  ASSUME TypeOK, SessionInv, ChannelInv, Next
  PROVE  ChannelInv'
<1> USE DEF TypeOK, Stages, SessionInv, ChannelInv
<1>0. mixed => mixed'
  BY HistoryGrows
<1>1. ASSUME NEW c \in Conns, NEW u \in Users, Login(c, u)
      PROVE  ChannelInv'
  <2>1. CASE channels[c] \subseteq {u}
    <3>1. /\ usr_id' = [usr_id EXCEPT ![c] = u] /\ UNCHANGED channels
          /\ stage' = [stage EXCEPT ![c] = "authenticated"]
      BY <1>1 DEF Login
    <3> QED
      BY <1>0, <2>1, <3>1
  <2>2. CASE ~(channels[c] \subseteq {u})
    <3>1. channels[c] \ {u} # {}
      BY <2>2
    <3>2. mixed'
      BY <1>1, <3>1, Zenon DEF Login
    <3> QED
      BY <3>2
  <2> QED
    BY <2>1, <2>2
<1>2. ASSUME NEW c \in Conns, Subscribe(c)
      PROVE  ChannelInv'
  <2>1. /\ channels' = [channels EXCEPT ![c] = @ \cup {usr_id[c]}] /\ stage[c] = "authenticated"
        /\ stage' = [stage EXCEPT ![c] = "subscribed"] /\ UNCHANGED <<usr_id, mixed>>
    BY <1>2 DEF Subscribe, history
  <2> QED
    BY <2>1
<1>3. ASSUME NEW c \in Conns, Deco(c)
      PROVE  ChannelInv'
  BY <1>3 DEF Deco, history
<1>4. ASSUME NEW c \in Conns, Close(c)
      PROVE  ChannelInv'
  BY <1>4 DEF Close, history
<1>5. ASSUME NEW c \in Conns, AllInvitations(c) \/ Replace(c)
      PROVE  ChannelInv'
  <2>1. /\ UNCHANGED <<usr_id, channels, mixed>> /\ stage[c] # "out"
        /\ stage' = [stage EXCEPT ![c] = "answered"] \/ stage' = [stage EXCEPT ![c] = "in"]
    BY <1>5 DEF AllInvitations, Replace, history
  <2>2. \A d \in Conns : stage'[d] # "out" => stage[d] # "out"
    BY <2>1
  <2> QED
    BY <2>1, <2>2
<1>6. ASSUME UNCHANGED <<session, mixed>>
      PROVE  ChannelInv'
  BY <1>6 DEF session
<1>7. ASSUME NEW c \in Conns, NEW v \in Users,
             AskFriendship(c, v) \/ AcceptFriendship(c, v) \/ DeleteFriendship(c, v)
      PROVE  ChannelInv'
  BY <1>6, <1>7 DEF AskFriendship, AcceptFriendship, DeleteFriendship, history
<1>8. ASSUME NEW c \in Conns, AskUnknown(c) \/ FriendshipList(c) \/ ReceiveInvite(c)
      PROVE  ChannelInv'
  BY <1>6, <1>8 DEF AskUnknown, FriendshipList, ReceiveInvite, history
<1>9. ASSUME Redirect
      PROVE  ChannelInv'
  BY <1>6, <1>9 DEF Redirect, history
<1> QED
  BY <1>1, <1>2, <1>3, <1>4, <1>5, <1>7, <1>8, <1>9 DEF Next

(* Who sent a row, or an invitation to the broker, was willing.            *)
SentByWilling(s, w) == \A r \in s : <<r.sender, r.receiver>> \in w
QueuedByWilling(q, w) == \A x : Holds(q, x) => <<x.from, x.receiver>> \in w
LEMMA SentMeans == SentInv <=> (~strayed => SentByWilling(rows, willing) /\ QueuedByWilling(inbox, willing))
BY DEF SentInv, SentByWilling, QueuedByWilling, Holds

(* Every operation keeps requests willing.                                 *)
LEMMA StepSent ==
  ASSUME TypeOK, SessionInv, SentInv, Next
  PROVE  SentInv'
<1>0. willing \subseteq willing' /\ (strayed => strayed')
  BY HistoryGrows
<1>1. ASSUME rows' \subseteq rows, \A x : Holds(inbox', x) => Holds(inbox, x)
      PROVE  SentInv'
  BY <1>0, <1>1 DEF SentInv, Holds
<1>2. ASSUME NEW c \in Conns, NEW v \in Users, AskFriendship(c, v)
      PROVE  SentInv'
  <2>1. usr_id[c] \in Users
    BY <1>2 DEF AskFriendship, Request, SessionInv, TypeOK
  <2>2. CASE UNCHANGED <<rows, inbox>>
    BY <1>1, <2>2
  <2>3. CASE add_friend(usr_id[c], v) /\ Invite(usr_id[c], v)
    <3> DEFINE n == [key |-> next_key, sender |-> usr_id[c], receiver |-> v, accepted |-> FALSE]
               m == [from |-> usr_id[c], receiver |-> v]
    <3>1. rows' = rows \cup {n} /\ n.sender = usr_id[c] /\ n.receiver = v
      BY <2>3 DEF add_friend
    <3>2. (\A x : Holds(inbox', x) => Holds(inbox, x) \/ x = m) /\ m.from = usr_id[c] /\ m.receiver = v
      BY <2>1, <2>3, InviteTyped
    <3> HIDE DEF n, m
    <3>3. <<usr_id[c], v>> \in willing'
      BY <1>2 DEF AskFriendship
    <3>4. ~strayed' => SentByWilling(rows', willing') /\ QueuedByWilling(inbox', willing')
      BY <1>0, <3>1, <3>2, <3>3, SentMeans DEF SentByWilling, QueuedByWilling
    <3> QED
      BY <3>4 DEF SentInv, SentByWilling, QueuedByWilling, Holds
  <2> QED
    BY <1>2, <2>2, <2>3 DEF AskFriendship
<1>3. ASSUME NEW c \in Conns, NEW v \in Users, AcceptFriendship(c, v)
      PROVE  SentInv'
  <2>1. \A s \in rows' : \E r \in rows : s.sender = r.sender /\ s.receiver = r.receiver
    BY <1>3, AcceptStep DEF AcceptFriendship, remove_friend
  <2>2. inbox' = inbox
    BY <1>3 DEF AcceptFriendship, queues
  <2> QED
    BY <1>0, <2>1, <2>2 DEF SentInv
<1>4. ASSUME NEW c \in Conns, NEW v \in Users, Login(c, v) \/ DeleteFriendship(c, v)
      PROVE  SentInv'
  BY <1>1, <1>4 DEF Login, DeleteFriendship, remove_friend, queues
<1>5. ASSUME NEW c \in Conns, Subscribe(c) \/ AllInvitations(c) \/ Replace(c) \/ FriendshipList(c) \/ Deco(c)
                              \/ Close(c) \/ ReceiveInvite(c)
      PROVE  SentInv'
  BY <1>1, <1>5 DEF Subscribe, AllInvitations, Replace, FriendshipList, Deco, Close, ReceiveInvite, tables, queues
<1>6. ASSUME NEW c \in Conns, AskUnknown(c)
      PROVE  SentInv'
  BY <1>6 DEF AskUnknown, SentInv
<1>7. ASSUME Redirect
      PROVE  SentInv'
  <2>1. inbox # <<>> /\ inbox' = Tail(inbox) /\ rows' = rows
    BY <1>7 DEF Redirect, tables
  <2>2. \A x : Holds(inbox', x) => Holds(inbox, x)
    BY <2>1, TailHolds DEF TypeOK
  <2> QED
    BY <1>1, <2>1, <2>2
<1> QED
  BY <1>2, <1>3, <1>4, <1>5, <1>6, <1>7 DEF Next

(* A client that heard of v's request was told on the channel of a user    *)
(* whom v asked.                                                           *)
Asked(c, v) == \E u \in channels[c] : <<v, u>> \in willing
LEMMA HeardMeans ==
  HeardInv <=> (~mixed /\ ~strayed => \A c \in Conns, v \in Users :
                  v \in answer[c] \/ invits[c][v] > 0 \/ Holds(sub[c], v) => Asked(c, v))
BY DEF HeardInv, Heard, Asked, Holds

(* Steps that tell no client anything new.                                 *)
LEMMA KeepsHeard ==
  ASSUME HeardInv, willing \subseteq willing', mixed => mixed', strayed => strayed',
         \A c \in Conns : \/ /\ channels[c] \subseteq channels'[c]
                             /\ \A v \in Users :
                                   v \in answer'[c] \/ invits'[c][v] > 0 \/ Holds(sub'[c], v) =>
                                   v \in answer[c] \/ invits[c][v] > 0 \/ Holds(sub[c], v)
                          \/ \A v \in Users : v \notin answer'[c] /\ ~(invits'[c][v] > 0) /\ ~Holds(sub'[c], v)
  PROVE  HeardInv'
<1> SUFFICES ASSUME ~mixed', ~strayed', NEW c \in Conns, NEW v \in Users,
                    v \in answer'[c] \/ invits'[c][v] > 0 \/ Holds(sub'[c], v)
             PROVE  Asked(c, v)'
  BY DEF HeardInv, Heard, Asked, Holds
<1>1. Asked(c, v) /\ channels[c] \subseteq channels'[c]
  BY HeardMeans
<1> QED
  BY <1>1 DEF Asked

(* What clients hear of comes from the table or through the broker.        *)
LEMMA StepHeard ==
  ASSUME FriendsAssumption, TypeOK, SessionInv, ChannelInv, SentInv, HeardInv, Next
  PROVE  HeardInv'
<1>0. willing \subseteq willing' /\ (mixed => mixed') /\ (strayed => strayed')
  BY HistoryGrows
<1>1. ASSUME UNCHANGED <<answer, invits, sub>>, \A c \in Conns : channels[c] \subseteq channels'[c]
      PROVE  HeardInv'
  BY <1>0, <1>1, KeepsHeard
<1>2. ASSUME NEW c \in Conns, NEW v \in Users, Login(c, v) \/ AskFriendship(c, v) \/ DeleteFriendship(c, v)
      PROVE  HeardInv'
  BY <1>1, <1>2 DEF Login, AskFriendship, DeleteFriendship, client, session, queues
<1>3. ASSUME NEW c \in Conns, Subscribe(c) \/ AskUnknown(c) \/ FriendshipList(c) \/ Deco(c)
      PROVE  HeardInv'
  <2>1. UNCHANGED <<answer, invits, sub>>
    BY <1>3 DEF Subscribe, AskUnknown, FriendshipList, Deco, client, queues
  <2>2. channels' = channels \/ channels' = [channels EXCEPT ![c] = @ \cup {usr_id[c]}]
    BY <1>3 DEF Subscribe, AskUnknown, FriendshipList, Deco, session
  <2>3. \A d \in Conns : channels[d] \subseteq channels'[d]
    <3>1. CASE channels' = channels
      BY <3>1
    <3>2. CASE channels' = [channels EXCEPT ![c] = @ \cup {usr_id[c]}]
      BY <3>2 DEF TypeOK
    <3> QED
      BY <2>2, <3>1, <3>2
  <2> QED
    BY <1>1, <2>1, <2>3
<1>4. ASSUME NEW c \in Conns, NEW v \in Users, AcceptFriendship(c, v)
      PROVE  HeardInv'
  <2>1. /\ invits' = [invits EXCEPT ![c][v] = @ - 1] /\ UNCHANGED <<channels, answer, sub>>
        /\ invits[c][v] > 0
    BY <1>4 DEF AcceptFriendship, session, queues
  <2>2. \A d \in Conns, w \in Users : invits'[d][w] > 0 => invits[d][w] > 0
    BY <2>1 DEF TypeOK
  <2> QED
    BY <1>0, <2>1, <2>2, KeepsHeard
<1>5. ASSUME NEW c \in Conns, Close(c)
      PROVE  HeardInv'
  <2>1. /\ answer' = [answer EXCEPT ![c] = {}] /\ invits' = [invits EXCEPT ![c] = None]
        /\ sub' = [sub EXCEPT ![c] = <<>>] /\ channels' = [channels EXCEPT ![c] = {}]
    BY <1>5 DEF Close
  <2>2. \A v \in Users : v \notin answer'[c] /\ ~(invits'[c][v] > 0) /\ ~Holds(sub'[c], v)
    BY <2>1, EmptyHolds DEF TypeOK, None
  <2>3. \A d \in Conns \ {c} : answer'[d] = answer[d] /\ invits'[d] = invits[d] /\ sub'[d] = sub[d]
                               /\ channels'[d] = channels[d]
    BY <2>1 DEF TypeOK
  <2> QED
    BY <1>0, <2>2, <2>3, KeepsHeard
<1>6. ASSUME NEW c \in Conns, AllInvitations(c)
      PROVE  HeardInv'
  <2>1. /\ answer' = [answer EXCEPT ![c] = friend_invites(usr_id[c])]
        /\ UNCHANGED <<channels, invits, sub, willing, mixed, strayed>> /\ stage[c] = "subscribed"
    BY <1>6 DEF AllInvitations, queues
  <2>2. usr_id[c] \in channels[c] /\ usr_id[c] \in Users
    BY <2>1 DEF SessionInv, TypeOK
  <2>3. ASSUME ~strayed, NEW v \in friend_invites(usr_id[c])
        PROVE  <<v, usr_id[c]>> \in willing
    <3>1. PICK r \in Between(usr_id[c], v) : r.receiver = usr_id[c]
      BY <2>3 DEF friend_invites
    <3>2. r \in rows /\ {r.sender, r.receiver} = {usr_id[c], v}
      BY <3>1 DEF Between
    <3>3. r.sender = v
      BY <3>1, <3>2
    <3> QED
      BY <2>3, <3>1, <3>2, <3>3 DEF SentInv
  <2> SUFFICES ASSUME ~mixed', ~strayed', NEW d \in Conns, NEW v \in Users,
                      v \in answer'[d] \/ invits'[d][v] > 0 \/ Holds(sub'[d], v)
               PROVE  Asked(d, v)'
    BY DEF HeardInv, Heard, Asked, Holds
  <2>4. CASE v \in answer[d] \/ invits[d][v] > 0 \/ Holds(sub[d], v)
    BY <2>1, <2>4, HeardMeans DEF Asked
  <2>5. CASE d = c /\ v \in friend_invites(usr_id[c])
    BY <2>1, <2>2, <2>3, <2>5 DEF Asked
  <2> QED
    BY <2>1, <2>4, <2>5 DEF TypeOK
<1>7. ASSUME NEW c \in Conns, Replace(c)
      PROVE  HeardInv'
  <2>1. /\ answer' = [answer EXCEPT ![c] = {}] /\ UNCHANGED <<channels, sub, willing, mixed, strayed>>
        /\ invits' = [invits EXCEPT ![c] = [u \in Users |-> IF u \in answer[c] THEN 1 ELSE 0]]
    BY <1>7 DEF Replace, queues, history
  <2> SUFFICES ASSUME ~mixed', ~strayed', NEW d \in Conns, NEW v \in Users,
                      v \in answer'[d] \/ invits'[d][v] > 0 \/ Holds(sub'[d], v)
               PROVE  Asked(d, v)'
    BY DEF HeardInv, Heard, Asked, Holds
  <2>2. v \in answer'[d] => v \in answer[d]
    BY <2>1 DEF TypeOK
  <2>3. invits'[d][v] > 0 => invits[d][v] > 0 \/ v \in answer[d]
    BY <2>1 DEF TypeOK
  <2>4. Asked(d, v)
    BY <2>1, <2>2, <2>3, HeardMeans
  <2> QED
    BY <2>1, <2>4 DEF Asked
<1>8. ASSUME NEW c \in Conns, ReceiveInvite(c)
      PROVE  HeardInv'
  <2>1. /\ sub[c] # <<>> /\ sub' = [sub EXCEPT ![c] = Tail(@)] /\ UNCHANGED <<channels, answer, willing, mixed, strayed>>
        /\ invits' = [invits EXCEPT ![c][Head(sub[c])] = @ + 1]
    BY <1>8 DEF ReceiveInvite, session
  <2>2. \A x : Holds(sub[c], x) <=> x = Head(sub[c]) \/ Holds(Tail(sub[c]), x)
    BY <2>1, TailHolds DEF TypeOK
  <2> SUFFICES ASSUME ~mixed', ~strayed', NEW d \in Conns, NEW v \in Users,
                      v \in answer'[d] \/ invits'[d][v] > 0 \/ Holds(sub'[d], v)
               PROVE  Asked(d, v)'
    BY DEF HeardInv, Heard, Asked, Holds
  <2>3. Holds(sub'[d], v) => Holds(sub[d], v)
    BY <2>1, <2>2 DEF TypeOK
  <2>4. invits'[d][v] > 0 => invits[d][v] > 0 \/ Holds(sub[d], v)
    BY <2>1, <2>2 DEF TypeOK
  <2>5. Asked(d, v)
    BY <2>1, <2>3, <2>4, HeardMeans
  <2> QED
    BY <2>1, <2>5 DEF Asked
<1>9. ASSUME Redirect
      PROVE  HeardInv'
  <2> DEFINE m == Head(inbox)
  <2>1. /\ UNCHANGED <<channels, answer, invits, willing, mixed, strayed>> /\ inbox # <<>>
        /\ sub' = [c \in Conns |-> IF m.receiver \in channels[c] THEN Append(sub[c], m.from) ELSE sub[c]]
    BY <1>9 DEF Redirect, session, client, history
  <2>2. m \in [from : Users, receiver : Users] /\ Holds(inbox, m)
    BY <2>1, ReadQueue, TailHolds DEF TypeOK
  <2>3. ~strayed => <<m.from, m.receiver>> \in willing
    BY <2>2, SentMeans DEF QueuedByWilling
  <2> HIDE DEF m
  <2> SUFFICES ASSUME ~mixed', ~strayed', NEW d \in Conns, NEW v \in Users,
                      v \in answer'[d] \/ invits'[d][v] > 0 \/ Holds(sub'[d], v)
               PROVE  Asked(d, v)'
    BY DEF HeardInv, Heard, Asked, Holds
  <2>4. \A x : Holds(Append(sub[d], m.from), x) <=> Holds(sub[d], x) \/ x = m.from
    BY <2>2, AppendHolds DEF TypeOK
  <2>5. Holds(sub'[d], v) => Holds(sub[d], v) \/ (v = m.from /\ m.receiver \in channels[d])
    BY <2>1, <2>4
  <2>6. CASE v \in answer[d] \/ invits[d][v] > 0 \/ Holds(sub[d], v)
    BY <2>1, <2>6, HeardMeans DEF Asked
  <2>7. CASE v = m.from /\ m.receiver \in channels[d]
    BY <2>1, <2>3, <2>7 DEF Asked
  <2> QED
    BY <2>1, <2>5, <2>6, <2>7
<1> QED
  BY <1>2, <1>3, <1>4, <1>5, <1>6, <1>7, <1>8, <1>9 DEF Next

(* Every operation keeps friendships consented.                            *)
LEMMA StepConsents ==
  ASSUME FriendsAssumption, TypeOK, SessionInv, ChannelInv, HeardInv, ConsentsUnlessMixed, Next
  PROVE  ConsentsUnlessMixed'
<1>0. willing \subseteq willing' /\ (mixed => mixed') /\ (strayed => strayed')
  BY HistoryGrows
<1> SUFFICES ASSUME ~mixed', ~strayed', NEW s \in rows', s.accepted
             PROVE  <<s.sender, s.receiver>> \in willing' /\ <<s.receiver, s.sender>> \in willing'
  BY DEF ConsentsUnlessMixed, Consents
<1>1. \A r \in rows : r.accepted => <<r.sender, r.receiver>> \in willing /\ <<r.receiver, r.sender>> \in willing
  BY <1>0 DEF ConsentsUnlessMixed, Consents
<1>2. CASE rows' \subseteq rows
  BY <1>0, <1>1, <1>2
<1>3. ASSUME NEW u, NEW v, add_friend(u, v)
      PROVE  s \in rows
  BY <1>3 DEF add_friend
<1>4. ASSUME NEW c \in Conns, NEW v \in Users, AcceptFriendship(c, v), accept_friend_invite(usr_id[c], v),
             ~(rows' \subseteq rows)
      PROVE  <<s.sender, s.receiver>> \in willing' /\ <<s.receiver, s.sender>> \in willing'
  <2>1. invits[c][v] > 0 /\ stage[c] = "in" /\ usr_id[c] \in Users
    BY <1>4 DEF AcceptFriendship, Request, SessionInv, TypeOK
  <2>2. PICK r \in rows : /\ s.sender = r.sender /\ s.receiver = r.receiver
                          /\ s.accepted => r.accepted \/ r \in Between(usr_id[c], v)
    BY <1>4, AcceptStep
  <2>3. CASE r.accepted
    BY <1>0, <1>1, <2>2, <2>3
  <2>4. CASE r \in Between(usr_id[c], v)
    <3>1. {r.sender, r.receiver} = {usr_id[c], v}
      BY <2>4 DEF Between
    <3>2. Asked(c, v)
      BY <1>0, <2>1, HeardMeans
    <3>3. <<v, usr_id[c]>> \in willing
      BY <1>0, <2>1, <3>2 DEF Asked, ChannelInv
    <3>4. <<usr_id[c], v>> \in willing'
      <4>1. \/ willing' = willing \cup {<<usr_id[c], v>>}
            \/ remove_friend(usr_id[c], v)
        BY <1>4 DEF AcceptFriendship
      <4>2. CASE remove_friend(usr_id[c], v)
        BY <1>4, <4>2 DEF remove_friend
      <4> QED
        BY <4>1, <4>2
    <3> QED
      BY <1>0, <2>2, <3>1, <3>3, <3>4
  <2> QED
    BY <2>2, <2>3, <2>4
<1> QED
  BY <1>0, <1>1, <1>2, <1>3, <1>4, RowsStep

(* Every operation keeps the invariant.                                    *)
LEMMA StepIInv ==
  ASSUME FriendsAssumption, IInv, Next
  PROVE  IInv'
<1>1. TypeOK' /\ SessionInv' /\ SenderInv' /\ ConnectedInv'
  BY StepTypeOK, StepSession, StepSender DEF IInv
<1>2. OneRowPerPair' /\ RequestTold'
  BY StepOneRow, StepTold DEF IInv
<1>3. ChannelInv' /\ SentInv' /\ HeardInv' /\ ConsentsUnlessMixed'
  BY StepChannel, StepSent, StepHeard, StepConsents DEF IInv
<1> QED
  BY <1>1, <1>2, <1>3 DEF IInv

-----------------------------------------------------------------------------
LEMMA FriendsIInv == Spec => []IInv
<1>1. IInv /\ [Next]_vars => IInv'
  BY FriendsAssumption, StepIInv, StutterIInv
<1> QED
  BY <1>1, InitIInv, PTL DEF Spec

(* The tables, the sessions, the queues and what the clients have stay     *)
(* well-formed; in particular no count of invitations becomes negative.    *)
THEOREM FriendsTyped == Spec => []TypeOK
<1>1. IInv => TypeOK
  BY DEF IInv
<1> QED
  BY <1>1, FriendsIInv, PTL

(* Whatever the order of their requests, acceptances and removals, two     *)
(* users share one row of the table friends at most.                       *)
THEOREM OneRow == Spec => []OneRowPerPair
<1>1. IInv => OneRowPerPair
  BY DEF IInv
<1> QED
  BY <1>1, FriendsIInv, PTL

(* No one becomes a friend without having asked for it or accepted it,     *)
(* unless two accounts used one connection or a request strayed.           *)
THEOREM ConsentGiven == Spec => []ConsentsUnlessMixed
<1>1. IInv => ConsentsUnlessMixed
  BY DEF IInv
<1> QED
  BY <1>1, FriendsIInv, PTL

(* No request is lost: a client past its first answer has been told of     *)
(* every request that waits for its user, or the news is in a queue that   *)
(* leads to it.                                                            *)
THEOREM RequestsTold == Spec => []RequestTold
<1>1. IInv => RequestTold
  BY DEF IInv
<1> QED
  BY <1>1, FriendsIInv, PTL

=============================================================================
