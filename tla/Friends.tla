------------------------------ MODULE Friends -------------------------------
(***************************************************************************)
(* Accounts and friendships: the instructions of a session that concern    *)
(* them (utils.cpp:47-307, one at a time under DataBase_mutex, see Locks), *)
(* the tables users and friends (database.cpp), the way of an invitation   *)
(* through the broker, and the invitations a client keeps                  *)
(* (client_Friends.cpp, client_menu.cpp:131-151).                          *)
(*                                                                         *)
(* Abstractions.  A user is its name and its id.  What a client sends and  *)
(* what its session does with it is one step: only the client removes from *)
(* its list, so what it chose is still there when its message is read.     *)
(* Rooms, chat and the other tables are left out.                          *)
(***************************************************************************)
EXTENDS Naturals, Sequences, FiniteSets

CONSTANTS
  Users,      \* accounts, registered or not
  Conns,      \* connections, that is sessions
  NoUser,     \* the id -1
  MaxAsks,    \* bound on the requests made
  MaxLogins,  \* bound on the logins
  QueueMax    \* bound on the messages waiting for the broker or a session

ASSUME FriendsAssumption ==
  /\ NoUser \notin Users
  /\ MaxAsks \in Nat /\ MaxLogins \in Nat /\ QueueMax \in Nat

VARIABLES
  registered, connected,  \* table users
  rows, next_key,         \* table friends
  usr_id,                 \* the user of each session
  channels,               \* the users whose channels it subscribed to
  stage,                  \* where each connection is
  inbox, sub,             \* the SUB socket of the broker and of each session
  answer, invits, shown,  \* a client: the answer it waited for, its invitations, its friends
  asks, logins,           \* counters, for the bounds
  willing, told,          \* history: who asked or accepted whom, what each client was told
  shared, mixed, strayed  \* history: see the properties

tables  == <<registered, connected, rows, next_key>>
session == <<usr_id, channels, stage>>
client  == <<answer, invits, shown>>
queues  == <<inbox, sub>>
history == <<willing, told, shared, mixed, strayed>>
vars    == <<tables, session, client, queues, asks, logins, history>>

None == [u \in Users |-> 0]

Init ==
  /\ registered = {} /\ connected = [u \in Users |-> FALSE]
  /\ rows = {} /\ next_key = 1
  /\ usr_id = [c \in Conns |-> NoUser]
  /\ channels = [c \in Conns |-> {}]
  /\ stage = [c \in Conns |-> "out"]
  /\ inbox = <<>>
  /\ sub = [c \in Conns |-> <<>>]
  /\ answer = [c \in Conns |-> {}]
  /\ invits = [c \in Conns |-> None]
  /\ shown = [c \in Conns |-> {}]
  /\ asks = 0 /\ logins = 0
  /\ willing = {} /\ told = [c \in Conns |-> {}] /\ shared = {} /\ mixed = FALSE /\ strayed = FALSE

-----------------------------------------------------------------------------
(* The table friends *)
Between(u, v) == {r \in rows : {r.sender, r.receiver} = {u, v}}

all_friends(u) == {v \in registered : Between(u, v) # {}}    \* get_all_friend_list, by name
friend_list(u) == {v \in registered : \E r \in Between(u, v) : r.accepted}
friend_invites_both_ways(u) == {v \in registered : \E r \in Between(u, v) : ~r.accepted}
friend_invites(u) == {v \in registered : \E r \in Between(u, v) : ~r.accepted /\ r.receiver = u}

add_friend(u, v) ==
  /\ rows' = rows \cup {[key |-> next_key, sender |-> u, receiver |-> v, accepted |-> FALSE]}
  /\ next_key' = next_key + 1
accept_friend_invite(u, v) ==
  rows' = {IF r \in Between(u, v) THEN [r EXCEPT !.accepted = TRUE] ELSE r : r \in rows}
remove_friend(u, v) == rows' = rows \ Between(u, v)

(* An invitation that goes to a user thought online: to the broker.        *)
Invite(u, v) ==
  IF v \in Users /\ connected[v]
  THEN Len(inbox) < QueueMax /\ inbox' = Append(inbox, [from |-> u, receiver |-> v])
  ELSE UNCHANGED inbox

-----------------------------------------------------------------------------
(* The instructions.  A session reads its client when its SUB socket is    *)
(* silent, or before it authenticated.                                     *)
Login_silently(c, u) ==
  /\ stage[c] = "out" /\ sub[c] = <<>> /\ logins < MaxLogins
  /\ logins' = logins + 1
  /\ registered' = registered \cup {u}
  /\ usr_id' = [usr_id EXCEPT ![c] = u]
  /\ stage' = [stage EXCEPT ![c] = "authenticated"]
  /\ told' = [told EXCEPT ![c] = {}]
  /\ shared' = IF \E d \in Conns \ {c} : usr_id[d] = u THEN shared \cup {u} ELSE shared
  /\ mixed' = (mixed \/ channels[c] \ {u} # {})
  /\ UNCHANGED <<connected, rows, next_key, channels, client, queues, asks, willing, strayed>>
Login(c, u) ==
  /\ stage[c] = "out" /\ sub[c] = <<>> /\ logins < MaxLogins
  /\ logins' = logins + 1
  /\ registered' = registered \cup {u}
  /\ connected' = [connected EXCEPT ![u] = TRUE]
  /\ usr_id' = [usr_id EXCEPT ![c] = u]
  /\ stage' = [stage EXCEPT ![c] = "authenticated"]
  /\ told' = [told EXCEPT ![c] = {}]
  /\ shared' = IF \E d \in Conns \ {c} : usr_id[d] = u THEN shared \cup {u} ELSE shared
  /\ mixed' = (mixed \/ channels[c] \ {u} # {})
  /\ UNCHANGED <<rows, next_key, channels, client, queues, asks, willing, strayed>>

(* After handle_instruction returned USER_CONNECTED.                       *)
Subscribe(c) ==
  /\ stage[c] = "authenticated"
  /\ channels' = [channels EXCEPT ![c] = @ \cup {usr_id[c]}]
  /\ stage' = [stage EXCEPT ![c] = "subscribed"]
  /\ UNCHANGED <<tables, usr_id, client, queues, asks, logins, history>>

(* CLIENT_ASKS_ALL_INVITATIONS, the first thing a client asks              *)
AllInvitations(c) ==
  /\ stage[c] = "subscribed" /\ sub[c] = <<>>
  /\ answer' = [answer EXCEPT ![c] = friend_invites(usr_id[c])]
  /\ told' = [told EXCEPT ![c] = @ \cup friend_invites(usr_id[c])]
  /\ stage' = [stage EXCEPT ![c] = "answered"]
  /\ UNCHANGED <<tables, usr_id, channels, invits, shown, queues, asks, logins, willing, shared, mixed, strayed>>

(* The client replaces its list by the answer: what came between the       *)
(* answer and now is no longer in it.                                      *)
Replace(c) ==
  /\ stage[c] = "answered"
  /\ invits' = [invits EXCEPT ![c] = [u \in Users |-> IF u \in answer[c] THEN 1 ELSE 0]]
  /\ answer' = [answer EXCEPT ![c] = {}]
  /\ stage' = [stage EXCEPT ![c] = "in"]
  /\ UNCHANGED <<tables, usr_id, channels, shown, queues, asks, logins, history>>

Request(c) == stage[c] = "in" /\ sub[c] = <<>>

(* CLIENT_ASK_FRIENDSHIP for a name that exists                            *)
AskFriendship_one_way(c, v) ==
  /\ Request(c) /\ asks < MaxAsks /\ v \in registered
  /\ asks' = asks + 1
  /\ IF \E r \in rows : r.sender = usr_id[c] /\ r.receiver = v
     THEN UNCHANGED <<rows, next_key, inbox>>
     ELSE add_friend(usr_id[c], v) /\ Invite(usr_id[c], v)
  /\ willing' = willing \cup {<<usr_id[c], v>>}
  /\ UNCHANGED <<registered, connected, session, client, sub, logins, told, shared, mixed, strayed>>
AskFriendship(c, v) ==
  /\ Request(c) /\ asks < MaxAsks /\ v \in registered
  /\ asks' = asks + 1
  /\ IF v \in all_friends(usr_id[c])
     THEN UNCHANGED <<rows, next_key, inbox>>
     ELSE add_friend(usr_id[c], v) /\ Invite(usr_id[c], v)
  /\ willing' = willing \cup {<<usr_id[c], v>>}
  /\ UNCHANGED <<registered, connected, session, client, sub, logins, told, shared, mixed, strayed>>

(* ... and for one that does not: friend_id is not initialised.            *)
AskUnknown(c) ==
  /\ Request(c) /\ asks < MaxAsks /\ registered # Users
  /\ asks' = asks + 1
  /\ \E id \in Users \cup {NoUser} : add_friend(usr_id[c], id) /\ Invite(usr_id[c], id)
  /\ strayed' = TRUE
  /\ UNCHANGED <<registered, connected, session, client, sub, logins, willing, told, shared, mixed>>

(* CLIENT_ACCEPT_FRIENDSHIP, yes or no, for an entry of the list           *)
AcceptFriendship_twice(c, v) ==
  /\ Request(c) /\ v \in told[c]
  /\ invits' = [invits EXCEPT ![c][v] = @ - 1]
  /\ \/ accept_friend_invite(usr_id[c], v) /\ willing' = willing \cup {<<usr_id[c], v>>}
     \/ remove_friend(usr_id[c], v) /\ UNCHANGED willing
  /\ UNCHANGED <<registered, connected, next_key, session, answer, shown, queues, asks, logins,
                 told, shared, mixed, strayed>>
AcceptFriendship(c, v) ==
  /\ Request(c) /\ invits[c][v] > 0
  /\ invits' = [invits EXCEPT ![c][v] = @ - 1]
  /\ \/ accept_friend_invite(usr_id[c], v) /\ willing' = willing \cup {<<usr_id[c], v>>}
     \/ remove_friend(usr_id[c], v) /\ UNCHANGED willing
  /\ UNCHANGED <<registered, connected, next_key, session, answer, shown, queues, asks, logins,
                 told, shared, mixed, strayed>>

(* CLIENT_ASK_FRIENDSHIP_LIST, and CLIENT_DELETE_FRIENDSHIP of a friend    *)
(* that was in it                                                          *)
FriendshipList(c) ==
  /\ Request(c)
  /\ shown' = [shown EXCEPT ![c] = friend_list(usr_id[c])]
  /\ UNCHANGED <<tables, session, answer, invits, queues, asks, logins, history>>

DeleteFriendship(c, v) ==
  /\ Request(c) /\ v \in shown[c]
  /\ remove_friend(usr_id[c], v)
  /\ UNCHANGED <<registered, connected, next_key, session, client, queues, asks, logins, history>>

(* DECO: the session stays authenticated and subscribed.                   *)
Deco(c) ==
  /\ Request(c)
  /\ connected' = [connected EXCEPT ![usr_id[c]] = FALSE]
  /\ usr_id' = [usr_id EXCEPT ![c] = NoUser]
  /\ stage' = [stage EXCEPT ![c] = "out"]
  /\ UNCHANGED <<registered, rows, next_key, channels, client, queues, asks, logins, history>>

(* The connection closes at any time: connected stays true.                *)
Close(c) ==
  /\ stage[c] # "out"
  /\ usr_id' = [usr_id EXCEPT ![c] = NoUser]
  /\ channels' = [channels EXCEPT ![c] = {}]
  /\ stage' = [stage EXCEPT ![c] = "out"]
  /\ sub' = [sub EXCEPT ![c] = <<>>]
  /\ answer' = [answer EXCEPT ![c] = {}]
  /\ invits' = [invits EXCEPT ![c] = None]
  /\ shown' = [shown EXCEPT ![c] = {}]
  /\ UNCHANGED <<tables, inbox, asks, logins, history>>

-----------------------------------------------------------------------------
(* The broker redirects; a session passes on to its client.                *)
Redirect ==
  /\ inbox # <<>>
  /\ LET m == Head(inbox)
         to == {c \in Conns : m.receiver \in channels[c]}
     IN  /\ \A c \in to : Len(sub[c]) < QueueMax
         /\ sub' = [c \in Conns |-> IF c \in to THEN Append(sub[c], m.from) ELSE sub[c]]
  /\ inbox' = Tail(inbox)
  /\ UNCHANGED <<tables, session, client, asks, logins, history>>

ReceiveInvite(c) ==
  /\ sub[c] # <<>>
  /\ sub' = [sub EXCEPT ![c] = Tail(@)]
  /\ invits' = [invits EXCEPT ![c][Head(sub[c])] = @ + 1]
  /\ told' = [told EXCEPT ![c] = @ \cup {Head(sub[c])}]
  /\ UNCHANGED <<tables, session, answer, shown, inbox, asks, logins, willing, shared, mixed, strayed>>

Next ==
  \/ \E c \in Conns :
       \/ \E u \in Users :
            Login(c, u) \/ AskFriendship(c, u) \/ AcceptFriendship(c, u) \/ DeleteFriendship(c, u)
       \/ Subscribe(c) \/ AllInvitations(c) \/ Replace(c) \/ AskUnknown(c) \/ FriendshipList(c)
       \/ Deco(c) \/ Close(c) \/ ReceiveInvite(c)
  \/ Redirect

Spec == Init /\ [][Next]_vars

-----------------------------------------------------------------------------
(* Properties *)

Stages == {"out", "authenticated", "subscribed", "answered", "in"}
Rows == [key : Nat, sender : Users, receiver : Users \cup {NoUser}, accepted : BOOLEAN]

(* Types: init_db.cpp, user_thread.cpp:14-35, client.hpp.                  *)
TypeOK ==
  /\ registered \subseteq Users
  /\ connected \in [Users -> BOOLEAN]
  /\ rows \subseteq Rows
  /\ next_key \in Nat
  /\ usr_id \in [Conns -> Users \cup {NoUser}]
  /\ channels \in [Conns -> SUBSET Users]
  /\ stage \in [Conns -> Stages]
  /\ inbox \in Seq([from : Users, receiver : Users])
  /\ sub \in [Conns -> Seq(Users)]
  /\ answer \in [Conns -> SUBSET Users]
  /\ invits \in [Conns -> [Users -> Nat]]
  /\ shown \in [Conns -> SUBSET Users]
  /\ asks \in Nat /\ logins \in Nat
  /\ willing \subseteq Users \X Users
  /\ told \in [Conns -> SUBSET Users]
  /\ shared \subseteq Users
  /\ mixed \in BOOLEAN /\ strayed \in BOOLEAN

(* Two users have one row at most, whoever asked whom and however their    *)
(* requests crossed (utils.cpp:195-203), as long as no request went to a   *)
(* name without an account.                                                *)
OneRowPerPair ==
  ~strayed => \A r, s \in rows : {r.sender, r.receiver} = {s.sender, s.receiver} => r = s

(* Both users of a friendship have asked for it or accepted it, though     *)
(* accept_friend_invite (database.cpp:613) also accepts a request for the  *)
(* user who made it, and though a client's list may be stale.  A           *)
(* connection on which a second account logged in is the exception         *)
(* (Consents): it still hears the channel of the first.                    *)
Consents ==
  ~strayed => \A r \in rows : r.accepted =>
    <<r.sender, r.receiver>> \in willing /\ <<r.receiver, r.sender>> \in willing
ConsentsUnlessMixed == ~mixed => Consents

(* A client was told of each request that waits for its user: those made   *)
(* before it asked for them all were in the answer, and those made since   *)
(* reached the session, subscribed before (utils.cpp:204-220).             *)
RequestTold ==
  \A c \in Conns, r \in rows :
    /\ stage[c] \in {"answered", "in"} /\ usr_id[c] = r.receiver
    /\ ~r.accepted /\ ~strayed /\ r.receiver \notin shared
    /\ r.sender \notin told[c]
    => \/ \E i \in DOMAIN inbox : inbox[i] = [from |-> r.sender, receiver |-> r.receiver]
       \/ \E i \in DOMAIN sub[c] : sub[c][i] = r.sender

=============================================================================
