----------------------------- MODULE ClientSlot -----------------------------
(***************************************************************************)
(* The two threads of a client and the slot between them.  The network     *)
(* thread (Client::run, readMessage) puts one message at a time in msg and *)
(* files it in a vector when the interface did not ask for it; the         *)
(* interface thread asks the server and waits (waitAnswers), and empties   *)
(* the vectors (getNewMsg, getTableUpdate).                                *)
(*                                                                         *)
(* Abstractions.  A text is the rank of its message among those the server *)
(* sent.  There are five kinds of messages: notifications, the three parts *)
(* of a shot, the answer of a request, and a type that run() has no case   *)
(* for (PING, which a session in a room passes on).  sendMutex, taken by   *)
(* the interface thread only, is left out; msgMutex and the unlock of      *)
(* waitAnswers, which its thread does not hold, are not.                   *)
(***************************************************************************)
EXTENDS Naturals, Sequences, FiniteSets

CONSTANTS
  MaxSent,      \* bound on the messages the server sends of itself
  MaxNotices,   \* and on those of them that are no part of a shot
  MaxRequests   \* bound on the requests of the interface

ASSUME ClientSlotAssumption == MaxSent \in Nat /\ MaxNotices \in Nat /\ MaxRequests \in Nat

None == "none"                               \* msg.type = 0
Parts == <<"SHOOT", "UPDATE_WALL", "LOMB_DMG">>
PartTypes == {Parts[i] : i \in 1 .. 3}
Types == PartTypes \cup {"NOTIF", "ANSWER", "PING"}

VARIABLES
  wire,          \* sent by the server, not read yet
  sent, unasked, closed, \* the server: messages sent, those of itself, its end
  partsSent,     \* history: the parts of shots among them
  type, text,    \* msg
  msgMutex,      \* who has it
  net,           \* the network thread: "select", "text", "handle" or "dead"
  ui,            \* the interface: "idle", "clear" or a line of waitAnswers
  playing,       \* the interface shows the game, where it asks nothing
  messageRcv, tableUpdate,   \* the vectors
  asked, due,    \* requests made; the server has one to answer
  due_rank,      \* history: rank of the answer to the current request
  got,           \* history: what the last request returned, 0 before
  shown, drawn,  \* history: notifications and shots the interface took
  lost           \* history: waitAnswers has thrown a part away

server == <<sent, unasked, partsSent, closed>>
slot   == <<type, text>>
asking == <<asked, due, due_rank, got>>
filed  == <<messageRcv, tableUpdate>>
taken  == <<shown, drawn, lost>>
vars   == <<wire, server, slot, msgMutex, net, ui, playing, filed, asking, taken>>

Init ==
  /\ wire = <<>> /\ sent = 0 /\ unasked = 0 /\ partsSent = <<>> /\ closed = FALSE
  /\ type = None /\ text = 0
  /\ msgMutex = "free"
  /\ net = "select" /\ ui = "idle" /\ playing = FALSE
  /\ messageRcv = <<>> /\ tableUpdate = <<>>
  /\ asked = 0 /\ due = FALSE /\ due_rank = 0 /\ got = 0
  /\ shown = <<>> /\ drawn = <<>> /\ lost = FALSE

-----------------------------------------------------------------------------
(* The server *)
Send(t) ==
  /\ ~closed
  /\ sent' = sent + 1
  /\ wire' = Append(wire, [type |-> t, text |-> sent + 1])

Unasked == unasked < MaxSent /\ unasked' = unasked + 1

Notify ==
  /\ Unasked /\ unasked < MaxNotices + Len(partsSent)
  /\ \E t \in {"NOTIF", "PING"} : Send(t)
  /\ UNCHANGED <<partsSent, closed, slot, msgMutex, net, ui, playing, filed, asking, taken>>

(* SHOOT, UPDATE_WALL, LOMB_DMG: to every player, whatever his client shows.*)
Shot ==
  /\ Unasked
  /\ LET t == Parts[(Len(partsSent) % 3) + 1]
     IN  Send(t) /\ partsSent' = Append(partsSent, [type |-> t, text |-> sent + 1])
  /\ UNCHANGED <<closed, slot, msgMutex, net, ui, playing, filed, asking, taken>>

Answer ==
  /\ due /\ Send("ANSWER")
  /\ due' = FALSE /\ due_rank' = sent + 1
  /\ UNCHANGED <<unasked, partsSent, closed, slot, msgMutex, net, ui, playing, filed, asked, got, taken>>

Closes ==
  /\ ~closed /\ closed' = TRUE
  /\ UNCHANGED <<wire, sent, unasked, partsSent, slot, msgMutex, net, ui, playing, filed, asking, taken>>

-----------------------------------------------------------------------------
(* The network thread: readMessage, then the switch of run                 *)
Readable == wire # <<>> \/ closed

(* The message in the slot is not interpreted yet: it is not overwritten.  *)
ReadNothing ==
  /\ net = "select" /\ Readable /\ msgMutex = "free"
  /\ type # None
  /\ net' = "handle"
  /\ UNCHANGED <<wire, server, slot, msgMutex, ui, playing, filed, asking, taken>>

ReadType_unlocked ==
  /\ net = "select" /\ wire # <<>> /\ msgMutex = "free"
  /\ type = None
  /\ type' = Head(wire).type
  /\ net' = "text"
  /\ UNCHANGED <<wire, server, text, msgMutex, ui, playing, filed, asking, taken>>
ReadType ==
  /\ net = "select" /\ wire # <<>> /\ msgMutex = "free"
  /\ type = None
  /\ msgMutex' = "net"
  /\ type' = Head(wire).type
  /\ net' = "text"
  /\ UNCHANGED <<wire, server, text, ui, playing, filed, asking, taken>>

ReadText_keeps_mutex ==
  /\ net = "text"
  /\ text' = Head(wire).text
  /\ wire' = Tail(wire)
  /\ net' = "handle"
  /\ UNCHANGED <<server, type, msgMutex, ui, playing, filed, asking, taken>>
ReadText ==
  /\ net = "text"
  /\ text' = Head(wire).text
  /\ wire' = Tail(wire)
  /\ msgMutex' = "free"
  /\ net' = "handle"
  /\ UNCHANGED <<server, type, ui, playing, filed, asking, taken>>

(* The server closed: EXIT_FAILURE, and msgMutex is kept.                  *)
ReadEnd ==
  /\ net = "select" /\ wire = <<>> /\ closed /\ msgMutex = "free"
  /\ type = None
  /\ msgMutex' = "net"
  /\ net' = "dead"
  /\ UNCHANGED <<wire, server, slot, ui, playing, filed, asking, taken>>

Handle_keeps_type ==
  /\ net = "handle" /\ msgMutex = "free"
  /\ \/ /\ type = "NOTIF"
        /\ messageRcv' = Append(messageRcv, text)
        /\ UNCHANGED <<tableUpdate, type>>
     \/ /\ type \in PartTypes
        /\ tableUpdate' = Append(tableUpdate, [type |-> type, text |-> text])
        /\ type' = None
        /\ UNCHANGED messageRcv
     \/ /\ type \in {None, "ANSWER", "PING"}
        /\ UNCHANGED <<filed, type>>
  /\ net' = "select"
  /\ UNCHANGED <<wire, server, text, msgMutex, ui, playing, asking, taken>>
Handle_falls_through ==
  /\ net = "handle" /\ msgMutex = "free"
  /\ \/ /\ type = "NOTIF"
        /\ messageRcv' = Append(messageRcv, text)
        /\ tableUpdate' = Append(tableUpdate, [type |-> type, text |-> text])
        /\ type' = None
     \/ /\ type \in PartTypes
        /\ tableUpdate' = Append(tableUpdate, [type |-> type, text |-> text])
        /\ type' = None
        /\ UNCHANGED messageRcv
     \/ /\ type \in {None, "ANSWER", "PING"}
        /\ UNCHANGED <<filed, type>>
  /\ net' = "select"
  /\ UNCHANGED <<wire, server, text, msgMutex, ui, playing, asking, taken>>
Handle ==
  /\ net = "handle" /\ msgMutex = "free"
  /\ \/ /\ type = "NOTIF"
        /\ messageRcv' = Append(messageRcv, text)
        /\ type' = None
        /\ UNCHANGED tableUpdate
     \/ /\ type \in PartTypes
        /\ tableUpdate' = Append(tableUpdate, [type |-> type, text |-> text])
        /\ type' = None
        /\ UNCHANGED messageRcv
     \/ /\ type \in {None, "ANSWER", "PING"}
        /\ UNCHANGED <<filed, type>>
  /\ net' = "select"
  /\ UNCHANGED <<wire, server, text, msgMutex, ui, playing, asking, taken>>

Net == ReadNothing \/ ReadType \/ ReadText \/ ReadEnd \/ Handle

-----------------------------------------------------------------------------
(* The interface thread: waitAnswers, with the accesses to msg it makes    *)
(* without msgMutex as steps of their own.  The first one throws away what *)
(* the network thread has put in msg and not filed yet.                    *)
WaitAnswers ==
  /\ ui = "idle" /\ ~playing /\ asked < MaxRequests
  /\ type' = None
  /\ ui' = "send"
  /\ asked' = asked + 1
  /\ lost' = (lost \/ type \in PartTypes)
  /\ UNCHANGED <<wire, server, text, msgMutex, net, playing, filed, due, due_rank, got, shown, drawn>>

SendMessage ==
  /\ ui = "send"
  /\ due' = TRUE /\ due_rank' = 0
  /\ ui' = "poll"
  /\ UNCHANGED <<wire, server, slot, msgMutex, net, playing, filed, asked, got, taken>>

Poll ==
  /\ ui = "poll" /\ msgMutex = "free" /\ type = "ANSWER"
  /\ ui' = "take"
  /\ UNCHANGED <<wire, server, slot, msgMutex, net, playing, filed, asking, taken>>

Take ==
  /\ ui = "take"
  /\ type' = None
  /\ ui' = "copy"
  /\ UNCHANGED <<wire, server, text, msgMutex, net, playing, filed, asking, taken>>

Copy ==
  /\ ui = "copy"
  /\ got' = text
  /\ ui' = "unlock"
  /\ UNCHANGED <<wire, server, slot, msgMutex, net, playing, filed, asked, due, due_rank, taken>>

Unlock ==
  /\ ui = "unlock"
  /\ msgMutex' = "free"
  /\ ui' = "idle"
  /\ UNCHANGED <<wire, server, slot, net, playing, filed, asking, taken>>

(* getNewMsg: the vector is copied, then cleared, without a lock.          *)
CopyMessages ==
  /\ ui = "idle" /\ messageRcv # <<>>
  /\ shown' = shown \o messageRcv
  /\ ui' = "clear"
  /\ UNCHANGED <<wire, server, slot, msgMutex, net, playing, filed, asking, drawn, lost>>

ClearMessages ==
  /\ ui = "clear"
  /\ messageRcv' = <<>>
  /\ ui' = "idle"
  /\ UNCHANGED <<wire, server, slot, msgMutex, net, playing, tableUpdate, asking, taken>>

EnterGame ==
  /\ ui = "idle" /\ ~playing
  /\ playing' = TRUE
  /\ UNCHANGED <<wire, server, slot, msgMutex, net, ui, filed, asking, taken>>

(* Back to the menus, at the end of a game.                                *)
LeaveGame ==
  /\ ui = "idle" /\ playing
  /\ playing' = FALSE
  /\ UNCHANGED <<wire, server, slot, msgMutex, net, ui, filed, asking, taken>>

GetTableUpdate_from_three ==
  /\ ui = "idle" /\ playing /\ Len(tableUpdate) >= 2
  /\ drawn' = Append(drawn, tableUpdate)
  /\ tableUpdate' = <<>>
  /\ UNCHANGED <<wire, server, slot, msgMutex, net, ui, playing, messageRcv, asking, shown, lost>>
GetTableUpdate ==
  /\ ui = "idle" /\ playing /\ Len(tableUpdate) = 3
  /\ drawn' = Append(drawn, tableUpdate)
  /\ tableUpdate' = <<>>
  /\ UNCHANGED <<wire, server, slot, msgMutex, net, ui, playing, messageRcv, asking, shown, lost>>

Waiting == SendMessage \/ Poll \/ Take \/ Copy \/ Unlock
Interface == WaitAnswers \/ Waiting \/ CopyMessages \/ ClearMessages \/ EnterGame \/ LeaveGame \/ GetTableUpdate

Next == Notify \/ Shot \/ Answer \/ Closes \/ Net \/ Interface

Spec == Init /\ [][Next]_vars

(* Both threads run and the server answers what it was asked.              *)
Fairness == WF_vars(Net) /\ WF_vars(Waiting) /\ WF_vars(ClearMessages) /\ WF_vars(Answer)
FairSpec == Spec /\ Fairness

-----------------------------------------------------------------------------
(* Properties *)

MaxRank == MaxSent + MaxRequests
Messages == [type : Types, text : 1 .. MaxRank]

(* Types: client.hpp.                                                      *)
TypeOK ==
  /\ wire \in Seq(Messages)
  /\ sent \in 0 .. MaxRank /\ unasked \in 0 .. MaxSent /\ closed \in BOOLEAN
  /\ partsSent \in Seq(Messages)
  /\ type \in Types \cup {None} /\ text \in 0 .. MaxRank
  /\ msgMutex \in {"free", "net"}
  /\ net \in {"select", "text", "handle", "dead"}
  /\ ui \in {"idle", "send", "poll", "take", "copy", "unlock", "clear"}
  /\ playing \in BOOLEAN
  /\ messageRcv \in Seq(1 .. MaxRank)
  /\ tableUpdate \in Seq([type : PartTypes, text : 1 .. MaxRank])
  /\ asked \in 0 .. MaxRequests /\ due \in BOOLEAN
  /\ due_rank \in 0 .. MaxRank /\ got \in 0 .. MaxRank
  /\ shown \in Seq(1 .. MaxRank)
  /\ drawn \in Seq(Seq(Messages)) /\ lost \in BOOLEAN

(* A notification is never shown twice, nor before one that was sent       *)
(* earlier, whatever is lost between the two threads (client.cpp:71-75,    *)
(* client_Inattendus.cpp:16-20).                                           *)
Increasing(s) == \A i, j \in DOMAIN s : i < j => s[i] < s[j]
ShownInOrder == Increasing(shown)

(* The n-th time the interface takes a shot (getTableUpdate, client_Partie *)
(* .cpp:25-35, whose comment says "all or none of the information") it     *)
(* takes the three parts of the n-th shot: the parts are filed one by one, *)
(* while it polls and between notifications, and the next shot may come    *)
(* before it has taken this one.  The exception: waitAnswers threw a part  *)
(* away before (client.cpp:310), when a request of the menus met a shot of *)
(* the game; from then on the three may be of two shots.                   *)
IsShot(s, n) ==
  /\ Len(s) = 3 /\ 3 * n <= Len(partsSent)
  /\ \A i \in 1 .. 3 : s[i] = partsSent[3 * (n - 1) + i]
DrawsWholeShots ==
  [][drawn' # drawn => lost \/ IsShot(drawn'[Len(drawn')], Len(drawn'))]_vars

(* What waitAnswers returns was sent in answer to its request or later,    *)
(* never before: the text belongs to the type it found under msgMutex, or  *)
(* to a message that replaced it (client.cpp:322-323).                     *)
NeverStale == ui = "unlock" => due_rank # 0 /\ got >= due_rank

(* The interface does not wait for ever, unless the server closes          *)
(* (msgMutex is then lost, client.cpp:283) or a type without a case        *)
(* takes the slot meanwhile.                                               *)
Jammed == type = "PING" \/ \E i \in DOMAIN wire : wire[i].type = "PING"
AnswerReturns == ui = "poll" ~> ui = "idle" \/ closed \/ Jammed

=============================================================================
