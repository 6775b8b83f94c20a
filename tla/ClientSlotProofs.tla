-------------------------- MODULE ClientSlotProofs --------------------------
(***************************************************************************)
(* Theorems about ClientSlot, for any number of messages and requests.     *)
(***************************************************************************)
EXTENDS ClientSlot, QueueLemmas, SequenceTheorems, TLAPS

(* The slot: a message is read in two steps, its type first; a type the    *)
(* switch of run() files does not stay.                                    *)
SlotInv ==
  /\ net = "text" => wire # <<>> /\ type \in {None, wire[1].type}
  /\ net = "select" => type \in {None, "ANSWER", "PING"}
  /\ net = "dead" => type = None

(* The server's messages come in the order of their ranks, and what was    *)
(* asked and is not answered yet is what the interface waits for.          *)
WireInv ==
  /\ \A i, j \in DOMAIN wire : i < j => wire[i].text < wire[j].text
  /\ \A i \in DOMAIN wire : text < wire[i].text /\ wire[i].text <= sent
  /\ text <= sent
  /\ sent + (IF ui = "send" \/ due THEN 1 ELSE 0) = unasked + asked
  /\ due => ui = "poll"

(* One answer at most is on its way, to a request the interface waits on:  *)
(* on the wire, half read with msgMutex taken, or in the slot.             *)
AnswerOnWire == \E i \in DOMAIN wire : wire[i].type = "ANSWER"
AnswerInv ==
  /\ AnswerOnWire => ui = "poll" /\ ~due /\ due_rank # 0
  /\ \A i \in DOMAIN wire : wire[i].type = "ANSWER" => wire[i].text = due_rank
  /\ net = "text" /\ wire[1].type = "ANSWER" => type = "ANSWER" /\ msgMutex = "net"
  /\ type = "ANSWER" => ui \in {"poll", "take"} /\ ~due
  /\ type = "ANSWER" /\ net # "text" => ~AnswerOnWire /\ text = due_rank /\ due_rank # 0
  /\ ui = "take" => type = "ANSWER" /\ net # "text"
  /\ ui = "copy" => due_rank # 0 /\ text >= due_rank

(* What was filed is older than what the network thread is about to file.  *)
Fresh == net = "handle" /\ type \in PartTypes \cup {"NOTIF"}
Older(x) == x <= text /\ (Fresh => x < text)
FiledInv ==
  /\ Fresh => text # 0
  /\ \A i \in DOMAIN messageRcv : Older(messageRcv[i])
  /\ \A i \in DOMAIN shown : Older(shown[i])
  /\ \A i \in DOMAIN tableUpdate : Older(tableUpdate[i].text)

(* What was shown was sent before what waits to be shown.                  *)
ShownInv ==
  /\ Increasing(shown) /\ Increasing(messageRcv)
  /\ ui # "clear" => \A i \in DOMAIN shown, j \in DOMAIN messageRcv : shown[i] < messageRcv[j]

(* As long as waitAnswers threw no part away, the parts of shots are in     *)
(* their places, from the shots that were drawn through the vector, the    *)
(* slot and the wire: n[i] parts have been sent up to message i of the     *)
(* wire.                                                                   *)
Sent_at(k, m) == k \in DOMAIN partsSent /\ partsSent[k] = m
Filed == 3 * Len(drawn) + Len(tableUpdate)
InSlot == IF net = "handle" /\ type \in PartTypes THEN 1 ELSE 0
After(t, k) == IF t \in PartTypes THEN k + 1 ELSE k
Follows(n) ==
  /\ n[0] = Filed + InSlot
  /\ \A i \in DOMAIN wire :
       /\ wire[i].type \in PartTypes => Sent_at(n[i - 1] + 1, wire[i])
       /\ n[i] = After(wire[i].type, n[i - 1])
  /\ n[Len(wire)] = Len(partsSent)
HalfRead == net = "text" /\ wire[1].type \in PartTypes => type = wire[1].type
InTurn == InSlot = 1 => Sent_at(Filed + 1, [type |-> type, text |-> text])
PartsInv == ~lost => HalfRead /\ InTurn /\ \E n \in [0 .. Len(wire) -> Nat] : Follows(n)
(* The vector holds the parts that come after the shots drawn.             *)
TableInv == ~lost => \A i \in DOMAIN tableUpdate : Sent_at(3 * Len(drawn) + i, tableUpdate[i])

IInv == /\ TypeOK /\ SlotInv /\ WireInv /\ AnswerInv /\ NeverStale
        /\ FiledInv /\ ShownInv /\ PartsInv /\ TableInv

-----------------------------------------------------------------------------
LEMMA InitIInv ==
  ASSUME Init
  PROVE  IInv
<1> USE ClientSlotAssumption DEF Init
<1>1. TypeOK
  <2>1. wire \in Seq(Messages) /\ drawn \in Seq(Seq(Messages)) /\ partsSent \in Seq(Messages)
    OBVIOUS
  <2>2. tableUpdate \in Seq([type : PartTypes, text : 1 .. MaxRank])
    OBVIOUS
  <2>3. messageRcv \in Seq(1 .. MaxRank) /\ shown \in Seq(1 .. MaxRank)
    OBVIOUS
  <2>4. MaxRank \in Nat
    BY DEF MaxRank
  <2>5. type \in Types \cup {None} /\ msgMutex \in {"free", "net"} /\ net \in {"select", "text", "handle", "dead"}
        /\ ui \in {"idle", "send", "poll", "take", "copy", "unlock", "clear"}
    OBVIOUS
  <2>6. /\ sent \in 0 .. MaxRank /\ text \in 0 .. MaxRank /\ due_rank \in 0 .. MaxRank /\ got \in 0 .. MaxRank
        /\ unasked \in 0 .. MaxSent /\ asked \in 0 .. MaxRequests
    BY <2>4
  <2>7. closed \in BOOLEAN /\ playing \in BOOLEAN /\ due \in BOOLEAN /\ lost \in BOOLEAN
    OBVIOUS
  <2> QED
    BY <2>1, <2>2, <2>3, <2>5, <2>6, <2>7 DEF TypeOK
<1>2. SlotInv /\ WireInv /\ AnswerInv /\ NeverStale
  BY DEF SlotInv, WireInv, AnswerInv, AnswerOnWire, NeverStale, None
<1>3. FiledInv /\ ShownInv /\ TableInv
  BY DEF FiledInv, Fresh, ShownInv, TableInv, Increasing
<1>4. PartsInv
  <2> DEFINE n == [i \in 0 .. Len(wire) |-> 0]
  <2>1. n \in [0 .. Len(wire) -> Nat] /\ n[0] = 0 /\ n[Len(wire)] = 0
    OBVIOUS
  <2>2. Follows(n)
    BY <2>1 DEF Follows, InSlot, Filed
  <2>3. type \notin PartTypes
    BY DEF None, PartTypes, Parts
  <2> HIDE DEF n
  <2> QED
    BY <2>1, <2>2, <2>3 DEF PartsInv, HalfRead, InTurn, InSlot
<1> QED
  BY <1>1, <1>2, <1>3, <1>4 DEF IInv

LEMMA StutterIInv ==
  ASSUME IInv, UNCHANGED vars
  PROVE  IInv'
<1> USE DEF vars, server, slot, asking, filed, taken
<1>1. TypeOK' /\ SlotInv' /\ WireInv' /\ AnswerInv' /\ NeverStale'
  BY DEF IInv, TypeOK, SlotInv, WireInv, AnswerInv, AnswerOnWire, NeverStale
<1>2. FiledInv' /\ ShownInv' /\ TableInv'
  BY DEF IInv, FiledInv, Older, Fresh, ShownInv, TableInv, Sent_at, Increasing
<1>3. PartsInv'
  BY DEF IInv, PartsInv, Follows, HalfRead, InTurn, InSlot, Filed, Sent_at, After
<1> QED
  BY <1>1, <1>2, <1>3 DEF IInv

-----------------------------------------------------------------------------
(* The wire *)

(* The kinds of messages are different strings.                            *)
LEMMA Kinds ==
  /\ None \notin Types /\ "NOTIF" \notin PartTypes /\ "ANSWER" \notin PartTypes /\ "PING" \notin PartTypes
  /\ \A i \in 1 .. 3 : Parts[i] \in PartTypes
  /\ PartTypes = {"SHOOT", "UPDATE_WALL", "LOMB_DMG"}
BY DEF Types, PartTypes, Parts, None

(* What any step does to the wire: nothing, a message more, or one less.   *)
Sends(t) ==
  /\ t \in Types
  /\ sent' = sent + 1 /\ sent' \in 1 .. MaxRank
  /\ wire' = Append(wire, [type |-> t, text |-> sent'])
NextPart == Parts[(Len(partsSent) % 3) + 1]
LEMMA NextIsPart ==
  ASSUME TypeOK
  PROVE  NextPart \in PartTypes
<1>1. Len(partsSent) \in Nat
  BY DEF TypeOK
<1>2. (Len(partsSent) % 3) + 1 \in 1 .. 3
  BY <1>1
<1> QED
  BY <1>2, Kinds DEF NextPart

(* What the server sends.                                                  *)
LEMMA Sent ==
  ASSUME ClientSlotAssumption, TypeOK, WireInv, Notify \/ Shot \/ Answer
  PROVE  /\ Notify => \E t \in {"NOTIF", "PING"} : Sends(t)
         /\ Shot => Sends(NextPart) /\ partsSent' = Append(partsSent, [type |-> NextPart, text |-> sent'])
         /\ Answer => Sends("ANSWER")
<1>1. sent' = sent + 1
  BY DEF Notify, Shot, Answer, Send
<1>2. unasked <= MaxSent /\ asked <= MaxRequests /\ unasked \in Nat /\ asked \in Nat /\ sent \in Nat
  BY ClientSlotAssumption DEF TypeOK, MaxRank
<1>3. Notify \/ Shot => unasked < MaxSent
  BY DEF Notify, Shot, Unasked
<1>4. Answer => due
  BY DEF Answer
<1>5. sent' \in 1 .. MaxRank
  BY <1>1, <1>2, <1>3, <1>4, ClientSlotAssumption DEF WireInv, MaxRank
<1>6. NextPart \in Types
  BY NextIsPart DEF Types
<1>7. \A t : Send(t) => wire' = Append(wire, [type |-> t, text |-> sent'])
  BY DEF Send
<1>8. {"NOTIF", "PING", "ANSWER"} \subseteq Types
  BY DEF Types
<1> QED
  BY <1>1, <1>5, <1>6, <1>7, <1>8 DEF Notify, Shot, Answer, Sends, NextPart

(* The wire after it was written, ...                                      *)
LEMMA Longer ==
  ASSUME TypeOK, NEW t, Sends(t)
  PROVE  /\ Len(wire) \in Nat /\ DOMAIN wire = 1 .. Len(wire)
         /\ wire' \in Seq(Messages)
         /\ Len(wire') = Len(wire) + 1
         /\ DOMAIN wire' = 1 .. Len(wire) + 1
         /\ \A i \in 1 .. Len(wire) : wire'[i] = wire[i]
         /\ wire'[Len(wire) + 1].type = t /\ wire'[Len(wire) + 1].text = sent + 1
<1> DEFINE m == [type |-> t, text |-> sent']
<1>1. m \in Messages /\ m.type = t /\ m.text = sent + 1
  BY DEF Sends, Messages
<1>2. wire' = Append(wire, m) /\ wire \in Seq(Messages)
  BY DEF Sends, TypeOK
<1> HIDE DEF m
<1> QED
  BY <1>1, <1>2, WriteQueue

(* ... and after it was read.                                              *)
LEMMA Shorter ==
  ASSUME TypeOK, SlotInv, ReadText
  PROVE  /\ Len(wire) \in Nat /\ Len(wire) >= 1 /\ DOMAIN wire = 1 .. Len(wire)
         /\ wire[1] \in Messages
         /\ wire' \in Seq(Messages)
         /\ Len(wire') = Len(wire) - 1
         /\ DOMAIN wire' = 1 .. Len(wire) - 1
         /\ \A i \in 1 .. Len(wire) - 1 : wire'[i] = wire[i + 1]
         /\ text' = wire[1].text
BY ReadQueue DEF TypeOK, SlotInv, ReadText

-----------------------------------------------------------------------------
LEMMA StepTypeOK ==
  ASSUME ClientSlotAssumption, TypeOK, SlotInv, WireInv, FiledInv, Next
  PROVE  TypeOK'
<1>0. MaxRank \in Nat /\ MaxRequests \in Nat
  BY ClientSlotAssumption DEF MaxRank
<1> USE DEF TypeOK
<1>1. CASE Notify \/ Shot \/ Answer
  <2>1. \E t : Sends(t)
    BY <1>1, Sent
  <2>2. wire' \in Seq(Messages)
    BY <2>1, Longer
  <2>3. sent' \in 1 .. MaxRank
    BY <2>1 DEF Sends
  <2>4. unasked' \in 0 .. MaxSent
    BY <1>1, ClientSlotAssumption DEF Notify, Shot, Answer, Unasked
  <2>5. due_rank' \in 0 .. MaxRank /\ due' \in BOOLEAN
    <3>1. Answer => due_rank' = sent' /\ due' = FALSE
      BY DEF Answer, Send
    <3>2. Notify \/ Shot => due_rank' = due_rank /\ due' = due
      BY DEF Notify, Shot, asking
    <3>3. due_rank' \in 0 .. MaxRank
      <4>1. sent' \in 0 .. MaxRank
        BY <1>0, <2>3
      <4> QED
        BY <1>1, <3>1, <3>2, <4>1, Zenon
    <3>4. due' \in BOOLEAN
      BY <1>1, <3>1, <3>2, Zenon
    <3> QED
      BY <3>3, <3>4
  <2>6. partsSent' \in Seq(Messages)
    <3>1. CASE Shot
      <4>1. [type |-> NextPart, text |-> sent'] \in Messages
        BY <2>3, NextIsPart DEF Messages, Types
      <4>2. partsSent' = Append(partsSent, [type |-> NextPart, text |-> sent'])
        BY <3>1, Sent
      <4> HIDE DEF NextPart
      <4> QED
        BY <4>1, <4>2
    <3> QED
      BY <1>1, <3>1 DEF Notify, Answer
  <2>7. UNCHANGED <<closed, slot, msgMutex, net, ui, playing, filed, asked, got, taken>>
    BY <1>1 DEF Notify, Shot, Answer, asking
  <2> QED
    BY <2>2, <2>3, <2>4, <2>5, <2>6, <2>7 DEF slot, filed, taken
<1>2. CASE Closes \/ ReadNothing \/ ReadEnd
  BY <1>2 DEF Closes, ReadNothing, ReadEnd, server, slot, filed, asking, taken
<1>3. CASE ReadType
  <2>1. Head(wire) \in Messages
    BY <1>3, ReadQueue DEF ReadType
  <2>2. Head(wire).type \in Types
    BY <2>1 DEF Messages
  <2> QED
    BY <1>3, <2>2 DEF ReadType, server, slot, filed, asking, taken
<1>4. CASE ReadText
  <2>1. text' \in 1 .. MaxRank
    BY <1>4, Shorter DEF Messages
  <2> QED
    BY <1>4, <2>1, Shorter DEF ReadText, server, filed, asking, taken
<1>5. CASE Handle
  <2>1. CASE type = "NOTIF" \/ type \in PartTypes
    <3>1. net = "handle"
      BY <1>5 DEF Handle
    <3>2. text \in 1 .. MaxRank
      <4>1. text # 0 /\ text \in 0 .. MaxRank /\ MaxRank \in Nat
        BY <2>1, <3>1, ClientSlotAssumption DEF FiledInv, Fresh, MaxRank
      <4> QED
        BY <4>1
    <3>3. CASE type = "NOTIF"
      <4>1. messageRcv' = Append(messageRcv, text) /\ type' = None /\ UNCHANGED tableUpdate
        BY <1>5, <3>3 DEF Handle, PartTypes, Parts, None
      <4> QED
        BY <1>5, <3>2, <4>1 DEF Handle, server, asking, taken
    <3>4. CASE type \in PartTypes
      <4>1. tableUpdate' = Append(tableUpdate, [type |-> type, text |-> text]) /\ type' = None /\ UNCHANGED messageRcv
        BY <1>5, <3>4 DEF Handle, PartTypes, Parts, None
      <4>2. [type |-> type, text |-> text] \in [type : PartTypes, text : 1 .. MaxRank]
        BY <3>2, <3>4
      <4>3. tableUpdate' \in Seq([type : PartTypes, text : 1 .. MaxRank])
        BY <4>1, <4>2, WriteQueue
      <4> QED
        BY <1>5, <4>1, <4>3 DEF Handle, server, asking, taken
    <3> QED
      BY <2>1, <3>3, <3>4
  <2>2. CASE ~(type = "NOTIF" \/ type \in PartTypes)
    BY <1>5, <2>2 DEF Handle, server, asking, taken, filed
  <2> QED
    BY <2>1, <2>2
<1>6. CASE Interface
  <2>1. CASE WaitAnswers
    <3>1. asked' \in 0 .. MaxRequests
      BY <1>0, <2>1 DEF WaitAnswers
    <3> QED
      BY <2>1, <3>1 DEF WaitAnswers, server, filed
  <2>2. CASE SendMessage
    BY <1>0, <2>2 DEF SendMessage, server, slot, filed, taken
  <2>7. CASE Poll \/ Take
    BY <2>7 DEF Poll, Take, server, slot, filed, asking, taken
  <2>5. CASE Copy \/ Unlock \/ EnterGame \/ LeaveGame
    BY <2>5 DEF Copy, Unlock, EnterGame, LeaveGame, server, slot, filed, asking, taken
  <2>6. CASE ClearMessages
    <3>1. messageRcv' \in Seq(1 .. MaxRank)
      BY <2>6 DEF ClearMessages
    <3> QED
      BY <2>6, <3>1 DEF ClearMessages, server, slot, asking, taken
  <2>3. CASE CopyMessages
    <3>1. shown' \in Seq(1 .. MaxRank)
      BY <2>3 DEF CopyMessages
    <3> QED
      BY <2>3, <3>1 DEF CopyMessages, server, slot, filed, asking, taken
  <2>4. CASE GetTableUpdate
    <3>1. tableUpdate \in Seq(Messages)
      <4>1. [type : PartTypes, text : 1 .. MaxRank] \subseteq Messages
        BY DEF Messages, Types
      <4> QED
        BY <4>1, SeqMonotonic
    <3> QED
      BY <2>4, <3>1 DEF GetTableUpdate, server, slot, filed, asking, taken
  <2> QED
    BY <1>6, <2>1, <2>2, <2>3, <2>4, <2>5, <2>6, <2>7 DEF Interface, Waiting
<1> QED
  BY <1>1, <1>2, <1>3, <1>4, <1>5, <1>6 DEF Next, Net

-----------------------------------------------------------------------------
(* The slot *)

(* Ranks are numbers.                                                      *)
LEMMA Ranks ==
  ASSUME ClientSlotAssumption, TypeOK
  PROVE  /\ text \in Nat /\ sent \in Nat /\ due_rank \in Nat /\ unasked \in Nat /\ asked \in Nat
         /\ DOMAIN wire = 1 .. Len(wire) /\ Len(wire) \in Nat
         /\ \A i \in DOMAIN wire : wire[i] \in Messages /\ wire[i].text \in Nat
<1>1. MaxRank \in Nat /\ MaxSent \in Nat /\ MaxRequests \in Nat
  BY ClientSlotAssumption DEF MaxRank
<1>2. DOMAIN wire = 1 .. Len(wire) /\ Len(wire) \in Nat
  BY DEF TypeOK
<1>3. \A i \in DOMAIN wire : wire[i] \in Messages
  BY <1>2 DEF TypeOK
<1>4. \A m \in Messages : m.text \in Nat
  BY <1>1 DEF Messages
<1> QED
  BY <1>1, <1>2, <1>3, <1>4 DEF TypeOK

LEMMA StepSlot ==
  ASSUME ClientSlotAssumption, TypeOK, SlotInv, WireInv, AnswerInv, Next
  PROVE  SlotInv'
<1> USE DEF SlotInv
<1>1. CASE Notify \/ Shot \/ Answer
  <2>1. PICK t : Sends(t)
    BY <1>1, Sent
  <2>2. wire # <<>> => wire' # <<>> /\ wire'[1] = wire[1]
    BY <2>1, Longer DEF TypeOK
  <2>3. UNCHANGED <<net, type>>
    BY <1>1 DEF Notify, Shot, Answer, slot
  <2> QED
    BY <2>2, <2>3
<1>2. CASE ReadNothing \/ ReadEnd \/ Closes
  BY <1>2 DEF ReadNothing, ReadEnd, Closes, slot
<1>3. CASE ReadType
  <2>1. wire # <<>> /\ wire' = wire /\ type' = wire[1].type /\ net' = "text"
    BY <1>3, ReadQueue DEF ReadType, TypeOK
  <2> QED
    BY <2>1
<1>4. CASE ReadText
  BY <1>4 DEF ReadText
<1>5. CASE Handle
  <2>1. type' \in {None, "ANSWER", "PING"}
    BY <1>5 DEF Handle
  <2> QED
    BY <1>5, <2>1 DEF Handle
<1>6. CASE Interface
  <2>1. wire' = wire /\ net' = net /\ (type' = type \/ type' = None)
    BY <1>6 DEF Interface, Waiting, WaitAnswers, SendMessage, Poll, Take, Copy, Unlock, CopyMessages, ClearMessages,
                EnterGame, LeaveGame, GetTableUpdate, slot
  <2> QED
    BY <2>1
<1> QED
  BY <1>1, <1>2, <1>3, <1>4, <1>5, <1>6 DEF Next, Net

LEMMA StepWire ==
  ASSUME ClientSlotAssumption, TypeOK, SlotInv, WireInv, AnswerInv, Next
  PROVE  WireInv'
<1> USE DEF WireInv
<1>0. /\ text \in Nat /\ sent \in Nat /\ unasked \in Nat /\ asked \in Nat
      /\ \A i \in DOMAIN wire : wire[i].text \in Nat
  BY Ranks
<1>1. CASE Notify \/ Shot \/ Answer
  <2>1. PICK t : Sends(t)
    BY <1>1, Sent
  <2>2. sent' = sent + 1 /\ text' = text /\ ui' = ui
    BY <1>1, <2>1 DEF Notify, Shot, Answer, Sends, slot
  <2>3. \A i \in DOMAIN wire' : \/ i \in DOMAIN wire /\ wire'[i] = wire[i]
                                \/ i = Len(wire) + 1 /\ wire'[i].text = sent + 1
    BY <2>1, Longer
  <2>4. /\ \A i, j \in DOMAIN wire' : i < j => wire'[i].text < wire'[j].text
        /\ \A i \in DOMAIN wire' : text' < wire'[i].text /\ wire'[i].text <= sent'
    <3>1. Len(wire) \in Nat /\ DOMAIN wire = 1 .. Len(wire)
      BY DEF TypeOK
    <3> QED
      BY <1>0, <2>2, <2>3, <3>1
  <2>5. text' <= sent'
    BY <1>0, <2>2
  <2>6. sent' + (IF ui' = "send" \/ due' THEN 1 ELSE 0) = unasked' + asked' /\ (due' => ui' = "poll")
    <3>1. CASE Notify \/ Shot
      <4>1. unasked' = unasked + 1 /\ asked' = asked /\ due' = due
        BY <3>1 DEF Notify, Shot, Unasked, asking
      <4> QED
        BY <1>0, <2>2, <4>1
    <3>2. CASE Answer
      <4>1. unasked' = unasked /\ asked' = asked /\ due /\ due' = FALSE /\ ui = "poll"
        BY <3>2 DEF Answer
      <4> QED
        BY <1>0, <2>2, <4>1
    <3> QED
      BY <1>1, <3>1, <3>2
  <2> QED
    BY <2>4, <2>5, <2>6
<1>2. CASE Closes \/ ReadNothing \/ ReadType \/ ReadEnd \/ Handle
  BY <1>2 DEF Closes, ReadNothing, ReadType, ReadEnd, Handle, server, slot, asking
<1>3. CASE ReadText
  <2>1. UNCHANGED <<sent, unasked, asked, due, ui>> /\ text' = wire[1].text
    BY <1>3, Shorter DEF ReadText, server, asking
  <2>2. \A i \in DOMAIN wire' : i + 1 \in DOMAIN wire /\ wire'[i] = wire[i + 1] /\ 1 \in DOMAIN wire /\ 1 < i + 1
    BY <1>3, Shorter
  <2>3. \A i \in DOMAIN wire' : i \in Nat
    BY <1>3, Shorter
  <2>4. 1 \in DOMAIN wire
    BY <1>3, Shorter
  <2>5. /\ \A i, j \in DOMAIN wire' : i < j => wire'[i].text < wire'[j].text
        /\ \A i \in DOMAIN wire' : text' < wire'[i].text /\ wire'[i].text <= sent'
    BY <2>1, <2>2, <2>3
  <2> QED
    BY <2>1, <2>4, <2>5
<1>4. CASE WaitAnswers
  <2>1. /\ UNCHANGED <<wire, sent, unasked, text, due>> /\ asked' = asked + 1
        /\ ui = "idle" /\ ui' = "send"
    BY <1>4 DEF WaitAnswers, server
  <2> QED
    BY <1>0, <2>1
<1>5. CASE SendMessage
  <2>1. UNCHANGED <<wire, sent, unasked, text, asked>> /\ ui = "send" /\ ui' = "poll" /\ due' = TRUE
    BY <1>5 DEF SendMessage, server, slot
  <2> QED
    BY <2>1
<1>6. CASE Poll \/ Take \/ Copy \/ Unlock \/ CopyMessages \/ ClearMessages \/ EnterGame \/ LeaveGame \/ GetTableUpdate
  <2>1. UNCHANGED <<wire, sent, unasked, text, asked, due>>
    BY <1>6 DEF Poll, Take, Copy, Unlock, CopyMessages, ClearMessages, EnterGame, LeaveGame, GetTableUpdate, server, slot, asking
  <2>2. ui # "send" /\ ui' # "send" /\ (due => ui' = "poll")
    BY <1>6 DEF Poll, Take, Copy, Unlock, CopyMessages, ClearMessages, EnterGame, LeaveGame, GetTableUpdate, AnswerInv
  <2> QED
    BY <2>1, <2>2
<1> QED
  BY <1>1, <1>2, <1>3, <1>4, <1>5, <1>6 DEF Next, Net, Interface, Waiting

LEMMA StepAnswer ==
  ASSUME ClientSlotAssumption, TypeOK, SlotInv, WireInv, AnswerInv, NeverStale, Next
  PROVE  AnswerInv' /\ NeverStale'
<1> USE DEF AnswerInv, NeverStale, AnswerOnWire
<1>0. /\ text \in Nat /\ sent \in Nat /\ due_rank \in Nat
      /\ DOMAIN wire = 1 .. Len(wire) /\ Len(wire) \in Nat
      /\ \A i \in DOMAIN wire : wire[i].text \in Nat
  BY Ranks
<1>1. CASE Notify \/ Shot
  <2>1. PICK t : Sends(t) /\ t # "ANSWER"
    BY <1>1, NextIsPart, Sent, Kinds
  <2>2. UNCHANGED <<slot, net, ui, asking, msgMutex>>
    BY <1>1 DEF Notify, Shot
  <2>3. \A i \in DOMAIN wire' : wire'[i].type = "ANSWER" => i \in DOMAIN wire /\ wire'[i] = wire[i]
    BY <2>1, Longer
  <2>4. wire # <<>> => wire'[1] = wire[1]
    BY <2>1, Longer
  <2> QED
    BY <2>2, <2>3, <2>4 DEF slot, asking, SlotInv
<1>2. CASE Answer
  <2>1. Sends("ANSWER")
    BY <1>2, Sent
  <2>2. /\ UNCHANGED <<type, text, net, ui, msgMutex, got>>
        /\ due /\ ui = "poll" /\ due' = FALSE /\ due_rank' = sent + 1
    BY <1>2 DEF Answer, slot, WireInv
  <2>3. ~AnswerOnWire /\ type # "ANSWER"
    BY <2>2
  <2>4. \A i \in DOMAIN wire' : wire'[i].type = "ANSWER" => wire'[i].text = sent + 1
    BY <2>1, <2>3, Longer
  <2>5. wire # <<>> => wire'[1] = wire[1] /\ wire[1].type # "ANSWER"
    BY <1>0, <2>1, <2>3, Longer
  <2> QED
    BY <1>0, <2>2, <2>3, <2>4, <2>5 DEF SlotInv
<1>3. CASE Closes \/ ReadNothing
  BY <1>3 DEF Closes, ReadNothing, slot, asking
<1>4. CASE ReadEnd
  BY <1>4, Kinds DEF ReadEnd, slot, asking, None
<1>5. CASE ReadType
  <2>1. /\ wire # <<>> /\ type' = wire[1].type /\ msgMutex' = "net" /\ net' = "text" /\ type = None
        /\ UNCHANGED <<wire, text, ui, due, due_rank, got>>
    BY <1>5, ReadQueue DEF ReadType, TypeOK, asking
  <2>2. 1 \in DOMAIN wire
    BY <2>1, <1>0
  <2>3. ui # "take"
    BY <2>1 DEF None
  <2> QED
    BY <2>1, <2>2, <2>3
<1>6. CASE ReadText
  <2>1. /\ net = "text" /\ net' = "handle" /\ text' = wire[1].text
        /\ UNCHANGED <<type, ui, due, due_rank, got>>
    BY <1>6, Shorter DEF ReadText, asking
  <2>2. \A i \in DOMAIN wire' : i + 1 \in DOMAIN wire /\ wire'[i] = wire[i + 1] /\ 1 < i + 1
    BY <1>6, Shorter
  <2>3. 1 \in DOMAIN wire
    BY <1>6, Shorter
  <2>4. wire[1].type = "ANSWER" => ~AnswerOnWire'
    BY <1>0, <2>2, <2>3 DEF WireInv
  <2>5. type = "ANSWER" => wire[1].type = "ANSWER"
    BY <2>1 DEF SlotInv, None
  <2>6. text' > text
    BY <2>1, <2>3 DEF WireInv
  <2> QED
    BY <1>0, <2>1, <2>2, <2>3, <2>4, <2>5, <2>6
<1>7. CASE Handle
  <2>1. /\ UNCHANGED <<wire, text, ui, due, due_rank, got, msgMutex>>
        /\ net = "handle" /\ net' = "select"
        /\ type' = None \/ type' = type
    BY <1>7 DEF Handle, asking
  <2>2. type = "ANSWER" => type' = type
    BY <1>7, Kinds DEF Handle
  <2> QED
    BY <2>1, <2>2 DEF None
<1>8. CASE WaitAnswers
  <2>1. /\ UNCHANGED <<wire, text, msgMutex, net, due, due_rank>>
        /\ ui = "idle" /\ ui' = "send" /\ type' = None
    BY <1>8 DEF WaitAnswers
  <2> QED
    BY <1>0, <2>1 DEF SlotInv, None
<1>9. CASE SendMessage
  <2>1. /\ UNCHANGED <<wire, text, type, msgMutex, net>>
        /\ ui = "send" /\ ui' = "poll" /\ due' = TRUE /\ due_rank' = 0
    BY <1>9 DEF SendMessage, slot
  <2> QED
    BY <1>0, <2>1 DEF SlotInv
<1>10. CASE Poll
  <2>1. /\ UNCHANGED <<wire, text, type, msgMutex, net, due, due_rank, got>>
        /\ type = "ANSWER" /\ msgMutex = "free" /\ ui' = "take"
    BY <1>10 DEF Poll, slot, asking
  <2>2. net # "text"
    BY <2>1 DEF SlotInv, None
  <2> QED
    BY <2>1, <2>2
<1>11. CASE Take
  <2>1. /\ UNCHANGED <<wire, text, msgMutex, net, due, due_rank, got>>
        /\ ui = "take" /\ ui' = "copy" /\ type' = None
    BY <1>11 DEF Take, asking
  <2> QED
    BY <1>0, <2>1 DEF None
<1>12. CASE Copy
  <2>1. /\ UNCHANGED <<wire, text, type, msgMutex, net, due, due_rank>>
        /\ ui = "copy" /\ ui' = "unlock" /\ got' = text
    BY <1>12 DEF Copy, slot
  <2> QED
    BY <2>1 DEF SlotInv
<1>13. CASE Unlock
  <2>1. /\ UNCHANGED <<wire, text, type, net, due, due_rank>>
        /\ ui = "unlock" /\ ui' = "idle"
    BY <1>13 DEF Unlock, slot, asking
  <2> QED
    BY <1>0, <2>1 DEF SlotInv
<1>14. CASE CopyMessages \/ ClearMessages \/ EnterGame \/ LeaveGame \/ GetTableUpdate
  <2>1. /\ UNCHANGED <<wire, text, type, msgMutex, net, due, due_rank>>
        /\ ui \in {"idle", "clear"} /\ ui' \in {"idle", "clear"}
    BY <1>14 DEF CopyMessages, ClearMessages, EnterGame, LeaveGame, GetTableUpdate, slot, asking
  <2> QED
    BY <2>1
<1> QED
  BY <1>1, <1>2, <1>3, <1>4, <1>5, <1>6, <1>7, <1>8, <1>9, <1>10, <1>11, <1>12, <1>13, <1>14
  DEF Next, Net, Interface, Waiting

-----------------------------------------------------------------------------
(* The vectors *)

(* Ranks of what was filed and shown.                                      *)
LEMMA FiledRanks ==
  ASSUME ClientSlotAssumption, TypeOK
  PROVE  /\ DOMAIN messageRcv = 1 .. Len(messageRcv) /\ Len(messageRcv) \in Nat
         /\ \A i \in DOMAIN messageRcv : messageRcv[i] \in Nat
         /\ DOMAIN shown = 1 .. Len(shown) /\ Len(shown) \in Nat
         /\ \A i \in DOMAIN shown : shown[i] \in Nat
         /\ DOMAIN tableUpdate = 1 .. Len(tableUpdate) /\ Len(tableUpdate) \in Nat
         /\ \A i \in DOMAIN tableUpdate : tableUpdate[i].text \in Nat
<1>1. MaxRank \in Nat
  BY ClientSlotAssumption DEF MaxRank
<1>2. /\ DOMAIN messageRcv = 1 .. Len(messageRcv) /\ Len(messageRcv) \in Nat
      /\ \A i \in DOMAIN messageRcv : messageRcv[i] \in 1 .. MaxRank
  BY Elements DEF TypeOK
<1>3. /\ DOMAIN shown = 1 .. Len(shown) /\ Len(shown) \in Nat
      /\ \A i \in DOMAIN shown : shown[i] \in 1 .. MaxRank
  BY Elements DEF TypeOK
<1>4. /\ DOMAIN tableUpdate = 1 .. Len(tableUpdate) /\ Len(tableUpdate) \in Nat
      /\ \A i \in DOMAIN tableUpdate : tableUpdate[i] \in [type : PartTypes, text : 1 .. MaxRank]
  BY Elements DEF TypeOK
<1>5. \A m \in [type : PartTypes, text : 1 .. MaxRank] : m.text \in Nat
  BY <1>1
<1> QED
  BY <1>1, <1>2, <1>3, <1>4, <1>5

(* Handle files a notification, a part of a shot, or nothing.              *)
LEMMA Files ==
  ASSUME TypeOK, SlotInv, FiledInv, Handle
  PROVE  /\ net = "handle" /\ net' = "select" /\ UNCHANGED <<text, ui, shown, drawn, wire, partsSent, lost, playing>>
         /\ \/ /\ type = "NOTIF" /\ type' = None /\ tableUpdate' = tableUpdate
               /\ messageRcv' = Append(messageRcv, text) /\ text \in 1 .. MaxRank
               /\ Len(messageRcv') = Len(messageRcv) + 1
               /\ DOMAIN messageRcv' = 1 .. Len(messageRcv) + 1
               /\ \A i \in 1 .. Len(messageRcv) : messageRcv'[i] = messageRcv[i]
               /\ messageRcv'[Len(messageRcv) + 1] = text
            \/ /\ type \in PartTypes /\ type' = None /\ messageRcv' = messageRcv
               /\ Len(tableUpdate') = Len(tableUpdate) + 1
               /\ DOMAIN tableUpdate' = 1 .. Len(tableUpdate) + 1
               /\ \A i \in 1 .. Len(tableUpdate) : tableUpdate'[i] = tableUpdate[i]
               /\ tableUpdate'[Len(tableUpdate) + 1] = [type |-> type, text |-> text]
               /\ tableUpdate'[Len(tableUpdate) + 1].type = type
               /\ tableUpdate'[Len(tableUpdate) + 1].text = text
            \/ UNCHANGED <<messageRcv, tableUpdate, type>> /\ type \in {None, "ANSWER", "PING"}
<1>1. /\ net = "handle" /\ net' = "select" /\ UNCHANGED <<text, ui, shown, drawn, wire, partsSent, lost, playing>>
  BY DEF Handle, server, taken
<1>2. Fresh => text \in 1 .. MaxRank
  <2>1. text \in 0 .. MaxRank
    BY DEF TypeOK
  <2> QED
    BY <2>1 DEF FiledInv
<1>3. CASE type = "NOTIF"
  <2>1. messageRcv' = Append(messageRcv, text) /\ type' = None /\ UNCHANGED tableUpdate
    BY <1>3, Kinds DEF Handle, None
  <2>2. messageRcv \in Seq(1 .. MaxRank) /\ text \in 1 .. MaxRank
    BY <1>1, <1>2, <1>3 DEF Fresh, TypeOK
  <2> QED
    BY <1>1, <1>3, <2>1, <2>2, WriteQueue
<1>4. CASE type \in PartTypes
  <2> DEFINE m == [type |-> type, text |-> text]
  <2>1. tableUpdate' = Append(tableUpdate, m) /\ type' = None /\ UNCHANGED messageRcv
    BY <1>4, Kinds DEF Handle, None
  <2>2. tableUpdate \in Seq([type : PartTypes, text : 1 .. MaxRank]) /\ m \in [type : PartTypes, text : 1 .. MaxRank]
    BY <1>1, <1>2, <1>4 DEF Fresh, TypeOK
  <2>3. m.type = type /\ m.text = text /\ m = [type |-> type, text |-> text]
    OBVIOUS
  <2> HIDE DEF m
  <2>4. /\ Len(tableUpdate') = Len(tableUpdate) + 1
        /\ DOMAIN tableUpdate' = 1 .. Len(tableUpdate) + 1
        /\ \A i \in 1 .. Len(tableUpdate) : tableUpdate'[i] = tableUpdate[i]
        /\ tableUpdate'[Len(tableUpdate) + 1] = m
    BY <2>1, <2>2, WriteQueue
  <2> QED
    BY <1>1, <1>4, <2>1, <2>3, <2>4
<1>5. CASE type \notin PartTypes \cup {"NOTIF"}
  BY <1>1, <1>5 DEF Handle, filed
<1> QED
  BY <1>3, <1>4, <1>5

(* Steps that file and show nothing.                                       *)
LEMMA FiledKept ==
  ASSUME ClientSlotAssumption, TypeOK, SlotInv, WireInv, Next, ~Handle, ~CopyMessages, ~ClearMessages, ~GetTableUpdate
  PROVE  UNCHANGED <<messageRcv, tableUpdate, shown, drawn>>
<1>1. CASE Notify \/ Shot \/ Answer \/ Closes
  BY <1>1 DEF Notify, Shot, Answer, Closes, filed, taken
<1>2. CASE ReadNothing \/ ReadType \/ ReadText \/ ReadEnd
  BY <1>2 DEF ReadNothing, ReadType, ReadText, ReadEnd, filed, taken
<1>3. CASE WaitAnswers \/ SendMessage \/ Poll \/ Take \/ Copy \/ Unlock \/ EnterGame \/ LeaveGame
  BY <1>3 DEF WaitAnswers, SendMessage, Poll, Take, Copy, Unlock, EnterGame, LeaveGame, filed, taken
<1> QED
  BY <1>1, <1>2, <1>3 DEF Next, Net, Interface, Waiting

LEMMA StepFiled ==
  ASSUME ClientSlotAssumption, TypeOK, SlotInv, WireInv, FiledInv, Next
  PROVE  FiledInv'
<1> USE DEF FiledInv, Older
<1>0. text \in Nat
  BY Ranks
<1>1. ASSUME text' = text, Fresh' => Fresh
      PROVE  \A x \in Nat : Older(x) => Older(x)'
  BY <1>1
<1>2. CASE ReadText
  <2>1. text' > text /\ text' \in Nat
    <3>1. 1 \in DOMAIN wire /\ text' = wire[1].text
      BY <1>2, Shorter
    <3> QED
      BY <3>1, Ranks DEF WireInv
  <2>2. UNCHANGED <<messageRcv, tableUpdate, shown>>
    BY <1>2 DEF ReadText, filed, taken
  <2> QED
    BY <1>0, <2>1, <2>2, FiledRanks
<1>3. CASE Handle
  <2>1. net = "handle" /\ ~Fresh'
    BY <1>3, Files DEF Fresh
  <2>2. text' = text /\ shown' = shown
    BY <1>3, Files
  <2>3. \A i \in DOMAIN messageRcv' : messageRcv'[i] <= text
    BY <1>0, <1>3, Files, FiledRanks
  <2>4. \A i \in DOMAIN tableUpdate' : tableUpdate'[i].text <= text
    <3>1. \/ UNCHANGED tableUpdate
          \/ /\ DOMAIN tableUpdate' = 1 .. Len(tableUpdate) + 1
             /\ \A i \in 1 .. Len(tableUpdate) : tableUpdate'[i] = tableUpdate[i]
             /\ tableUpdate'[Len(tableUpdate) + 1].text = text
      BY <1>3, Files
    <3>2. \A i \in DOMAIN tableUpdate : tableUpdate[i].text <= text
      OBVIOUS
    <3>3. DOMAIN tableUpdate = 1 .. Len(tableUpdate) /\ Len(tableUpdate) \in Nat
      BY FiledRanks
    <3>4. CASE UNCHANGED tableUpdate
      BY <3>2, <3>4
    <3>5. CASE tableUpdate' # tableUpdate
      <4>1. \A i \in DOMAIN tableUpdate' : \/ i \in DOMAIN tableUpdate /\ tableUpdate'[i] = tableUpdate[i]
                                           \/ tableUpdate'[i].text = text
        BY <3>1, <3>3, <3>5
      <4> QED
        BY <1>0, <3>2, <4>1
    <3> QED
      BY <3>4, <3>5
  <2> QED
    BY <2>1, <2>2, <2>3, <2>4
<1>4. CASE CopyMessages \/ ClearMessages \/ GetTableUpdate
  <2>1. text' = text /\ (Fresh' => Fresh)
    BY <1>4 DEF CopyMessages, ClearMessages, GetTableUpdate, slot, Fresh
  <2>2. CASE CopyMessages
    <3>1. shown' = shown \o messageRcv /\ UNCHANGED <<messageRcv, tableUpdate>>
      BY <2>2 DEF CopyMessages, filed
    <3>2. \A i \in DOMAIN shown' : \/ \E j \in DOMAIN shown : shown'[i] = shown[j]
                                   \/ \E j \in DOMAIN messageRcv : shown'[i] = messageRcv[j]
      <4>1. shown \in Seq(1 .. MaxRank) /\ messageRcv \in Seq(1 .. MaxRank)
        BY DEF TypeOK
      <4>2. /\ Len(shown') = Len(shown) + Len(messageRcv) /\ DOMAIN shown' = 1 .. Len(shown')
            /\ \A i \in 1 .. Len(shown) + Len(messageRcv) :
                  shown'[i] = IF i <= Len(shown) THEN shown[i] ELSE messageRcv[i - Len(shown)]
        BY <3>1, <4>1, ConcatProperties, LenProperties
      <4>3. ASSUME NEW i \in DOMAIN shown'
            PROVE  \/ i \in DOMAIN shown /\ shown'[i] = shown[i]
                   \/ i - Len(shown) \in DOMAIN messageRcv /\ shown'[i] = messageRcv[i - Len(shown)]
        BY <4>2, <4>3, FiledRanks
      <4> QED
        BY <4>3
    <3> QED
      BY <2>1, <3>1, <3>2
  <2>3. CASE ClearMessages
    BY <2>1, <2>3 DEF ClearMessages, taken
  <2>4. CASE GetTableUpdate
    BY <2>1, <2>4 DEF GetTableUpdate
  <2> QED
    BY <1>4, <2>2, <2>3, <2>4
<1>5. CASE ~ReadText /\ ~Handle /\ ~CopyMessages /\ ~ClearMessages /\ ~GetTableUpdate
  <2>1. UNCHANGED <<messageRcv, tableUpdate, shown>>
    BY <1>5, FiledKept
  <2>2. text' = text /\ (Fresh' => Fresh)
    <3>1. CASE Notify \/ Shot \/ Answer \/ Closes
      BY <3>1 DEF Notify, Shot, Answer, Closes, slot, Fresh
    <3>2. CASE ReadNothing
      BY <3>2, Kinds DEF ReadNothing, slot, Fresh, SlotInv, None
    <3>3. CASE ReadType \/ ReadEnd
      BY <3>3 DEF ReadType, ReadEnd, slot, Fresh
    <3>4. CASE WaitAnswers \/ SendMessage \/ Poll \/ Take \/ Copy \/ Unlock \/ EnterGame \/ LeaveGame
      BY <3>4, Kinds DEF WaitAnswers, SendMessage, Poll, Take, Copy, Unlock, EnterGame, LeaveGame, slot, Fresh, None
    <3> QED
      BY <1>5, <3>1, <3>2, <3>3, <3>4 DEF Next, Net, Interface, Waiting
  <2> QED
    BY <2>1, <2>2
<1> QED
  BY <1>2, <1>3, <1>4, <1>5

LEMMA StepShown ==
  ASSUME ClientSlotAssumption, TypeOK, SlotInv, WireInv, FiledInv, ShownInv, Next
  PROVE  ShownInv'
<1> USE DEF ShownInv, Increasing
<1>1. CASE Handle
  <2>1. CASE messageRcv' = messageRcv
    BY <1>1, <2>1, Files
  <2>2. CASE messageRcv' # messageRcv
    <3>1. /\ Fresh /\ UNCHANGED <<text, ui, shown>>
          /\ DOMAIN messageRcv' = 1 .. Len(messageRcv) + 1
          /\ \A i \in 1 .. Len(messageRcv) : messageRcv'[i] = messageRcv[i]
          /\ messageRcv'[Len(messageRcv) + 1] = text
      BY <1>1, <2>2, Files DEF Fresh
    <3>2. /\ \A i \in DOMAIN messageRcv : messageRcv[i] < text
          /\ \A i \in DOMAIN shown : shown[i] < text
      BY <3>1 DEF FiledInv, Older
    <3>3. \A i \in DOMAIN messageRcv' : \/ i \in DOMAIN messageRcv /\ messageRcv'[i] = messageRcv[i]
                                        \/ i = Len(messageRcv) + 1 /\ messageRcv'[i] = text
      BY <3>1, FiledRanks
    <3>4. ASSUME NEW i \in DOMAIN messageRcv', NEW j \in DOMAIN messageRcv', i < j
          PROVE  messageRcv'[i] < messageRcv'[j]
      <4>1. i \in DOMAIN messageRcv /\ messageRcv'[i] = messageRcv[i]
        BY <3>1, <3>3, <3>4, FiledRanks
      <4> QED
        BY <3>2, <3>3, <3>4, <4>1
    <3>5. ui' # "clear" => \A i \in DOMAIN shown', j \in DOMAIN messageRcv' : shown'[i] < messageRcv'[j]
      BY <3>1, <3>2, <3>3
    <3> QED
      BY <3>1, <3>4, <3>5
  <2> QED
    BY <2>1, <2>2
<1>2. CASE CopyMessages
  <2>1. shown' = shown \o messageRcv /\ messageRcv' = messageRcv /\ ui = "idle" /\ ui' = "clear"
    BY <1>2 DEF CopyMessages, filed
  <2>2. shown \in Seq(1 .. MaxRank) /\ messageRcv \in Seq(1 .. MaxRank)
    BY DEF TypeOK
  <2>3. /\ Len(shown') = Len(shown) + Len(messageRcv) /\ DOMAIN shown' = 1 .. Len(shown')
        /\ \A i \in 1 .. Len(shown) + Len(messageRcv) :
              shown'[i] = IF i <= Len(shown) THEN shown[i] ELSE messageRcv[i - Len(shown)]
    BY <2>1, <2>2, ConcatProperties, LenProperties
  <2>4. ASSUME NEW i \in DOMAIN shown', NEW j \in DOMAIN shown', i < j
        PROVE  shown'[i] < shown'[j]
    <3>1. CASE j <= Len(shown)
      BY <2>3, <2>4, <3>1, FiledRanks
    <3>2. CASE i > Len(shown)
      <4>1. /\ i - Len(shown) \in DOMAIN messageRcv /\ j - Len(shown) \in DOMAIN messageRcv
            /\ i - Len(shown) < j - Len(shown)
            /\ shown'[i] = messageRcv[i - Len(shown)] /\ shown'[j] = messageRcv[j - Len(shown)]
        BY <2>3, <2>4, <3>2, FiledRanks
      <4> QED
        BY <4>1
    <3>3. CASE i <= Len(shown) /\ j > Len(shown)
      <4>1. i \in DOMAIN shown /\ j - Len(shown) \in DOMAIN messageRcv
            /\ shown'[i] = shown[i] /\ shown'[j] = messageRcv[j - Len(shown)]
        BY <2>3, <2>4, <3>3, FiledRanks
      <4> QED
        BY <2>1, <4>1
    <3> QED
      BY <2>3, <3>1, <3>2, <3>3, FiledRanks
  <2> QED
    BY <2>1, <2>4
<1>3. CASE ClearMessages
  <2>1. messageRcv' = <<>> /\ shown' = shown
    BY <1>3 DEF ClearMessages, taken
  <2> QED
    BY <2>1
<1>4. CASE GetTableUpdate
  BY <1>4 DEF GetTableUpdate
<1>5. CASE ~Handle /\ ~CopyMessages /\ ~ClearMessages /\ ~GetTableUpdate
  <2>1. UNCHANGED <<messageRcv, shown>>
    BY <1>5, FiledKept
  <2>2. ui = "clear" => ui' = "clear"
    BY <1>5 DEF Next, Notify, Shot, Answer, Closes, Net, ReadNothing, ReadType, ReadText, ReadEnd, Interface, Waiting,
                WaitAnswers, SendMessage, Poll, Take, Copy, Unlock, EnterGame, LeaveGame
  <2> QED
    BY <2>1, <2>2
<1> QED
  BY <1>1, <1>2, <1>3, <1>4, <1>5

-----------------------------------------------------------------------------
(* Shots *)

(* Numbers of the parts.                                                   *)
LEMMA Counts ==
  ASSUME TypeOK
  PROVE  /\ Len(drawn) \in Nat /\ Len(tableUpdate) \in Nat /\ Filed \in Nat
         /\ InSlot \in {0, 1}
         /\ DOMAIN partsSent = 1 .. Len(partsSent) /\ Len(partsSent) \in Nat
BY DEF TypeOK, Filed, InSlot

(* getTableUpdate alone draws, ...                                         *)
LEMMA OnlyDraw ==
  ASSUME ClientSlotAssumption, TypeOK, SlotInv, WireInv, FiledInv, Next, ~GetTableUpdate
  PROVE  drawn' = drawn
<1>1. CASE Handle
  BY <1>1, Files
<1>2. CASE CopyMessages \/ ClearMessages
  BY <1>2 DEF CopyMessages, ClearMessages, taken
<1> QED
  BY <1>1, <1>2, FiledKept

(* ... and draws what was filed.                                           *)
LEMMA Drawing ==
  ASSUME TypeOK, drawn' = Append(drawn, tableUpdate)
  PROVE  /\ Len(drawn) \in Nat
         /\ Len(drawn') = Len(drawn) + 1 /\ drawn'[Len(drawn) + 1] = tableUpdate
<1>1. tableUpdate \in Seq(Messages) /\ drawn \in Seq(Seq(Messages))
  <2>1. [type : PartTypes, text : 1 .. MaxRank] \subseteq Messages
    BY DEF Messages, Types
  <2> QED
    BY <2>1, SeqMonotonic DEF TypeOK
<1> QED
  BY <1>1, WriteQueue

(* A part stays where it was sent.                                         *)
LEMMA SentStays ==
  ASSUME ClientSlotAssumption, TypeOK, WireInv, Next
  PROVE  \A k \in DOMAIN partsSent : k \in DOMAIN partsSent' /\ partsSent'[k] = partsSent[k]
<1>1. CASE Shot
  <2>1. PICK m \in Messages : partsSent' = Append(partsSent, m)
    <3>1. Sends(NextPart) /\ partsSent' = Append(partsSent, [type |-> NextPart, text |-> sent'])
      BY <1>1, Sent
    <3>2. [type |-> NextPart, text |-> sent'] \in Messages
      BY <3>1 DEF Sends, Messages
    <3> QED
      BY <3>1, <3>2
  <2>2. /\ DOMAIN partsSent = 1 .. Len(partsSent) /\ Len(partsSent) \in Nat
        /\ DOMAIN partsSent' = 1 .. Len(partsSent) + 1
        /\ \A i \in 1 .. Len(partsSent) : partsSent'[i] = partsSent[i]
    BY <2>1, WriteQueue, Counts DEF TypeOK
  <2> QED
    BY <2>2
<1>2. CASE ~Shot
  <2>1. partsSent' = partsSent
    <3>1. CASE Notify \/ Answer \/ Closes
      BY <3>1 DEF Notify, Answer, Closes
    <3>2. CASE Net
      BY <3>2 DEF Net, ReadNothing, ReadType, ReadText, ReadEnd, Handle, server
    <3>3. CASE Interface
      BY <3>3 DEF Interface, Waiting, WaitAnswers, SendMessage, Poll, Take, Copy, Unlock, CopyMessages,
                  ClearMessages, EnterGame, LeaveGame, GetTableUpdate, server
    <3> QED
      BY <1>2, <3>1, <3>2, <3>3 DEF Next
  <2> QED
    BY <2>1
<1> QED
  BY <1>1, <1>2

(* What was thrown away stays so.                                          *)
LEMMA LostStays ==
  ASSUME Next, lost
  PROVE  lost'
<1>1. CASE Notify \/ Shot \/ Answer \/ Closes \/ Net
  BY <1>1 DEF Notify, Shot, Answer, Closes, Net, ReadNothing, ReadType, ReadText, ReadEnd, Handle, taken
<1>2. CASE Interface
  BY <1>2 DEF Interface, Waiting, WaitAnswers, SendMessage, Poll, Take, Copy, Unlock, CopyMessages,
              ClearMessages, EnterGame, LeaveGame, GetTableUpdate, taken
<1> QED
  BY <1>1, <1>2 DEF Next

LEMMA StepTable ==
  ASSUME ClientSlotAssumption, TypeOK, SlotInv, WireInv, FiledInv, PartsInv, TableInv, Next
  PROVE  TableInv'
<1> SUFFICES ASSUME ~lost', NEW i \in DOMAIN tableUpdate'
             PROVE  Sent_at(3 * Len(drawn) + i, tableUpdate[i])'
  BY DEF TableInv
<1>0. ~lost
  BY LostStays
<1>1. ASSUME drawn' = drawn, i \in DOMAIN tableUpdate, tableUpdate'[i] = tableUpdate[i]
      PROVE  Sent_at(3 * Len(drawn) + i, tableUpdate[i])'
  <2>1. Sent_at(3 * Len(drawn) + i, tableUpdate[i])
    BY <1>0, <1>1 DEF TableInv
  <2> QED
    BY <1>1, <2>1, SentStays DEF Sent_at
<1>2. CASE Handle
  <2>1. drawn' = drawn
    BY <1>2, Files
  <2>2. CASE tableUpdate' = tableUpdate
    BY <1>1, <2>1, <2>2
  <2>3. CASE tableUpdate' # tableUpdate
    <3>1. /\ type \in PartTypes /\ net = "handle"
          /\ DOMAIN tableUpdate' = 1 .. Len(tableUpdate) + 1
          /\ \A k \in 1 .. Len(tableUpdate) : tableUpdate'[k] = tableUpdate[k]
          /\ tableUpdate'[Len(tableUpdate) + 1] = [type |-> type, text |-> text]
      BY <1>2, <2>3, Files
    <3>2. CASE i \in 1 .. Len(tableUpdate)
      BY <1>1, <2>1, <3>1, <3>2, FiledRanks
    <3>3. CASE i = Len(tableUpdate) + 1
      <4>1. Filed + 1 \in DOMAIN partsSent /\ partsSent[Filed + 1] = tableUpdate'[i]
        BY <1>0, <3>1, <3>3 DEF PartsInv, InTurn, InSlot, Sent_at
      <4>2. 3 * Len(drawn') + i = Filed + 1
        BY <2>1, <3>3, Counts DEF Filed
      <4> QED
        BY <4>1, <4>2, SentStays DEF Sent_at
    <3> QED
      BY <3>1, <3>2, <3>3, FiledRanks
  <2> QED
    BY <2>2, <2>3
<1>3. CASE GetTableUpdate
  BY <1>3 DEF GetTableUpdate
<1>4. CASE ~Handle /\ ~GetTableUpdate
  <2>1. drawn' = drawn
    BY <1>4, OnlyDraw
  <2>2. tableUpdate' = tableUpdate
    <3>1. CASE CopyMessages \/ ClearMessages
      BY <3>1 DEF CopyMessages, ClearMessages, filed
    <3> QED
      BY <1>4, <3>1, FiledKept
  <2> QED
    BY <1>1, <2>1, <2>2
<1> QED
  BY <1>2, <1>3, <1>4

(* The places of the parts when the wire stays, ...                        *)
Places(n) == n \in [0 .. Len(wire) -> Nat] /\ Follows(n)

LEMMA PlacesKept ==
  ASSUME TypeOK, UNCHANGED <<wire, partsSent>>, NEW n, Places(n),
         (Filed + InSlot)' = Filed + InSlot
  PROVE  Places(n)'
BY DEF Places, Follows, Sent_at

(* ... when the server writes ...                                          *)
LEMMA PlacesSent ==
  ASSUME ClientSlotAssumption, TypeOK, WireInv, Next, NEW n, Places(n), NEW t, Sends(t),
         \/ t \in PartTypes /\ partsSent' = Append(partsSent, [type |-> t, text |-> sent'])
         \/ t \notin PartTypes /\ partsSent' = partsSent,
         (Filed + InSlot)' = Filed + InSlot
  PROVE  \E m : Places(m)'
<1> DEFINE L == Len(wire)
           P == Len(partsSent)
           m == [i \in 0 .. L + 1 |-> IF i <= L THEN n[i] ELSE After(t, P)]
<1>1. /\ L \in Nat /\ DOMAIN wire = 1 .. L /\ Len(wire') = L + 1 /\ DOMAIN wire' = 1 .. L + 1
      /\ \A i \in 1 .. L : wire'[i] = wire[i]
      /\ wire'[L + 1] = [type |-> t, text |-> sent']
  <2>1. [type |-> t, text |-> sent'] \in Messages
    BY DEF Sends, Messages
  <2> QED
    BY <2>1, WriteQueue DEF Sends, TypeOK
<1>2. P \in Nat /\ After(t, P) \in Nat
  BY Counts DEF After
<1>3. /\ n \in [0 .. L -> Nat]
      /\ n[0] = Filed + InSlot /\ n[L] = P
      /\ \A i \in 1 .. L : /\ wire[i].type \in PartTypes => Sent_at(n[i - 1] + 1, wire[i])
                           /\ n[i] = After(wire[i].type, n[i - 1])
  BY <1>1 DEF Places, Follows
<1>4. /\ m \in [0 .. L + 1 -> Nat]
      /\ m[L + 1] = After(t, P)
      /\ \A i \in 0 .. L : m[i] = n[i]
  BY <1>1, <1>2, <1>3
<1>5. /\ Len(partsSent') = After(t, P)
      /\ t \in PartTypes => P + 1 \in DOMAIN partsSent' /\ partsSent'[P + 1] = [type |-> t, text |-> sent']
  <2>1. CASE t \in PartTypes
    <3>1. [type |-> t, text |-> sent'] \in Messages
      BY DEF Sends, Messages
    <3>2. /\ Len(partsSent') = P + 1 /\ DOMAIN partsSent' = 1 .. P + 1
          /\ partsSent'[P + 1] = [type |-> t, text |-> sent']
      BY <2>1, <3>1, WriteQueue DEF TypeOK
    <3> QED
      BY <1>2, <2>1, <3>2 DEF After
  <2>2. CASE t \notin PartTypes
    BY <2>2 DEF After
  <2> QED
    BY <2>1, <2>2
<1> HIDE DEF m, L, P
<1>6. m[0] = (Filed + InSlot)'
  <2>1. 0 \in 0 .. L
    BY <1>1
  <2> QED
    BY <1>3, <1>4, <2>1
<1>7. ASSUME NEW i \in 1 .. L + 1
      PROVE  /\ wire'[i].type \in PartTypes => m[i - 1] + 1 \in DOMAIN partsSent' /\ partsSent'[m[i - 1] + 1] = wire'[i]
             /\ m[i] = After(wire'[i].type, m[i - 1])
  <2>1. CASE i \in 1 .. L
    <3>1. i \in 0 .. L /\ i - 1 \in 0 .. L
      BY <1>1, <2>1
    <3>2. m[i] = n[i] /\ m[i - 1] = n[i - 1]
      BY <1>4, <3>1
    <3> QED
      BY <1>1, <1>3, <2>1, <3>2, SentStays DEF Sent_at
  <2>2. CASE i = L + 1
    <3>1. i - 1 = L /\ L \in 0 .. L
      BY <1>1, <2>2
    <3>2. m[i - 1] = P
      BY <1>3, <1>4, <3>1
    <3>3. wire'[i] = [type |-> t, text |-> sent']
      BY <1>1, <2>2
    <3>4. wire'[i].type = t
      BY <3>3
    <3> QED
      BY <1>4, <1>5, <2>2, <3>2, <3>3, <3>4
  <2> QED
    BY <1>1, <2>1, <2>2
<1> QED
  BY <1>1, <1>4, <1>5, <1>6, <1>7 DEF Places, Follows, After, Sent_at

(* ... and when the network thread reads.                                  *)
LEMMA PlacesRead ==
  ASSUME TypeOK, SlotInv, ReadText, NEW n, Places(n), HalfRead
  PROVE  (\E m : Places(m)') /\ InTurn'
<1> DEFINE L == Len(wire)
           m == [i \in 0 .. L - 1 |-> n[i + 1]]
<1>1. /\ L \in Nat /\ L >= 1 /\ DOMAIN wire = 1 .. L /\ Len(wire') = L - 1 /\ DOMAIN wire' = 1 .. L - 1
      /\ \A i \in 1 .. L - 1 : wire'[i] = wire[i + 1]
  BY Shorter
<1>2. UNCHANGED <<tableUpdate, type, partsSent, drawn>> /\ net' = "handle" /\ net = "text"
  BY DEF ReadText, server, filed, taken
<1>3. /\ n \in [0 .. L -> Nat]
      /\ n[0] = Filed + InSlot /\ n[L] = Len(partsSent)
      /\ \A i \in 1 .. L : /\ wire[i].type \in PartTypes => Sent_at(n[i - 1] + 1, wire[i])
                           /\ n[i] = After(wire[i].type, n[i - 1])
  BY <1>1 DEF Places, Follows
<1>4. /\ m \in [0 .. L - 1 -> Nat]
      /\ \A i \in 0 .. L - 1 : m[i] = n[i + 1]
  BY <1>1, <1>3
<1> HIDE DEF m, L
<1>5. Filed \in Nat /\ Filed' = Filed /\ InSlot = 0
  BY <1>2, Counts DEF InSlot, Filed
<1>6. n[0] = Filed
  BY <1>3, <1>5
<1>7. (wire[1].type \in PartTypes => Sent_at(n[0] + 1, wire[1])) /\ n[1] = After(wire[1].type, n[0])
  <2>1. 1 \in 1 .. L /\ 1 - 1 = 0
    BY <1>1
  <2> QED
    BY <1>3, <2>1
<1>8. type \in PartTypes => type = wire[1].type
  BY <1>2, Kinds DEF SlotInv, Types
<1>9. wire[1].type \in PartTypes => type = wire[1].type
  BY <1>2 DEF HalfRead
<1>10. InTurn'
  <2>1. wire[1] \in Messages /\ text' = wire[1].text
    BY Shorter
  <2>2. CASE type \in PartTypes
    <3>1. wire[1] = [type |-> type', text |-> text']
      BY <1>2, <1>8, <2>1, <2>2 DEF Messages
    <3> QED
      BY <1>2, <1>5, <1>6, <1>7, <1>8, <2>2, <3>1 DEF InTurn, Sent_at
  <2>3. CASE type \notin PartTypes
    BY <1>2, <2>3 DEF InTurn, InSlot
  <2> QED
    BY <2>2, <2>3
<1>11. m[0] = (Filed + InSlot)'
  <2>1. m[0] = n[1]
    BY <1>1, <1>4
  <2>2. CASE wire[1].type \in PartTypes
    <3>1. InSlot' = 1
      BY <1>2, <1>9, <2>2 DEF InSlot
    <3> QED
      BY <1>5, <1>6, <1>7, <2>1, <2>2, <3>1 DEF After
  <2>3. CASE wire[1].type \notin PartTypes
    <3>1. InSlot' = 0
      BY <1>2, <1>8, <2>3 DEF InSlot
    <3> QED
      BY <1>5, <1>6, <1>7, <2>1, <2>3, <3>1 DEF After
  <2> QED
    BY <2>2, <2>3
<1>12. m[L - 1] = Len(partsSent)
  BY <1>1, <1>3, <1>4
<1>13. ASSUME NEW i \in 1 .. L - 1
       PROVE  /\ wire'[i].type \in PartTypes => Sent_at(m[i - 1] + 1, wire'[i])
              /\ m[i] = After(wire'[i].type, m[i - 1])
  <2>1. i + 1 \in 1 .. L /\ (i + 1) - 1 = i /\ i \in 0 .. L - 1 /\ i - 1 \in 0 .. L - 1 /\ (i - 1) + 1 = i
    BY <1>1
  <2>2. m[i] = n[i + 1] /\ m[i - 1] = n[i]
    BY <1>4, <2>1
  <2>3. /\ wire[i + 1].type \in PartTypes => Sent_at(n[i] + 1, wire[i + 1])
        /\ n[i + 1] = After(wire[i + 1].type, n[i])
    BY <1>3, <2>1
  <2> QED
    BY <1>1, <2>2, <2>3
<1>14. \E k : Places(k)'
  BY <1>1, <1>2, <1>4, <1>11, <1>12, <1>13 DEF Places, Follows, After, Sent_at
<1> QED
  BY <1>10, <1>14

LEMMA StepParts ==
  ASSUME ClientSlotAssumption, TypeOK, SlotInv, WireInv, AnswerInv, FiledInv, PartsInv, Next
  PROVE  PartsInv'
<1> SUFFICES ASSUME ~lost'
             PROVE  HalfRead' /\ InTurn' /\ \E m : Places(m)'
  BY DEF PartsInv, Places
<1>1. HalfRead /\ InTurn /\ DOMAIN wire = 1 .. Len(wire) /\ Len(wire) \in Nat
  BY LostStays, Ranks DEF PartsInv
<1>2. PICK n : Places(n)
  BY LostStays DEF PartsInv, Places
<1>3. CASE Notify \/ Shot \/ Answer
  <2>1. PICK t : /\ Sends(t)
                 /\ \/ t \in PartTypes /\ partsSent' = Append(partsSent, [type |-> t, text |-> sent'])
                    \/ t \notin PartTypes /\ partsSent' = partsSent
    <3>1. CASE Shot
      BY <3>1, Sent, NextIsPart
    <3>2. CASE Notify \/ Answer
      <4>1. partsSent' = partsSent
        BY <3>2 DEF Notify, Answer
      <4>2. \E t \in {"NOTIF", "PING", "ANSWER"} : Sends(t)
        BY <3>2, Sent
      <4> QED
        BY <4>1, <4>2, Kinds
    <3> QED
      BY <1>3, <3>1, <3>2
  <2>2. UNCHANGED <<tableUpdate, drawn, net, type, text>>
    BY <1>3 DEF Notify, Shot, Answer, slot, filed, taken
  <2>3. Filed' = Filed /\ InSlot' = InSlot
    BY <2>2 DEF Filed, InSlot
  <2>4. \E m : Places(m)'
    BY <1>2, <2>1, <2>3, PlacesSent
  <2>5. HalfRead'
    <3>1. wire # <<>> => wire'[1] = wire[1]
      BY <1>1, <2>1, Longer
    <3> QED
      BY <1>1, <2>2, <3>1 DEF SlotInv, HalfRead
  <2>6. InTurn'
    BY <1>1, <2>2, <2>3, SentStays DEF InTurn, Sent_at
  <2> QED
    BY <2>4, <2>5, <2>6
<1>4. CASE ReadText
  <2>1. net' = "handle"
    BY <1>4 DEF ReadText
  <2> QED
    BY <1>1, <1>2, <1>4, <2>1, PlacesRead DEF HalfRead
<1>5. CASE Handle
  <2>1. UNCHANGED <<wire, partsSent, drawn>> /\ net' = "select" /\ net = "handle"
    BY <1>5, Files
  <2>2. InSlot' = 0 /\ HalfRead' /\ InTurn'
    BY <2>1 DEF InSlot, HalfRead, InTurn
  <2>3. (Filed + InSlot)' = Filed + InSlot
    <3>1. \/ type \in PartTypes /\ Len(tableUpdate') = Len(tableUpdate) + 1
          \/ type \notin PartTypes /\ tableUpdate' = tableUpdate
      BY <1>5, Files, Kinds DEF Types
    <3> QED
      BY <2>1, <2>2, <3>1, Counts DEF InSlot, Filed
  <2> QED
    BY <1>2, <2>1, <2>2, <2>3, PlacesKept
<1>6. CASE ReadType
  <2>1. /\ UNCHANGED <<wire, partsSent, drawn, tableUpdate>> /\ wire # <<>>
        /\ type' = wire[1].type /\ net' = "text" /\ net = "select"
    BY <1>6, ReadQueue DEF ReadType, TypeOK, server, filed, taken
  <2>2. InSlot' = 0 /\ InSlot = 0 /\ Filed' = Filed
    BY <2>1 DEF InSlot, Filed
  <2>3. HalfRead' /\ InTurn'
    BY <2>1, <2>2 DEF HalfRead, InTurn
  <2> QED
    BY <1>2, <2>1, <2>2, <2>3, PlacesKept
<1>7. CASE GetTableUpdate
  <2>1. /\ UNCHANGED <<wire, partsSent, type, text, net>>
        /\ Len(tableUpdate) = 3 /\ tableUpdate' = <<>> /\ drawn' = Append(drawn, tableUpdate)
    BY <1>7 DEF GetTableUpdate, server, slot
  <2>2. Filed' = Filed
    <3>1. Len(drawn) \in Nat /\ Len(drawn') = Len(drawn) + 1
      BY <2>1, Drawing
    <3> QED
      BY <2>1, <3>1 DEF Filed
  <2>3. InSlot' = InSlot
    BY <2>1 DEF InSlot
  <2>4. HalfRead' /\ InTurn'
    BY <1>1, <2>1, <2>2, <2>3 DEF HalfRead, InTurn, Sent_at
  <2> QED
    BY <1>2, <2>1, <2>2, <2>3, <2>4, PlacesKept
<1>8. ASSUME UNCHANGED <<wire, partsSent, tableUpdate, drawn, text>>,
             \/ type' = type /\ (net' = net \/ (net' # "text" /\ type \notin PartTypes))
             \/ net' = net /\ type \notin PartTypes /\ type' \notin PartTypes
      PROVE  HalfRead' /\ InTurn' /\ \E m : Places(m)'
  <2>1. Filed' = Filed /\ InSlot' = InSlot
    BY <1>8 DEF Filed, InSlot
  <2>2. HalfRead'
    BY <1>1, <1>8 DEF HalfRead
  <2>3. InTurn'
    BY <1>1, <1>8, <2>1 DEF InTurn, InSlot, Sent_at
  <2> QED
    BY <1>2, <1>8, <2>1, <2>2, <2>3, PlacesKept
<1>9. CASE ReadNothing \/ ReadEnd
  <2>1. UNCHANGED <<wire, partsSent, tableUpdate, drawn, type, text>> /\ type \notin PartTypes /\ net' # "text"
    BY <1>9, Kinds DEF ReadNothing, ReadEnd, server, slot, filed, taken, SlotInv, Types
  <2> QED
    BY <1>8, <2>1
<1>10. CASE WaitAnswers \/ Take
  <2>1. UNCHANGED <<wire, partsSent, tableUpdate, drawn, text, net>> /\ type' = None
    BY <1>10 DEF WaitAnswers, Take, server, filed, taken
  <2>2. type \notin PartTypes
    <3>1. WaitAnswers => lost' = (lost \/ type \in PartTypes)
      BY DEF WaitAnswers
    <3>2. Take => type = "ANSWER"
      BY DEF Take, AnswerInv
    <3> QED
      BY <1>10, <3>1, <3>2, Kinds
  <2> QED
    BY <1>8, <2>1, <2>2, Kinds DEF Types
<1>11. CASE Closes \/ SendMessage \/ Poll \/ Copy \/ Unlock \/ CopyMessages \/ ClearMessages \/ EnterGame \/ LeaveGame
  <2>1. UNCHANGED <<wire, partsSent, tableUpdate, drawn, type, text, net>>
    BY <1>11 DEF Closes, SendMessage, Poll, Copy, Unlock, CopyMessages, ClearMessages, EnterGame, LeaveGame,
                 server, slot, filed, taken
  <2> QED
    BY <1>8, <2>1
<1> QED
  BY <1>3, <1>4, <1>5, <1>6, <1>7, <1>9, <1>10, <1>11 DEF Next, Net, Interface, Waiting

-----------------------------------------------------------------------------
LEMMA ClientSlotIInv == Spec => []IInv
<1>1. ASSUME IInv, Next
      PROVE  IInv'
  <2>1. TypeOK' /\ SlotInv' /\ WireInv' /\ AnswerInv' /\ NeverStale'
    BY <1>1, ClientSlotAssumption, StepTypeOK, StepSlot, StepWire, StepAnswer DEF IInv
  <2>2. FiledInv' /\ ShownInv' /\ PartsInv' /\ TableInv'
    BY <1>1, ClientSlotAssumption, StepFiled, StepShown, StepParts, StepTable DEF IInv
  <2> QED
    BY <2>1, <2>2 DEF IInv
<1>2. IInv /\ [Next]_vars => IInv'
  BY <1>1, StutterIInv
<1> QED
  BY <1>2, InitIInv, PTL DEF Spec

(* The slot, the vectors and the counters of the two threads stay          *)
(* well-formed; no rank exceeds what the server and the requests allow.    *)
THEOREM ClientSlotTyped == Spec => []TypeOK
<1>1. IInv => TypeOK
  BY DEF IInv
<1> QED
  BY <1>1, ClientSlotIInv, PTL

(* Notifications are shown in the order they were sent, each once, though  *)
(* getNewMsg copies and clears the vector without a lock: what comes       *)
(* between the two is lost, never repeated.                                *)
THEOREM NotificationsInOrder == Spec => []ShownInOrder
<1>1. IInv => ShownInOrder
  BY DEF IInv, ShownInv, ShownInOrder
<1> QED
  BY <1>1, ClientSlotIInv, PTL

(* The n-th time, getTableUpdate takes the three parts of the n-th shot the *)
(* server sent, whatever notifications and shots come while the interface  *)
(* is slow, as long as waitAnswers has not thrown a part away.             *)
THEOREM WholeShots == Spec => DrawsWholeShots
<1>1. ASSUME IInv, [Next]_vars, drawn' # drawn, ~lost
      PROVE  IsShot(drawn'[Len(drawn')], Len(drawn'))
  <2>1. TypeOK /\ SlotInv /\ WireInv /\ FiledInv /\ TableInv
    BY <1>1 DEF IInv
  <2>2. GetTableUpdate
    BY <1>1, <2>1, ClientSlotAssumption, OnlyDraw DEF vars, taken
  <2>3. drawn' = Append(drawn, tableUpdate) /\ Len(tableUpdate) = 3
    BY <2>2 DEF GetTableUpdate
  <2>4. /\ Len(drawn) \in Nat
        /\ Len(drawn') = Len(drawn) + 1 /\ drawn'[Len(drawn) + 1] = tableUpdate
    BY <2>1, <2>3, Drawing
  <2>5. DOMAIN tableUpdate = 1 .. 3
    BY <2>1, <2>3, ClientSlotAssumption, FiledRanks
  <2>6. \A i \in 1 .. 3 : Sent_at(3 * Len(drawn) + i, tableUpdate[i])
    BY <1>1, <2>1, <2>5 DEF TableInv
  <2>7. DOMAIN partsSent = 1 .. Len(partsSent) /\ Len(partsSent) \in Nat
    BY <2>1 DEF TypeOK
  <2>8. 3 * Len(drawn') <= Len(partsSent)
    <3>1. 3 * Len(drawn) + 3 \in DOMAIN partsSent
      BY <2>6 DEF Sent_at
    <3> QED
      BY <2>4, <2>7, <3>1
  <2>9. 3 * (Len(drawn') - 1) = 3 * Len(drawn)
    BY <2>4
  <2> QED
    BY <2>3, <2>4, <2>6, <2>8, <2>9 DEF IsShot, Sent_at
<1>2. IInv /\ [Next]_vars => [drawn' # drawn => lost \/ IsShot(drawn'[Len(drawn')], Len(drawn'))]_vars
  BY <1>1
<1> QED
  BY <1>2, ClientSlotIInv, PTL DEF Spec, DrawsWholeShots

(* waitAnswers does not return what was sent before its request, though    *)
(* it copies the text of the slot after it released the type.              *)
THEOREM AnswersNeverStale == Spec => []NeverStale
<1>1. IInv => NeverStale
  BY DEF IInv
<1> QED
  BY <1>1, ClientSlotIInv, PTL

=============================================================================
