------------------------------- MODULE Locks --------------------------------
(***************************************************************************)
(* The two mutexes of the server (Server/src/utils.cpp:16-20) and what     *)
(* they protect: DataBase_mutex the single DataBase object, whose          *)
(* operations write the statement in a member and then execute the member  *)
(* (database.cpp:659-671), pub_mutex the PUB socket, on which a message is *)
(* two frames.  Every operation of the sessions, the rooms and the broker  *)
(* is reduced to the mutexes it takes, the statements it runs and the      *)
(* messages it publishes; one operation may do each of them many times.    *)
(***************************************************************************)
EXTENDS Naturals

CONSTANTS
  Sessions,   \* the client_thread's
  Rooms,      \* the game_thread's
  Broker,     \* the broker_thread
  Nobody,     \* a mutex that is free
  Leaked      \* a mutex that was left locked by a function that returned

Threads == Sessions \cup Rooms \cup {Broker}

ASSUME LocksAssumption == Nobody \notin Threads /\ Leaked \notin Threads /\ Nobody # Leaked

(* The operations of each kind of thread, and what they do with the        *)
(* mutexes.  An operation is one handler: "instruction" is                 *)
(* handle_instruction, "enter" add_user, "quit" handle_quit, ...           *)
Operations(t) ==
  IF t \in Sessions THEN {"instruction", "invite", "friend_list", "forward"}
  ELSE IF t \in Rooms THEN {"enter", "set_team", "relay", "chat", "start", "end_game", "quit", "close_room"}
  ELSE {"ping_rooms", "create_room", "transfer"}

LocksDb == {"instruction", "invite", "enter", "set_team", "start", "end_game", "close_room",
            "ping_rooms", "create_room"}
PublishesUnderDb == {"instruction", "end_game"}
Publishes == {"invite", "forward", "enter", "set_team", "relay", "chat", "start", "ping_rooms",
              "create_room", "transfer"}
Unlocked == {"friend_list", "enter", "chat"}

VARIABLES
  op,        \* the operation of each thread
  pc,        \* where it is with respect to the mutexes
  db_owner,  \* who holds DataBase_mutex
  pub_owner, \* who holds pub_mutex
  stmt,      \* who wrote m_sql_request last, and whether under the mutex
  address    \* who sent an address frame that has no contents frame yet

vars == <<op, pc, db_owner, pub_owner, stmt, address>>

(* "free": in an operation, no mutex held; "db": DataBase_mutex held       *)
(* between two statements; "prepared": m_sql_request written, not yet      *)
(* executed; "half": between the two frames; "quit": handle_quit, in its   *)
(* own critical section of pub_mutex.                                      *)
Labels == {"idle", "free", "want_db", "receive", "db", "prepared",
           "want_pub", "pub", "half", "sent", "quit", "hung"}

Goto(t, label) == pc' = [pc EXCEPT ![t] = label]

Init ==
  /\ op = [t \in Threads |-> "none"]
  /\ pc = [t \in Threads |-> "idle"]
  /\ db_owner = Nobody
  /\ pub_owner = Nobody
  /\ stmt = [by |-> Nobody, locked |-> FALSE]
  /\ address = Nobody

-----------------------------------------------------------------------------
(* A thread starts an operation, which may need a mutex, and ends it.      *)
Start(t) ==
  /\ pc[t] = "idle"
  /\ \E o \in Operations(t) : op' = [op EXCEPT ![t] = o]
  /\ Goto(t, "free")
  /\ UNCHANGED <<db_owner, pub_owner, stmt, address>>

Finish(t) ==
  /\ pc[t] = "free"
  /\ op' = [op EXCEPT ![t] = "none"]
  /\ Goto(t, "idle")
  /\ UNCHANGED <<db_owner, pub_owner, stmt, address>>

WantDb_inside_publication(t) ==
  /\ pc[t] \in {"free", "sent"} /\ op[t] \in LocksDb \ PublishesUnderDb
  /\ Goto(t, "want_db")
  /\ UNCHANGED <<op, db_owner, pub_owner, stmt, address>>
WantDb(t) ==
  /\ pc[t] = "free" /\ op[t] \in LocksDb
  /\ Goto(t, "want_db")
  /\ UNCHANGED <<op, db_owner, pub_owner, stmt, address>>

(* handle_instruction locks first and then waits for the rest of its       *)
(* client's message.                                                       *)
LockDb_without_waiting(t) ==
  /\ pc[t] = "want_db"
  /\ db_owner' = t
  /\ Goto(t, IF op[t] = "instruction" THEN "receive" ELSE "db")
  /\ UNCHANGED <<op, pub_owner, stmt, address>>
LockDb(t) ==
  /\ pc[t] = "want_db" /\ db_owner = Nobody
  /\ db_owner' = t
  /\ Goto(t, IF op[t] = "instruction" THEN "receive" ELSE "db")
  /\ UNCHANGED <<op, pub_owner, stmt, address>>

Receive(t) ==
  /\ pc[t] = "receive"
  /\ Goto(t, "db")
  /\ UNCHANGED <<op, db_owner, pub_owner, stmt, address>>

(* The two halves of a DataBase operation, under the mutex or, for the     *)
(* operations in Unlocked, without it.                                     *)
Prepare(t) ==
  /\ pc[t] = "db" \/ (pc[t] = "free" /\ op[t] \in Unlocked)
  /\ stmt' = [by |-> t, locked |-> pc[t] = "db"]
  /\ Goto(t, "prepared")
  /\ UNCHANGED <<op, db_owner, pub_owner, address>>

Execute(t) ==
  /\ pc[t] = "prepared"
  /\ Goto(t, IF db_owner = t THEN "db" ELSE "free")
  /\ UNCHANGED <<op, db_owner, pub_owner, stmt, address>>

UnlockDb(t) ==
  /\ pc[t] = "db"
  /\ db_owner' = Nobody
  /\ Goto(t, "free")
  /\ UNCHANGED <<op, pub_owner, stmt, address>>

(* register_user returns without unlocking when the pseudonym is taken.    *)
RegisterFails(t) ==
  /\ pc[t] = "db" /\ op[t] = "instruction"
  /\ db_owner' = Leaked
  /\ op' = [op EXCEPT ![t] = "none"]
  /\ Goto(t, "idle")
  /\ UNCHANGED <<pub_owner, stmt, address>>

-----------------------------------------------------------------------------
(* Publishing: sendMessage, or the same four lines in a session or the     *)
(* broker.  handle_quit takes the mutex itself.                            *)
WantPub(t) ==
  /\ \/ pc[t] = "db" /\ op[t] \in PublishesUnderDb
     \/ pc[t] = "free" /\ op[t] \in Publishes \cup {"quit"}
  /\ Goto(t, "want_pub")
  /\ UNCHANGED <<op, db_owner, pub_owner, stmt, address>>

LockPub_without_waiting(t) ==
  /\ pc[t] = "want_pub"
  /\ pub_owner' = t
  /\ Goto(t, IF op[t] = "quit" THEN "quit" ELSE "pub")
  /\ UNCHANGED <<op, db_owner, stmt, address>>
LockPub(t) ==
  /\ pc[t] = "want_pub" /\ pub_owner = Nobody
  /\ pub_owner' = t
  /\ Goto(t, IF op[t] = "quit" THEN "quit" ELSE "pub")
  /\ UNCHANGED <<op, db_owner, stmt, address>>

SendAddress(t) ==
  /\ pc[t] = "pub"
  /\ address' = t
  /\ Goto(t, "half")
  /\ UNCHANGED <<op, db_owner, pub_owner, stmt>>

SendContents(t) ==
  /\ pc[t] = "half"
  /\ address' = Nobody
  /\ Goto(t, "sent")
  /\ UNCHANGED <<op, db_owner, pub_owner, stmt>>

UnlockPub_returns_early(t) ==
  /\ pc[t] = "sent"
  /\ Goto(t, IF db_owner = t THEN "db" ELSE "free")
  /\ UNCHANGED <<op, db_owner, pub_owner, stmt, address>>
UnlockPub(t) ==
  /\ pc[t] = "sent"
  /\ pub_owner' = Nobody
  /\ Goto(t, IF db_owner = t THEN "db" ELSE "free")
  /\ UNCHANGED <<op, db_owner, stmt, address>>

(* handle_quit: with a player left, sendMessage locks pub_mutex again and  *)
(* never returns; in an empty room the mutex is released.                  *)
QuitMessage(t) ==
  /\ pc[t] = "quit"
  /\ Goto(t, "hung")
  /\ UNCHANGED <<op, db_owner, pub_owner, stmt, address>>

QuitUnlock(t) ==
  /\ pc[t] = "quit"
  /\ pub_owner' = Nobody
  /\ Goto(t, "free")
  /\ UNCHANGED <<op, db_owner, stmt, address>>

-----------------------------------------------------------------------------
(* The steps a thread in an operation takes by itself.                     *)
Step(t) ==
  \/ Finish(t) \/ WantDb(t) \/ LockDb(t) \/ Prepare(t) \/ Execute(t) \/ UnlockDb(t)
  \/ RegisterFails(t) \/ WantPub(t) \/ LockPub(t) \/ SendAddress(t) \/ SendContents(t)
  \/ UnlockPub(t) \/ QuitMessage(t) \/ QuitUnlock(t)

Next == \E t \in Threads : Start(t) \/ Receive(t) \/ Step(t)

Spec == Init /\ [][Next]_vars

(* Threads are preemptive: one that can run does.  Clients need not send   *)
(* anything, and a mutex need not be handed over in order of arrival.      *)
FairSpec == Spec /\ \A t \in Threads : WF_vars(Step(t))

-----------------------------------------------------------------------------
(* Properties *)

TypeOK ==
  /\ op \in [Threads -> LocksDb \cup Publishes \cup Unlocked \cup {"quit", "none"}]
  /\ pc \in [Threads -> Labels]
  /\ db_owner \in Threads \cup {Nobody, Leaked}
  /\ pub_owner \in Threads \cup {Nobody}
  /\ stmt \in [by : Threads \cup {Nobody}, locked : BOOLEAN]
  /\ address \in Threads \cup {Nobody}

(* Types, and how the owners of the mutexes agree with what the threads    *)
(* do: a thread inside a critical section owns its mutex, an owner is      *)
(* inside, who holds pub_mutex does not ask for DataBase_mutex, and who    *)
(* quits holds no other mutex.                                             *)
InDb == {"receive", "db", "prepared", "want_pub", "pub", "half", "sent"}
InPub == {"pub", "half", "sent", "quit", "hung"}
MutexInv ==
  /\ TypeOK
  /\ \A t \in Threads :
       /\ pub_owner = t <=> pc[t] \in InPub
       /\ pc[t] \in {"receive", "db"} => db_owner = t
       /\ db_owner = t => pc[t] \in InDb
       /\ op[t] = "quit" => pc[t] # "want_db" /\ db_owner # t

(* The contents frame a thread is about to send follows its own address    *)
(* frame: two publications, whoever makes them, never interleave on the    *)
(* one PUB socket (in_game_player.cpp:40-43, user_thread.cpp:105-108, ...).*)
FramesPaired == \A t \in Threads : pc[t] = "half" <=> address = t

(* The statement a thread executes under DataBase_mutex is its own, unless *)
(* it was written by an operation that does not lock: the locked           *)
(* operations never harm each other (database.cpp:659-671).                *)
OwnStatement ==
  \A t \in Threads : pc[t] = "prepared" /\ db_owner = t /\ stmt.locked => stmt.by = t

(* A thread that cannot go on by itself.                                   *)
Waits(t) == \/ pc[t] = "want_db" /\ db_owner # Nobody
            \/ pc[t] = "want_pub" /\ pub_owner # Nobody
            \/ pc[t] \in {"receive", "hung"}

(* A thread that waits does so behind one that can run, whatever the order *)
(* in which the two mutexes were asked for; the exceptions are those of    *)
(* the code: a client that does not send the rest of its message           *)
(* (utils.cpp:48-50), a failed registration that kept DataBase_mutex       *)
(* (utils.cpp:352-354) and a quit that locked pub_mutex twice              *)
(* (game.cpp:615-617).                                                     *)
NobodyWaitsInCircle ==
  (\E t \in Threads : pc[t] # "idle") /\ (\A t \in Threads : pc[t] # "idle" => Waits(t)) =>
     \/ db_owner = Leaked
     \/ \E t \in Threads : pc[t] \in {"receive", "hung"}

(* pub_mutex is never kept: whoever takes it gives it back, although it    *)
(* may hold DataBase_mutex meanwhile, unless a quit hangs.                 *)
PubIsReleased == \A t \in Threads : pub_owner = t ~> pub_owner # t \/ pc[t] = "hung"

=============================================================================
