----------------------------- MODULE LocksProofs -----------------------------
(***************************************************************************)
(* Theorems about Locks, for any number of sessions and rooms.             *)
(***************************************************************************)
EXTENDS Locks, TLAPS

(* The inductive invariant: MutexInv with the two facts about what the     *)
(* mutexes protect.                                                        *)
IInv == MutexInv /\ FramesPaired /\ OwnStatement

LEMMA InitIInv == Init => IInv
<1> SUFFICES ASSUME Init PROVE IInv
    OBVIOUS
<1> USE LocksAssumption DEF Init
<1>1. TypeOK
      BY DEF TypeOK, Labels
<1>2. MutexInv
      BY <1>1 DEF MutexInv, InPub, InDb
<1>3. QED
      BY <1>2 DEF IInv, FramesPaired, OwnStatement

(* What a thread starts is an operation of its kind. *)
LEMMA OperationsTyped ==
  ASSUME NEW t \in Threads, NEW o \in Operations(t)
  PROVE  o \in LocksDb \cup Publishes \cup Unlocked \cup {"quit", "none"}
BY DEF Operations, LocksDb, Publishes, Unlocked

LEMMA StepTypeOK ==
  ASSUME IInv, Next
  PROVE  TypeOK'
<1> USE DEF IInv, MutexInv, TypeOK, Labels, Goto
<1>1. PICK t \in Threads : Start(t) \/ Receive(t) \/ Step(t)
      BY DEF Next
<1>2. CASE Start(t)
  <2>1. PICK o \in Operations(t) : op' = [op EXCEPT ![t] = o]
        BY <1>2 DEF Start
  <2>2. o \in LocksDb \cup Publishes \cup Unlocked \cup {"quit", "none"}
        BY OperationsTyped
  <2>3. op' \in [Threads -> LocksDb \cup Publishes \cup Unlocked \cup {"quit", "none"}]
        BY <2>1, <2>2
  <2>4. QED
        BY <1>2, <2>3 DEF Start
<1>3. CASE Receive(t)
      BY <1>3 DEF Receive
<1>4. CASE Finish(t) \/ WantDb(t)
      BY <1>4 DEF Finish, WantDb
<1>8. CASE LockDb(t)
      BY <1>8 DEF LockDb
<1>9. CASE Prepare(t)
  <2>1. stmt' \in [by : Threads \cup {Nobody}, locked : BOOLEAN]
        BY <1>9 DEF Prepare
  <2>2. QED
        BY <1>9, <2>1 DEF Prepare
<1>5. CASE Execute(t) \/ UnlockDb(t) \/ RegisterFails(t) \/ WantPub(t) \/ LockPub(t)
      BY <1>5 DEF Execute, UnlockDb, RegisterFails, WantPub, LockPub
<1>6. CASE SendAddress(t) \/ SendContents(t) \/ UnlockPub(t) \/ QuitMessage(t) \/ QuitUnlock(t)
      BY <1>6 DEF SendAddress, SendContents, UnlockPub, QuitMessage, QuitUnlock
<1>7. QED
      BY <1>1, <1>2, <1>3, <1>4, <1>5, <1>6, <1>8, <1>9 DEF Step

(* An operation that a step of t does not end keeps its name, so a quit    *)
(* stays a quit.                                                           *)
LEMMA StepIInv ==
  ASSUME IInv, Next
  PROVE  IInv'
<1>0. TypeOK'
      BY StepTypeOK
<1> USE LocksAssumption DEF IInv, MutexInv, TypeOK, Goto, FramesPaired, OwnStatement, InPub, InDb
<1>1. PICK t \in Threads : Start(t) \/ Receive(t) \/ Step(t)
      BY DEF Next
<1>2. CASE Start(t)
      BY <1>0, <1>2 DEF Start
<1>3. CASE Receive(t)
      BY <1>0, <1>3 DEF Receive
<1>4. CASE Finish(t)
      BY <1>0, <1>4 DEF Finish
<1>5. CASE WantDb(t)
      BY <1>0, <1>5 DEF WantDb, LocksDb
<1>6. CASE LockDb(t)
  <2>1. op[t] # "quit" /\ pc[t] = "want_db" /\ db_owner = Nobody
        BY <1>6 DEF LockDb
  <2>2. MutexInv'
        BY <1>0, <1>6, <2>1 DEF LockDb
  <2>3. FramesPaired' /\ OwnStatement'
        BY <1>0, <1>6, <2>1 DEF LockDb
  <2>4. QED
        BY <2>2, <2>3
<1>7. CASE Prepare(t)
      BY <1>0, <1>7 DEF Prepare
<1>8. CASE Execute(t)
      BY <1>0, <1>8 DEF Execute
<1>9. CASE UnlockDb(t)
      BY <1>0, <1>9 DEF UnlockDb
<1>10. CASE RegisterFails(t)
      BY <1>0, <1>10 DEF RegisterFails
<1>11. CASE WantPub(t)
      BY <1>0, <1>11 DEF WantPub, PublishesUnderDb
<1>12. CASE LockPub(t)
      BY <1>0, <1>12 DEF LockPub
<1>13. CASE SendAddress(t)
      BY <1>0, <1>13 DEF SendAddress
<1>14. CASE SendContents(t)
      BY <1>0, <1>14 DEF SendContents
<1>15. CASE UnlockPub(t)
      BY <1>0, <1>15 DEF UnlockPub
<1>16. CASE QuitMessage(t)
      BY <1>0, <1>16 DEF QuitMessage
<1>17. CASE QuitUnlock(t)
      BY <1>0, <1>17 DEF QuitUnlock
<1>18. QED
      BY <1>1, <1>2, <1>3, <1>4, <1>5, <1>6, <1>7, <1>8, <1>9, <1>10, <1>11, <1>12, <1>13,
         <1>14, <1>15, <1>16, <1>17 DEF Step

LEMMA StutterIInv ==
  ASSUME IInv, UNCHANGED vars
  PROVE  IInv'
BY DEF vars, IInv, MutexInv, TypeOK, FramesPaired, OwnStatement

(* The mutexes are used in one order and by their owners only (utils.cpp,  *)
(* game.cpp, broker.cpp), however many sessions and rooms there are.       *)
THEOREM MutexesHeld == Spec => []MutexInv
<1>1. IInv /\ [Next]_vars => IInv'
      BY StepIInv, StutterIInv
<1>2. IInv => MutexInv
      BY DEF IInv
<1>3. QED
      BY InitIInv, <1>1, <1>2, PTL DEF Spec

(* No two publications on the PUB socket interleave their frames.          *)
THEOREM FramesStayPaired == Spec => []FramesPaired
<1>1. IInv /\ [Next]_vars => IInv'
      BY StepIInv, StutterIInv
<1>2. IInv => FramesPaired
      BY DEF IInv
<1>3. QED
      BY InitIInv, <1>1, <1>2, PTL DEF Spec

(* Locked database operations execute their own statement.                 *)
THEOREM StatementsOwned == Spec => []OwnStatement
<1>1. IInv /\ [Next]_vars => IInv'
      BY StepIInv, StutterIInv
<1>2. IInv => OwnStatement
      BY DEF IInv
<1>3. QED
      BY InitIInv, <1>1, <1>2, PTL DEF Spec

(* The owner of a mutex that is waited for is not itself waiting in a      *)
(* circle: nobody who holds pub_mutex asks for DataBase_mutex.             *)
LEMMA NoCircle == MutexInv => NobodyWaitsInCircle
<1> SUFFICES ASSUME MutexInv, NEW t \in Threads, pc[t] # "idle",
                    \A u \in Threads : pc[u] # "idle" => Waits(u),
                    db_owner # Leaked,
                    \A u \in Threads : pc[u] \notin {"receive", "hung"}
             PROVE  FALSE
    BY DEF NobodyWaitsInCircle
<1> USE LocksAssumption DEF MutexInv, TypeOK, InPub, InDb, Waits
<1>1. \A v \in Threads : pc[v] # "want_pub"
  <2> SUFFICES ASSUME NEW v \in Threads, pc[v] = "want_pub" PROVE FALSE
      OBVIOUS
  <2>1. pub_owner \in Threads
        OBVIOUS
  <2>2. pc[pub_owner] \in {"pub", "half", "sent", "quit", "hung"}
        BY <2>1
  <2>3. QED
        BY <2>1, <2>2
<1>2. pc[t] = "want_db" /\ db_owner \in Threads
      BY <1>1
<1>3. pc[db_owner] \in {"receive", "db", "prepared", "want_pub", "pub", "half", "sent"}
      BY <1>2
<1>4. QED
      BY <1>1, <1>2, <1>3

(* A thread of the server waits for ever only behind a silent client, a    *)
(* failed registration or a quit.                                          *)
THEOREM NoDeadlock == Spec => []NobodyWaitsInCircle
BY MutexesHeld, NoCircle, PTL

=============================================================================
