----------------------- MODULE DebuggerHandshakeProofs -----------------------
(***************************************************************************)
(* Proofs about DebuggerHandshake, for every client, every set of stop     *)
(* kinds and every queue bound.                                            *)
(***************************************************************************)
EXTENDS DebuggerHandshake, SequenceTheorems, TLAPS

(* The next-state relation keeps every variable of both threads in its     *)
(* type, whatever the client sends (DebuggerIPCServer, DebugObserver).     *)
LEMMA TypeStep == TypeOK /\ [Next]_vars => TypeOK'
<1> SUFFICES ASSUME TypeOK, [Next]_vars PROVE TypeOK'
  OBVIOUS
<1> USE HandshakeAssumption
    DEF TypeOK, SimPcs, SrvPcs, Messages, Requests, EndKind, AllCommands,
        sync, life, reply, client, ipc
<1>1. CASE SimNext
  <2>1. CASE TopInit
    BY <2>1 DEF TopInit, SimGoto
  <2>2. CASE WaitForRunCommand
    BY <2>2 DEF WaitForRunCommand, SimGoto
  <2>3. CASE Observe
    BY <2>3 DEF Observe, SimGoto
  <2>4. CASE ObserveEnd
    BY <2>4 DEF ObserveEnd, SimGoto
  <2>5. ASSUME NEW kind \in StopKinds, Stop(kind) PROVE TypeOK'
    BY <2>5 DEF Stop, SimGoto
  <2>6. CASE SimEnd
    BY <2>6 DEF SimEnd, SimGoto
  <2>7. CASE DestroyEnabled
    BY <2>7 DEF DestroyEnabled, SimGoto
  <2>8. CASE DeleteLock
    BY <2>8 DEF DeleteLock, SimGoto
  <2>9. CASE KillThread
    BY <2>9 DEF KillThread, SimGoto
  <2>10. CASE Shutdown
    <3>1. bound' \in BOOLEAN
      BY <2>10, Zenon DEF Shutdown
    <3> QED
      BY <2>10, <3>1 DEF Shutdown, SimGoto
  <2>11. CASE Join
    BY <2>11 DEF Join, SimGoto
  <2>12. CASE NotifyLock
    BY <2>12 DEF NotifyLock, SimGoto
  <2>13. CASE NotifySet
    BY <2>13 DEF NotifySet, SimGoto
  <2>14. CASE NotifyCv
    BY <2>14 DEF NotifyCv, WakeServer, SimGoto
  <2>15. CASE PauseLock
    BY <2>15 DEF PauseLock, SimGoto
  <2>16. CASE PauseProceed
    <3>1. continue_command' \in BOOLEAN
      BY <2>16, Zenon DEF PauseProceed
    <3> QED
      BY <2>16, <3>1 DEF PauseProceed, SimGoto
  <2>17. CASE PauseTest
    BY <2>17 DEF PauseTest, SimGoto
  <2>18. CASE PauseWait
    BY <2>18 DEF PauseWait, SimGoto
  <2>19. CASE PauseSpurious
    BY <2>19 DEF PauseSpurious, SimGoto
  <2> QED
    BY <1>1, <2>1, <2>2, <2>3, <2>4, <2>5, <2>6, <2>7, <2>8, <2>9, <2>10,
       <2>11, <2>12, <2>13, <2>14, <2>15, <2>16, <2>17, <2>18, <2>19
    DEF SimNext
<1>2. CASE SrvNext
  <2>1. CASE Loop
    BY <2>1 DEF Loop, SrvGoto
  <2>2. CASE RecvTimeout
    BY <2>2 DEF RecvTimeout, SrvGoto
  <2>3. CASE Receive
    <3>1. /\ Head(inbox) \in Requests
          /\ Tail(inbox) \in Seq(Requests)
      BY <2>3, HeadTailProperties DEF Receive
    <3>2. Handler(Head(inbox).type) \in SrvPcs
      BY <3>1 DEF Handler
    <3> QED
      BY <2>3, <3>1, <3>2 DEF Receive, SrvGoto
  <2>4. CASE Service
    BY <2>4 DEF Service, Send, SrvGoto
  <2>5. CASE RunAgain
    BY <2>5 DEF RunAgain, Send, SrvGoto
  <2>6. CASE RunUnlock
    BY <2>6 DEF RunUnlock, SrvGoto
  <2>7. CASE RunUnlockDeleted
    BY <2>7 DEF RunUnlockDeleted, SrvGoto
  <2>8. CASE ContLock
    BY <2>8 DEF ContLock, SrvGoto
  <2>9. CASE ContSet
    BY <2>9 DEF ContSet, SrvGoto
  <2>10. CASE ContCv
    BY <2>10 DEF ContCv, WakeSimulation, SrvGoto
  <2>11. CASE StopLock
    BY <2>11 DEF StopLock, SrvGoto
  <2>12. CASE StopProceed
    <3>1. stopped' \in BOOLEAN
      BY <2>12, Zenon DEF StopProceed
    <3> QED
      BY <2>12, <3>1 DEF StopProceed, SrvGoto
  <2>13. CASE StopTest
    BY <2>13 DEF StopTest, SrvGoto
  <2>14. CASE StopWait
    BY <2>14 DEF StopWait, SrvGoto
  <2>15. CASE StopSpurious
    BY <2>15 DEF StopSpurious, SrvGoto
  <2>16. CASE Reply
    <3>1. reply_live' \in BOOLEAN
      BY <2>16, Zenon DEF Reply
    <3> QED
      BY <2>16, <3>1 DEF Reply, Send, SrvGoto
  <2> QED
    BY <1>2, <2>1, <2>2, <2>3, <2>4, <2>5, <2>6, <2>7, <2>8, <2>9, <2>10,
       <2>11, <2>12, <2>13, <2>14, <2>15, <2>16
    DEF SrvNext
<1>3. CASE ClientNext
  <2>1. ASSUME NEW type \in Commands, ClientSend(type) PROVE TypeOK'
    <3>1. [type |-> type, dup |-> FALSE] \in Requests
      OBVIOUS
    <3> QED
      BY <2>1, <3>1 DEF ClientSend
  <2>2. CASE Resend
    <3>1. [type |-> outstanding, dup |-> TRUE] \in Requests
      BY <2>2 DEF Resend
    <3> QED
      BY <2>2, <3>1 DEF Resend
  <2> QED
    BY <1>3, <2>1, <2>2 DEF ClientNext
<1>4. CASE UNCHANGED vars
  BY <1>4 DEF vars
<1> QED
  BY <1>1, <1>2, <1>3, <1>4 DEF Next

(* The simulator starts with every variable in its type. *)
LEMMA InitTyped == Init => TypeOK
<1> SUFFICES ASSUME Init PROVE TypeOK
  OBVIOUS
<1>1. /\ stopped \in BOOLEAN /\ continue_command \in BOOLEAN
      /\ run_called \in BOOLEAN /\ kill_thread \in BOOLEAN
      /\ ending \in BOOLEAN /\ bound \in BOOLEAN /\ reply_live \in BOOLEAN
  BY Zenon DEF Init
<1>2. inbox \in Seq(Requests) /\ request \in Requests
  BY DEF Init, Requests, AllCommands, NoRequest
<1> QED
  BY <1>1, <1>2 DEF Init, TypeOK, SimPcs, SrvPcs

(* Both threads and the sockets stay within their types (TypeOK).          *)
THEOREM TypeCorrect == Spec => []TypeOK
  BY InitTyped, TypeStep, PTL DEF Spec

(* Mutex ownership follows the program counters, and a thread that is      *)
(* about to sleep has seen its predicate false (waitForStop, pause).       *)
LEMMA LockStep == TypeOK /\ Locks /\ [Next]_vars => Locks'
<1> SUFFICES ASSUME TypeOK, Locks, [Next]_vars PROVE Locks'
  OBVIOUS
<1> USE DEF TypeOK, Locks, sync, life, reply, client, ipc
<1>1. CASE SimNext
  <2>1. CASE TopInit
    BY <2>1 DEF TopInit, SimGoto
  <2>2. CASE WaitForRunCommand
    BY <2>2 DEF WaitForRunCommand, SimGoto
  <2>3. CASE Observe
    BY <2>3 DEF Observe, SimGoto
  <2>4. CASE ObserveEnd
    BY <2>4 DEF ObserveEnd, SimGoto
  <2>5. ASSUME NEW kind \in StopKinds, Stop(kind) PROVE Locks'
    BY <2>5 DEF Stop, SimGoto
  <2>6. CASE SimEnd
    BY <2>6 DEF SimEnd, SimGoto
  <2>7. CASE DestroyEnabled
    BY <2>7 DEF DestroyEnabled, SimGoto
  <2>8. CASE DeleteLock
    BY <2>8 DEF DeleteLock, SimGoto
  <2>9. CASE KillThread
    BY <2>9 DEF KillThread, SimGoto
  <2>10. CASE Shutdown
    BY <2>10 DEF Shutdown, SimGoto
  <2>11. CASE Join
    BY <2>11 DEF Join, SimGoto
  <2>12. CASE NotifyLock
    BY <2>12 DEF NotifyLock, SimGoto
  <2>13. CASE NotifySet
    BY <2>13 DEF NotifySet, SimGoto
  <2>14. CASE NotifyCv
    BY <2>14 DEF NotifyCv, WakeServer, SimGoto
  <2>15. CASE PauseLock
    BY <2>15 DEF PauseLock, SimGoto
  <2>16. CASE PauseProceed
    BY <2>16 DEF PauseProceed, SimGoto
  <2>17. CASE PauseTest
    BY <2>17 DEF PauseTest, SimGoto
  <2>18. CASE PauseWait
    BY <2>18 DEF PauseWait, SimGoto
  <2>19. CASE PauseSpurious
    BY <2>19 DEF PauseSpurious, SimGoto
  <2> QED
    BY <1>1, <2>1, <2>2, <2>3, <2>4, <2>5, <2>6, <2>7, <2>8, <2>9, <2>10,
       <2>11, <2>12, <2>13, <2>14, <2>15, <2>16, <2>17, <2>18, <2>19
    DEF SimNext
<1>2. CASE SrvNext
  <2>1. CASE Loop
    BY <2>1 DEF Loop, SrvGoto
  <2>2. CASE RecvTimeout
    BY <2>2 DEF RecvTimeout, SrvGoto
  <2>3. CASE Receive
    BY <2>3 DEF Receive, Handler, SrvGoto
  <2>4. CASE Service
    BY <2>4 DEF Service, Send, SrvGoto
  <2>5. CASE RunAgain
    BY <2>5 DEF RunAgain, Send, SrvGoto
  <2>6. CASE RunUnlock
    BY <2>6 DEF RunUnlock, SrvGoto
  <2>7. CASE RunUnlockDeleted
    BY <2>7 DEF RunUnlockDeleted, SrvGoto
  <2>8. CASE ContLock
    BY <2>8 DEF ContLock, SrvGoto
  <2>9. CASE ContSet
    BY <2>9 DEF ContSet, SrvGoto
  <2>10. CASE ContCv
    BY <2>10 DEF ContCv, WakeSimulation, SrvGoto
  <2>11. CASE StopLock
    BY <2>11 DEF StopLock, SrvGoto
  <2>12. CASE StopProceed
    BY <2>12 DEF StopProceed, SrvGoto
  <2>13. CASE StopTest
    BY <2>13 DEF StopTest, SrvGoto
  <2>14. CASE StopWait
    BY <2>14 DEF StopWait, SrvGoto
  <2>15. CASE StopSpurious
    BY <2>15 DEF StopSpurious, SrvGoto
  <2>16. CASE Reply
    BY <2>16 DEF Reply, Send, SrvGoto
  <2> QED
    BY <1>2, <2>1, <2>2, <2>3, <2>4, <2>5, <2>6, <2>7, <2>8, <2>9, <2>10,
       <2>11, <2>12, <2>13, <2>14, <2>15, <2>16
    DEF SrvNext
<1>3. CASE ClientNext
  <2>1. ASSUME NEW type \in Commands, ClientSend(type) PROVE Locks'
    BY <2>1 DEF ClientSend
  <2>2. CASE Resend
    BY <2>2 DEF Resend
  <2> QED
    BY <1>3, <2>1, <2>2
    DEF ClientNext
<1>4. CASE UNCHANGED vars
  BY <1>4 DEF vars
<1> QED
  BY <1>1, <1>2, <1>3, <1>4 DEF Next

(* No step can make a waiting thread miss the notify_all meant for it.     *)
LEMMA WakeStep == TypeOK /\ Locks /\ NoLostWakeup /\ [Next]_vars => NoLostWakeup'
<1> SUFFICES ASSUME TypeOK, Locks, NoLostWakeup, [Next]_vars PROVE NoLostWakeup'
  OBVIOUS
<1> USE DEF TypeOK, Locks, NoLostWakeup, sync, life, reply, client, ipc
<1>1. CASE SimNext
  <2>1. CASE TopInit
    BY <2>1 DEF TopInit, SimGoto
  <2>2. CASE WaitForRunCommand
    BY <2>2 DEF WaitForRunCommand, SimGoto
  <2>3. CASE Observe
    BY <2>3 DEF Observe, SimGoto
  <2>4. CASE ObserveEnd
    BY <2>4 DEF ObserveEnd, SimGoto
  <2>5. ASSUME NEW kind \in StopKinds, Stop(kind) PROVE NoLostWakeup'
    BY <2>5 DEF Stop, SimGoto
  <2>6. CASE SimEnd
    BY <2>6 DEF SimEnd, SimGoto
  <2>7. CASE DestroyEnabled
    BY <2>7 DEF DestroyEnabled, SimGoto
  <2>8. CASE DeleteLock
    BY <2>8 DEF DeleteLock, SimGoto
  <2>9. CASE KillThread
    BY <2>9 DEF KillThread, SimGoto
  <2>10. CASE Shutdown
    BY <2>10 DEF Shutdown, SimGoto
  <2>11. CASE Join
    BY <2>11 DEF Join, SimGoto
  <2>12. CASE NotifyLock
    BY <2>12 DEF NotifyLock, SimGoto
  <2>13. CASE NotifySet
    BY <2>13 DEF NotifySet, SimGoto
  <2>14. CASE NotifyCv
    BY <2>14 DEF NotifyCv, WakeServer, SimGoto
  <2>15. CASE PauseLock
    BY <2>15 DEF PauseLock, SimGoto
  <2>16. CASE PauseProceed
    BY <2>16 DEF PauseProceed, SimGoto
  <2>17. CASE PauseTest
    BY <2>17 DEF PauseTest, SimGoto
  <2>18. CASE PauseWait
    BY <2>18 DEF PauseWait, SimGoto
  <2>19. CASE PauseSpurious
    BY <2>19 DEF PauseSpurious, SimGoto
  <2> QED
    BY <1>1, <2>1, <2>2, <2>3, <2>4, <2>5, <2>6, <2>7, <2>8, <2>9, <2>10,
       <2>11, <2>12, <2>13, <2>14, <2>15, <2>16, <2>17, <2>18, <2>19
    DEF SimNext
<1>2. CASE SrvNext
  <2>1. CASE Loop
    BY <2>1 DEF Loop, SrvGoto
  <2>2. CASE RecvTimeout
    BY <2>2 DEF RecvTimeout, SrvGoto
  <2>3. CASE Receive
    BY <2>3 DEF Receive, Handler, SrvGoto
  <2>4. CASE Service
    BY <2>4 DEF Service, Send, SrvGoto
  <2>5. CASE RunAgain
    BY <2>5 DEF RunAgain, Send, SrvGoto
  <2>6. CASE RunUnlock
    BY <2>6 DEF RunUnlock, SrvGoto
  <2>7. CASE RunUnlockDeleted
    BY <2>7 DEF RunUnlockDeleted, SrvGoto
  <2>8. CASE ContLock
    BY <2>8 DEF ContLock, SrvGoto
  <2>9. CASE ContSet
    BY <2>9 DEF ContSet, SrvGoto
  <2>10. CASE ContCv
    BY <2>10 DEF ContCv, WakeSimulation, SrvGoto
  <2>11. CASE StopLock
    BY <2>11 DEF StopLock, SrvGoto
  <2>12. CASE StopProceed
    BY <2>12 DEF StopProceed, SrvGoto
  <2>13. CASE StopTest
    BY <2>13 DEF StopTest, SrvGoto
  <2>14. CASE StopWait
    BY <2>14 DEF StopWait, SrvGoto
  <2>15. CASE StopSpurious
    BY <2>15 DEF StopSpurious, SrvGoto
  <2>16. CASE Reply
    BY <2>16 DEF Reply, Send, SrvGoto
  <2> QED
    BY <1>2, <2>1, <2>2, <2>3, <2>4, <2>5, <2>6, <2>7, <2>8, <2>9, <2>10,
       <2>11, <2>12, <2>13, <2>14, <2>15, <2>16
    DEF SrvNext
<1>3. CASE ClientNext
  <2>1. ASSUME NEW type \in Commands, ClientSend(type) PROVE NoLostWakeup'
    BY <2>1 DEF ClientSend
  <2>2. CASE Resend
    BY <2>2 DEF Resend
  <2> QED
    BY <1>3, <2>1, <2>2
    DEF ClientNext
<1>4. CASE UNCHANGED vars
  BY <1>4 DEF vars
<1> QED
  BY <1>1, <1>2, <1>3, <1>4 DEF Next

(* With -d every step of either thread keeps the turns: the request thread *)
(* serves pfpdb only while the simulation is halted, and the simulation    *)
(* runs only while the request thread waits in waitForStop.                *)
LEMMA TurnStep == TypeOK /\ Locks /\ TurnTaking /\ [Next]_vars => TurnTaking'
<1> SUFFICES ASSUME TypeOK, Locks, TurnTaking, [Next]_vars PROVE TurnTaking'
  OBVIOUS
<1> USE HandshakeAssumption
    DEF TypeOK, Locks, TurnTaking, NeverTornDown, StartTurn, ActiveTurn,
        HaltedTurn, EndTurn, SimActive, SimHalted, BeforeRun, AwaitsStop,
        AtPrompt, MessageLive, EndKind, Messages,
        sync, life, reply, client, ipc
<1>1. CASE SimNext
  <2>1. CASE TopInit
    BY <2>1 DEF TopInit, SimGoto
  <2>2. CASE WaitForRunCommand
    BY <2>2 DEF WaitForRunCommand, SimGoto
  <2>3. CASE Observe
    BY <2>3 DEF Observe, SimGoto
  <2>4. CASE ObserveEnd
    BY <2>4 DEF ObserveEnd, SimGoto
  <2>5. ASSUME NEW kind \in StopKinds, Stop(kind) PROVE TurnTaking'
    BY <2>5 DEF Stop, SimGoto
  <2>6. CASE SimEnd
    BY <2>6 DEF SimEnd, SimGoto
  <2>7. CASE DestroyEnabled
    BY <2>7 DEF DestroyEnabled, SimGoto
  <2>8. CASE DeleteLock
    BY <2>8 DEF DeleteLock, SimGoto
  <2>9. CASE KillThread
    BY <2>9 DEF KillThread, SimGoto
  <2>10. CASE Shutdown
    BY <2>10 DEF Shutdown, SimGoto
  <2>11. CASE Join
    BY <2>11 DEF Join, SimGoto
  <2>12. CASE NotifyLock
    BY <2>12 DEF NotifyLock, SimGoto
  <2>13. CASE NotifySet
    BY <2>13 DEF NotifySet, SimGoto
  <2>14. CASE NotifyCv
    BY <2>14 DEF NotifyCv, WakeServer, SimGoto
  <2>15. CASE PauseLock
    BY <2>15 DEF PauseLock, SimGoto
  <2>16. CASE PauseProceed
    BY <2>16 DEF PauseProceed, SimGoto
  <2>17. CASE PauseTest
    BY <2>17 DEF PauseTest, SimGoto
  <2>18. CASE PauseWait
    BY <2>18 DEF PauseWait, SimGoto
  <2>19. CASE PauseSpurious
    BY <2>19 DEF PauseSpurious, SimGoto
  <2> QED
    BY <1>1, <2>1, <2>2, <2>3, <2>4, <2>5, <2>6, <2>7, <2>8, <2>9, <2>10,
       <2>11, <2>12, <2>13, <2>14, <2>15, <2>16, <2>17, <2>18, <2>19
    DEF SimNext
<1>2. CASE SrvNext
  <2>1. CASE Loop
    BY <2>1 DEF Loop, SrvGoto
  <2>2. CASE RecvTimeout
    BY <2>2 DEF RecvTimeout, SrvGoto
  <2>3. CASE Receive
    BY <2>3 DEF Receive, Handler, SrvGoto
  <2>4. CASE Service
    BY <2>4 DEF Service, Send, SrvGoto
  <2>5. CASE RunAgain
    BY <2>5 DEF RunAgain, Send, SrvGoto
  <2>6. CASE RunUnlock
    BY <2>6 DEF RunUnlock, SrvGoto
  <2>7. CASE RunUnlockDeleted
    BY <2>7 DEF RunUnlockDeleted, SrvGoto
  <2>8. CASE ContLock
    BY <2>8 DEF ContLock, SrvGoto
  <2>9. CASE ContSet
    BY <2>9 DEF ContSet, SrvGoto
  <2>10. CASE ContCv
    BY <2>10 DEF ContCv, WakeSimulation, SrvGoto
  <2>11. CASE StopLock
    BY <2>11 DEF StopLock, SrvGoto
  <2>12. CASE StopProceed
    BY <2>12 DEF StopProceed, SrvGoto
  <2>13. CASE StopTest
    BY <2>13 DEF StopTest, SrvGoto
  <2>14. CASE StopWait
    BY <2>14 DEF StopWait, SrvGoto
  <2>15. CASE StopSpurious
    BY <2>15 DEF StopSpurious, SrvGoto
  <2>16. CASE Reply
    BY <2>16 DEF Reply, Send, SrvGoto
  <2> QED
    BY <1>2, <2>1, <2>2, <2>3, <2>4, <2>5, <2>6, <2>7, <2>8, <2>9, <2>10,
       <2>11, <2>12, <2>13, <2>14, <2>15, <2>16
    DEF SrvNext
<1>3. CASE ClientNext
  <2>1. ASSUME NEW type \in Commands, ClientSend(type) PROVE TurnTaking'
    BY <2>1 DEF ClientSend
  <2>2. CASE Resend
    BY <2>2 DEF Resend
  <2> QED
    BY <1>3, <2>1, <2>2
    DEF ClientNext
<1>4. CASE UNCHANGED vars
  BY <1>4 DEF vars
<1> QED
  BY <1>1, <1>2, <1>3, <1>4 DEF Next

-----------------------------------------------------------------------------
HandshakeInv == TypeOK /\ Locks /\ NoLostWakeup /\ TurnTaking

(* The inductive invariant holds in every reachable state. *)
LEMMA HandshakeInductive == Spec => []HandshakeInv
<1>1. Init => HandshakeInv
  <2> SUFFICES ASSUME Init PROVE HandshakeInv
    OBVIOUS
  <2>1. TypeOK
    BY InitTyped
  <2>2. Locks /\ NoLostWakeup
    BY DEF Init, Locks, NoLostWakeup
  <2>3. TurnTaking
    BY DEF Init, TurnTaking, NeverTornDown, StartTurn, ActiveTurn, HaltedTurn,
           EndTurn, SimActive, SimHalted, BeforeRun, AwaitsStop
  <2> QED
    BY <2>1, <2>2, <2>3 DEF HandshakeInv
<1>2. HandshakeInv /\ [Next]_vars => HandshakeInv'
  BY TypeStep, LockStep, WakeStep, TurnStep DEF HandshakeInv
<1> QED
  BY <1>1, <1>2, PTL DEF Spec

(* No thread sleeps through its wakeup, with or without -d.                *)
THEOREM WakeupsKept == Spec => []NoLostWakeup
<1>1. HandshakeInv => NoLostWakeup
  BY DEF HandshakeInv
<1> QED
  BY <1>1, HandshakeInductive, PTL

(* With -d no handler runs while an observer callback is using the lists   *)
(* of the data manager.                                                    *)
THEOREM ThreadsExclusive == Spec => []Exclusive
<1>1. HandshakeInv => Exclusive
  BY DEF HandshakeInv, TurnTaking, ActiveTurn, Exclusive, SingleAccess,
         SimUsesData, SrvUsesData, SimActive, AwaitsStop
<1> QED
  BY <1>1, HandshakeInductive, PTL

(* With -d the message handleRun or handleContinue sends is the one this   *)
(* halt set, and it has not been deleted.                                  *)
THEOREM RepliesFresh == Spec => []FreshReply
<1>1. HandshakeInv => FreshReply
  <2> SUFFICES ASSUME HandshakeInv, Enable, srvPc = "reply" PROVE FreshReply
    BY DEF FreshReply
  <2>1. ~SimActive /\ ~BeforeRun
    BY DEF HandshakeInv, TurnTaking, ActiveTurn, StartTurn, AwaitsStop
  <2>2. SimHalted
    BY <2>1 DEF HandshakeInv, TypeOK, TurnTaking, NeverTornDown, SimPcs,
                SimActive, SimHalted, BeforeRun
  <2>3. MessageLive
    BY <2>2 DEF HandshakeInv, TurnTaking, HaltedTurn, AwaitsStop, AtPrompt
  <2> QED
    BY <2>2, <2>3 DEF FreshReply, MessageLive
<1> QED
  BY <1>1, HandshakeInductive, PTL

(* With -d every step of the two threads is a step of the baton, or moves  *)
(* no control: grants, halts and reports alternate (ControlTransfer).      *)
LEMMA BatonStep ==
  ASSUME Enable, HandshakeInv, [Next]_vars
  PROVE  [Baton!Next]_(Baton!vars)
<1> USE DEF HandshakeInv, TypeOK, Locks, TurnTaking, NeverTornDown, StartTurn,
            ActiveTurn, HaltedTurn, EndTurn, SimActive, SimHalted, BeforeRun,
            AwaitsStop, AtPrompt, MessageLive, EndKind, Messages, Holder,
            Baton!vars, Baton!Next, Baton!Grant, Baton!Resume, Baton!Finish,
            Baton!Halt, Baton!Deliver, Baton!NoReport, Baton!EndReport,
            sync, life, reply, client, ipc
<1>1. CASE SimNext
  <2>1. CASE TopInit
    BY <2>1 DEF TopInit, SimGoto
  <2>2. CASE WaitForRunCommand
    BY <2>2 DEF WaitForRunCommand, SimGoto
  <2>3. CASE Observe
    BY <2>3 DEF Observe, SimGoto
  <2>4. CASE ObserveEnd
    BY <2>4 DEF ObserveEnd, SimGoto
  <2>5. ASSUME NEW kind \in StopKinds, Stop(kind) PROVE [Baton!Next]_(Baton!vars)
    BY <2>5 DEF Stop, SimGoto
  <2>6. CASE SimEnd
    BY <2>6 DEF SimEnd, SimGoto
  <2>7. CASE DestroyEnabled
    BY <2>7 DEF DestroyEnabled, SimGoto
  <2>8. CASE DeleteLock
    BY <2>8 DEF DeleteLock, SimGoto
  <2>9. CASE KillThread
    BY <2>9 DEF KillThread, SimGoto
  <2>10. CASE Shutdown
    BY <2>10 DEF Shutdown, SimGoto
  <2>11. CASE Join
    BY <2>11 DEF Join, SimGoto
  <2>12. CASE NotifyLock
    BY <2>12 DEF NotifyLock, SimGoto
  <2>13. CASE NotifySet
    BY <2>13 DEF NotifySet, SimGoto
  <2>14. CASE NotifyCv
    BY <2>14 DEF NotifyCv, WakeServer, SimGoto
  <2>15. CASE PauseLock
    BY <2>15 DEF PauseLock, SimGoto
  <2>16. CASE PauseProceed
    BY <2>16 DEF PauseProceed, SimGoto
  <2>17. CASE PauseTest
    BY <2>17 DEF PauseTest, SimGoto
  <2>18. CASE PauseWait
    BY <2>18 DEF PauseWait, SimGoto
  <2>19. CASE PauseSpurious
    BY <2>19 DEF PauseSpurious, SimGoto
  <2> QED
    BY <1>1, <2>1, <2>2, <2>3, <2>4, <2>5, <2>6, <2>7, <2>8, <2>9, <2>10,
       <2>11, <2>12, <2>13, <2>14, <2>15, <2>16, <2>17, <2>18, <2>19
    DEF SimNext
<1>2. CASE SrvNext
  <2>1. CASE Loop
    BY <2>1 DEF Loop, SrvGoto
  <2>2. CASE RecvTimeout
    BY <2>2 DEF RecvTimeout, SrvGoto
  <2>3. CASE Receive
    BY <2>3 DEF Receive, Handler, SrvGoto
  <2>4. CASE Service
    BY <2>4 DEF Service, Send, SrvGoto
  <2>5. CASE RunAgain
    BY <2>5 DEF RunAgain, Send, SrvGoto
  <2>6. CASE RunUnlock
    BY <2>6 DEF RunUnlock, SrvGoto
  <2>7. CASE RunUnlockDeleted
    BY <2>7 DEF RunUnlockDeleted, SrvGoto
  <2>8. CASE ContLock
    BY <2>8 DEF ContLock, SrvGoto
  <2>9. CASE ContSet
    <3>1. ~SimActive /\ srvPc = "cont_set" /\ srvPc' = "cont_cv"
      BY <2>9 DEF ContSet, SrvGoto
    <3>2. CASE BeforeRun
      BY <2>9, <3>1, <3>2 DEF ContSet, SrvGoto
    <3>3. CASE SimHalted
      <4>1. Holder = "debugger"
        BY <3>1, <3>3
      <4>2. Holder' = "granted"
        BY <2>9, <3>1, <3>3 DEF ContSet
      <4>3. UNCHANGED ending
        BY <2>9 DEF ContSet
      <4> QED
        BY <4>1, <4>2, <4>3
    <3> QED
      BY <3>1, <3>2, <3>3 DEF SimPcs
  <2>10. CASE ContCv
    BY <2>10 DEF ContCv, WakeSimulation, SrvGoto
  <2>11. CASE StopLock
    BY <2>11 DEF StopLock, SrvGoto
  <2>12. CASE StopProceed
    BY <2>12 DEF StopProceed, SrvGoto
  <2>13. CASE StopTest
    BY <2>13 DEF StopTest, SrvGoto
  <2>14. CASE StopWait
    BY <2>14 DEF StopWait, SrvGoto
  <2>15. CASE StopSpurious
    BY <2>15 DEF StopSpurious, SrvGoto
  <2>16. CASE Reply
    BY <2>16 DEF Reply, Send, SrvGoto
  <2> QED
    BY <1>2, <2>1, <2>2, <2>3, <2>4, <2>5, <2>6, <2>7, <2>8, <2>9, <2>10,
       <2>11, <2>12, <2>13, <2>14, <2>15, <2>16
    DEF SrvNext
<1>3. CASE ClientNext
  <2>1. ASSUME NEW type \in Commands, ClientSend(type) PROVE [Baton!Next]_(Baton!vars)
    BY <2>1 DEF ClientSend
  <2>2. CASE Resend
    BY <2>2 DEF Resend
  <2> QED
    BY <1>3, <2>1, <2>2
    DEF ClientNext
<1>4. CASE UNCHANGED vars
  BY <1>4 DEF vars
<1> QED
  BY <1>1, <1>2, <1>3, <1>4 DEF Next

(* With -d the handshake hands over a single baton, fairness aside.        *)
THEOREM BatonRefined == ASSUME Enable PROVE Spec => BatonSafety
<1>1. Init => Baton!Init
  BY DEF Init, Baton!Init, Baton!NoReport, Holder, SimActive
<1>2. HandshakeInv /\ [Next]_vars => [Baton!Next]_(Baton!vars)
  BY BatonStep
<1> QED
  BY <1>1, <1>2, HandshakeInductive, PTL DEF Spec, BatonSafety

(* Every step of the threads, the client and its socket keeps what is      *)
(* queued, served and awaited in agreement, when only Run is repeated.     *)
LEMMA ClientStep ==
  ASSUME Enable, Resent \subseteq {"Run"}, HandshakeInv, ClientTurn, [Next]_vars
  PROVE  ClientTurn'
<1> USE DEF HandshakeInv, TypeOK, TurnTaking, NeverTornDown, ClientTurn,
            Serving, ServingOriginal, sync, life, reply, client, ipc
<1>0. inbox \in Seq(Requests) /\ request \in Requests
  OBVIOUS
<1>1. CASE SimNext
  <2>1. CASE TopInit
    BY <2>1 DEF TopInit, SimGoto
  <2>2. CASE WaitForRunCommand
    BY <2>2 DEF WaitForRunCommand, SimGoto
  <2>3. CASE Observe
    BY <2>3 DEF Observe, SimGoto
  <2>4. CASE ObserveEnd
    BY <2>4 DEF ObserveEnd, SimGoto
  <2>5. ASSUME NEW kind \in StopKinds, Stop(kind) PROVE ClientTurn'
    BY <2>5 DEF Stop, SimGoto
  <2>6. CASE SimEnd
    BY <2>6 DEF SimEnd, SimGoto
  <2>7. CASE DestroyEnabled
    BY <2>7 DEF DestroyEnabled, SimGoto
  <2>8. CASE DeleteLock
    BY <2>8 DEF DeleteLock, SimGoto
  <2>9. CASE KillThread
    BY <2>9 DEF KillThread, SimGoto
  <2>10. CASE Shutdown
    BY <2>10 DEF Shutdown, SimGoto
  <2>11. CASE Join
    BY <2>11 DEF Join, SimGoto
  <2>12. CASE NotifyLock
    BY <2>12 DEF NotifyLock, SimGoto
  <2>13. CASE NotifySet
    BY <2>13 DEF NotifySet, SimGoto
  <2>14. CASE NotifyCv
    BY <2>14 DEF NotifyCv, WakeServer, SimGoto
  <2>15. CASE PauseLock
    BY <2>15 DEF PauseLock, SimGoto
  <2>16. CASE PauseProceed
    BY <2>16 DEF PauseProceed, SimGoto
  <2>17. CASE PauseTest
    BY <2>17 DEF PauseTest, SimGoto
  <2>18. CASE PauseWait
    BY <2>18 DEF PauseWait, SimGoto
  <2>19. CASE PauseSpurious
    BY <2>19 DEF PauseSpurious, SimGoto
  <2> QED
    BY <1>1, <2>1, <2>2, <2>3, <2>4, <2>5, <2>6, <2>7, <2>8, <2>9, <2>10,
       <2>11, <2>12, <2>13, <2>14, <2>15, <2>16, <2>17, <2>18, <2>19
    DEF SimNext
<1>2. CASE SrvNext
  <2>1. CASE Loop
    BY <2>1 DEF Loop, SrvGoto
  <2>2. CASE RecvTimeout
    BY <2>2 DEF RecvTimeout, SrvGoto
  <2>3. CASE Receive
    <3>1. /\ inbox # <<>> /\ inbox' = Tail(inbox) /\ request' = inbox[1]
          /\ srvPc = "recv" /\ srvPc' = Handler(inbox[1].type)
          /\ run_called' = (run_called \/ inbox[1].type = "Run")
          /\ outstanding' = outstanding
      BY <2>3, HeadTailProperties DEF Receive, SrvGoto
    <3>2. /\ Len(inbox) \in Nat \ {0} /\ DOMAIN inbox = 1 .. Len(inbox)
          /\ DOMAIN inbox' = 1 .. Len(inbox) - 1
          /\ \A i \in DOMAIN inbox' : inbox'[i] = inbox[i + 1]
          /\ \A i \in DOMAIN inbox : inbox[i] \in Requests
      BY <1>0, <3>1
    <3>3. inbox[1].dup => inbox[1].type = "Run" /\ run_called
      BY <3>2
    <3>4. Serving' /\ (request'.dup => srvPc' = "run_again")
      BY <3>1, <3>2, <3>3 DEF Handler, Requests, AllCommands
    <3>5. ASSUME NEW i \in DOMAIN inbox', ~inbox'[i].dup
          PROVE  /\ outstanding' = inbox'[i].type /\ request'.dup
                 /\ \A j \in DOMAIN inbox' : ~inbox'[j].dup => j = i
      BY <3>1, <3>2, <3>5
    <3>6. ASSUME NEW i \in DOMAIN inbox', inbox'[i].dup
          PROVE  /\ inbox'[i].type = "Run"
                 /\ run_called' \/ \E j \in DOMAIN inbox' :
                       j < i /\ ~inbox'[j].dup /\ inbox'[j].type = "Run"
      <4>1. i + 1 \in DOMAIN inbox /\ inbox[i + 1].dup
        BY <3>2, <3>6
      <4>2. CASE run_called
        BY <3>1, <3>2, <4>1, <4>2
      <4>3. CASE ~run_called
        <5>1. PICK j \in DOMAIN inbox :
                j < i + 1 /\ ~inbox[j].dup /\ inbox[j].type = "Run"
          BY <4>1, <4>3
        <5>2. CASE j = 1
          BY <3>1, <3>2, <4>1, <5>1, <5>2
        <5>3. CASE j # 1
          <6>1. j - 1 \in DOMAIN inbox' /\ j - 1 < i /\ inbox'[j - 1] = inbox[j]
            BY <3>2, <5>1, <5>3
          <6> QED
            BY <3>1, <3>2, <4>1, <5>1, <6>1
        <5> QED
          BY <5>2, <5>3
      <4> QED
        BY <4>2, <4>3
    <3>7. ~request'.dup => /\ outstanding' = request'.type
                           /\ request'.type = "Run" => run_called'
      <4>1. 1 \in DOMAIN inbox
        BY <3>2
      <4>2. ~inbox[1].dup => outstanding = inbox[1].type
        BY <4>1
      <4>3. inbox[1].type = "Run" => run_called'
        BY <3>1
      <4> QED
        BY <3>1, <4>2, <4>3
    <3>8. outstanding' # "none" =>
            ServingOriginal' \/ \E i \in DOMAIN inbox' : ~inbox'[i].dup
      <4> SUFFICES ASSUME outstanding' # "none", request'.dup
                   PROVE  \E i \in DOMAIN inbox' : ~inbox'[i].dup
        BY <3>4
      <4>1. PICK k \in DOMAIN inbox : ~inbox[k].dup
        BY <3>1
      <4>2. k - 1 \in DOMAIN inbox' /\ inbox'[k - 1] = inbox[k]
        BY <3>1, <3>2, <4>1
      <4> QED
        BY <4>1, <4>2
    <3> QED
      BY <3>4, <3>5, <3>6, <3>7, <3>8
  <2>4. CASE Service
    BY <2>4 DEF Service, Send, SrvGoto
  <2>5. CASE RunAgain
    BY <2>5 DEF RunAgain, Send, SrvGoto
  <2>6. CASE RunUnlock
    BY <2>6 DEF RunUnlock, SrvGoto
  <2>7. CASE RunUnlockDeleted
    BY <2>7 DEF RunUnlockDeleted, SrvGoto
  <2>8. CASE ContLock
    BY <2>8 DEF ContLock, SrvGoto
  <2>9. CASE ContSet
    BY <2>9 DEF ContSet, SrvGoto
  <2>10. CASE ContCv
    BY <2>10 DEF ContCv, WakeSimulation, SrvGoto
  <2>11. CASE StopLock
    BY <2>11 DEF StopLock, SrvGoto
  <2>12. CASE StopProceed
    BY <2>12 DEF StopProceed, SrvGoto
  <2>13. CASE StopTest
    BY <2>13 DEF StopTest, SrvGoto
  <2>14. CASE StopWait
    BY <2>14 DEF StopWait, SrvGoto
  <2>15. CASE StopSpurious
    BY <2>15 DEF StopSpurious, SrvGoto
  <2>16. CASE Reply
    BY <2>16 DEF Reply, Send, SrvGoto
  <2> QED
    BY <1>2, <2>1, <2>2, <2>3, <2>4, <2>5, <2>6, <2>7, <2>8, <2>9, <2>10,
       <2>11, <2>12, <2>13, <2>14, <2>15, <2>16
    DEF SrvNext
<1>3. CASE ClientNext
  <2>1. ASSUME NEW type \in Commands, ClientSend(type) PROVE ClientTurn'
    <3> DEFINE m == [type |-> type, dup |-> FALSE]
    <3>1. /\ outstanding = "none" /\ outstanding' = type /\ type # "none"
          /\ inbox' = Append(inbox, m) /\ m \in Requests
          /\ UNCHANGED <<srvPc, request, run_called>>
      BY <2>1, HandshakeAssumption DEF ClientSend, Requests, AllCommands
    <3>2. ~ServingOriginal /\ \A i \in DOMAIN inbox : inbox[i].dup
      <4>1. \A r \in Requests : r.type # "none"
        BY DEF Requests, AllCommands
      <4>2. \A i \in DOMAIN inbox : inbox[i] \in Requests
        BY <1>0
      <4> QED
        BY <3>1, <4>1, <4>2
    <3> HIDE DEF m
    <3>3. /\ Len(inbox) \in Nat /\ DOMAIN inbox = 1 .. Len(inbox)
          /\ DOMAIN inbox' = 1 .. Len(inbox) + 1
          /\ \A i \in DOMAIN inbox : inbox'[i] = inbox[i]
          /\ inbox'[Len(inbox) + 1] = m
      BY <1>0, <3>1
    <3>4. m.type = type /\ ~m.dup
      BY DEF m
    <3> QED
      BY <3>1, <3>2, <3>3, <3>4
  <2>2. CASE Resend
    <3> DEFINE m == [type |-> outstanding, dup |-> TRUE]
    <3>1. /\ outstanding = "Run" /\ outstanding' = outstanding
          /\ inbox' = Append(inbox, m) /\ m \in Requests
          /\ UNCHANGED <<srvPc, request, run_called>>
      BY <2>2 DEF Resend, Requests, AllCommands
    <3>2. m.type = "Run" /\ m.dup
      BY <3>1
    <3> HIDE DEF m
    <3>3. /\ Len(inbox) \in Nat /\ DOMAIN inbox = 1 .. Len(inbox)
          /\ DOMAIN inbox' = 1 .. Len(inbox) + 1
          /\ \A i \in DOMAIN inbox : inbox'[i] = inbox[i]
          /\ inbox'[Len(inbox) + 1] = m
      BY <1>0, <3>1
    <3>4. run_called \/ \E j \in DOMAIN inbox :
                          ~inbox[j].dup /\ inbox[j].type = "Run"
      BY <3>1
    <3> QED
      BY <3>1, <3>2, <3>3, <3>4
  <2> QED
    BY <1>3, <2>1, <2>2
    DEF ClientNext
<1>4. CASE UNCHANGED vars
  BY <1>4 DEF vars
<1> QED
  BY <1>1, <1>2, <1>3, <1>4 DEF Next

(* With -d, and a socket that repeats at most Run, pfpdb has its prompt    *)
(* only while the simulation is halted.                                    *)
THEOREM PromptHalted ==
  ASSUME Enable, Resent \subseteq {"Run"}
  PROVE  Spec => []PromptMeansHalted
<1>1. Init => ClientTurn
  BY DEF Init, ClientTurn, Serving, ServingOriginal
<1>2. HandshakeInv /\ ClientTurn /\ [Next]_vars => ClientTurn'
  BY ClientStep
<1>3. HandshakeInv /\ ClientTurn => PromptMeansHalted
  BY DEF HandshakeInv, TypeOK, TurnTaking, ActiveTurn, SimActive, AwaitsStop,
         ClientTurn, Serving, ServingOriginal, PromptMeansHalted, Requests,
         AllCommands
<1> QED
  BY <1>1, <1>2, <1>3, HandshakeInductive, PTL DEF Spec
=============================================================================
