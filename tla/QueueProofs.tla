---------------------------- MODULE QueueProofs ----------------------------
(***************************************************************************)
(* Proofs about the queues, for every number of producers and consumers,   *)
(* every set of items and every capacity.                                  *)
(***************************************************************************)
EXTENDS LMTQueue, SequenceTheorems, TLAPS

(* A process that tests its condition keeps the invariant: it waits only   *)
(* on what it has just seen, with nobody else inside a call (pop, push).   *)
LEMMA CheckStep ==
  ASSUME QueueInv,
         \/ \E c \in Consumers : PopCheck(c)
         \/ \E p \in Producers : PushCheck(p)
  PROVE  QueueInv'
<1> USE QueueAssumption
    DEF QueueInv, TypeOK, Pcs, Processes, Control, SlotsCount, CheckedThenTrue,
        NoLostWakeup, Check, empty, full, N
<1>1. ASSUME NEW c \in Consumers, PopCheck(c) PROVE QueueInv'
  BY <1>1 DEF PopCheck
<1>2. ASSUME NEW p \in Producers, PushCheck(p) PROVE QueueInv'
  BY <1>2 DEF PushCheck
<1> QED
  BY <1>1, <1>2

(* The steps of a pop keep the invariant.                                  *)
LEMMA PopStep ==
  ASSUME QueueInv, NEW c \in Consumers, Pop(c)
  PROVE  QueueInv'
<1> USE QueueAssumption
    DEF QueueInv, TypeOK, Pcs, Processes, Control, SlotsCount, CheckedThenTrue,
        NoLostWakeup, N, Goto, Pass
<1>1. CASE PopCheck(c)
  BY <1>1, CheckStep
<1>2. CASE Lock(c)
  BY <1>2 DEF Lock, TakeMutex
<1>3. CASE PopItem(c)
  BY <1>3 DEF PopItem, TakeFront
<1>4. CASE PopCount(c)
  BY <1>4 DEF PopCount
<1>5. CASE Unlock(c)
  BY <1>5 DEF Unlock, FreeMutex
<1>6. CASE Notify(c, Producers)
  BY <1>6 DEF Notify, Wake
<1> QED
  BY <1>1, <1>2, <1>3, <1>4, <1>5, <1>6 DEF Pop

(* The steps of a push keep the invariant.                                 *)
LEMMA PushStep ==
  ASSUME QueueInv, NEW p \in Producers, Push(p)
  PROVE  QueueInv'
<1> USE QueueAssumption
    DEF QueueInv, TypeOK, Pcs, Processes, Control, SlotsCount, CheckedThenTrue,
        NoLostWakeup, N, Goto, Pass
<1>1. CASE PushCheck(p)
  BY <1>1, CheckStep
<1>2. CASE Lock(p)
  BY <1>2 DEF Lock, TakeMutex
<1>3. ASSUME NEW x \in Items, PushItem(p, x) PROVE QueueInv'
  BY <1>3 DEF PushItem, AddBack
<1>4. CASE PushCount(p)
  BY <1>4 DEF PushCount
<1>5. CASE Unlock(p)
  BY <1>5 DEF Unlock, FreeMutex
<1>6. CASE Notify(p, Consumers)
  BY <1>6 DEF Notify, Wake
<1> QED
  BY <1>1, <1>2, <1>3, <1>4, <1>5, <1>6 DEF Push

(* The scheduler and the users of the queue keep the invariant.            *)
LEMMA UseStep ==
  ASSUME QueueInv, NEW p \in Processes, Use(p)
  PROVE  QueueInv'
<1> USE QueueAssumption
    DEF QueueInv, TypeOK, Pcs, Processes, Control, SlotsCount, CheckedThenTrue,
        NoLostWakeup, N, Goto, Pass
<1>1. CASE Dispatch(p)
  BY <1>1 DEF Dispatch, Resume
<1>2. CASE Call(p)
  BY <1>2 DEF Call
<1>3. CASE Yield(p)
  BY <1>3 DEF Yield, Suspend
<1> QED
  BY <1>1, <1>2, <1>3 DEF Use

(* The inductive invariant holds in every reachable state.                 *)
LEMMA QueueInductive == Spec => []QueueInv
<1>1. Init => QueueInv
  BY QueueAssumption
  DEF Init, Quiet, QueueInv, TypeOK, Pcs, Processes, Control, SlotsCount,
      CheckedThenTrue, NoLostWakeup, N
<1>2. QueueInv /\ [Next]_vars => QueueInv'
  <2> SUFFICES ASSUME QueueInv, [Next]_vars PROVE QueueInv'
    OBVIOUS
  <2>1. CASE UNCHANGED vars
    BY <2>1 DEF vars, shared, QueueInv, TypeOK, Control, SlotsCount,
                CheckedThenTrue, NoLostWakeup
  <2> QED
    BY <2>1, PopStep, PushStep, UseStep DEF Next
<1> QED
  BY <1>1, <1>2, PTL DEF Spec

(* The deque, the mutex and the places of the processes keep their types,  *)
(* and no more than N items are ever queued.                               *)
THEOREM QueueTypes == Spec => []TypeOK
<1>1. QueueInv => TypeOK
  BY DEF QueueInv
<1> QED
  BY <1>1, QueueInductive, PTL

(* pop never reads an empty queue and push never overfills one, however    *)
(* many processes a notification wakes.                                    *)
THEOREM QueueChecked == Spec => []CheckedThenTrue
<1>1. QueueInv => CheckedThenTrue
  BY DEF QueueInv
<1> QED
  BY <1>1, QueueInductive, PTL

(* No process sleeps through the event it waits for.                       *)
THEOREM QueueWakeups == Spec => []NoLostWakeup
<1>1. QueueInv => NoLostWakeup
  BY DEF QueueInv
<1> QED
  BY <1>1, QueueInductive, PTL

(* lock() never suspends a process inside pop or push.                     *)
THEOREM QueueLock == Spec => []LockNeverWaits
<1>1. QueueInv => LockNeverWaits
  BY QueueAssumption DEF QueueInv, TypeOK, Control, LockNeverWaits, Processes
<1> QED
  BY <1>1, QueueInductive, PTL

(* full(), available() and empty() tell the truth whenever a process can   *)
(* look.                                                                   *)
THEOREM QueueSlots == Spec => []SlotsAgree
<1>1. QueueInv => SlotsAgree
  BY QueueAssumption
  DEF QueueInv, TypeOK, Control, SlotsCount, SlotsAgree, available, empty,
      Processes, N
<1> QED
  BY <1>1, QueueInductive, PTL

(* Fairness aside, the queue is a FIFO channel of capacity N.              *)
THEOREM QueueIsChannel == Spec => ChannelSafety
<1>1. Init => Chan!Init
  BY DEF Init, Quiet, Chan!Init
<1>2. QueueInv /\ [Next]_vars => [Chan!Next]_(Chan!vars)
  <2> SUFFICES ASSUME QueueInv, [Next]_vars PROVE [Chan!Next]_(Chan!vars)
    OBVIOUS
  <2>1. ASSUME NEW c \in Consumers, PopItem(c) PROVE Chan!Take(c)
    BY <2>1 DEF PopItem, TakeFront, Chan!Take
  <2>2. ASSUME NEW p \in Producers, NEW x \in Items, PushItem(p, x)
        PROVE  Chan!Put(x)
    BY <2>2 DEF PushItem, AddBack, Goto, Chan!Put, QueueInv, CheckedThenTrue
  <2>3. ASSUME NEW c \in Consumers, Pop(c), ~PopItem(c)
        PROVE  UNCHANGED <<queue_, item>>
    BY <2>3 DEF Pop, PopCheck, Check, Lock, TakeMutex, PopCount, Pass, Unlock,
                FreeMutex, Notify, Wake
  <2>4. ASSUME NEW p \in Producers, Push(p), ~(\E x \in Items : PushItem(p, x))
        PROVE  UNCHANGED <<queue_, item>>
    BY <2>4 DEF Push, PushCheck, Check, Lock, TakeMutex, PushCount, Pass,
                Unlock, FreeMutex, Notify, Wake
  <2>5. ASSUME NEW p \in Processes, Use(p) PROVE UNCHANGED <<queue_, item>>
    BY <2>5 DEF Use, Dispatch, Resume, Call, Pass, Yield, Suspend
  <2>6. CASE UNCHANGED vars
    BY <2>6 DEF vars, shared, Chan!vars
  <2> QED
    BY <2>1, <2>2, <2>3, <2>4, <2>5, <2>6 DEF Next, Chan!Next, Chan!vars
<1> QED
  BY <1>1, <1>2, QueueInductive, PTL DEF Spec, ChannelSafety

-----------------------------------------------------------------------------
(* MTQueue: the same processes, variables and capacity, other steps. *)
MT == INSTANCE MTQueue

(* What both queues have from QueueProcesses means the same in either, so  *)
(* the theorems below speak of the properties that MTQueue's run checks.   *)
LEMMA SameProperties ==
  /\ MT!TypeOK <=> TypeOK
  /\ MT!PopIsSafe <=> PopIsSafe
  /\ MT!ChannelSafety <=> ChannelSafety
BY DEF MT!TypeOK, TypeOK, MT!PopIsSafe, PopIsSafe, MT!CheckedThenTrue,
       CheckedThenTrue, MT!LockNeverWaits, LockNeverWaits, MT!Pcs, Pcs, MT!Processes, Processes,
       MT!ChannelSafety, ChannelSafety, MT!Chan!Init, Chan!Init,
       MT!Chan!Next, Chan!Next, MT!Chan!vars, Chan!vars, MT!Chan!Put,
       Chan!Put, MT!Chan!Take, Chan!Take

(* The steps of a pop keep the invariant.                                  *)
LEMMA MTPopStep ==
  ASSUME ProcessInv, NEW c \in Consumers, MT!Pop(c)
  PROVE  ProcessInv'
<1> USE QueueAssumption
    DEF ProcessInv, TypeOK, Pcs, Processes, Control, CheckedThenTrue,
        MT!Processes, MT!Goto, MT!Pass
<1>1. CASE MT!CallPop(c)
  BY <1>1 DEF MT!CallPop
<1>2. CASE MT!PopCheck(c)
  BY <1>2 DEF MT!PopCheck, MT!Check
<1>3. CASE MT!Lock(c)
  BY <1>3 DEF MT!Lock, MT!TakeMutex
<1>4. CASE MT!PopItem(c)
  BY <1>4 DEF MT!PopItem, MT!TakeFront
<1>5. CASE MT!PopUnlock(c)
  BY <1>5 DEF MT!PopUnlock, MT!FreeMutex
<1> QED
  BY <1>1, <1>2, <1>3, <1>4, <1>5 DEF MT!Pop

(* The steps of a push keep the invariant.                                 *)
LEMMA MTPushStep ==
  ASSUME ProcessInv, NEW p \in Producers, MT!Push(p)
  PROVE  ProcessInv'
<1> USE QueueAssumption
    DEF ProcessInv, TypeOK, Pcs, Processes, Control, CheckedThenTrue,
        MT!Processes, MT!Goto, MT!Pass
<1>1. CASE MT!CallPush(p)
  BY <1>1 DEF MT!CallPush
<1>2. CASE MT!Lock(p)
  BY <1>2 DEF MT!Lock, MT!TakeMutex
<1>3. ASSUME NEW x \in Items, MT!PushItem(p, x) PROVE ProcessInv'
  BY <1>3 DEF MT!PushItem, MT!AddBack
<1>4. CASE MT!PushUnlock(p)
  BY <1>4 DEF MT!PushUnlock, MT!FreeMutex
<1>5. CASE MT!PushNotify(p)
  BY <1>5 DEF MT!PushNotify, MT!Wake
<1> QED
  BY <1>1, <1>2, <1>3, <1>4, <1>5 DEF MT!Push

(* The scheduler keeps the invariant.                                      *)
LEMMA MTScheduleStep ==
  ASSUME ProcessInv, NEW p \in Processes, MT!Dispatch(p) \/ MT!Yield(p)
  PROVE  ProcessInv'
BY QueueAssumption
DEF ProcessInv, TypeOK, Pcs, Processes, Control, CheckedThenTrue, MT!Dispatch,
    MT!Resume, MT!Yield, MT!Suspend

(* The inductive invariant holds in every reachable state.                 *)
LEMMA MTQueueInductive == MT!Spec => []ProcessInv
<1>1. MT!Init => ProcessInv
  BY QueueAssumption
  DEF MT!Init, MT!Quiet, ProcessInv, TypeOK, Pcs, Processes, MT!Processes,
      Control, CheckedThenTrue
<1>2. ProcessInv /\ [MT!Next]_(MT!vars) => ProcessInv'
  <2> SUFFICES ASSUME ProcessInv, [MT!Next]_(MT!vars) PROVE ProcessInv'
    OBVIOUS
  <2>1. CASE UNCHANGED MT!vars
    BY <2>1
    DEF MT!vars, MT!shared, ProcessInv, TypeOK, Control, CheckedThenTrue
  <2> QED
    BY <2>1, MTPopStep, MTPushStep, MTScheduleStep
    DEF MT!Next, MT!Processes, Processes
<1> QED
  BY <1>1, <1>2, PTL DEF MT!Spec

(* The queue and its processes keep their types, and a producer that found *)
(* room still has it when it pushes.                                       *)
THEOREM MTQueueTypes == MT!Spec => []TypeOK
<1>1. ProcessInv => TypeOK
  BY DEF ProcessInv
<1> QED
  BY <1>1, MTQueueInductive, PTL

(* However many consumers an item wakes, none of them pops an empty queue, *)
(* and lock() suspends nobody between the test and the pop.                *)
THEOREM MTQueuePops == MT!Spec => []PopIsSafe
<1>1. ProcessInv => CheckedThenTrue
  BY DEF ProcessInv
<1>2. ProcessInv => LockNeverWaits
  BY QueueAssumption
  DEF ProcessInv, TypeOK, Control, LockNeverWaits, Processes
<1>3. ProcessInv => PopIsSafe
  BY <1>1, <1>2 DEF PopIsSafe
<1> QED
  BY <1>3, MTQueueInductive, PTL

(* Each step of the queue is a Put, a Take or nothing to its users.        *)
LEMMA MTQueueMaps ==
  ASSUME ProcessInv, [MT!Next]_(MT!vars)
  PROVE  [Chan!Next]_(Chan!vars)
<1>1. ASSUME NEW c \in Consumers, MT!PopItem(c) PROVE Chan!Take(c)
  BY <1>1 DEF MT!PopItem, MT!TakeFront, Chan!Take
<1>2. ASSUME NEW p \in Producers, NEW x \in Items, MT!PushItem(p, x)
      PROVE  Chan!Put(x)
  BY <1>2 DEF MT!PushItem, MT!AddBack, MT!Goto, Chan!Put, ProcessInv,
              CheckedThenTrue
<1>3. ASSUME NEW c \in Consumers, MT!Pop(c), ~MT!PopItem(c)
      PROVE  UNCHANGED <<queue_, item>>
  BY <1>3 DEF MT!Pop, MT!CallPop, MT!Pass, MT!PopCheck, MT!Check, MT!Lock,
              MT!TakeMutex, MT!PopUnlock, MT!FreeMutex
<1>4. ASSUME NEW p \in Producers, MT!Push(p),
             ~(\E x \in Items : MT!PushItem(p, x))
      PROVE  UNCHANGED <<queue_, item>>
  BY <1>4 DEF MT!Push, MT!CallPush, MT!Pass, MT!Lock, MT!TakeMutex,
              MT!PushUnlock, MT!FreeMutex, MT!PushNotify, MT!Wake
<1>5. ASSUME NEW p \in MT!Processes, MT!Dispatch(p) \/ MT!Yield(p)
      PROVE  UNCHANGED <<queue_, item>>
  BY <1>5 DEF MT!Dispatch, MT!Resume, MT!Yield, MT!Suspend
<1>6. CASE UNCHANGED MT!vars
  BY <1>6 DEF MT!vars, MT!shared, Chan!vars
<1> QED
  BY <1>1, <1>2, <1>3, <1>4, <1>5, <1>6 DEF MT!Next, Chan!Next, Chan!vars

(* Nothing that is pushed is lost, repeated or reordered.                  *)
THEOREM MTQueueIsChannel == MT!Spec => ChannelSafety
<1>1. MT!Init => Chan!Init
  BY DEF MT!Init, MT!Quiet, Chan!Init
<1> QED
  BY <1>1, MTQueueMaps, MTQueueInductive, PTL DEF MT!Spec, ChannelSafety
=============================================================================
