------------------------------ MODULE LMTQueue -------------------------------
(***************************************************************************)
(* LMTQueue<T, N>, the bounded queue used as input buffer of the modules.  *)
(* It counts its items in slots_ and has two events: producers wait for    *)
(* cond_not_full_, consumers for cond_not_empty_.                          *)
(***************************************************************************)
EXTENDS QueueProcesses

VARIABLE slots_

vars == <<shared, slots_>>

N == Capacity     \* the template parameter

Init == Quiet /\ slots_ = 0

-----------------------------------------------------------------------------
(* The scheduler and the processes that use the queue. *)

Dispatch(p) == Resume(p) /\ UNCHANGED slots_

Call(p) == Pass(p, "out", "check") /\ UNCHANGED slots_

(* the process waits for something else *)
Yield(p) == Suspend(p) /\ UNCHANGED slots_

-----------------------------------------------------------------------------
full == slots_ = N
available == N - slots_
empty == queue_ = <<>>

(* while (queue_.empty()) wait(cond_not_empty_) *)
PopCheck(c) == Check(c, empty) /\ UNCHANGED slots_

(* Fault: the test for a full queue is one off *)
PushCheck_OffByOne(p) == Check(p, slots_ > N) /\ UNCHANGED slots_

(* while (full()) wait(cond_not_full_) *)
PushCheck(p) == Check(p, full) /\ UNCHANGED slots_

Lock(p) == TakeMutex(p) /\ UNCHANGED slots_

PopItem(c) == TakeFront(c, "count") /\ UNCHANGED slots_

PushItem(p, x) == AddBack(p, x, "count") /\ UNCHANGED slots_

(* Fault: pop forgets slots_-- *)
PopCount_Forgotten(c) == Pass(c, "count", "unlock") /\ UNCHANGED slots_

PopCount(c) == Pass(c, "count", "unlock") /\ slots_' = slots_ - 1

PushCount(p) == Pass(p, "count", "unlock") /\ slots_' = slots_ + 1

(* Fault: the mutex is not released *)
Unlock_Forgotten(p) == Pass(p, "unlock", "notify") /\ UNCHANGED slots_

Unlock(p) == FreeMutex(p, "notify") /\ UNCHANGED slots_

(* Fault: a woken process goes on without testing its condition again *)
Notify_NoRecheck(p, waiters) == Wake(p, waiters, "lock") /\ UNCHANGED slots_

(* Fault: the notification is forgotten *)
Notify_Lost(p, waiters) == Pass(p, "notify", "out") /\ UNCHANGED slots_

(* event.notify(): whoever waits for it is runnable and tests again *)
Notify(p, waiters) == Wake(p, waiters, "check") /\ UNCHANGED slots_

-----------------------------------------------------------------------------
Pop(c) ==
  \/ PopCheck(c) \/ Lock(c) \/ PopItem(c) \/ PopCount(c) \/ Unlock(c)
  \/ Notify(c, Producers)       \* cond_not_full_

Push(p) ==
  \/ PushCheck(p) \/ Lock(p) \/ (\E x \in Items : PushItem(p, x))
  \/ PushCount(p) \/ Unlock(p)
  \/ Notify(p, Consumers)       \* cond_not_empty_

Use(p) == Dispatch(p) \/ Call(p) \/ Yield(p)

Next ==
  \/ \E c \in Consumers : Pop(c)
  \/ \E p \in Producers : Push(p)
  \/ \E p \in Processes : Use(p)

Spec == Init /\ [][Next]_vars

(* The process that has control runs on; the evaluation phase executes     *)
(* every runnable process; a module that yields comes back to the queue.   *)
Fairness ==
  /\ \A c \in Consumers : WF_vars(Pop(c))
  /\ \A p \in Producers : WF_vars(Push(p))
  /\ \A p \in Processes : SF_vars(Dispatch(p)) /\ SF_vars(Call(p))
                          /\ WF_vars(Call(p) \/ Yield(p))

FairSpec == Spec /\ Fairness
-----------------------------------------------------------------------------
(* slots_ stays between 0 and N, and whenever a process may look (nobody   *)
(* is inside a call) full(), available() and empty() agree with the        *)
(* contents of the queue.                                                  *)
SlotsAgree ==
  /\ slots_ \in 0 .. N
  /\ current = NoProcess =>
       slots_ = Len(queue_) /\ available \in 0 .. N /\ (empty <=> available = N)

(* A process waits for an event only while its condition is false, or the  *)
(* process that made it true is about to notify: no wakeup is lost.        *)
NoLostWakeup ==
  /\ \A c \in Consumers : pc[c] = "wait" =>
       \/ queue_ = <<>>
       \/ \E p \in Producers :
            current = p /\ pc[p] \in {"count", "unlock", "notify"}
  /\ \A p \in Producers : pc[p] = "wait" =>
       \/ Len(queue_) = N
       \/ \E c \in Consumers :
            current = c /\ pc[c] \in {"count", "unlock", "notify"}

(* slots_ counts the queue, but for the one that is about to be counted.   *)
SlotsCount ==
  /\ slots_ \in 0 .. N
  /\ IF \E c \in Consumers : pc[c] = "count" THEN slots_ = Len(queue_) + 1
     ELSE IF \E p \in Producers : pc[p] = "count" THEN slots_ + 1 = Len(queue_)
     ELSE slots_ = Len(queue_)

(* The inductive invariant of the queue.                                   *)
QueueInv == TypeOK /\ Control /\ SlotsCount /\ CheckedThenTrue /\ NoLostWakeup

(* The queue is a bounded FIFO channel through which items keep flowing.   *)
IsChannel == Chan!Spec
=============================================================================
