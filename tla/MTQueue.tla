------------------------------- MODULE MTQueue -------------------------------
(***************************************************************************)
(* MTQueue<T>, the unbounded queue between simulation modules.  push never *)
(* waits for room; only pop waits, for cond_.  Capacity bounds the model,  *)
(* not the code: a producer calls push below that length only.             *)
(***************************************************************************)
EXTENDS QueueProcesses

vars == shared

Init == Quiet

Dispatch(p) == Resume(p)

Yield(p) == Suspend(p)

CallPop(c) == Pass(c, "out", "check")

CallPush(p) == Len(queue_) < Capacity /\ Pass(p, "out", "lock")

(* Fault: pop does not look whether the queue is empty *)
PopCheck_Never(c) == Check(c, FALSE)

(* while (queue_.empty()) wait(cond_) *)
PopCheck(c) == Check(c, queue_ = <<>>)

Lock(p) == TakeMutex(p)

PopItem(c) == TakeFront(c, "unlock")

(* Fault: the item is queued twice *)
PushItem_Twice(p, x) ==
  /\ queue_' = queue_ \o <<x, x>>
  /\ Goto(p, "transfer", "unlock")
  /\ UNCHANGED <<mutex_, item>>

PushItem(p, x) == AddBack(p, x, "unlock")

(* pop returns once the mutex is released; push goes on to notify *)
PopUnlock(c) == FreeMutex(c, "out")

PushUnlock(p) == FreeMutex(p, "notify")

(* Fault: push does not notify *)
PushNotify_Forgotten(p) == Pass(p, "notify", "out")

(* cond_.notify(): every process waiting in pop tests again *)
PushNotify(p) == Wake(p, Consumers, "check")

Pop(c) ==
  CallPop(c) \/ PopCheck(c) \/ Lock(c) \/ PopItem(c) \/ PopUnlock(c)

Push(p) ==
  \/ CallPush(p) \/ Lock(p) \/ (\E x \in Items : PushItem(p, x))
  \/ PushUnlock(p) \/ PushNotify(p)

Next ==
  \/ \E c \in Consumers : Pop(c)
  \/ \E p \in Producers : Push(p)
  \/ \E p \in Processes : Dispatch(p) \/ Yield(p)

(* as for LMTQueue; nothing obliges a producer to push *)
Fairness ==
  /\ \A c \in Consumers : WF_vars(Pop(c) \/ Yield(c)) /\ SF_vars(CallPop(c))
  /\ \A p \in Producers : WF_vars(Push(p) \/ Yield(p))
  /\ \A p \in Processes : SF_vars(Dispatch(p))

Spec == Init /\ [][Next]_vars /\ Fairness
-----------------------------------------------------------------------------
(* Items do not stay queued while consumers sleep: again and again the     *)
(* queue is empty or an item is popped, even if no producer pushes again.  *)
Drains == []<>(queue_ = <<>> \/ \E c \in Consumers : pc[c] = "unlock")
=============================================================================
