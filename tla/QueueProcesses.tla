--------------------------- MODULE QueueProcesses ----------------------------
(***************************************************************************)
(* What the two queues between simulation modules have in common: a        *)
(* std::queue, a mutex, and processes that test, wait, lock and notify     *)
(* under the SystemC scheduler.  SystemC runs one process at a time and    *)
(* never preempts it: a process keeps control until it waits.  Which       *)
(* runnable process comes next is unspecified.  An immediate notification  *)
(* makes every process that waits for the event at that moment runnable    *)
(* and is lost on the others.                                              *)
(*                                                                         *)
(* The loop that tests the queue is outside the mutex: a process tests,    *)
(* then locks, then takes.  The two overloads of pop, and those of push,   *)
(* differ only in how the item is copied.                                  *)
(***************************************************************************)
EXTENDS Naturals, Sequences

CONSTANTS Producers, Consumers,   \* the processes that push, and that pop
          Items,
          Capacity,               \* the most items a producer may leave queued
          NoProcess               \* nobody: the kernel has control

Processes == Producers \cup Consumers

ASSUME QueueAssumption ==
  /\ Producers \cap Consumers = {}
  /\ NoProcess \notin Processes
  /\ Capacity \in Nat

VARIABLES
  queue_, mutex_,
  pc,         \* where each process is in pop or push
  current,    \* the process that has control
  item        \* the item each consumer has taken last, in a sequence

shared == <<queue_, mutex_, pc, current, item>>

(* "out": not in a call of this queue.  "wait": suspended in wait(event)   *)
Pcs == {"out", "check", "wait", "lock", "transfer", "count", "unlock",
        "notify"}

Quiet ==
  /\ queue_ = <<>> /\ mutex_ = NoProcess
  /\ pc = [p \in Processes |-> "out"]
  /\ current = NoProcess
  /\ item = [c \in Consumers |-> <<>>]

(* The kernel gives p control; p waits for something other than the queue. *)
Resume(p) ==
  /\ current = NoProcess /\ pc[p] # "wait"
  /\ current' = p
  /\ UNCHANGED <<queue_, mutex_, pc, item>>

Suspend(p) ==
  /\ current = p /\ pc[p] = "out"
  /\ current' = NoProcess
  /\ UNCHANGED <<queue_, mutex_, pc, item>>

(* p has control and goes on within its call *)
Goto(p, from, to) ==
  /\ current = p /\ pc[p] = from
  /\ pc' = [pc EXCEPT ![p] = to]
  /\ UNCHANGED current

(* p goes on and touches nothing *)
Pass(p, from, to) == Goto(p, from, to) /\ UNCHANGED <<queue_, mutex_, item>>

(* p tests the condition of its loop: it waits for its event, or goes on *)
Check(p, blocked) ==
  /\ current = p /\ pc[p] = "check"
  /\ pc' = [pc EXCEPT ![p] = IF blocked THEN "wait" ELSE "lock"]
  /\ current' = IF blocked THEN NoProcess ELSE p
  /\ UNCHANGED <<queue_, mutex_, item>>

TakeMutex(p) ==
  /\ mutex_ = NoProcess /\ mutex_' = p
  /\ Goto(p, "lock", "transfer")
  /\ UNCHANGED <<queue_, item>>

FreeMutex(p, to) ==
  /\ mutex_' = NoProcess
  /\ Goto(p, "unlock", to)
  /\ UNCHANGED <<queue_, item>>

(* item = queue_.front(); queue_.pop() *)
TakeFront(c, to) ==
  /\ queue_ # <<>>
  /\ item' = [item EXCEPT ![c] = <<Head(queue_)>>]
  /\ queue_' = Tail(queue_)
  /\ Goto(c, "transfer", to)
  /\ UNCHANGED mutex_

AddBack(p, x, to) ==
  /\ queue_' = Append(queue_, x)
  /\ Goto(p, "transfer", to)
  /\ UNCHANGED <<mutex_, item>>

(* event.notify(): whoever waits for it is runnable and goes to `at` *)
Wake(p, waiters, at) ==
  /\ current = p /\ pc[p] = "notify"
  /\ pc' = [q \in Processes |->
              IF q = p THEN "out"
              ELSE IF q \in waiters /\ pc[q] = "wait" THEN at ELSE pc[q]]
  /\ UNCHANGED <<queue_, mutex_, current, item>>
-----------------------------------------------------------------------------
(* Type invariant of the queue and its processes; the queue never holds    *)
(* more than its capacity.                                                 *)
TypeOK ==
  /\ queue_ \in Seq(Items) /\ Len(queue_) <= Capacity
  /\ mutex_ \in Processes \cup {NoProcess}
  /\ pc \in [Processes -> Pcs]
  /\ current \in Processes \cup {NoProcess}
  /\ item \in [Consumers -> Seq(Items)]

(* The test outside the mutex still holds when the mutex is taken: no pop  *)
(* of an empty queue, no push into a full one, although several processes  *)
(* may have been woken for the same item or slot.                          *)
CheckedThenTrue ==
  /\ \A c \in Consumers : pc[c] \in {"lock", "transfer"} => queue_ # <<>>
  /\ \A p \in Producers :
       pc[p] \in {"lock", "transfer"} => Len(queue_) < Capacity

(* lock() finds the mutex free.  Were it taken, lock() would wait, and     *)
(* another process could run between the test and the pop.                 *)
LockNeverWaits == \A p \in Processes : pc[p] = "lock" => mutex_ = NoProcess

(* Both together: each consumer woken for one item finds the queue         *)
(* nonempty when it pops, and nothing runs between its test and its pop.   *)
PopIsSafe == CheckedThenTrue /\ LockNeverWaits

(* Only the process in control is inside the critical part of a call, and  *)
(* it is the one that holds the mutex.                                     *)
Control ==
  /\ \A p \in Processes :
       pc[p] \in {"lock", "transfer", "count", "unlock", "notify"}
         => current = p
  /\ \A p \in Processes :
       mutex_ = p <=> pc[p] \in {"transfer", "count", "unlock"}

(* The inductive invariant of a queue that has nothing more than this.     *)
ProcessInv == TypeOK /\ Control /\ CheckedThenTrue

Chan == INSTANCE Channel WITH chan <- queue_, received <- item

(* What goes in comes out, once and in order: the queue's steps are those  *)
(* of a channel.                                                           *)
ChannelSafety == Chan!Init /\ [][Chan!Next]_(Chan!vars)
=============================================================================
