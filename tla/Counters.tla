------------------------------ MODULE Counters -------------------------------
(***************************************************************************)
(* Counters and watchpoints.  The counters live in the PFPObjects; pfpdb   *)
(* is shown DebugDataManager's copy of them.  counter_added reaches the    *)
(* copy at once, updates and removals by way of the global queue events_,  *)
(* which the process notify_observers drains.  An update of a counter with *)
(* an enabled watchpoint halts the simulation in the middle of             *)
(* counter_updated's loop over the list of watchpoints.                    *)
(*                                                                         *)
(* The observer callbacks run in one SystemC process, and requests are     *)
(* served while the simulation is halted (DebuggerHandshake, Exclusive),   *)
(* so each callback up to its halt, and each request, is one step.         *)
(***************************************************************************)
EXTENDS Integers, Sequences, SequencesExt, FiniteSetsExt

CONSTANTS
  Modules, Names,
  SizeRange, IntRange,  \* how many values a size_t and an int have
  Values,               \* values and amounts the model passes
  Absent,               \* no counter of that name
  Liberties,            \* what the model of the NPU and the user do, of
                        \* AllLiberties
  MaxEvents,            \* bound: events queued
  MaxWatchpoints        \* bound: watchpoints the user sets

AllLiberties ==
  {"before attach",     \* add counters before the observer is attached
   "initial value",     \* add counters with a value other than 0
   "shared name",       \* have a counter of one name in two modules
   "early re-add",      \* add a counter again while its removal is queued
   "remove absent",     \* remove a counter the module does not have
   "edit in walk"}      \* set or remove watchpoints when one was hit

ASSUME CountersAssumption ==
  /\ SizeRange \in Nat \ {0} /\ IntRange \in Nat \ {0}
  /\ Values \subseteq 0 .. SizeRange - 1
  /\ Absent \notin Int
  /\ Liberties \subseteq AllLiberties
  /\ MaxEvents \in Nat /\ MaxWatchpoints \in Nat

VARIABLES
  counters_,          \* of each module: name to value
  events_,            \* calls of observer callbacks, queued
  attached,           \* the observer is attached
  counters,           \* the data manager's copy
  watchpoint_list, next_id,
  status,             \* of the simulation thread
  walk,               \* position of counter_updated's iterator, or 0
  dangling,           \* the vector under the iterator was reallocated
  reply               \* the last watchpoint hit

npu == <<counters_, events_, attached>>
watch == <<watchpoint_list, next_id>>
halt == <<status, walk, reply>>
vars == <<npu, counters, watch, halt, dangling>>

NoReply == [id |-> -1, name |-> "", old_value |-> 0, new_value |-> 0]

Init ==
  /\ counters_ = [m \in Modules |-> [n \in Names |-> Absent]]
  /\ events_ = <<>> /\ attached = FALSE
  /\ counters = [n \in Names |-> Absent]
  /\ watchpoint_list = <<>> /\ next_id = 0
  /\ status = "running" /\ walk = 0 /\ dangling = FALSE /\ reply = NoReply

(* unsigned arithmetic, and static_cast<int>(size_t) *)
SizeT(x) == x % SizeRange
ToInt(v) == LET r == v % IntRange IN IF 2 * r < IntRange THEN r ELSE r - IntRange

-----------------------------------------------------------------------------
(* DebugDataManager. *)

addCounter(copy, n) ==
  IF copy[n] = Absent THEN [copy EXCEPT ![n] = 0] ELSE copy

removeCounter(copy, n) == [copy EXCEPT ![n] = Absent]

updateCounter(copy, n, v) == [copy EXCEPT ![n] = v]

getCounterValue(copy, n) == IF copy[n] = Absent THEN -1 ELSE copy[n]

(* one watchpoint for each counter *)
addWatchpoint(list, w) ==
  IF \E i \in DOMAIN list : list[i].counter_name = w.counter_name THEN list
  ELSE Append(list, w)

removeWatchpoint(list, identifier) ==
  RemoveFirstMatch(list, LAMBDA w : w.id = identifier)

(* enableWatchpoint, disableWatchpoint *)
setDisabled(list, identifier, d) ==
  LET i == SelectInSeq(list, LAMBDA w : w.id = identifier)
  IN  IF i = 0 THEN list ELSE [list EXCEPT ![i].disabled = d]

-----------------------------------------------------------------------------
(* PFPObject: what the processes of the model do with their counters. *)

Has(m, n) == counters_[m][n] # Absent
Pending(n) == {i \in DOMAIN events_ : events_[i].name = n}
Removing(n) == \E i \in Pending(n) : events_[i].kind = "removed"

Allowed(liberty) == liberty \in Liberties

Notify(k, n, v) ==
  /\ Len(events_) < MaxEvents
  /\ events_' = IF attached
                THEN Append(events_, [kind |-> k, name |-> n, value |-> v])
                ELSE events_

add_counter(m, n, v) ==
  /\ status = "running" /\ ~Has(m, n)
  /\ attached \/ Allowed("before attach")
  /\ v = 0 \/ Allowed("initial value")
  /\ (\A q \in Modules : ~Has(q, n)) \/ Allowed("shared name")
  /\ ~Removing(n) \/ Allowed("early re-add")
  /\ counters_' = [counters_ EXCEPT ![m][n] = v]
  /\ counters' = IF attached THEN addCounter(counters, n) ELSE counters
  /\ UNCHANGED <<events_, attached, watch, halt, dangling>>

(* a counter of the module gets the value v, and the observer an update *)
Change(m, n, v) ==
  /\ status = "running" /\ Has(m, n)
  /\ counters_' = [counters_ EXCEPT ![m][n] = v]
  /\ Notify("updated", n, v)
  /\ UNCHANGED <<attached, counters, watch, halt, dangling>>

set_counter(m, n, v) == Change(m, n, v)

increment_counter(m, n, k) == Change(m, n, SizeT(counters_[m][n] + k))

decrement_counter(m, n, k) ==
  /\ counters_[m][n] # 0
  /\ Change(m, n, SizeT(counters_[m][n] - k))

(* Fault: the observer is told at once, ahead of the updates queued *)
remove_counter_AtOnce(m, n) ==
  /\ status = "running" /\ Has(m, n)
  /\ counters_' = [counters_ EXCEPT ![m][n] = Absent]
  /\ counters' = [counters EXCEPT ![n] = Absent]
  /\ UNCHANGED <<events_, attached, watch, halt, dangling>>

(* erase removes what is there; a module without counters returns early *)
remove_counter(m, n) ==
  /\ status = "running"
  /\ \E q \in Names : Has(m, q)
  /\ Has(m, n) \/ Allowed("remove absent")
  /\ counters_' = [counters_ EXCEPT ![m][n] = Absent]
  /\ Notify("removed", n, Absent)
  /\ UNCHANGED <<attached, counters, watch, halt, dangling>>

(* top::init: attach_observer, then the simulation waits for Run *)
AttachObserver ==
  /\ ~attached /\ attached' = TRUE
  /\ status' = "halted"
  /\ UNCHANGED <<counters_, events_, counters, watch, walk, reply, dangling>>

-----------------------------------------------------------------------------
(* The observer callbacks, called by notify_observers. *)

CounterRemoved ==
  /\ status = "running" /\ events_ # <<>>
  /\ Head(events_).kind = "removed"
  /\ counters' = removeCounter(counters, Head(events_).name)
  /\ events_' = Tail(events_)
  /\ UNCHANGED <<counters_, attached, watch, halt, dangling>>

(* the loop over the watchpoints goes on behind position i *)
Walk(i, name, old, new) ==
  LET hits == {j \in DOMAIN watchpoint_list :
                 /\ j > i
                 /\ watchpoint_list[j].counter_name = name
                 /\ ~watchpoint_list[j].disabled}
  IN  IF hits = {} THEN status' = "running" /\ walk' = 0 /\ reply' = NoReply
      ELSE /\ status' = "halted" /\ walk' = Min(hits)
           /\ reply' = [id |-> watchpoint_list[Min(hits)].id, name |-> name,
                        old_value |-> old, new_value |-> new]

(* Fault: the watchpoint that is hit is erased inside the loop *)
CounterUpdated_OneShot ==
  /\ status = "running" /\ events_ # <<>>
  /\ Head(events_).kind = "updated"
  /\ events_' = Tail(events_)
  /\ LET n == Head(events_).name
         new == ToInt(Head(events_).value)
     IN  /\ counters[n] # Absent
         /\ counters' = [counters EXCEPT ![n] = new]
         /\ Walk(0, n, counters[n], new)
  /\ watchpoint_list' = IF walk' = 0 THEN watchpoint_list
                        ELSE RemoveAt(watchpoint_list, walk')
  /\ UNCHANGED <<counters_, attached, next_id, dangling>>

(* -1 stands for "no such counter"; an old value of -1 is reported as 0.   *)
(* updateCounter throws when there is none, and nothing catches it         *)
CounterUpdated ==
  /\ status = "running" /\ events_ # <<>>
  /\ Head(events_).kind = "updated"
  /\ events_' = Tail(events_)
  /\ LET n   == Head(events_).name
         new == ToInt(Head(events_).value)
         old == getCounterValue(counters, n)
     IN  IF counters[n] = Absent
         THEN status' = "aborted" /\ UNCHANGED <<counters, walk, reply>>
         ELSE /\ counters' = updateCounter(counters, n, new)
              /\ Walk(0, n, IF old = -1 THEN 0 ELSE old, new)
  /\ UNCHANGED <<counters_, attached, watch, dangling>>

(* a breakpoint halts the simulation, in another callback *)
BreakpointHit ==
  /\ attached /\ status = "running"
  /\ status' = "halted"
  /\ UNCHANGED <<npu, counters, watch, walk, reply, dangling>>

(* Run, Continue or Next: pause returns.  The iterator is advanced, then   *)
(* compared with the end: where the list is now shorter than its position, *)
(* or elsewhere in memory, it reads what is no watchpoint                  *)
Resume ==
  /\ status = "halted" /\ dangling' = FALSE
  /\ IF walk = 0
     THEN status' = "running" /\ UNCHANGED <<walk, reply>>
     ELSE IF dangling \/ walk > Len(watchpoint_list)
     THEN status' = "undefined" /\ UNCHANGED <<walk, reply>>
     ELSE Walk(walk, reply.name, reply.old_value, reply.new_value)
  /\ UNCHANGED <<npu, counters, watch>>

-----------------------------------------------------------------------------
(* Requests. *)

Request == status = "halted" /\ UNCHANGED <<npu, counters, halt>>
Edit == Request /\ (walk = 0 \/ Allowed("edit in walk"))

(* Fault: the same id again *)
SetWatchpoint_SameId(n, d) ==
  /\ Edit
  /\ next_id < MaxWatchpoints
  /\ \A i \in DOMAIN watchpoint_list : watchpoint_list[i].counter_name # n
  /\ watchpoint_list' =
       Append(watchpoint_list,
              [id |-> next_id, counter_name |-> n, disabled |-> d])
  /\ UNCHANGED <<next_id, dangling>>

(* handleSetWatchpoint: the id is used up even when there is one already   *)
SetWatchpoint(n, d) ==
  /\ Edit
  /\ next_id < MaxWatchpoints /\ next_id' = next_id + 1
  /\ watchpoint_list' =
       addWatchpoint(watchpoint_list,
                     [id |-> next_id, counter_name |-> n, disabled |-> d])
  /\ dangling' \in IF walk = 0 \/ watchpoint_list' = watchpoint_list
                   THEN {dangling} ELSE {dangling, TRUE}

RemoveWatchpoint(identifier) ==
  /\ Edit
  /\ watchpoint_list' = removeWatchpoint(watchpoint_list, identifier)
  /\ UNCHANGED <<next_id, dangling>>

EnableDisableWatchpoint(identifier, d) ==
  /\ Request
  /\ watchpoint_list' = setDisabled(watchpoint_list, identifier, d)
  /\ UNCHANGED <<next_id, dangling>>

-----------------------------------------------------------------------------
Next ==
  \/ \E m \in Modules, n \in Names, v \in Values :
       add_counter(m, n, v) \/ set_counter(m, n, v)
       \/ increment_counter(m, n, v) \/ decrement_counter(m, n, v)
  \/ \E m \in Modules, n \in Names : remove_counter(m, n)
  \/ AttachObserver \/ CounterRemoved \/ CounterUpdated
  \/ BreakpointHit \/ Resume
  \/ \E n \in Names, d \in BOOLEAN : SetWatchpoint(n, d)
  \/ \E i \in 0 .. MaxWatchpoints - 1 : RemoveWatchpoint(i)
  \/ \E i \in 0 .. MaxWatchpoints - 1, d \in BOOLEAN :
       EnableDisableWatchpoint(i, d)

Spec == Init /\ [][Next]_vars
-----------------------------------------------------------------------------
(* Type invariant of the counters, the queue and the watchpoints.          *)
TypeOK ==
  /\ counters_ \in [Modules -> [Names -> (0 .. SizeRange - 1) \cup {Absent}]]
  /\ events_ \in Seq([kind : {"updated"}, name : Names,
                      value : 0 .. SizeRange - 1]
                     \cup [kind : {"removed"}, name : Names, value : {Absent}])
  /\ attached \in BOOLEAN /\ dangling \in BOOLEAN
  /\ counters \in [Names -> Int \cup {Absent}]
  /\ watchpoint_list \in Seq([id : 0 .. next_id - 1, counter_name : Names,
                              disabled : BOOLEAN])
  /\ next_id \in 0 .. MaxWatchpoints
  /\ status \in {"running", "halted", "aborted", "undefined"}
  /\ walk \in 0 .. MaxWatchpoints
  /\ reply.id \in -1 .. MaxWatchpoints - 1

(* The value that the copy shows of n once the queue is drained is v.      *)
Shown(v) == IF v = Absent THEN Absent ELSE ToInt(v)
WillShow(n, v) ==
  \/ Pending(n) = {} /\ counters[n] = v
  \/ \E i \in Pending(n) : Shown(events_[i].value) = v
                         /\ \A j \in Pending(n) : j <= i

(* The copy is never wrong for good: with what is queued it amounts to the *)
(* counters of the modules, however updates, removals and later additions  *)
(* (which overtake the queue) follow each other.                           *)
Agreement ==
  \A n \in Names :
    \/ \E m \in Modules : Has(m, n) /\ WillShow(n, Shown(counters_[m][n]))
    \/ (\A m \in Modules : ~Has(m, n)) /\ WillShow(n, Absent)

(* updateCounter finds the counter it is to update: "COUNTER DOES NOT      *)
(* EXIST" is never thrown.                                                 *)
NeverThrows == status # "aborted"

(* A change of a watched counter, on its way to the copy.                  *)
WatchedChange(n) ==
  /\ counters[n] # Absent /\ counters'[n] \notin {Absent, counters[n]}
  /\ \E i \in DOMAIN watchpoint_list :
       watchpoint_list[i].counter_name = n /\ ~watchpoint_list[i].disabled

HitTells ==
  /\ \A n \in Names :
       WatchedChange(n) =>
         /\ walk' # 0 /\ reply'.name = n
         /\ reply'.old_value = counters[n] \/ counters[n] = -1
  /\ walk' \notin {0, walk} =>
       \E i \in DOMAIN watchpoint_list' :
         watchpoint_list'[i].id = reply'.id /\ ~watchpoint_list'[i].disabled
  /\ walk' # 0 =>
       /\ counters'[reply'.name] = reply'.new_value
       /\ \A i \in DOMAIN watchpoint_list' :
            watchpoint_list'[i].id = reply'.id
              => watchpoint_list'[i].counter_name = reply'.name

(* No watched change passes pfpdb by: it halts the simulation.  A hit is   *)
(* of an enabled watchpoint.  As long as pfpdb has it, also when the list  *)
(* is edited and further watchpoints are hit, its new value is the one     *)
(* shown of the counter, and its id is that of no other's watchpoint.  Its *)
(* old value was shown before, but for -1, which is told as 0.             *)
PromptAgrees == [][HitTells]_vars
=============================================================================
