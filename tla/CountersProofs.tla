--------------------------- MODULE CountersProofs ----------------------------
(***************************************************************************)
(* Proofs about Counters, for every set of modules and names, all widths   *)
(* of integers and every bound: the copy that pfpdb sees, taken together   *)
(* with the queue, never loses the counters, and updateCounter never       *)
(* throws, in a model of an NPU that takes none of the liberties that      *)
(* make it go wrong; the types of the whole component, watchpoints too,    *)
(* whatever the model and the user do; and that no change of a watched     *)
(* counter passes pfpdb by, and a hit agrees with what pfpdb is shown,     *)
(* also when watchpoints are edited in the walk that found it.             *)
(***************************************************************************)
EXTENDS Counters, ListLemmas

(* Whether watchpoints are edited in a walk makes no difference here.      *)
Careful == Liberties \subseteq {"edit in walk"}

Word == 0 .. SizeRange - 1
Event == [kind : {"updated"}, name : Names, value : Word]
           \cup [kind : {"removed"}, name : Names, value : {Absent}]

Types ==
  /\ counters_ \in [Modules -> [Names -> Word \cup {Absent}]]
  /\ events_ \in Seq(Event)
  /\ attached \in BOOLEAN
  /\ counters \in [Names -> Int \cup {Absent}]

(* before the observer is attached there is nothing to observe             *)
Unattached ==
  ~attached => /\ events_ = <<>>
               /\ \A m \in Modules, n \in Names : ~Has(m, n)
               /\ \A n \in Names : counters[n] = Absent

OneOwner ==
  \A m, q \in Modules, n \in Names : Has(m, n) /\ Has(q, n) => m = q

(* the counter n of a module: the copy has it, and only updates are queued *)
Kept(m, n) ==
  /\ counters[n] # Absent
  /\ \A i \in Pending(n) : events_[i].kind = "updated"
  /\ WillShow(n, Shown(counters_[m][n]))

(* the copy has a counter that no module has only while its removal is     *)
(* queued, behind updates that may be queued too                           *)
Gone(n) ==
  \/ Pending(n) = {} /\ counters[n] = Absent
  \/ /\ counters[n] # Absent
     /\ \E i \in Pending(n) :
          /\ events_[i].kind = "removed"
          /\ \A j \in Pending(n) :
               j <= i /\ (j < i => events_[j].kind = "updated")

Copy ==
  \A n \in Names :
    /\ \A m \in Modules : Has(m, n) => Kept(m, n)
    /\ (\A m \in Modules : ~Has(m, n)) => Gone(n)

(* The inductive invariant behind Agreement and NeverThrows.               *)
CountersInv == Types /\ Unattached /\ OneOwner /\ Copy /\ status # "aborted"
-----------------------------------------------------------------------------
(* Lemmas about integers of a fixed width. *)

LEMMA Wraps ==
  ASSUME NEW x \in Int PROVE SizeT(x) \in Word
BY CountersAssumption DEF SizeT, Word

LEMMA NarrowIsInt ==
  ASSUME NEW v \in Int PROVE ToInt(v) \in Int
BY CountersAssumption DEF ToInt

LEMMA ZeroStays == ToInt(0) = 0 /\ 0 \in Word
BY CountersAssumption DEF ToInt, Word

-----------------------------------------------------------------------------
(* Lemmas about the queue. *)

(* What a callback queues goes behind everything else.                     *)
LEMMA Queued ==
  ASSUME Types, NEW e \in Event, events_' = Append(events_, e)
  PROVE  /\ events_' \in Seq(Event)
         /\ Len(events_') = Len(events_) + 1
         /\ events_'[Len(events_) + 1] = e
         /\ \A i \in 1 .. Len(events_) : events_'[i] = events_[i]
         /\ \A n \in Names :
              Pending(n)' = IF e.name = n
                            THEN Pending(n) \cup {Len(events_) + 1}
                            ELSE Pending(n)
<1>1. /\ events_' \in Seq(Event)
      /\ Len(events_') = Len(events_) + 1
      /\ events_'[Len(events_) + 1] = e
      /\ \A i \in 1 .. Len(events_) : events_'[i] = events_[i]
  BY AppendProperties DEF Types
<1>2. /\ DOMAIN events_ = 1 .. Len(events_) /\ Len(events_) \in Nat
      /\ DOMAIN events_' = 1 .. Len(events_) + 1
  BY <1>1, LenProperties DEF Types
<1> QED
  BY <1>1, <1>2 DEF Pending

(* When the first event is taken the others move up by one.                *)
LEMMA Taken ==
  ASSUME Types, events_ # <<>>, events_' = Tail(events_)
  PROVE  /\ events_' \in Seq(Event)
         /\ Head(events_) = events_[1] /\ events_[1] \in Event
         /\ 1 \in Pending(Head(events_).name)
         /\ \A n \in Names : \A i \in Pending(n) :
              /\ i \in Nat \ {0}
              /\ i = 1 => n = Head(events_).name
              /\ i > 1 => i - 1 \in Pending(n)' /\ events_'[i - 1] = events_[i]
         /\ \A n \in Names : \A i \in Pending(n)' :
              /\ i \in Nat \ {0} /\ i + 1 \in Pending(n)
              /\ events_'[i] = events_[i + 1]
<1>1. /\ events_' \in Seq(Event) /\ Len(events_') = Len(events_) - 1
      /\ Head(events_) = events_[1]
      /\ \A i \in 1 .. Len(events_') : events_'[i] = events_[i + 1]
  BY HeadTailProperties DEF Types
<1>2. /\ DOMAIN events_ = 1 .. Len(events_) /\ Len(events_) \in Nat \ {0}
      /\ DOMAIN events_' = 1 .. Len(events_) - 1
  BY <1>1, LenProperties, EmptySeq DEF Types
<1>3. events_[1] \in Event
  BY <1>2, ElementOfSeq DEF Types
<1> QED
  BY <1>1, <1>2, <1>3 DEF Pending
-----------------------------------------------------------------------------
(* Lemmas about the steps. *)

(* A new counter: no module has it and none of its removals is queued, so  *)
(* that the copy gets it at once.                                          *)
LEMMA AddStep ==
  ASSUME Careful, CountersInv, NEW m \in Modules, NEW n \in Names,
         NEW v \in Values, add_counter(m, n, v)
  PROVE  CountersInv'
<1>1. /\ attached /\ v = 0 /\ ~Removing(n) /\ (\A q \in Modules : ~Has(q, n))
      /\ counters_' = [counters_ EXCEPT ![m][n] = 0]
      /\ counters' = addCounter(counters, n)
      /\ UNCHANGED <<events_, attached, status>>
  BY DEF add_counter, Allowed, Careful, halt
<1>2. Pending(n) = {} /\ counters[n] = Absent
  BY <1>1 DEF CountersInv, Copy, Gone, Removing
<1>3. counters' = [counters EXCEPT ![n] = 0]
  BY <1>1, <1>2 DEF addCounter
<1>4. /\ 0 # Absent /\ 0 \in Word /\ ToInt(0) = 0
      /\ counters_'[m][n] = 0 /\ counters'[n] = 0
  BY <1>1, <1>3, ZeroStays, CountersAssumption DEF CountersInv, Types
<1>5. \A q \in Modules, k \in Names :
        q # m \/ k # n => counters_'[q][k] = counters_[q][k]
  BY <1>1 DEF CountersInv, Types
<1>6. \A k \in Names : k # n => counters'[k] = counters[k]
  BY <1>3 DEF CountersInv, Types
<1>7. Types'
  BY <1>1, <1>3, <1>4 DEF CountersInv, Types
<1>8. Unattached' /\ status' # "aborted"
  BY <1>1 DEF CountersInv, Unattached
<1>9. OneOwner'
  BY <1>1, <1>5 DEF CountersInv, OneOwner, Has
<1>10. \A k \in Names : Pending(k)' = Pending(k)
  BY <1>1 DEF Pending
<1>11. Copy'
  <2> SUFFICES ASSUME NEW k \in Names
               PROVE  /\ \A q \in Modules : Has(q, k)' => Kept(q, k)'
                      /\ (\A q \in Modules : ~Has(q, k)') => Gone(k)'
    BY DEF Copy
  <2>1. CASE k = n
    <3>1. \A q \in Modules : Has(q, n)' <=> q = m
      BY <1>1, <1>4, <1>5 DEF Has
    <3>2. Kept(m, n)'
      BY <1>2, <1>4, <1>10 DEF Kept, WillShow, Shown
    <3> QED
      BY <2>1, <3>1, <3>2
  <2>2. CASE k # n
    <3>1. \A q \in Modules : Has(q, k)' <=> Has(q, k)
      BY <2>2, <1>5 DEF Has
    <3>2. \A q \in Modules : Kept(q, k) => Kept(q, k)'
      BY <2>2, <1>1, <1>5, <1>6, <1>10 DEF Kept, WillShow
    <3>3. Gone(k) => Gone(k)'
      BY <2>2, <1>1, <1>6, <1>10 DEF Gone
    <3> QED
      BY <3>1, <3>2, <3>3 DEF CountersInv, Copy
  <2> QED
    BY <2>1, <2>2
<1> QED
  BY <1>7, <1>8, <1>9, <1>11 DEF CountersInv

(* What Change and remove_counter have in common: the counter's new value  *)
(* v goes to the module and, behind what is queued, to the observer.       *)
LEMMA NotifiedStep ==
  ASSUME CountersInv, NEW m \in Modules, NEW n \in Names, Has(m, n),
         NEW e \in Event, e.name = n,
         e.value = Absent <=> e.kind = "removed",
         counters_' = [counters_ EXCEPT ![m][n] = e.value],
         events_' = Append(events_, e),
         UNCHANGED <<attached, counters, status>>
  PROVE  CountersInv'
<1> DEFINE last == Len(events_) + 1
<1>1. /\ attached /\ Kept(m, n) /\ (\A q \in Modules : q # m => ~Has(q, n))
  BY DEF CountersInv, Unattached, OneOwner, Copy
<1>2. /\ e.value \in Word \cup {Absent} /\ e.kind \in {"updated", "removed"}
      /\ counters_'[m][n] = e.value
  BY DEF Event, CountersInv, Types
<1>3. \A q \in Modules, k \in Names :
        q # m \/ k # n => counters_'[q][k] = counters_[q][k]
  BY DEF CountersInv, Types
<1>4. /\ events_' \in Seq(Event) /\ events_'[last] = e
      /\ last \in Nat /\ Pending(n)' = Pending(n) \cup {last}
      /\ \A k \in Names : k # n => Pending(k)' = Pending(k)
      /\ \A k \in Names : \A i \in Pending(k) :
           i \in Nat /\ i < last /\ events_'[i] = events_[i]
  BY Queued, LenProperties DEF CountersInv, Types, Pending
<1>5. Types'
  BY <1>2, <1>4 DEF CountersInv, Types
<1>6. Unattached' /\ status' # "aborted"
  BY <1>1 DEF CountersInv, Unattached
<1>7. OneOwner'
  BY <1>1, <1>3 DEF CountersInv, OneOwner, Has
<1>8. Copy'
  <2> SUFFICES ASSUME NEW k \in Names
               PROVE  /\ \A q \in Modules : Has(q, k)' => Kept(q, k)'
                      /\ (\A q \in Modules : ~Has(q, k)') => Gone(k)'
    BY DEF Copy
  <2>1. CASE k = n /\ e.kind = "updated"
    <3>1. \A q \in Modules : Has(q, n)' <=> q = m
      BY <2>1, <1>1, <1>2, <1>3 DEF Has
    <3>2. WillShow(n, Shown(counters_[m][n]))'
      BY <2>1, <1>2, <1>4 DEF WillShow
    <3>3. Kept(m, n)'
      BY <2>1, <1>1, <1>4, <3>2 DEF Kept
    <3> QED
      BY <2>1, <3>1, <3>3
  <2>2. CASE k = n /\ e.kind = "removed"
    <3>1. \A q \in Modules : ~Has(q, n)'
      BY <2>2, <1>1, <1>2, <1>3 DEF Has
    <3>2. /\ counters'[n] # Absent
          /\ last \in Pending(n)' /\ events_'[last].kind = "removed"
      BY <2>2, <1>1, <1>4 DEF Kept
    <3>3. ASSUME NEW j \in Pending(n)'
          PROVE  j <= last /\ (j < last => events_'[j].kind = "updated")
      <4>1. CASE j = last
        BY <4>1, <1>4
      <4>2. CASE j \in Pending(n)
        <5>1. /\ j < last /\ events_'[j] = events_[j]
              /\ j \in Nat /\ last \in Nat
          BY <4>2, <1>4
        <5> QED
          BY <4>2, <5>1, <1>1 DEF Kept
      <4> QED
        BY <4>1, <4>2, <1>4
    <3>4. Gone(n)'
      BY <3>2, <3>3 DEF Gone
    <3> QED
      BY <2>2, <3>1, <3>4
  <2>3. CASE k # n
    <3>1. \A q \in Modules : Has(q, k)' <=> Has(q, k)
      BY <2>3, <1>3 DEF Has
    <3>2. ASSUME NEW q \in Modules, Kept(q, k) PROVE Kept(q, k)'
      <4>1. /\ counters_'[q][k] = counters_[q][k] /\ counters'[k] = counters[k]
            /\ Pending(k)' = Pending(k)
            /\ \A i \in Pending(k) : events_'[i] = events_[i]
        BY <2>3, <1>3, <1>4
      <4>2. WillShow(k, Shown(counters_[q][k]))'
        BY <3>2, <4>1 DEF Kept, WillShow
      <4> QED
        BY <3>2, <4>1, <4>2 DEF Kept
    <3>3. Gone(k) => Gone(k)'
      BY <2>3, <1>4 DEF Gone
    <3> QED
      BY <3>1, <3>2, <3>3 DEF CountersInv, Copy
  <2> QED
    BY <2>1, <2>2, <2>3, <1>2
<1> QED
  BY <1>5, <1>6, <1>7, <1>8 DEF CountersInv

LEMMA ChangeStep ==
  ASSUME CountersInv, NEW m \in Modules, NEW n \in Names, NEW v \in Word,
         Change(m, n, v)
  PROVE  CountersInv'
<1> DEFINE e == [kind |-> "updated", name |-> n, value |-> v]
<1>1. e \in Event /\ e.name = n /\ e.kind = "updated" /\ e.value = v
  BY DEF Event
<1>2. v # Absent
  BY CountersAssumption DEF Word
<1>3. /\ Has(m, n) /\ attached
      /\ counters_' = [counters_ EXCEPT ![m][n] = v]
      /\ events_' = Append(events_, e)
      /\ UNCHANGED <<attached, counters, status>>
  BY DEF Change, Notify, halt, CountersInv, Unattached
<1> QED
  BY <1>1, <1>2, <1>3, NotifiedStep

LEMMA RemoveStep ==
  ASSUME Careful, CountersInv, NEW m \in Modules, NEW n \in Names,
         remove_counter(m, n)
  PROVE  CountersInv'
<1> DEFINE e == [kind |-> "removed", name |-> n, value |-> Absent]
<1>1. e \in Event /\ e.name = n /\ e.kind = "removed" /\ e.value = Absent
  BY DEF Event
<1>2. /\ Has(m, n) /\ attached
      /\ counters_' = [counters_ EXCEPT ![m][n] = Absent]
      /\ events_' = Append(events_, e)
      /\ UNCHANGED <<attached, counters, status>>
  BY DEF remove_counter, Notify, halt, CountersInv, Unattached, Careful, Allowed
<1> QED
  BY <1>1, <1>2, NotifiedStep

(* What CounterRemoved and CounterUpdated have in common: the first event  *)
(* leaves the queue, and the copy of its counter gets what it says.        *)
LEMMA DeliveredStep ==
  ASSUME CountersInv, events_ # <<>>, events_' = Tail(events_),
         counters' = [counters EXCEPT ![Head(events_).name] =
                                        Shown(Head(events_).value)],
         status' # "aborted",
         UNCHANGED <<counters_, attached>>
  PROVE  CountersInv'
<1> DEFINE n == Head(events_).name
           e == Head(events_)
<1>1. /\ e = events_[1] /\ e \in Event /\ n \in Names
      /\ e.kind \in {"updated", "removed"}
      /\ e.kind = "removed" <=> e.value = Absent
      /\ e.kind = "updated" => e.value \in Int
  BY Taken, CountersAssumption DEF CountersInv, Event, Word
<1>2. /\ Shown(e.value) \in Int \cup {Absent}
      /\ Shown(e.value) = Absent <=> e.kind = "removed"
  BY <1>1, NarrowIsInt, CountersAssumption DEF Shown
<1>3. Types'
  BY <1>1, <1>2, Taken DEF CountersInv, Types
<1>4. Unattached' /\ OneOwner'
  BY DEF CountersInv, Unattached, OneOwner, Has
<1>5. /\ counters'[n] = Shown(e.value)
      /\ \A k \in Names : k # n => counters'[k] = counters[k]
  BY <1>1 DEF CountersInv, Types
<1>6. ASSUME NEW k \in Names
      PROVE  /\ \A i \in Pending(k) :
                  /\ i \in Nat \ {0}
                  /\ i = 1 => k = n
                  /\ i > 1 => i - 1 \in Pending(k)' /\ events_'[i - 1] = events_[i]
             /\ \A i \in Pending(k)' :
                  /\ i \in Nat \ {0} /\ i + 1 \in Pending(k)
                  /\ events_'[i] = events_[i + 1]
             /\ k = n => 1 \in Pending(k)
  BY Taken DEF CountersInv
<1>7. ASSUME NEW k \in Names, NEW q \in Modules, Has(q, k)
      PROVE  Kept(q, k)'
  <2>1. Kept(q, k)
    BY <1>7 DEF CountersInv, Copy
  <2>2. counters'[k] # Absent
    BY <2>1, <1>1, <1>2, <1>5, <1>6 DEF Kept
  <2>3. ASSUME NEW i \in Pending(k)' PROVE events_'[i].kind = "updated"
    <3>1. i + 1 \in Pending(k) /\ events_'[i] = events_[i + 1]
      BY <1>6
    <3> QED
      BY <2>1, <3>1 DEF Kept
  <2>4. WillShow(k, Shown(counters_[q][k]))'
    <3>1. CASE Pending(k) = {}
      BY <3>1, <2>1, <1>5, <1>6 DEF Kept, WillShow
    <3>2. ASSUME NEW i \in Pending(k), \A j \in Pending(k) : j <= i,
                 Shown(events_[i].value) = Shown(counters_[q][k])
          PROVE  WillShow(k, Shown(counters_[q][k]))'
      <4>1. CASE i = 1
        <5>1. Pending(k)' = {}
          BY <4>1, <3>2, <1>6
        <5> QED
          BY <5>1, <4>1, <3>2, <1>1, <1>5, <1>6 DEF WillShow
      <4>2. CASE i > 1
        <5>1. /\ i - 1 \in Pending(k)'
              /\ Shown(events_'[i - 1].value) = Shown(counters_'[q][k])
          BY <4>2, <3>2, <1>6
        <5>2. ASSUME NEW j \in Pending(k)' PROVE j <= i - 1
          <6>1. j \in Nat /\ j + 1 \in Pending(k) /\ i \in Nat
            BY <1>6
          <6> QED
            BY <6>1, <3>2
        <5> QED
          BY <5>1, <5>2 DEF WillShow
      <4> QED
        BY <4>1, <4>2, <1>6
    <3> QED
      BY <2>1, <3>1, <3>2 DEF Kept, WillShow
  <2> QED
    BY <2>2, <2>3, <2>4 DEF Kept
<1>8. ASSUME NEW k \in Names, \A q \in Modules : ~Has(q, k)
      PROVE  Gone(k)'
  <2>1. Gone(k)
    BY <1>8 DEF CountersInv, Copy
  <2>2. CASE Pending(k) = {} /\ counters[k] = Absent
    BY <2>2, <1>5, <1>6 DEF Gone
  <2>3. ASSUME NEW i \in Pending(k), counters[k] # Absent,
               events_[i].kind = "removed",
               \A j \in Pending(k) :
                 j <= i /\ (j < i => events_[j].kind = "updated")
        PROVE  Gone(k)'
    <3>1. CASE i = 1
      <4>1. Pending(k)' = {} /\ counters'[k] = Absent
        BY <3>1, <2>3, <1>1, <1>2, <1>5, <1>6
      <4> QED
        BY <4>1 DEF Gone
    <3>2. CASE i > 1
      <4>1. counters'[k] # Absent
        BY <3>2, <2>3, <1>1, <1>2, <1>5, <1>6
      <4>2. i - 1 \in Pending(k)' /\ events_'[i - 1].kind = "removed"
        BY <3>2, <2>3, <1>6
      <4>3. ASSUME NEW j \in Pending(k)'
            PROVE  j <= i - 1 /\ (j < i - 1 => events_'[j].kind = "updated")
        <5>1. /\ j \in Nat /\ j + 1 \in Pending(k) /\ i \in Nat
              /\ events_'[j] = events_[j + 1]
          BY <1>6
        <5>2. j + 1 <= i /\ (j + 1 < i => events_[j + 1].kind = "updated")
          BY <5>1, <2>3
        <5>3. j <= i - 1 /\ (j < i - 1 => j + 1 < i)
          BY <5>1, <5>2
        <5>4. events_'[j].kind = events_[j + 1].kind
          BY <5>1
        <5> QED
          BY <5>2, <5>3, <5>4
      <4> QED
        BY <4>1, <4>2, <4>3 DEF Gone
    <3> QED
      BY <3>1, <3>2, <1>6
  <2> QED
    BY <2>1, <2>2, <2>3 DEF Gone
<1>9. Copy'
  BY <1>7, <1>8 DEF Copy, Has
<1> QED
  BY <1>3, <1>4, <1>9 DEF CountersInv

(* Every step keeps the invariant.                                         *)
LEMMA CountersStep ==
  ASSUME Careful, CountersInv, [Next]_vars
  PROVE  CountersInv'
<1>1. ASSUME NEW m \in Modules, NEW n \in Names, NEW v \in Values,
             \/ add_counter(m, n, v) \/ set_counter(m, n, v)
             \/ increment_counter(m, n, v) \/ decrement_counter(m, n, v)
      PROVE  CountersInv'
  <2>1. v \in Word /\ v \in Int
    BY CountersAssumption DEF Word
  <2>2. CASE add_counter(m, n, v)
    BY <2>2, AddStep
  <2>3. CASE set_counter(m, n, v)
    BY <2>1, <2>3, ChangeStep DEF set_counter
  <2>4. ASSUME Has(m, n) PROVE counters_[m][n] \in Int
    BY <2>4 DEF Has, CountersInv, Types, Word
  <2>5. CASE increment_counter(m, n, v)
    <3>1. Change(m, n, SizeT(counters_[m][n] + v)) /\ Has(m, n)
      BY <2>5 DEF increment_counter, Change
    <3>2. SizeT(counters_[m][n] + v) \in Word
      BY <3>1, <2>1, <2>4, Wraps
    <3> QED
      BY <3>1, <3>2, ChangeStep
  <2>6. CASE decrement_counter(m, n, v)
    <3>1. Change(m, n, SizeT(counters_[m][n] - v)) /\ Has(m, n)
      BY <2>6 DEF decrement_counter, Change
    <3>2. SizeT(counters_[m][n] - v) \in Word
      BY <3>1, <2>1, <2>4, Wraps
    <3> QED
      BY <3>1, <3>2, ChangeStep
  <2> QED
    BY <1>1, <2>2, <2>3, <2>5, <2>6
<1>2. ASSUME NEW m \in Modules, NEW n \in Names, remove_counter(m, n)
      PROVE  CountersInv'
  BY <1>2, RemoveStep
<1>3. CASE AttachObserver
  BY <1>3 DEF AttachObserver, CountersInv, Types, Unattached, OneOwner, Copy,
              Has, Kept, Gone, WillShow, Pending
<1>4. CASE CounterRemoved
  <2>1. Head(events_).value = Absent
    BY <1>4, HeadTailProperties DEF CounterRemoved, CountersInv, Types, Event
  <2> QED
    BY <1>4, <2>1, DeliveredStep
    DEF CounterRemoved, removeCounter, Shown, halt, CountersInv
<1>5. CASE CounterUpdated
  <2> DEFINE n == Head(events_).name
  <2>1. /\ events_ # <<>> /\ Head(events_) = events_[1]
        /\ n \in Names /\ 1 \in Pending(n)
        /\ events_[1].kind = "updated" /\ Head(events_).value \in Word
    BY <1>5, Taken DEF CounterUpdated, CountersInv, Event
  <2>2. counters[n] # Absent
    BY <2>1 DEF CountersInv, Copy, Kept, Gone
  <2>3. Head(events_).value # Absent
    BY <2>1, CountersAssumption DEF Word
  <2>4. status' # "aborted"
    BY <1>5, <2>2 DEF CounterUpdated, Walk
  <2>5. counters' = [counters EXCEPT ![n] = Shown(Head(events_).value)]
    BY <1>5, <2>2, <2>3 DEF CounterUpdated, updateCounter, Shown
  <2> QED
    BY <1>5, <2>4, <2>5, DeliveredStep DEF CounterUpdated
<1>6. ASSUME UNCHANGED <<counters_, events_, attached, counters>>,
             status' # "aborted"
      PROVE  CountersInv'
  BY <1>6 DEF CountersInv, Types, Unattached, OneOwner, Copy, Has, Kept, Gone,
              WillShow, Pending
<1>7. CASE BreakpointHit \/ Resume
  BY <1>6, <1>7 DEF BreakpointHit, Resume, Walk, npu
<1>8. ASSUME Request PROVE CountersInv'
  BY <1>6, <1>8 DEF Request, npu, halt, CountersInv
<1>9. CASE UNCHANGED vars
  BY <1>6, <1>9 DEF vars, npu, halt, CountersInv
<1> QED
  BY <1>1, <1>2, <1>3, <1>4, <1>5, <1>7, <1>8, <1>9
  DEF Next, SetWatchpoint, RemoveWatchpoint, EnableDisableWatchpoint, Edit

(* The inductive invariant holds in every reachable state.                 *)
LEMMA CountersInductive ==
  ASSUME Careful PROVE Spec => []CountersInv
<1>1. ASSUME Init PROVE CountersInv
  <2>1. Types /\ attached = FALSE /\ status # "aborted"
    BY <1>1, EmptySeq DEF Init, Types
  <2>2. \A m \in Modules, n \in Names : ~Has(m, n)
    BY <1>1 DEF Init, Has
  <2>3. \A n \in Names : Pending(n) = {} /\ counters[n] = Absent
    BY <1>1 DEF Init, Pending
  <2> QED
    BY <1>1, <2>1, <2>2, <2>3
    DEF CountersInv, Unattached, OneOwner, Copy, Gone, Init
<1>2. CountersInv /\ [Next]_vars => CountersInv'
  BY CountersStep
<1> QED
  BY <1>1, <1>2, PTL DEF Spec
-----------------------------------------------------------------------------
(* The copy that pfpdb is shown amounts, together with the queue, to the   *)
(* counters of the modules, whatever updates, removals and additions       *)
(* follow each other (PFPObject.cpp and notify_observers).                 *)
THEOREM CountersAgree ==
  ASSUME Careful PROVE Spec => []Agreement
<1>1. CountersInv => Agreement
  <2> SUFFICES ASSUME CountersInv, NEW n \in Names
               PROVE  \/ \E m \in Modules :
                           Has(m, n) /\ WillShow(n, Shown(counters_[m][n]))
                      \/ (\A m \in Modules : ~Has(m, n)) /\ WillShow(n, Absent)
    BY DEF Agreement
  <2>1. CASE \E m \in Modules : Has(m, n)
    BY <2>1 DEF CountersInv, Copy, Kept
  <2>2. CASE \A m \in Modules : ~Has(m, n)
    <3>1. CASE Pending(n) = {} /\ counters[n] = Absent
      BY <2>2, <3>1 DEF WillShow
    <3>2. ASSUME NEW i \in Pending(n), events_[i].kind = "removed",
                 \A j \in Pending(n) : j <= i
          PROVE  WillShow(n, Absent)
      <4>1. events_[i] \in Event
        BY LenProperties, ElementOfSeq DEF Pending, CountersInv, Types
      <4>2. Shown(events_[i].value) = Absent
        BY <3>2, <4>1 DEF Event, Shown
      <4> QED
        BY <3>2, <4>2 DEF WillShow
    <3> QED
      BY <2>2, <3>1, <3>2 DEF CountersInv, Copy, Gone
  <2> QED
    BY <2>1, <2>2
<1> QED
  BY <1>1, CountersInductive, PTL

(* updateCounter always finds the counter it is to update.                 *)
THEOREM CountersNeverThrow ==
  ASSUME Careful PROVE Spec => []NeverThrows
<1>1. CountersInv => NeverThrows
  BY DEF CountersInv, NeverThrows
<1> QED
  BY <1>1, CountersInductive, PTL
-----------------------------------------------------------------------------
(* Watchpoints. *)

Watchpoint == [id : 0 .. next_id - 1, counter_name : Names, disabled : BOOLEAN]

(* what TypeOK says of watchpoints and halts; every watchpoint has used up *)
(* an id                                                                   *)
WatchTypes ==
  /\ watchpoint_list \in Seq(Watchpoint)
  /\ next_id \in 0 .. MaxWatchpoints /\ Len(watchpoint_list) <= next_id
  /\ dangling \in BOOLEAN
  /\ status \in {"running", "halted", "aborted", "undefined"}
  /\ walk \in 0 .. MaxWatchpoints
  /\ reply.id \in -1 .. MaxWatchpoints - 1

(* The inductive invariant behind TypeOK.                                  *)
TypeInv == Types /\ WatchTypes
-----------------------------------------------------------------------------
(* Lemmas about the lists. *)

LEMMA AddedWatchpoint ==
  ASSUME NEW S, NEW list \in Seq(S), NEW w \in S
  PROVE  /\ addWatchpoint(list, w) \in Seq(S)
         /\ Len(addWatchpoint(list, w)) \in {Len(list), Len(list) + 1}
BY AppendProperties, LenProperties DEF addWatchpoint

LEMMA RemovedWatchpoint ==
  ASSUME NEW S, NEW list \in Seq(S), NEW identifier
  PROVE  /\ removeWatchpoint(list, identifier) \in Seq(S)
         /\ Len(removeWatchpoint(list, identifier)) <= Len(list)
<1> DEFINE I == {i \in 1 .. Len(list) : list[i].id = identifier}
<1>1. CASE I = {}
  <2>1. removeWatchpoint(list, identifier) = list
    BY <1>1 DEF removeWatchpoint, RemoveFirstMatch
  <2> QED
    BY <2>1, LenProperties
<1>2. CASE I # {}
  <2> DEFINE at == Min(I)
  <2>1. I \subseteq Nat /\ Len(list) \in Nat
    BY LenProperties
  <2>2. at \in 1 .. Len(list)
    BY <1>2, <2>1, MinIsFirst
  <2>3. removeWatchpoint(list, identifier) = RemoveAt(list, at)
    BY <1>2 DEF removeWatchpoint, RemoveFirstMatch, SelectInSeq
  <2> HIDE DEF at
  <2> QED
    BY <2>1, <2>2, <2>3, RemovedAt
<1> QED
  BY <1>1, <1>2

(* enabling and disabling changes nothing else                             *)
LEMMA DisabledWatchpoint ==
  ASSUME WatchTypes, NEW identifier, NEW d \in BOOLEAN
  PROVE  LET new == setDisabled(watchpoint_list, identifier, d)
         IN  /\ new \in Seq(Watchpoint)
             /\ Len(new) = Len(watchpoint_list)
             /\ \A i \in 1 .. Len(watchpoint_list) :
                  /\ new[i].id = watchpoint_list[i].id
                  /\ new[i].counter_name = watchpoint_list[i].counter_name
<1> DEFINE I == {i \in 1 .. Len(watchpoint_list) :
                   watchpoint_list[i].id = identifier}
           new == setDisabled(watchpoint_list, identifier, d)
<1>1. CASE I = {}
  <2>1. new = watchpoint_list
    BY <1>1 DEF setDisabled, SelectInSeq
  <2> QED
    BY <2>1, LenProperties DEF WatchTypes
<1>2. CASE I # {}
  <2> DEFINE i == Min(I)
             w == [watchpoint_list[i] EXCEPT !.disabled = d]
  <2>1. i \in 1 .. Len(watchpoint_list) /\ i # 0
    <3>1. I \subseteq Nat /\ Len(watchpoint_list) \in Nat
      BY LenProperties DEF WatchTypes
    <3>2. i \in I
      BY <1>2, <3>1, MinIsFirst
    <3> QED
      BY <3>1, <3>2
  <2>2. new = [watchpoint_list EXCEPT ![i] = w]
    BY <1>2, <2>1 DEF setDisabled, SelectInSeq
  <2> HIDE DEF i
  <2>3. watchpoint_list[i] \in Watchpoint
    BY <2>1, ElementOfSeq DEF WatchTypes
  <2>4. /\ w \in Watchpoint /\ w.id = watchpoint_list[i].id
        /\ w.counter_name = watchpoint_list[i].counter_name
    BY <2>3 DEF Watchpoint
  <2> HIDE DEF w
  <2> QED
    BY <2>1, <2>2, <2>4, ExceptSeq DEF WatchTypes
<1> QED
  BY <1>1, <1>2

LEMMA Limit == MaxWatchpoints \in Nat
BY CountersAssumption

(* Where the loop over the watchpoints stops next.                         *)
LEMMA WalkStep ==
  ASSUME WatchTypes, NEW i \in Nat, NEW name, NEW old, NEW new,
         Walk(i, name, old, new)
  PROVE  \/ /\ status' = "running" /\ walk' = 0 /\ reply'.id = -1
            /\ \A j \in DOMAIN watchpoint_list :
                 j > i /\ watchpoint_list[j].counter_name = name
                   => watchpoint_list[j].disabled
         \/ /\ status' = "halted"
            /\ walk' \in 1 .. Len(watchpoint_list)
            /\ watchpoint_list[walk'] \in Watchpoint
            /\ watchpoint_list[walk'].counter_name = name
            /\ ~watchpoint_list[walk'].disabled /\ reply'.old_value = old
            /\ reply'.id = watchpoint_list[walk'].id
            /\ reply'.name = name /\ reply'.new_value = new
<1> DEFINE hits == {j \in DOMAIN watchpoint_list :
                      /\ j > i
                      /\ watchpoint_list[j].counter_name = name
                      /\ ~watchpoint_list[j].disabled}
<1>1. CASE hits = {}
  <2>1. status' = "running" /\ walk' = 0 /\ reply' = NoReply
    BY <1>1 DEF Walk
  <2> QED
    BY <1>1, <2>1 DEF NoReply
<1>2. CASE hits # {}
  <2>1. hits \subseteq 1 .. Len(watchpoint_list)
    BY LenProperties DEF WatchTypes
  <2>2. hits \subseteq Nat
    BY <2>1, LenProperties DEF WatchTypes
  <2>3. Min(hits) \in hits
    BY <1>2, <2>2, MinIsFirst
  <2>4. /\ status' = "halted" /\ walk' = Min(hits)
        /\ reply' = [id |-> watchpoint_list[walk'].id, name |-> name,
                     old_value |-> old, new_value |-> new]
    BY <1>2 DEF Walk
  <2>5. watchpoint_list[walk'] \in Watchpoint
    BY <2>1, <2>3, <2>4, ElementOfSeq DEF WatchTypes
  <2> QED
    BY <2>1, <2>3, <2>4, <2>5
<1> QED
  BY <1>1, <1>2
-----------------------------------------------------------------------------
(* Types. *)

LEMMA TypesStep ==
  ASSUME Types, [Next]_vars
  PROVE  Types'
<1>1. ASSUME NEW m \in Modules, NEW n \in Names, NEW v \in Word,
             Change(m, n, v)
      PROVE  Types'
  <2>1. [kind |-> "updated", name |-> n, value |-> v] \in Event
    BY DEF Event
  <2>2. events_' \in Seq(Event)
    BY <1>1, <2>1, AppendProperties DEF Change, Notify, Types
  <2> QED
    BY <1>1, <2>2 DEF Change, Types
<1>2. ASSUME NEW m \in Modules, NEW n \in Names, NEW v \in Values,
             \/ add_counter(m, n, v) \/ set_counter(m, n, v)
             \/ increment_counter(m, n, v) \/ decrement_counter(m, n, v)
      PROVE  Types'
  <2>1. v \in Word /\ v \in Int
    BY CountersAssumption DEF Word
  <2>2. Has(m, n) => counters_[m][n] \in Int
    BY DEF Has, Types, Word
  <2>3. CASE add_counter(m, n, v)
    <3>1. addCounter(counters, n) \in [Names -> Int \cup {Absent}]
      BY DEF addCounter, Types
    <3> QED
      BY <2>1, <2>3, <3>1 DEF add_counter, Types
  <2>4. CASE set_counter(m, n, v)
    BY <2>1, <2>4, <1>1 DEF set_counter
  <2>5. CASE increment_counter(m, n, v)
    <3>1. Change(m, n, SizeT(counters_[m][n] + v)) /\ Has(m, n)
      BY <2>5 DEF increment_counter, Change
    <3>2. SizeT(counters_[m][n] + v) \in Word
      BY <3>1, <2>1, <2>2, Wraps
    <3> QED
      BY <3>1, <3>2, <1>1
  <2>6. CASE decrement_counter(m, n, v)
    <3>1. Change(m, n, SizeT(counters_[m][n] - v)) /\ Has(m, n)
      BY <2>6 DEF decrement_counter, Change
    <3>2. SizeT(counters_[m][n] - v) \in Word
      BY <3>1, <2>1, <2>2, Wraps
    <3> QED
      BY <3>1, <3>2, <1>1
  <2> QED
    BY <1>2, <2>3, <2>4, <2>5, <2>6
<1>3. ASSUME NEW m \in Modules, NEW n \in Names, remove_counter(m, n)
      PROVE  Types'
  <2>1. [kind |-> "removed", name |-> n, value |-> Absent] \in Event
    BY DEF Event
  <2>2. events_' \in Seq(Event)
    BY <1>3, <2>1, AppendProperties DEF remove_counter, Notify, Types
  <2> QED
    BY <1>3, <2>2 DEF remove_counter, Types
<1>4. CASE AttachObserver
  BY <1>4 DEF AttachObserver, Types
<1>5. CASE CounterRemoved
  BY <1>5, HeadTailProperties DEF CounterRemoved, removeCounter, Types
<1>6. CASE CounterUpdated
  <2>1. /\ Head(events_) \in Event /\ events_' \in Seq(Event)
        /\ UNCHANGED <<counters_, attached>>
    BY <1>6, HeadTailProperties DEF CounterUpdated, Types
  <2>2. ToInt(Head(events_).value) \in Int
    BY <1>6, <2>1, NarrowIsInt DEF CounterUpdated, Event, Word
  <2>3. counters' \in [Names -> Int \cup {Absent}]
    BY <1>6, <2>2 DEF CounterUpdated, updateCounter, Types
  <2> QED
    BY <2>1, <2>3 DEF Types
<1>7. CASE BreakpointHit \/ Resume \/ Request \/ UNCHANGED vars
  BY <1>7 DEF BreakpointHit, Resume, Request, vars, npu, Types
<1> QED
  BY <1>2, <1>3, <1>4, <1>5, <1>6, <1>7
  DEF Next, SetWatchpoint, RemoveWatchpoint, EnableDisableWatchpoint, Edit

LEMMA WatchTypesStep ==
  ASSUME Types, WatchTypes, [Next]_vars
  PROVE  WatchTypes'
<1>0. Len(watchpoint_list) \in Nat
  BY LenProperties DEF WatchTypes
<1>1. ASSUME NEW i \in Nat, NEW name, NEW old, NEW new,
             Walk(i, name, old, new), UNCHANGED watch, dangling' \in BOOLEAN
      PROVE  WatchTypes'
  <2>1. /\ status' \in {"running", "halted"}
        /\ walk' \in 0 .. MaxWatchpoints
        /\ reply'.id \in -1 .. MaxWatchpoints - 1
    BY <1>0, <1>1, WalkStep, CountersAssumption DEF WatchTypes, Watchpoint
  <2> QED
    BY <1>1, <2>1 DEF WatchTypes, Watchpoint, watch
<1>2. ASSUME UNCHANGED <<watch, walk, reply>>, dangling' \in BOOLEAN,
             status' \in {"running", "halted", "aborted", "undefined"}
      PROVE  WatchTypes'
  BY <1>2 DEF WatchTypes, Watchpoint, watch
<1>3. ASSUME NEW m \in Modules, NEW n \in Names, NEW v,
             \/ add_counter(m, n, v) \/ set_counter(m, n, v)
             \/ increment_counter(m, n, v) \/ decrement_counter(m, n, v)
             \/ remove_counter(m, n)
      PROVE  WatchTypes'
  <2>1. UNCHANGED <<watch, halt, dangling>>
    BY <1>3 DEF add_counter, set_counter, increment_counter,
       decrement_counter, remove_counter, Change
  <2> QED
    BY <1>2, <2>1 DEF halt, WatchTypes
<1>4. CASE AttachObserver \/ CounterRemoved \/ BreakpointHit
  BY <1>2, <1>4 DEF AttachObserver, CounterRemoved, BreakpointHit, halt,
     WatchTypes
<1>5. CASE CounterUpdated
  BY <1>1, <1>2, <1>5 DEF CounterUpdated, WatchTypes
<1>6. CASE Resume
  <2>1. walk \in Nat /\ dangling' = FALSE /\ UNCHANGED watch
    BY <1>6, CountersAssumption DEF Resume, WatchTypes
  <2> QED
    BY <1>1, <1>2, <1>6, <2>1 DEF Resume
<1>7. ASSUME NEW n \in Names, NEW d \in BOOLEAN, SetWatchpoint(n, d)
      PROVE  WatchTypes'
  <2> DEFINE w == [id |-> next_id, counter_name |-> n, disabled |-> d]
  <2>0. /\ next_id < MaxWatchpoints /\ next_id' = next_id + 1
        /\ watchpoint_list' = addWatchpoint(watchpoint_list, w)
        /\ dangling' \in {dangling, TRUE} /\ UNCHANGED halt
    BY <1>7 DEF SetWatchpoint, Edit, Request
  <2>1. /\ next_id' = next_id + 1 /\ next_id \in Nat
        /\ next_id' \in 0 .. MaxWatchpoints
        /\ watchpoint_list' = addWatchpoint(watchpoint_list, w)
        /\ dangling' \in BOOLEAN /\ UNCHANGED halt
    <3>1. next_id \in Nat
      BY Limit DEF WatchTypes
    <3>2. dangling' \in BOOLEAN
      BY <2>0 DEF WatchTypes
    <3> QED
      BY <2>0, <3>1, <3>2, Limit
  <2>2. Watchpoint \subseteq Watchpoint' /\ w \in Watchpoint'
    BY <2>1 DEF Watchpoint
  <2>3. watchpoint_list \in Seq(Watchpoint')
    BY <2>2, WiderSeq DEF WatchTypes
  <2>4. /\ watchpoint_list' \in Seq(Watchpoint')
        /\ Len(watchpoint_list') \in
             {Len(watchpoint_list), Len(watchpoint_list) + 1}
    BY <2>1, <2>2, <2>3, AddedWatchpoint
  <2> QED
    BY <1>0, <2>1, <2>4 DEF WatchTypes, halt
<1>8. ASSUME NEW i, RemoveWatchpoint(i) PROVE WatchTypes'
  <2>1. /\ watchpoint_list' \in Seq(Watchpoint)
        /\ Len(watchpoint_list') <= Len(watchpoint_list)
    BY <1>8, RemovedWatchpoint DEF RemoveWatchpoint, WatchTypes
  <2>2. Len(watchpoint_list') \in Nat
    BY <2>1, LenProperties
  <2>3. UNCHANGED <<next_id, dangling, halt>>
    BY <1>8 DEF RemoveWatchpoint, Edit, Request
  <2> QED
    BY <1>0, <2>1, <2>2, <2>3 DEF WatchTypes, Watchpoint, halt
<1>9. ASSUME NEW i, NEW d \in BOOLEAN, EnableDisableWatchpoint(i, d)
      PROVE  WatchTypes'
  <2>1. /\ watchpoint_list' \in Seq(Watchpoint)
        /\ Len(watchpoint_list') = Len(watchpoint_list)
    BY <1>9, DisabledWatchpoint DEF EnableDisableWatchpoint
  <2>2. UNCHANGED <<next_id, dangling, halt>>
    BY <1>9 DEF EnableDisableWatchpoint, Request
  <2> QED
    BY <2>1, <2>2 DEF WatchTypes, Watchpoint, halt
<1>10. CASE UNCHANGED vars
  BY <1>2, <1>10 DEF vars, halt, WatchTypes
<1> QED
  BY <1>3, <1>4, <1>5, <1>6, <1>7, <1>8, <1>9, <1>10 DEF Next

LEMMA TypesInductive == Spec => []TypeInv
<1>1. Init => TypeInv
  <2> SUFFICES ASSUME Init PROVE TypeInv
    OBVIOUS
  <2>1. Types
    BY EmptySeq DEF Init, Types
  <2>2. WatchTypes
    <3>1. /\ watchpoint_list = <<>> /\ next_id = 0 /\ walk = 0
          /\ reply.id = -1 /\ status = "running"
      BY DEF Init, NoReply
    <3>2. watchpoint_list \in Seq(Watchpoint) /\ Len(watchpoint_list) = 0
      BY <3>1, EmptySeq
    <3>3. walk \in 0 .. MaxWatchpoints /\ next_id \in 0 .. MaxWatchpoints
      BY <3>1, Limit
    <3>4. Len(watchpoint_list) <= next_id
      BY <3>1, <3>2
    <3>5. dangling \in BOOLEAN
      BY DEF Init
    <3>6. reply.id \in -1 .. MaxWatchpoints - 1
      BY <3>1, Limit
    <3> QED
      BY <3>1, <3>2, <3>3, <3>4, <3>5, <3>6 DEF WatchTypes
  <2> QED
    BY <2>1, <2>2 DEF TypeInv
<1>2. TypeInv /\ [Next]_vars => TypeInv'
  BY TypesStep, WatchTypesStep DEF TypeInv
<1> QED
  BY <1>1, <1>2, PTL DEF Spec

(* Counters, queue, copy and watchpoints keep their types, whatever the    *)
(* model of the NPU and the user do.                                       *)
THEOREM CountersTypes == Spec => []TypeOK
<1>1. TypeInv => TypeOK
  BY DEF TypeInv, Types, WatchTypes, TypeOK, Word, Event, Watchpoint
<1> QED
  BY <1>1, TypesInductive, PTL
-----------------------------------------------------------------------------
(* Hits of watchpoints. *)

UniqueIds ==
  \A i, j \in 1 .. Len(watchpoint_list) :
    watchpoint_list[i].id = watchpoint_list[j].id => i = j

(* The inductive invariant behind PromptAgrees: the id of the hit has been *)
(* given out, so that no watchpoint added after it gets it again.          *)
HitInv ==
  /\ UniqueIds
  /\ status \in {"running", "aborted"} => walk = 0
  /\ walk # 0 =>
       /\ reply.id \in 0 .. next_id - 1
       /\ counters[reply.name] = reply.new_value
       /\ \A i \in 1 .. Len(watchpoint_list) :
            watchpoint_list[i].id = reply.id
              => watchpoint_list[i].counter_name = reply.name

(* A list that has nothing new but a watchpoint with a fresh id.           *)
Edited(new) ==
  /\ \A i, j \in 1 .. Len(new) : new[i].id = new[j].id => i = j
  /\ \A i \in 1 .. Len(new) :
       \/ new[i].id = next_id
       \/ \E j \in 1 .. Len(watchpoint_list) :
            /\ new[i].id = watchpoint_list[j].id
            /\ new[i].counter_name = watchpoint_list[j].counter_name

LEMMA AddedEdits ==
  ASSUME WatchTypes, UniqueIds, NEW w, w.id = next_id
  PROVE  Edited(addWatchpoint(watchpoint_list, w))
<1>1. /\ Len(watchpoint_list) \in Nat
      /\ \A i \in 1 .. Len(watchpoint_list) : watchpoint_list[i].id # next_id
  <2>1. /\ Len(watchpoint_list) \in Nat /\ next_id \in Nat
        /\ \A i \in 1 .. Len(watchpoint_list) : watchpoint_list[i] \in Watchpoint
    BY LenProperties, ElementOfSeq, Limit DEF WatchTypes
  <2> QED
    BY <2>1 DEF Watchpoint
<1>2. CASE addWatchpoint(watchpoint_list, w) = watchpoint_list
  BY <1>2 DEF Edited, UniqueIds
<1>3. CASE addWatchpoint(watchpoint_list, w) = Append(watchpoint_list, w)
  <2> DEFINE n == Len(watchpoint_list)
             new == Append(watchpoint_list, w)
  <2>1. /\ Len(new) = n + 1 /\ new[n + 1] = w
        /\ \A i \in 1 .. n : new[i] = watchpoint_list[i]
    BY AppendProperties DEF WatchTypes
  <2> HIDE DEF new
  <2>2. \A i \in 1 .. Len(new) : i \in 1 .. n \/ i = n + 1
    BY <1>1, <2>1
  <2>3. ASSUME NEW i \in 1 .. Len(new), NEW j \in 1 .. Len(new),
               new[i].id = new[j].id
        PROVE  i = j
    BY <1>1, <2>1, <2>2, <2>3 DEF UniqueIds
  <2>4. Edited(new)
    BY <2>1, <2>2, <2>3 DEF Edited
  <2> QED
    BY <1>3, <2>4 DEF new
<1> QED
  BY <1>2, <1>3 DEF addWatchpoint

LEMMA RemovedEdits ==
  ASSUME WatchTypes, UniqueIds, NEW identifier
  PROVE  Edited(removeWatchpoint(watchpoint_list, identifier))
<1> DEFINE n == Len(watchpoint_list)
           I == {i \in 1 .. n : watchpoint_list[i].id = identifier}
<1>1. n \in Nat
  BY LenProperties DEF WatchTypes
<1>2. CASE I = {}
  <2>1. removeWatchpoint(watchpoint_list, identifier) = watchpoint_list
    BY <1>2 DEF removeWatchpoint, RemoveFirstMatch
  <2> QED
    BY <2>1 DEF Edited, UniqueIds
<1>3. CASE I # {}
  <2> DEFINE at == Min(I)
             new == RemoveAt(watchpoint_list, at)
  <2>1. at \in 1 .. n
    BY <1>1, <1>3, MinIsFirst
  <2>2. removeWatchpoint(watchpoint_list, identifier) = new
    BY <1>3 DEF removeWatchpoint, RemoveFirstMatch, SelectInSeq
  <2> HIDE DEF at
  <2>3. /\ Len(new) = n - 1
        /\ \A i \in 1 .. n - 1 :
             new[i] = IF i < at THEN watchpoint_list[i]
                      ELSE watchpoint_list[i + 1]
    BY <2>1, RemovedAt DEF WatchTypes
  <2> HIDE DEF new
  <2>4. ASSUME NEW i \in 1 .. Len(new)
        PROVE  \E k \in 1 .. n : /\ k = IF i < at THEN i ELSE i + 1
                                /\ new[i] = watchpoint_list[k]
    <3>1. i \in 1 .. n - 1 /\ i \in 1 .. n /\ i + 1 \in 1 .. n
      BY <1>1, <2>3
    <3> QED
      BY <2>3, <3>1
  <2>5. ASSUME NEW i \in 1 .. Len(new), NEW j \in 1 .. Len(new),
               new[i].id = new[j].id
        PROVE  i = j
    <3>1. PICK k \in 1 .. n : /\ k = IF i < at THEN i ELSE i + 1
                              /\ new[i] = watchpoint_list[k]
      BY <2>4
    <3>2. PICK l \in 1 .. n : /\ l = IF j < at THEN j ELSE j + 1
                              /\ new[j] = watchpoint_list[l]
      BY <2>4
    <3>3. k = l
      BY <2>5, <3>1, <3>2 DEF UniqueIds
    <3>4. i \in Int /\ j \in Int /\ at \in Int
      BY <1>1, <2>1, <2>3
    <3> QED
      BY <3>1, <3>2, <3>3, <3>4
  <2>6. Edited(new)
    BY <2>4, <2>5 DEF Edited
  <2> QED
    BY <2>2, <2>6
<1> QED
  BY <1>2, <1>3

(* A request that edits the list.                                          *)
LEMMA EditStep ==
  ASSUME TypeInv, HitInv, Edited(watchpoint_list'), UNCHANGED <<counters, halt>>,
         next_id' \in {next_id, next_id + 1}
  PROVE  HitInv'
<1>1. next_id \in Nat
  BY Limit DEF TypeInv, WatchTypes
<1>2. UNCHANGED <<counters, status, walk, reply>>
  BY DEF halt
<1>3. UniqueIds'
  BY DEF Edited, UniqueIds
<1>4. ASSUME walk # 0
      PROVE  /\ reply.id \in 0 .. next_id' - 1
             /\ counters[reply.name] = reply.new_value
             /\ \A i \in 1 .. Len(watchpoint_list') :
                  watchpoint_list'[i].id = reply.id
                    => watchpoint_list'[i].counter_name = reply.name
  <2>1. reply.id \in 0 .. next_id - 1 /\ counters[reply.name] = reply.new_value
    BY <1>4 DEF HitInv
  <2>2. reply.id # next_id /\ reply.id \in 0 .. next_id' - 1
    BY <1>1, <2>1
  <2>3. ASSUME NEW i \in 1 .. Len(watchpoint_list'),
               watchpoint_list'[i].id = reply.id
        PROVE  watchpoint_list'[i].counter_name = reply.name
    BY <1>4, <2>2, <2>3 DEF Edited, HitInv
  <2> QED
    BY <2>1, <2>2, <2>3
<1> QED
  BY <1>2, <1>3, <1>4 DEF HitInv

(* The loop halts at a watchpoint of the counter, or runs to its end.      *)
LEMMA WalkTells ==
  ASSUME TypeInv, HitInv, NEW i \in Nat, NEW name, NEW old, NEW new,
         Walk(i, name, old, new), UNCHANGED watch, counters'[name] = new
  PROVE  /\ HitInv'
         /\ walk' # 0 =>
              \E j \in DOMAIN watchpoint_list' :
                /\ watchpoint_list'[j].id = reply'.id
                /\ ~watchpoint_list'[j].disabled
<1>1. /\ watchpoint_list \in Seq(Watchpoint) /\ Len(watchpoint_list) \in Nat
      /\ DOMAIN watchpoint_list = 1 .. Len(watchpoint_list)
      /\ next_id \in Nat /\ WatchTypes
  BY LenProperties, Limit DEF TypeInv, WatchTypes
<1>2. UNCHANGED <<watchpoint_list, next_id>> /\ UniqueIds /\ UniqueIds'
  BY DEF watch, HitInv, UniqueIds
<1>3. CASE status' = "running" /\ walk' = 0
  BY <1>2, <1>3 DEF HitInv
<1>4. CASE walk' # 0
  <2>1. /\ status' = "halted"
        /\ walk' \in 1 .. Len(watchpoint_list)
        /\ watchpoint_list[walk'] \in Watchpoint
        /\ watchpoint_list[walk'].counter_name = name
        /\ ~watchpoint_list[walk'].disabled
        /\ reply'.id = watchpoint_list[walk'].id
        /\ reply'.name = name /\ reply'.new_value = new
    BY <1>1, <1>4, WalkStep
  <2>2. reply'.id \in 0 .. next_id' - 1
    BY <1>2, <2>1 DEF Watchpoint
  <2>3. counters'[reply'.name] = reply'.new_value
    BY <2>1
  <2>4. ASSUME NEW j \in 1 .. Len(watchpoint_list'),
               watchpoint_list'[j].id = reply'.id
        PROVE  watchpoint_list'[j].counter_name = reply'.name
    <3>1. j = walk'
      BY <1>2, <2>1, <2>4 DEF UniqueIds
    <3> QED
      BY <1>2, <2>1, <3>1
  <2>5. HitInv'
    BY <1>2, <2>1, <2>2, <2>3, <2>4 DEF HitInv
  <2> QED
    BY <1>1, <1>2, <2>1, <2>5
<1> QED
  BY <1>1, <1>3, <1>4, WalkStep

(* A step that brings no watched change and no hit.                        *)
LEMMA QuietStep ==
  ASSUME TypeInv', HitInv', walk' \in {0, walk},
         \A n \in Names : counters'[n] \in {Absent, counters[n]}
                           \/ counters[n] = Absent
  PROVE  HitTells
<1>1. DOMAIN watchpoint_list' = 1 .. Len(watchpoint_list')
  BY LenProperties DEF TypeInv, WatchTypes
<1> QED
  BY <1>1 DEF HitTells, WatchedChange, HitInv

LEMMA HitStep ==
  ASSUME TypeInv, TypeInv', HitInv, [Next]_vars
  PROVE  HitInv' /\ HitTells
<1>1. ASSUME UNCHANGED <<watch, halt>>,
             \A n \in Names : counters'[n] \in {Absent, counters[n]}
                               \/ counters[n] = Absent,
             walk = 0 \/ UNCHANGED counters
      PROVE  HitInv' /\ HitTells
  <2>1. UNCHANGED <<watchpoint_list, next_id, status, walk, reply>>
    BY <1>1 DEF watch, halt
  <2>2. HitInv'
    BY <1>1, <2>1 DEF HitInv, UniqueIds
  <2> QED
    BY <1>1, <2>1, <2>2, QuietStep
<1>2. ASSUME NEW m \in Modules, NEW n \in Names, NEW v,
             \/ add_counter(m, n, v) \/ set_counter(m, n, v)
             \/ increment_counter(m, n, v) \/ decrement_counter(m, n, v)
             \/ remove_counter(m, n)
      PROVE  HitInv' /\ HitTells
  <2>1. status = "running" /\ UNCHANGED <<watch, halt>>
    BY <1>2 DEF add_counter, set_counter, increment_counter,
       decrement_counter, remove_counter, Change
  <2>2. counters' \in {counters, addCounter(counters, n)}
    BY <1>2 DEF add_counter, set_counter, increment_counter,
       decrement_counter, remove_counter, Change
  <2>3. \A q \in Names : counters'[q] \in {Absent, counters[q]}
                          \/ counters[q] = Absent
    BY <2>2 DEF addCounter, TypeInv, Types
  <2>4. walk = 0
    BY <2>1 DEF HitInv
  <2> QED
    BY <1>1, <2>1, <2>3, <2>4
<1>3. CASE CounterRemoved
  <2>1. status = "running" /\ UNCHANGED <<watch, halt>>
    BY <1>3 DEF CounterRemoved
  <2>2. \A q \in Names : counters'[q] \in {Absent, counters[q]}
    BY <1>3 DEF CounterRemoved, removeCounter, TypeInv, Types
  <2>3. walk = 0
    BY <2>1 DEF HitInv
  <2> QED
    BY <1>1, <2>1, <2>2, <2>3
<1>4. CASE AttachObserver \/ BreakpointHit
  <2>1. UNCHANGED <<counters, watchpoint_list, next_id, walk, reply>>
        /\ status' = "halted"
    BY <1>4 DEF AttachObserver, BreakpointHit, watch
  <2>2. HitInv'
    BY <2>1 DEF HitInv, UniqueIds
  <2> QED
    BY <2>1, <2>2, QuietStep
<1>5. CASE CounterUpdated
  <2> DEFINE n == Head(events_).name
             new == ToInt(Head(events_).value)
             v == getCounterValue(counters, n)
             old == IF v = -1 THEN 0 ELSE v
  <2>1. CASE counters[n] = Absent
    <3>1. status' = "aborted" /\ UNCHANGED <<counters, walk, reply, watch>>
          /\ status = "running"
      BY <1>5, <2>1 DEF CounterUpdated
    <3>2. walk = 0 /\ UNCHANGED <<watchpoint_list, next_id>>
      BY <3>1 DEF HitInv, watch
    <3>3. HitInv'
      BY <3>1, <3>2 DEF HitInv, UniqueIds
    <3> QED
      BY <3>1, <3>3, QuietStep
  <2>2. CASE counters[n] # Absent
    <3>1. Walk(0, n, old, new) /\ UNCHANGED watch
      BY <1>5, <2>2 DEF CounterUpdated
    <3>2. n \in Names
      <4>1. Head(events_) \in Event
        BY <1>5, HeadTailProperties DEF CounterUpdated, TypeInv, Types
      <4> QED
        BY <4>1 DEF Event
    <3>3. counters' = [counters EXCEPT ![n] = new]
      BY <1>5, <2>2 DEF CounterUpdated, updateCounter
    <3>4. /\ counters'[n] = new
          /\ \A q \in Names : q # n => counters'[q] = counters[q]
      BY <3>2, <3>3 DEF TypeInv, Types
    <3>5. old = counters[n] \/ counters[n] = -1
      BY <2>2 DEF getCounterValue
    <3> HIDE DEF n, new, old
    <3>6. /\ HitInv'
          /\ walk' # 0 =>
               \E j \in DOMAIN watchpoint_list' :
                 /\ watchpoint_list'[j].id = reply'.id
                 /\ ~watchpoint_list'[j].disabled
      BY <3>1, <3>4, WalkTells
    <3>7. ASSUME NEW q \in Names, WatchedChange(q)
          PROVE  /\ walk' # 0 /\ reply'.name = q
                 /\ reply'.old_value = counters[q] \/ counters[q] = -1
      <4>1. q = n
        BY <3>4, <3>7 DEF WatchedChange
      <4>2. \E j \in DOMAIN watchpoint_list :
              /\ j > 0 /\ watchpoint_list[j].counter_name = n
              /\ ~watchpoint_list[j].disabled
        <5>1. DOMAIN watchpoint_list = 1 .. Len(watchpoint_list)
          BY LenProperties DEF TypeInv, WatchTypes
        <5> QED
          BY <3>7, <4>1, <5>1 DEF WatchedChange
      <4>3. /\ walk' \in 1 .. Len(watchpoint_list) /\ reply'.old_value = old
            /\ reply'.name = n
        BY <3>1, <4>2, WalkStep DEF TypeInv
      <4> QED
        BY <3>5, <4>1, <4>3
    <3>8. DOMAIN watchpoint_list' = 1 .. Len(watchpoint_list')
      BY LenProperties DEF TypeInv, WatchTypes
    <3> QED
      BY <3>6, <3>7, <3>8 DEF HitTells, HitInv
  <2> QED
    BY <2>1, <2>2
<1>6. CASE Resume
  <2>1. UNCHANGED <<counters, watch>> /\ status = "halted"
    BY <1>6 DEF Resume
  <2>2. CASE UNCHANGED <<walk, reply>> /\ status' \in {"running", "undefined"}
             /\ (walk = 0 \/ status' = "undefined")
    <3>1. UNCHANGED <<watchpoint_list, next_id>>
      BY <2>1 DEF watch
    <3>2. HitInv'
      BY <2>1, <2>2, <3>1 DEF HitInv, UniqueIds
    <3> QED
      BY <2>1, <2>2, <3>2, QuietStep
  <2>3. CASE walk # 0 /\ Walk(walk, reply.name, reply.old_value, reply.new_value)
    <3>1. walk \in Nat /\ counters'[reply.name] = reply.new_value
      BY <2>1, <2>3, Limit DEF TypeInv, WatchTypes, HitInv
    <3>2. /\ HitInv'
          /\ walk' # 0 =>
               \E j \in DOMAIN watchpoint_list' :
                 /\ watchpoint_list'[j].id = reply'.id
                 /\ ~watchpoint_list'[j].disabled
      BY <2>1, <2>3, <3>1, WalkTells
    <3>3. \A n \in Names : ~WatchedChange(n)
      BY <2>1 DEF WatchedChange
    <3>4. DOMAIN watchpoint_list' = 1 .. Len(watchpoint_list')
      BY LenProperties DEF TypeInv, WatchTypes
    <3> QED
      BY <3>2, <3>3, <3>4 DEF HitTells, HitInv
  <2> QED
    BY <1>6, <2>2, <2>3 DEF Resume
<1>7. ASSUME Edited(watchpoint_list'), UNCHANGED <<counters, halt>>,
             next_id' \in {next_id, next_id + 1}
      PROVE  HitInv' /\ HitTells
  <2>1. HitInv'
    BY <1>7, EditStep
  <2> QED
    BY <1>7, <2>1, QuietStep DEF halt
<1>8. ASSUME NEW n \in Names, NEW d \in BOOLEAN, SetWatchpoint(n, d)
      PROVE  HitInv' /\ HitTells
  <2> DEFINE w == [id |-> next_id, counter_name |-> n, disabled |-> d]
  <2>1. /\ watchpoint_list' = addWatchpoint(watchpoint_list, w)
        /\ UNCHANGED <<counters, halt>> /\ next_id' = next_id + 1
    BY <1>8 DEF SetWatchpoint, Edit, Request
  <2>2. Edited(addWatchpoint(watchpoint_list, w))
    BY AddedEdits DEF TypeInv, HitInv
  <2> QED
    BY <1>7, <2>1, <2>2
<1>9. ASSUME NEW i, RemoveWatchpoint(i) PROVE HitInv' /\ HitTells
  <2>1. /\ watchpoint_list' = removeWatchpoint(watchpoint_list, i)
        /\ UNCHANGED <<counters, halt>> /\ next_id' = next_id
    BY <1>9 DEF RemoveWatchpoint, Edit, Request
  <2>2. Edited(removeWatchpoint(watchpoint_list, i))
    BY RemovedEdits DEF TypeInv, HitInv
  <2> QED
    BY <1>7, <2>1, <2>2
<1>10. ASSUME NEW i, NEW d \in BOOLEAN, EnableDisableWatchpoint(i, d)
       PROVE  HitInv' /\ HitTells
  <2>1. /\ Len(watchpoint_list') = Len(watchpoint_list)
        /\ \A j \in 1 .. Len(watchpoint_list) :
             /\ watchpoint_list'[j].id = watchpoint_list[j].id
             /\ watchpoint_list'[j].counter_name =
                  watchpoint_list[j].counter_name
    BY <1>10, DisabledWatchpoint DEF EnableDisableWatchpoint, TypeInv
  <2>2. UNCHANGED <<counters, halt>> /\ next_id' = next_id
    BY <1>10 DEF EnableDisableWatchpoint, Request
  <2>3. Edited(watchpoint_list')
    BY <2>1 DEF Edited, HitInv, UniqueIds
  <2> QED
    BY <1>7, <2>2, <2>3
<1>11. CASE UNCHANGED vars
  BY <1>1, <1>11 DEF vars
<1> QED
  BY <1>2, <1>3, <1>4, <1>5, <1>6, <1>8, <1>9, <1>10, <1>11 DEF Next

(* A change of a watched counter halts the simulation, at an enabled       *)
(* watchpoint, and what pfpdb is told agrees with what it is shown for as  *)
(* long as it is halted there, whether or not it edits the list meanwhile  *)
(* (counter_updated in DebugObserver.cpp).                                 *)
THEOREM HitsAgree == Spec => PromptAgrees
<1>1. Init => HitInv
  <2> SUFFICES ASSUME Init PROVE HitInv
    OBVIOUS
  <2>1. 1 .. Len(watchpoint_list) = {} /\ walk = 0
    BY EmptySeq DEF Init
  <2> QED
    BY <2>1 DEF HitInv, UniqueIds
<1>2. TypeInv /\ TypeInv' /\ HitInv /\ [Next]_vars => HitInv' /\ HitTells
  BY HitStep
<1> QED
  BY <1>1, <1>2, TypesInductive, PTL DEF Spec, PromptAgrees
=============================================================================
