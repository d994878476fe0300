---------------------------- MODULE PacketProofs -----------------------------
(***************************************************************************)
(* Proofs about PacketTraces and PacketRequests, for every set of modules, *)
(* packets and counters and every bound.                                   *)
(***************************************************************************)
EXTENDS PacketRequests, ListLemmas, FiniteSetTheorems

(* A number has a place among numbers, a greater one a later place, and    *)
(* every place is taken.                                                   *)
LEMMA Places ==
  ASSUME NEW n \in Nat, NEW S \in SUBSET (1 .. n)
  PROVE  /\ IsFiniteSet(S) /\ Cardinality(S) \in Nat
         /\ \A x \in S : Place(x, S) \in 1 .. Cardinality(S)
         /\ \A x, y \in S : x < y => Place(x, S) < Place(y, S)
         /\ \A k \in 1 .. Cardinality(S) : \E x \in S : Place(x, S) = k
<1> DEFINE upTo(x) == {y \in S : y <= x}
<1>0. S \in SUBSET Nat /\ \A x \in S : x <= n
  OBVIOUS
<1>1. IsFiniteSet(S) /\ Cardinality(S) \in Nat
  BY <1>0, FS_BoundedSetOfNaturals, FS_CardinalityType
<1>2. ASSUME NEW x \in S
      PROVE  IsFiniteSet(upTo(x)) /\ Place(x, S) \in 1 .. Cardinality(S)
  <2>1. upTo(x) \in SUBSET S /\ upTo(x) # {}
    OBVIOUS
  <2>2. /\ IsFiniteSet(upTo(x)) /\ Cardinality(upTo(x)) <= Cardinality(S)
    BY <1>1, <2>1, FS_Subset
  <2>3. Cardinality(upTo(x)) \in Nat /\ Cardinality(upTo(x)) # 0
    BY <2>1, <2>2, FS_CardinalityType, FS_EmptySet
  <2> QED
    BY <1>1, <2>2, <2>3 DEF Place
<1>3. ASSUME NEW x \in S, NEW y \in S, x < y
      PROVE  Place(x, S) < Place(y, S)
  <2>1. upTo(x) \in SUBSET upTo(y) /\ y \in upTo(y) /\ y \notin upTo(x)
    <3>1. x \in Nat /\ y \in Nat /\ S \in SUBSET Nat
      BY <1>0
    <3>2. \A z \in S : z <= x => z <= y
      BY <1>3, <3>1
    <3>3. y <= y /\ ~(y <= x)
      BY <1>3, <3>1
    <3> QED
      BY <3>2, <3>3
  <2>2. /\ Cardinality(upTo(x)) <= Cardinality(upTo(y))
        /\ Cardinality(upTo(x)) # Cardinality(upTo(y))
    BY <1>2, <2>1, FS_Subset
  <2> QED
    BY <1>2, <2>2 DEF Place
<1>4. \A k \in 1 .. Cardinality(S) : \E x \in S : Place(x, S) = k
  <2> DEFINE f == [x \in S |-> Place(x, S)]
             K == 1 .. Cardinality(S)
  <2>1. f \in Injection(S, K)
    <3>1. f \in [S -> K]
      BY <1>2
    <3>2. \A x, y \in S : f[x] = f[y] => x = y
      <4>1. \A x, y \in S : x < y \/ y < x \/ x = y
        OBVIOUS
      <4>2. ASSUME NEW x \in S, NEW y \in S, x < y PROVE f[x] # f[y]
        <5>1. Place(x, S) \in 1 .. Cardinality(S)
          BY <1>2
        <5>2. Place(y, S) \in 1 .. Cardinality(S)
          BY <1>2
        <5>3. Place(x, S) < Place(y, S)
          BY <1>3, <4>2
        <5> QED
          BY <1>1, <5>1, <5>2, <5>3
      <4> QED
        BY <4>1, <4>2
    <3> QED
      BY <3>1, <3>2 DEF Injection, IsInjective
  <2>2. IsFiniteSet(K) /\ Cardinality(K) = Cardinality(S)
    BY <1>1, FS_Interval
  <2>3. f \in Surjection(S, K)
    BY <2>1, <2>2, FS_Injection
  <2> QED
    BY <2>3 DEF Surjection
<1> QED
  BY <1>1, <1>2, <1>3, <1>4

(* A number that is greater than all takes the last place, the others keep *)
(* theirs.                                                                 *)
LEMMA LastPlace ==
  ASSUME NEW n \in Nat, NEW S \in SUBSET (1 .. n)
  PROVE  /\ Cardinality(S \cup {n + 1}) = Cardinality(S) + 1
         /\ Place(n + 1, S \cup {n + 1}) = Cardinality(S) + 1
         /\ \A x \in S : Place(x, S \cup {n + 1}) = Place(x, S)
<1>1. /\ IsFiniteSet(S) /\ n + 1 \notin S /\ n + 1 \in Nat
      /\ \A x \in S : x \in Nat /\ x <= n
  BY Places
<1>2. Cardinality(S \cup {n + 1}) = Cardinality(S) + 1
  BY <1>1, FS_AddElement
<1>3. {y \in S \cup {n + 1} : y <= n + 1} = S \cup {n + 1}
  <2>1. \A y \in S \cup {n + 1} : y <= n + 1
    BY <1>1
  <2> QED
    BY <2>1, Zenon
<1>4. \A x \in S : {y \in S \cup {n + 1} : y <= x} = {y \in S : y <= x}
  BY <1>1
<1> QED
  BY <1>2, <1>3, <1>4 DEF Place

(* The same for pairs of numbers.                                          *)
LEMMA PairPlaces ==
  ASSUME NEW n \in Nat, NEW S \in SUBSET ((1 .. n) \X (1 .. n))
  PROVE  /\ IsFiniteSet(S) /\ Cardinality(S) \in Nat
         /\ \A d \in S : PairPlace(d, S) \in 1 .. Cardinality(S)
<1>0. IsFiniteSet((1 .. n) \X (1 .. n))
  <2>1. IsFiniteSet(1 .. n)
    BY FS_Interval
  <2> QED
    BY <2>1, FS_Product, Zenon
<1>1. IsFiniteSet(S) /\ Cardinality(S) \in Nat
  BY <1>0, FS_Subset, FS_CardinalityType, Zenon
<1>2. ASSUME NEW d \in S PROVE PairPlace(d, S) \in 1 .. Cardinality(S)
  <2> DEFINE upTo == {e \in S : Earlier(e, d)}
  <2>1. upTo \in SUBSET S /\ upTo # {}
    BY DEF Earlier
  <2>2. /\ IsFiniteSet(upTo) /\ Cardinality(upTo) <= Cardinality(S)
    BY <1>1, <2>1, FS_Subset
  <2>3. Cardinality(upTo) \in Nat /\ Cardinality(upTo) # 0
    BY <2>1, <2>2, FS_CardinalityType, FS_EmptySet
  <2> QED
    BY <1>1, <2>2, <2>3 DEF PairPlace
<1> QED
  BY <1>1, <1>2

LEMMA LastPairPlace ==
  ASSUME NEW n \in Nat, NEW S \in SUBSET ((1 .. n) \X (1 .. n)),
         NEW x \in Nat \X Nat, x \notin S,
         \A d \in S : Earlier(d, x) /\ ~Earlier(x, d)
  PROVE  /\ Cardinality(S \cup {x}) = Cardinality(S) + 1
         /\ PairPlace(x, S \cup {x}) = Cardinality(S) + 1
         /\ \A d \in S : PairPlace(d, S \cup {x}) = PairPlace(d, S)
<1>1. IsFiniteSet(S)
  BY PairPlaces
<1>2. Cardinality(S \cup {x}) = Cardinality(S) + 1
  BY <1>1, FS_AddElement
<1>3. {e \in S \cup {x} : Earlier(e, x)} = S \cup {x}
  BY DEF Earlier
<1>4. \A d \in S : {e \in S \cup {x} : Earlier(e, d)} = {e \in S : Earlier(e, d)}
  OBVIOUS
<1> QED
  BY <1>2, <1>3, <1>4 DEF PairPlace
-----------------------------------------------------------------------------
(* The history grows by one entry. *)

StartKinds == {"latency", "throughput", "counter"}

Grown(h, h2, e) ==
  /\ Len(h) \in Nat /\ DOMAIN h = 1 .. Len(h)
  /\ Len(h2) = Len(h) + 1 /\ DOMAIN h2 = 1 .. Len(h) + 1
  /\ h2[Len(h) + 1] = e /\ \A i \in 1 .. Len(h) : h2[i] = h[i]

(* The traces started keep their ids, and a new one gets the next.         *)
LEMMA StartsGrow ==
  ASSUME NEW h, NEW h2, NEW e, Grown(h, h2, e)
  PROVE  /\ Starts(h) \in SUBSET (1 .. Len(h))
         /\ Starts(h2) = IF e.kind \in StartKinds
                         THEN Starts(h) \cup {Len(h) + 1} ELSE Starts(h)
         /\ \A i \in 1 .. Len(h) + 1 : IdOf(h2, i) = IdOf(h, i)
         /\ IdOf(h, Len(h) + 1) = Cardinality(Starts(h))
<1> DEFINE n == Len(h)
<1>1. /\ n \in Nat /\ DOMAIN h = 1 .. n /\ DOMAIN h2 = 1 .. n + 1
      /\ h2[n + 1] = e /\ \A i \in 1 .. n : h2[i] = h[i]
      /\ n + 1 \notin 1 .. n /\ n + 1 \in Nat
      /\ \A i : i \in 1 .. n + 1 <=> i \in 1 .. n \/ i = n + 1
  BY DEF Grown
<1> HIDE DEF n
<1>2. /\ Starts(h) \in SUBSET (1 .. n)
      /\ \A i : i \in Starts(h2) <=>
                  i \in Starts(h) \/ (i = n + 1 /\ e.kind \in StartKinds)
  BY <1>1 DEF Starts, StartKinds
<1>3. Starts(h2) = IF e.kind \in StartKinds
                   THEN Starts(h) \cup {n + 1} ELSE Starts(h)
  BY <1>2
<1>4. ASSUME NEW i \in 1 .. n + 1
      PROVE  {s \in Starts(h2) : s < i} = {s \in Starts(h) : s < i}
  <2>1. ~(n + 1 < i)
    BY <1>1
  <2> QED
    BY <1>2, <2>1
<1>5. {s \in Starts(h) : s < n + 1} = Starts(h)
  <2>1. \A s \in Starts(h) : s < n + 1
    BY <1>1, <1>2
  <2> QED
    BY <2>1
<1> QED
  BY <1>2, <1>3, <1>4, <1>5 DEF IdOf, n

(* The ids of traces are below the number of traces.                       *)
LEMMA IdTypes ==
  ASSUME NEW h, Len(h) \in Nat, DOMAIN h = 1 .. Len(h)
  PROVE  /\ IsFiniteSet(Starts(h)) /\ Cardinality(Starts(h)) \in Nat
         /\ \A s \in Starts(h) : IdOf(h, s) \in 0 .. Cardinality(Starts(h)) - 1
<1>1. Starts(h) \in SUBSET (1 .. Len(h))
  BY DEF Starts
<1>2. IsFiniteSet(Starts(h)) /\ Cardinality(Starts(h)) \in Nat
  BY <1>1, Places
<1>3. ASSUME NEW s \in Starts(h)
      PROVE  IdOf(h, s) \in 0 .. Cardinality(Starts(h)) - 1
  <2> DEFINE before == {r \in Starts(h) : r < s}
  <2>1. ~(s < s)
    BY <1>1
  <2>2. before \in SUBSET Starts(h) /\ before # Starts(h)
    BY <2>1
  <2>3. /\ IsFiniteSet(before) /\ Cardinality(before) <= Cardinality(Starts(h))
        /\ Cardinality(before) # Cardinality(Starts(h))
    BY <1>2, <2>2, FS_Subset
  <2>4. Cardinality(before) \in Nat
    BY <2>3, FS_CardinalityType
  <2> QED
    BY <1>2, <2>3, <2>4 DEF IdOf
<1> QED
  BY <1>2, <1>3

(* reads of p that a write at w would complete                             *)
Waits(h, w, p, j, s) ==
  /\ s < j /\ Is(h, s, "latency", h[j].at, w) /\ Is(h, j, "read", h[j].at, p)
  /\ \A k \in j + 1 .. Len(h) : ~Is(h, k, "write", w, p)

Pending(h, w, p) ==
  {d \in (1 .. Len(h)) \X Starts(h) : Waits(h, w, p, d[1], d[2])}

(* What waits for a write is what it measures.                             *)
LEMMA PendingMeasured ==
  ASSUME NEW h, NEW h2, NEW e, Grown(h, h2, e), e.kind = "write"
  PROVE  Measured(h2, Len(h) + 1) = Pending(h, e.at, e.of)
<1> DEFINE n == Len(h)
<1>1. /\ n \in Nat /\ DOMAIN h = 1 .. n /\ (n + 1) - 1 = n
      /\ h2[n + 1] = e /\ \A i \in 1 .. n : h2[i] = h[i]
      /\ Starts(h) \in SUBSET (1 .. n) /\ Starts(h2) = Starts(h)
      /\ \A j \in 1 .. n : \A k \in j + 1 .. n : k \in 1 .. n
  BY StartsGrow DEF Grown, StartKinds
<1> HIDE DEF n
<1>2. ASSUME NEW j \in 1 .. n, NEW s \in Starts(h)
      PROVE  Completes(h2, n + 1, j, s) <=> Waits(h, e.at, e.of, j, s)
  BY <1>1 DEF Completes, Waits, Is, n
<1>3. Measured(h2, n + 1) =
        {d \in (1 .. n) \X Starts(h) : Completes(h2, n + 1, d[1], d[2])}
  BY <1>1 DEF Measured
<1> QED
  BY <1>2, <1>3 DEF Pending, n

(* A read adds what waits for the traces from its module, a write takes    *)
(* away what it measures, nothing else makes a difference.                 *)
LEMMA PendingGrow ==
  ASSUME NEW h, NEW h2, NEW e, Grown(h, h2, e), NEW w, NEW p
  PROVE  /\ Pending(h, w, p) \in SUBSET ((1 .. Len(h)) \X (1 .. Len(h)))
         /\ \A d : d \in Pending(h2, w, p) <=>
              \/ /\ d \in Pending(h, w, p)
                 /\ ~(e.kind = "write" /\ e.at = w /\ e.of = p)
              \/ /\ e.kind = "read" /\ e.of = p
                 /\ \E s \in Starts(h) : /\ d = <<Len(h) + 1, s>>
                                         /\ Is(h, s, "latency", e.at, w)
<1> DEFINE n == Len(h)
<1>1. /\ n \in Nat /\ DOMAIN h = 1 .. n /\ Len(h2) = n + 1
      /\ h2[n + 1] = e /\ \A i \in 1 .. n : h2[i] = h[i]
      /\ Starts(h) \in SUBSET (1 .. n)
      /\ \A s : s \in Starts(h2) <=>
                  s \in Starts(h) \/ (s = n + 1 /\ e.kind \in StartKinds)
      /\ \A i : i \in 1 .. n + 1 <=> i \in 1 .. n \/ i = n + 1
  BY StartsGrow DEF Grown
<1> HIDE DEF n
<1>2. ASSUME NEW j \in 1 .. n, NEW s \in Starts(h)
      PROVE  Waits(h2, w, p, j, s) <=>
               /\ Waits(h, w, p, j, s)
               /\ ~(e.kind = "write" /\ e.at = w /\ e.of = p)
  <2>1. \A k : k \in j + 1 .. n + 1 <=> k \in j + 1 .. n \/ k = n + 1
    BY <1>1
  <2>2. \A k \in j + 1 .. n : k \in 1 .. n
    BY <1>1
  <2>3. h2[j] = h[j] /\ h2[s] = h[s]
    BY <1>1
  <2>4. (\A k \in j + 1 .. n + 1 : ~Is(h2, k, "write", w, p)) <=>
          /\ \A k \in j + 1 .. n : ~Is(h, k, "write", w, p)
          /\ ~(e.kind = "write" /\ e.at = w /\ e.of = p)
    BY <1>1, <2>1, <2>2 DEF Is
  <2> QED
    BY <1>1, <2>3, <2>4 DEF Waits, Is, n
<1>3. ASSUME NEW j \in 1 .. n PROVE ~Waits(h2, w, p, j, n + 1)
  BY <1>1 DEF Waits
<1>4. ASSUME NEW s \in Starts(h)
      PROVE  Waits(h2, w, p, n + 1, s) <=>
               /\ e.kind = "read" /\ e.of = p
               /\ Is(h, s, "latency", e.at, w)
  <2>1. /\ (n + 1) + 1 .. n + 1 = {} /\ s < n + 1 /\ h2[s] = h[s]
    BY <1>1
  <2> QED
    BY <1>1, <2>1 DEF Waits, Is
<1>5. ~Waits(h2, w, p, n + 1, n + 1)
  BY <1>1 DEF Waits
<1>6. Pending(h, w, p) \in SUBSET ((1 .. n) \X (1 .. n))
  BY <1>1 DEF Pending, n
<1>7. ASSUME NEW d
      PROVE  d \in Pending(h2, w, p) <=>
              \/ /\ d \in Pending(h, w, p)
                 /\ ~(e.kind = "write" /\ e.at = w /\ e.of = p)
              \/ /\ e.kind = "read" /\ e.of = p
                 /\ \E s \in Starts(h) : /\ d = <<n + 1, s>>
                                         /\ Is(h, s, "latency", e.at, w)
  <2>1. d \in Pending(h2, w, p) <=>
          \E j \in 1 .. n + 1, s \in Starts(h2) :
            d = <<j, s>> /\ Waits(h2, w, p, j, s)
    BY <1>1 DEF Pending
  <2>2. d \in Pending(h, w, p) <=>
          \E j \in 1 .. n, s \in Starts(h) :
            d = <<j, s>> /\ Waits(h, w, p, j, s)
    BY <1>1 DEF Pending, n
  <2>3. (\E j \in 1 .. n + 1, s \in Starts(h2) :
            d = <<j, s>> /\ Waits(h2, w, p, j, s)) <=>
          \/ \E j \in 1 .. n, s \in Starts(h) :
               d = <<j, s>> /\ Waits(h2, w, p, j, s)
          \/ \E s \in Starts(h) : d = <<n + 1, s>> /\ Waits(h2, w, p, n + 1, s)
    BY <1>1, <1>3, <1>5
  <2> QED
    BY <2>1, <2>2, <2>3, <1>2, <1>4
<1> QED
  BY <1>6, <1>7 DEF n
-----------------------------------------------------------------------------
(* Types. *)

Kinds ==
  StartKinds \cup {"read", "write", "dropped", "added", "removed", "updated"}
Event ==
  [kind : Kinds, at : Modules \cup CounterNames,
   of : Modules \cup Packets \cup CounterNames \cup Amounts, time : Times]

Past == 0 .. simulation_time
ReadTrigger == [trace_id : Ids, write_module_name : Modules]
WriteTrigger == [trace_id : Ids, read_time : Past]
RateTrigger == [trace_id : Ids, last_time : Past \cup {Never}]
Update == [id : Ids, value : Nat \cup {Infinite}, timestamp : Times]

(* The types, with no trigger from the future and no trace without an      *)
(* entry of the history.                                                   *)
PacketTypes ==
  /\ Partial(packet_list, Packets, Entry)
  /\ dropped_packet_list \in Seq(Drops)
  /\ counters \subseteq CounterNames
  /\ trace_id \in Nat /\ trace_id <= Len(log)
  /\ Partial(counter_traces, CounterNames, Ids)
  /\ latency_read_triggers \in [Modules -> Seq(ReadTrigger)]
  /\ latency_write_triggers \in [Modules -> [Packets -> Seq(WriteTrigger)]]
  /\ Partial(throughput_triggers, Modules, RateTrigger)
  /\ simulation_time \in Times
  /\ updates \in Seq(Update)
  /\ log \in Seq(Event) /\ Len(log) <= MaxLog

LEMMA TypesGiveTypeOK == PacketTypes => ManagerTypeOK
<1> SUFFICES ASSUME PacketTypes PROVE ManagerTypeOK
  OBVIOUS
<1>1. Len(log) \in Nat /\ MaxLog \in Nat /\ MaxTime \in Nat
  BY PacketTracesAssumption, LenProperties DEF PacketTypes
<1>2. trace_id \in 0 .. MaxLog
  BY <1>1 DEF PacketTypes
<1>3. Past \subseteq Times
  BY <1>1 DEF PacketTypes, Past, Times
<1>4. latency_read_triggers \in
       [Modules -> Seq([trace_id : Ids, write_module_name : Modules])]
  BY DEF PacketTypes, ReadTrigger
<1>5. latency_write_triggers \in
       [Modules -> [Packets -> Seq([trace_id : Ids, read_time : Times])]]
  <2>1. WriteTrigger \subseteq [trace_id : Ids, read_time : Times]
    BY <1>3 DEF WriteTrigger
  <2> HIDE DEF WriteTrigger
  <2>2. Seq(WriteTrigger) \subseteq Seq([trace_id : Ids, read_time : Times])
    BY <2>1, WiderSeq
  <2> QED
    BY <2>2, Zenon DEF PacketTypes
<1>6. Partial(throughput_triggers, Modules,
              [trace_id : Ids, last_time : Times \cup {Never}])
  BY <1>3 DEF PacketTypes, Partial, RateTrigger
<1> QED
  BY <1>2, <1>4, <1>5, <1>6, Zenon DEF PacketTypes, ManagerTypeOK, Update

(* A callback, and the start of a trace, add one entry to the history.     *)
LEMMA Recorded ==
  ASSUME PacketTypes, NEW kind \in Kinds, NEW at \in Modules \cup CounterNames,
         NEW of \in Modules \cup Packets \cup CounterNames \cup Amounts,
         simulation_time' \in Times, Record(kind, at, of)
  PROVE  /\ log' \in Seq(Event) /\ Len(log') <= MaxLog
         /\ Len(log') = Len(log) + 1 /\ Len(log) \in Nat
         /\ Grown(log, log', [kind |-> kind, at |-> at, of |-> of,
                              time |-> simulation_time'])
<1> DEFINE e == [kind |-> kind, at |-> at, of |-> of, time |-> simulation_time']
<1>1. e \in Event
  BY DEF Event
<1>2. log \in Seq(Event) /\ log' = Append(log, e) /\ Len(log) < MaxLog
  BY DEF PacketTypes, Record
<1> HIDE DEF e
<1>3. /\ Len(log) \in Nat /\ DOMAIN log = 1 .. Len(log) /\ MaxLog \in Nat
  BY <1>2, LenProperties, PacketTracesAssumption
<1>4. /\ log' \in Seq(Event) /\ Len(log') = Len(log) + 1
      /\ \A i \in 1 .. Len(log) : log'[i] = log[i]
      /\ log'[Len(log) + 1] = e
  BY <1>1, <1>2, AppendProperties
<1>5. DOMAIN log' = 1 .. Len(log) + 1
  BY <1>4, LenProperties
<1> QED
  BY <1>2, <1>3, <1>4, <1>5 DEF Grown, e

LEMMA WithTyped ==
  ASSUME NEW D, NEW R, NEW f, Partial(f, D, R), NEW x \in D, NEW v \in R
  PROVE  Partial(With(f, x, v), D, R)
BY DEF Partial, With

LEMMA PartialWider ==
  ASSUME NEW D, NEW R, NEW Q, R \subseteq Q, NEW f, Partial(f, D, R)
  PROVE  Partial(f, D, Q)
BY DEF Partial

VisitOf == [module : Modules, read_time : Times \cup {Never},
            write_time : Times \cup {Never}]

(* The last visit of module m that is open, 0 when there is none.          *)
LEMMA OpenVisit ==
  ASSUME NEW trace \in Seq(VisitOf), NEW m, NEW i, i = LastOpen(trace, m)
  PROVE  \/ /\ i = 0
            /\ \A k \in 1 .. Len(trace) :
                 ~(trace[k].module = m /\ trace[k].write_time = Never)
         \/ /\ i \in 1 .. Len(trace)
            /\ trace[i].module = m /\ trace[i].write_time = Never
            /\ \A k \in 1 .. Len(trace) :
                 trace[k].module = m /\ trace[k].write_time = Never => k <= i
<1> DEFINE open == {k \in 1 .. Len(trace) :
                      trace[k].module = m /\ trace[k].write_time = Never}
<1>1. i = IF open # {} THEN Max(open) ELSE 0
  BY DEF LastOpen, SelectLastInSeq
<1>2. Len(trace) \in Nat
  BY LenProperties
<1>3. CASE open = {}
  BY <1>1, <1>3
<1>4. CASE open # {}
  <2>1. open \in SUBSET (0 .. Len(trace))
    BY <1>2
  <2>2. i \in open /\ \A k \in open : k <= i
    BY <1>1, <1>2, <1>4, <2>1, MaxIsLast
  <2> QED
    BY <2>2
<1> QED
  BY <1>3, <1>4

LEMMA TracesTyped ==
  ASSUME NEW trace \in Seq(VisitOf), NEW m \in Modules, NEW t \in Times
  PROVE  /\ updateTraceReadTime(trace, m, t) \in Seq(VisitOf)
         /\ updateTraceWriteTime(trace, m, t) \in Seq(VisitOf)
<1>1. Visit(m, t, Never) \in VisitOf /\ Visit(m, Never, t) \in VisitOf
  BY DEF Visit, VisitOf
<1>2. updateTraceReadTime(trace, m, t) \in Seq(VisitOf)
  BY <1>1 DEF updateTraceReadTime
<1> DEFINE i == LastOpen(trace, m)
<1>3. i = 0 \/ i \in 1 .. Len(trace)
  BY OpenVisit
<1>4. updateTraceWriteTime(trace, m, t) =
        IF i = 0 THEN Append(trace, Visit(m, Never, t))
        ELSE [trace EXCEPT ![i] = Visit(m, @.read_time, t)]
  BY DEF updateTraceWriteTime
<1> HIDE DEF i
<1>5. CASE i = 0
  BY <1>1, <1>2, <1>4, <1>5
<1>6. CASE i \in 1 .. Len(trace)
  <2>1. i # 0 /\ trace[i] \in VisitOf
    BY <1>6, LenProperties, ElementOfSeq
  <2>2. Visit(m, trace[i].read_time, t) \in VisitOf
    BY <2>1 DEF VisitOf, Visit
  <2>3. [trace EXCEPT ![i] = Visit(m, trace[i].read_time, t)] \in Seq(VisitOf)
    BY <1>6, <2>2, ExceptSeq
  <2> QED
    BY <1>2, <1>4, <2>1, <2>3
<1> QED
  BY <1>3, <1>5, <1>6

LEMMA EntriesTyped ==
  ASSUME PacketTypes, NEW p \in Packets, NEW m \in Modules, NEW t \in Times,
         NEW q, q = DebuggerPacket(p, m, t)
  PROVE  /\ q \in Entry /\ q.trace \in Seq(VisitOf)
         /\ Partial(With(packet_list, p,
                         Packet(m, t, updateTraceReadTime(q.trace, m, t))),
                    Packets, Entry)
         /\ Partial(With(packet_list, p,
                         Packet(q.current_location, q.last_notify_time,
                                updateTraceWriteTime(q.trace, m, t))),
                    Packets, Entry)
<1>1. Partial(packet_list, Packets, Entry)
  BY DEF PacketTypes
<1>2. Entry = [current_location : Modules, last_notify_time : Times,
               trace : Seq(VisitOf)]
  BY DEF Entry, VisitOf
<1>3. q \in Entry
  BY <1>1, <1>2, EmptySeq DEF DebuggerPacket, Partial, Packet
<1>4. q.trace \in Seq(VisitOf)
  BY <1>2, <1>3
<1>5. /\ updateTraceReadTime(q.trace, m, t) \in Seq(VisitOf)
      /\ updateTraceWriteTime(q.trace, m, t) \in Seq(VisitOf)
  BY <1>4, TracesTyped
<1>6. /\ Packet(m, t, updateTraceReadTime(q.trace, m, t)) \in Entry
      /\ Packet(q.current_location, q.last_notify_time,
                updateTraceWriteTime(q.trace, m, t)) \in Entry
  BY <1>2, <1>3, <1>5 DEF Packet
<1> QED
  BY <1>1, <1>3, <1>4, <1>6, WithTyped
-----------------------------------------------------------------------------
(* The loop over the traces that start at a module. *)

(* The loop over the first n traces of a list has a result.                *)
Loop(f, n, triggers, list, p, t) ==
  f = [i \in 0 .. n |-> IF i = 0 THEN triggers
                        ELSE Trigger(f[i - 1], list[i], p, t)]

LEMMA LoopExists ==
  ASSUME NEW n \in Nat, NEW triggers, NEW list, NEW p, NEW t
  PROVE  \E f : Loop(f, n, triggers, list, p, t)
<1> DEFINE S == {k \in 0 .. n : \E f : Loop(f, k, triggers, list, p, t)}
<1>1. 0 \in S
  <2>1. Loop([i \in 0 .. 0 |-> triggers], 0, triggers, list, p, t)
    BY DEF Loop
  <2> QED
    BY <2>1
<1>2. ASSUME NEW k \in 0 .. n, k # n, k \in S PROVE k + 1 \in S
  <2>1. PICK f : Loop(f, k, triggers, list, p, t)
    BY <1>2
  <2> DEFINE g == [i \in 0 .. k + 1 |->
                     IF i = k + 1 THEN Trigger(f[k], list[k + 1], p, t)
                     ELSE f[i]]
  <2>2. ASSUME NEW i \in 0 .. k + 1
        PROVE  g[i] = IF i = 0 THEN triggers
                      ELSE Trigger(g[i - 1], list[i], p, t)
    <3>1. CASE i = 0
      <4>1. g[0] = f[0] /\ f[0] = triggers
        BY <2>1 DEF Loop
      <4> QED
        BY <3>1, <4>1
    <3>2. CASE i = k + 1
      <4>1. g[k] = f[k] /\ g[k + 1] = Trigger(f[k], list[k + 1], p, t)
        OBVIOUS
      <4>2. i - 1 = k /\ i # 0
        BY <3>2
      <4> QED
        BY <3>2, <4>1, <4>2
    <3>3. CASE i # 0 /\ i # k + 1
      <4>1. i \in 0 .. k /\ i - 1 \in 0 .. k + 1 /\ i - 1 # k + 1
        BY <3>3
      <4>2. g[i] = f[i] /\ g[i - 1] = f[i - 1]
        BY <4>1
      <4>3. f[i] = Trigger(f[i - 1], list[i], p, t)
        BY <2>1, <3>3, <4>1 DEF Loop
      <4> QED
        BY <3>3, <4>2, <4>3
    <3> QED
      BY <3>1, <3>2, <3>3
  <2>3. Loop(g, k + 1, triggers, list, p, t)
    <3>1. g = [i \in 0 .. k + 1 |-> g[i]]
      OBVIOUS
    <3> HIDE DEF g
    <3> QED
      BY <2>2, <3>1 DEF Loop
  <2> HIDE DEF g
  <2>4. k + 1 \in 0 .. n
    BY <1>2
  <2> QED
    BY <2>3, <2>4
<1>3. n \in S
  <2> HIDE DEF S
  <2>1. \A k \in 0 .. n : k \in S
    BY <1>1, <1>2, CountUp
  <2> QED
    BY <2>1
<1> QED
  BY <1>3

(* the values of a loop over list that starts with the triggers lists      *)
Rounds(f, list, lists, p, t) ==
  /\ f[0] = lists
  /\ \A i \in 1 .. Len(list) : f[i] = Trigger(f[i - 1], list[i], p, t)

RoundTypes(f, list, t, T) ==
  /\ \A i \in 1 .. Len(list) :
       /\ list[i].write_module_name \in Modules
       /\ [trace_id |-> list[i].trace_id, read_time |-> t] \in T
  /\ \A i \in 0 .. Len(list) : f[i] \in [Modules -> [Packets -> Seq(T)]]

LEMMA LoopResult ==
  ASSUME NEW m, NEW p, NEW t, Len(latency_read_triggers[m]) \in Nat
  PROVE  \E f : /\ Rounds(f, latency_read_triggers[m], latency_write_triggers, p, t)
                /\ f[Len(latency_read_triggers[m])] = Triggered(m, p, t)
<1> DEFINE list == latency_read_triggers[m]
           n == Len(list)
           after == CHOOSE f : Loop(f, n, latency_write_triggers, list, p, t)
<1>1. \E f : Loop(f, n, latency_write_triggers, list, p, t)
  BY LoopExists
<1>2. Loop(after, n, latency_write_triggers, list, p, t)
  BY <1>1
<1>3. Triggered(m, p, t) = after[n]
  BY DEF Triggered, Loop
<1> HIDE DEF after
<1>4. after[0] = latency_write_triggers
  BY <1>2 DEF Loop
<1>5. \A i \in 1 .. n : after[i] = Trigger(after[i - 1], list[i], p, t)
  <2> SUFFICES ASSUME NEW i \in 1 .. n
               PROVE  after[i] = Trigger(after[i - 1], list[i], p, t)
    OBVIOUS
  <2>1. i \in 0 .. n /\ i # 0
    OBVIOUS
  <2> QED
    BY <1>2, <2>1 DEF Loop
<1>6. Rounds(after, list, latency_write_triggers, p, t)
  BY <1>4, <1>5 DEF Rounds
<1> QED
  BY <1>3, <1>6

(* A trigger is appended where it belongs, and nowhere else.               *)
LEMMA TriggerAt ==
  ASSUME NEW T, NEW triggers \in [Modules -> [Packets -> Seq(T)]],
         NEW trace, trace.write_module_name \in Modules, NEW p \in Packets,
         NEW t, [trace_id |-> trace.trace_id, read_time |-> t] \in T
  PROVE  /\ Trigger(triggers, trace, p, t) \in [Modules -> [Packets -> Seq(T)]]
         /\ Trigger(triggers, trace, p, t)[trace.write_module_name][p] =
              Append(triggers[trace.write_module_name][p],
                     [trace_id |-> trace.trace_id, read_time |-> t])
         /\ \A w \in Modules, q \in Packets :
              ~(w = trace.write_module_name /\ q = p) =>
                Trigger(triggers, trace, p, t)[w][q] = triggers[w][q]
<1> DEFINE to == trace.write_module_name
           item == [trace_id |-> trace.trace_id, read_time |-> t]
<1>0. to \in Modules /\ item \in T
  OBVIOUS
<1> HIDE DEF item, to
<1>1. triggers[to] \in [Packets -> Seq(T)] /\ triggers[to][p] \in Seq(T)
  BY <1>0
<1>2. Append(triggers[to][p], item) \in Seq(T)
  BY <1>0, <1>1, AppendProperties
<1> DEFINE new == Append(triggers[to][p], item)
           row == [triggers[to] EXCEPT ![p] = new]
<1>3. Trigger(triggers, trace, p, t) = [triggers EXCEPT ![to] = row]
  BY DEF Trigger, item, to
<1>4. /\ new \in Seq(T)
      /\ \A q \in Packets : q = p => Append(triggers[to][q], item) = new
  BY <1>2
<1> HIDE DEF new
<1>5. /\ row \in [Packets -> Seq(T)]
      /\ \A q \in Packets : row[q] = IF q = p THEN new ELSE triggers[to][q]
  BY <1>1, <1>4
<1> HIDE DEF row
<1>6. /\ [triggers EXCEPT ![to] = row] \in [Modules -> [Packets -> Seq(T)]]
      /\ \A w \in Modules :
           [triggers EXCEPT ![to] = row][w] = IF w = to THEN row ELSE triggers[w]
  BY <1>0, <1>5
<1>7. /\ Trigger(triggers, trace, p, t)[to][p] = Append(triggers[to][p], item)
      /\ \A w \in Modules, q \in Packets :
           ~(w = to /\ q = p) =>
             Trigger(triggers, trace, p, t)[w][q] = triggers[w][q]
  BY <1>0, <1>3, <1>4, <1>5, <1>6
<1> QED
  BY <1>3, <1>6, <1>7 DEF item, to

UpTo(t) == [trace_id : Ids, read_time : 0 .. t]

LEMMA LoopTypes ==
  ASSUME PacketTypes, NEW m \in Modules, NEW p \in Packets, NEW t \in Times,
         simulation_time <= t, NEW f,
         Rounds(f, latency_read_triggers[m], latency_write_triggers, p, t)
  PROVE  RoundTypes(f, latency_read_triggers[m], t, UpTo(t))
<1> DEFINE list == latency_read_triggers[m]
           n == Len(list)
           typed == {i \in 0 .. n : f[i] \in [Modules -> [Packets -> Seq(UpTo(t))]]}
<1>0. /\ t \in Nat /\ MaxTime \in Nat /\ simulation_time \in Nat
      /\ list \in Seq(ReadTrigger)
  BY PacketTracesAssumption DEF PacketTypes, Times
<1>1. n \in Nat
  BY <1>0, LenProperties
<1>2. ASSUME NEW i \in 1 .. n
      PROVE  /\ list[i].write_module_name \in Modules
             /\ [trace_id |-> list[i].trace_id, read_time |-> t] \in UpTo(t)
  <2>1. list[i] \in ReadTrigger
    BY <1>0, ElementOfSeq
  <2> QED
    BY <1>0, <2>1 DEF ReadTrigger, UpTo
<1>3. 0 \in typed
  <2>1. WriteTrigger \subseteq UpTo(t)
    BY <1>0 DEF WriteTrigger, UpTo, Past
  <2> HIDE DEF UpTo, WriteTrigger
  <2>2. Seq(WriteTrigger) \subseteq Seq(UpTo(t))
    BY <2>1, WiderSeq
  <2>3. latency_write_triggers \in [Modules -> [Packets -> Seq(UpTo(t))]]
    BY <2>2, Zenon DEF PacketTypes
  <2>4. f[0] = latency_write_triggers
    BY DEF Rounds
  <2> QED
    BY <1>1, <2>3, <2>4
<1> HIDE DEF list
<1>4. ASSUME NEW i \in 0 .. n, i # n, i \in typed PROVE i + 1 \in typed
  <2>1. i + 1 \in 1 .. n /\ (i + 1) - 1 = i /\ i + 1 \in 0 .. n
    BY <1>1, <1>4
  <2>2. PICK trace : trace = list[i + 1]
    OBVIOUS
  <2>3. /\ trace.write_module_name \in Modules
        /\ [trace_id |-> trace.trace_id, read_time |-> t] \in UpTo(t)
    BY <1>2, <2>1, <2>2
  <2>4. f[i + 1] = Trigger(f[i], trace, p, t)
    BY <2>1, <2>2 DEF Rounds, list
  <2>5. f[i] \in [Modules -> [Packets -> Seq(UpTo(t))]]
    BY <1>4
  <2> HIDE DEF UpTo
  <2>6. Trigger(f[i], trace, p, t) \in [Modules -> [Packets -> Seq(UpTo(t))]]
    BY <2>3, <2>5, TriggerAt
  <2> QED
    BY <2>1, <2>4, <2>6
<1>5. \A i \in 0 .. n : i \in typed
  <2> HIDE DEF typed, n
  <2> QED
    BY <1>1, <1>3, <1>4, CountUp
<1> QED
  BY <1>2, <1>5 DEF RoundTypes, list

LEMMA TriggeredTypes ==
  ASSUME PacketTypes, NEW m \in Modules, NEW p \in Packets, NEW t \in Times,
         simulation_time <= t
  PROVE  Triggered(m, p, t) \in [Modules -> [Packets -> Seq(UpTo(t))]]
<1> DEFINE list == latency_read_triggers[m]
<1>1. Len(list) \in Nat
  BY LenProperties DEF PacketTypes
<1>2. PICK f : /\ Rounds(f, list, latency_write_triggers, p, t)
               /\ f[Len(list)] = Triggered(m, p, t)
  BY <1>1, LoopResult
<1>3. RoundTypes(f, list, t, UpTo(t))
  BY <1>2, LoopTypes
<1>4. Len(list) \in 0 .. Len(list)
  BY <1>1
<1> HIDE DEF list
<1> QED
  BY <1>2, <1>3, <1>4 DEF RoundTypes
-----------------------------------------------------------------------------
(* Types are kept. *)

LEMMA UpdatesTyped ==
  ASSUME PacketTypes, NEW m \in Modules, NEW p \in Packets, NEW t \in Times,
         simulation_time <= t
  PROVE  /\ LatencyUpdates(m, p, t) \in Seq(Update)
         /\ ThroughputUpdates(m, t) \in Seq(Update)
<1>0. /\ t \in Nat /\ MaxTime \in Nat /\ simulation_time \in Nat
      /\ Never \notin Nat /\ Second \in Nat \ {0}
  BY PacketTracesAssumption DEF PacketTypes, Times
<1>1. LatencyUpdates(m, p, t) \in Seq(Update)
  <2> DEFINE due == latency_write_triggers[m][p]
             new == [i \in DOMAIN due |->
                      updateTrace(due[i].trace_id, t - due[i].read_time, t)]
  <2>1. due \in Seq(WriteTrigger)
    BY DEF PacketTypes
  <2> HIDE DEF due
  <2>2. DOMAIN due = 1 .. Len(due) /\ Len(due) \in Nat
    BY <2>1, LenProperties
  <2>3. ASSUME NEW i \in 1 .. Len(due)
        PROVE  updateTrace(due[i].trace_id, t - due[i].read_time, t) \in Update
    <3>1. due[i] \in WriteTrigger
      BY <2>1, ElementOfSeq
    <3>2. due[i].trace_id \in Ids /\ t - due[i].read_time \in Nat
      BY <1>0, <3>1 DEF WriteTrigger, Past
    <3> QED
      BY <3>2 DEF updateTrace, Update
  <2>4. new \in Seq(Update)
    BY <2>2, <2>3, IsASeq
  <2> QED
    BY <2>4 DEF LatencyUpdates, due
<1>2. ThroughputUpdates(m, t) \in Seq(Update)
  <2>1. CASE /\ m \in DOMAIN throughput_triggers
             /\ throughput_triggers[m].last_time # Never
    <3> DEFINE at == throughput_triggers[m]
               d == t - at.last_time
    <3>1. at \in RateTrigger
      BY <2>1 DEF PacketTypes, Partial
    <3>2. at.trace_id \in Ids /\ at.last_time \in Past
      BY <2>1, <3>1 DEF RateTrigger
    <3>3. d \in Nat
      BY <1>0, <3>2 DEF Past
    <3> HIDE DEF d
    <3>4. Rate(d) \in Nat \cup {Infinite}
      BY <1>0, <3>3 DEF Rate
    <3>5. updateTrace(at.trace_id, Rate(d), t) \in Update
      BY <3>2, <3>4 DEF updateTrace, Update
    <3>6. ThroughputUpdates(m, t) = <<updateTrace(at.trace_id, Rate(d), t)>>
      BY <2>1 DEF ThroughputUpdates, d
    <3> QED
      BY <3>5, <3>6
  <2>2. CASE ~(/\ m \in DOMAIN throughput_triggers
               /\ throughput_triggers[m].last_time # Never)
    BY <2>2, EmptySeq DEF ThroughputUpdates
  <2> QED
    BY <2>1, <2>2
<1> QED
  BY <1>1, <1>2

(* The parts of the types that time and the number of traces bear on are   *)
(* kept while the one goes on and the other grows.                         *)
LEMMA TypesLater ==
  ASSUME PacketTypes, simulation_time' \in Times,
         simulation_time <= simulation_time',
         trace_id' \in Nat, trace_id <= trace_id'
  PROVE  /\ Ids \subseteq Ids' /\ Past \subseteq Past'
         /\ Partial(counter_traces, CounterNames, Ids')
         /\ latency_read_triggers \in [Modules -> Seq(ReadTrigger')]
         /\ latency_write_triggers \in [Modules -> [Packets -> Seq(WriteTrigger')]]
         /\ Partial(throughput_triggers, Modules, RateTrigger')
<1>1. simulation_time \in Nat /\ simulation_time' \in Nat /\ trace_id \in Nat
  BY PacketTracesAssumption DEF PacketTypes, Times
<1>2. Ids \subseteq Ids' /\ Past \subseteq Past'
  <2>1. ASSUME NEW x \in 0 .. trace_id - 1 PROVE x \in 0 .. trace_id' - 1
    <3>1. \A a, b \in Nat : a <= b /\ x \in 0 .. a - 1 => x \in 0 .. b - 1
      OBVIOUS
    <3> QED
      BY <1>1, <3>1
  <2>2. \A x \in 0 .. simulation_time : x \in 0 .. simulation_time'
    BY <1>1
  <2> QED
    BY <2>1, <2>2, Zenon DEF Ids, Past
<1>3. /\ ReadTrigger \subseteq ReadTrigger' /\ WriteTrigger \subseteq WriteTrigger'
      /\ RateTrigger \subseteq RateTrigger'
  <2> HIDE DEF Ids, Past
  <2> QED
    BY <1>2 DEF ReadTrigger, WriteTrigger, RateTrigger
<1>4. Seq(ReadTrigger) \subseteq Seq(ReadTrigger')
  <2> HIDE DEF ReadTrigger
  <2> QED
    BY <1>3, WiderSeq
<1>5. Seq(WriteTrigger) \subseteq Seq(WriteTrigger')
  <2> HIDE DEF WriteTrigger
  <2> QED
    BY <1>3, WiderSeq
<1>6. /\ Partial(counter_traces, CounterNames, Ids')
      /\ Partial(throughput_triggers, Modules, RateTrigger')
  BY <1>2, <1>3, PartialWider DEF PacketTypes
<1>7. latency_read_triggers \in [Modules -> Seq(ReadTrigger')]
  BY <1>4, Zenon DEF PacketTypes
<1>8. latency_write_triggers \in [Modules -> [Packets -> Seq(WriteTrigger')]]
  BY <1>5, Zenon DEF PacketTypes
<1> QED
  BY <1>2, <1>6, <1>7, <1>8

LEMMA CallbackTypes ==
  ASSUME PacketTypes, NEW t \in simulation_time .. MaxTime, Callback(t)
  PROVE  /\ PacketTypes'
         /\ simulation_time' = t /\ trace_id' = trace_id
<1>0. /\ t \in Times /\ simulation_time \in Times /\ simulation_time <= t
      /\ trace_id \in Nat /\ trace_id <= Len(log) /\ Len(log) \in Nat
      /\ t \in Nat
  BY PacketTracesAssumption, LenProperties DEF PacketTypes, Times
<1>1. simulation_time' = t /\ trace_id' = trace_id
  BY DEF Callback, data_read, data_written, data_dropped, counter_added,
         counter_removed, counter_updated, traces
<1>2. /\ Ids' = Ids /\ Past \subseteq Past'
      /\ Partial(counter_traces, CounterNames, Ids')
      /\ latency_read_triggers \in [Modules -> Seq(ReadTrigger')]
      /\ latency_write_triggers \in [Modules -> [Packets -> Seq(WriteTrigger')]]
      /\ Partial(throughput_triggers, Modules, RateTrigger')
  <2>1. Ids' = Ids
    BY <1>1 DEF Ids
  <2> QED
    BY <1>0, <1>1, <2>1, TypesLater
<1>3. UpTo(t) = WriteTrigger' /\ t \in Past' /\ Past' = 0 .. t
  BY <1>0, <1>1, <1>2 DEF UpTo, WriteTrigger, Past
<1>4. Update' = Update
  BY <1>2 DEF Update
<1> DEFINE Logged == log' \in Seq(Event) /\ Len(log') <= MaxLog
                     /\ Len(log') = Len(log) + 1
<1>5. ASSUME NEW m \in Modules, NEW p \in Packets, data_read(m, p, t)
      PROVE  PacketTypes'
  <2>1. Record("read", m, p)
    BY <1>5 DEF data_read
  <2>2. Logged
    BY <1>0, <1>1, <2>1, Recorded DEF Kinds
  <2>3. Partial(packet_list', Packets, Entry)
    <3>1. PICK q : q = DebuggerPacket(p, m, t)
      OBVIOUS
    <3> QED
      BY <1>0, <1>5, <3>1, EntriesTyped DEF data_read
  <2>4. latency_write_triggers' \in [Modules -> [Packets -> Seq(WriteTrigger')]]
    BY <1>0, <1>3, <1>5, TriggeredTypes DEF data_read
  <2>5. updates' \in Seq(Update)
    BY <1>5, EmptySeq DEF data_read
  <2> HIDE DEF Ids
  <2> QED
    BY <1>0, <1>1, <1>2, <1>4, <1>5, <2>2, <2>3, <2>4, <2>5
    DEF data_read, PacketTypes
<1>6. ASSUME NEW m \in Modules, NEW p \in Packets, data_written(m, p, t)
      PROVE  PacketTypes'
  <2>1. Record("write", m, p)
    BY <1>6 DEF data_written
  <2>2. Logged
    BY <1>0, <1>1, <2>1, Recorded DEF Kinds
  <2>3. Partial(packet_list', Packets, Entry)
    <3>1. PICK q : q = DebuggerPacket(p, m, t)
      OBVIOUS
    <3> QED
      BY <1>0, <1>6, <3>1, EntriesTyped DEF data_written
  <2>4. latency_write_triggers' \in [Modules -> [Packets -> Seq(WriteTrigger')]]
    <3>1. latency_write_triggers' = [latency_write_triggers EXCEPT ![m][p] = <<>>]
      BY <1>6 DEF data_written, Spent
    <3>2. <<>> \in Seq(WriteTrigger')
      BY EmptySeq
    <3> HIDE DEF WriteTrigger
    <3> QED
      BY <1>2, <3>1, <3>2
  <2>5. updates' \in Seq(Update)
    BY <1>0, <1>6, UpdatesTyped, ConcatProperties DEF data_written
  <2>6. Partial(throughput_triggers', Modules, RateTrigger')
    <3>1. CASE m \in DOMAIN throughput_triggers
      <4>1. throughput_triggers' = [throughput_triggers EXCEPT ![m].last_time = t]
        BY <1>6, <3>1 DEF data_written
      <4>2. throughput_triggers[m] \in RateTrigger'
        BY <1>2, <3>1 DEF Partial
      <4>3. throughput_triggers' =
              [x \in DOMAIN throughput_triggers |->
                IF x = m THEN [throughput_triggers[m] EXCEPT !.last_time = t]
                ELSE throughput_triggers[x]]
        BY <4>1
      <4>4. [throughput_triggers[m] EXCEPT !.last_time = t] \in RateTrigger'
        BY <1>3, <4>2 DEF RateTrigger
      <4> QED
        BY <1>2, <4>3, <4>4 DEF Partial
    <3>2. CASE m \notin DOMAIN throughput_triggers
      BY <1>2, <1>6, <3>2 DEF data_written
    <3> QED
      BY <3>1, <3>2
  <2> QED
    BY <1>0, <1>1, <1>2, <1>4, <1>6, <2>2, <2>3, <2>4, <2>5, <2>6
    DEF data_written, PacketTypes
<1>7. ASSUME NEW d \in Drops, data_dropped(d[2], d[1], t)
      PROVE  PacketTypes'
  <2>1. d[1] \in Packets /\ d[2] \in Modules /\ d = <<d[1], d[2]>>
    BY PacketTracesAssumption
  <2>2. Record("dropped", d[2], d[1])
    BY <1>7 DEF data_dropped
  <2>3. Logged
    BY <1>0, <1>1, <2>1, <2>2, Recorded DEF Kinds
  <2>4. dropped_packet_list' \in Seq(Drops)
    <3>1. dropped_packet_list' = Append(dropped_packet_list, <<d[1], d[2]>>)
      BY <1>7 DEF data_dropped
    <3> QED
      BY <2>1, <3>1, AppendProperties DEF PacketTypes
  <2>5. updates' \in Seq(Update)
    BY <1>7, EmptySeq DEF data_dropped
  <2> QED
    BY <1>0, <1>1, <1>2, <1>4, <1>7, <2>3, <2>4, <2>5
    DEF data_dropped, PacketTypes, traces, latency
<1>8. ASSUME NEW n \in CounterNames, counter_added(n, t) \/ counter_removed(n, t)
      PROVE  PacketTypes'
  <2>1. Record("added", n, n) \/ Record("removed", n, n)
    BY <1>8 DEF counter_added, counter_removed
  <2>2. Logged
    BY <1>0, <1>1, <2>1, Recorded DEF Kinds
  <2>3. updates' \in Seq(Update) /\ counters' \subseteq CounterNames
    BY <1>8, EmptySeq DEF counter_added, counter_removed, PacketTypes
  <2> QED
    BY <1>0, <1>1, <1>2, <1>4, <1>8, <2>2, <2>3
    DEF counter_added, counter_removed, PacketTypes, packets, traces, latency
<1>9. ASSUME NEW n \in CounterNames, NEW v \in Amounts, counter_updated(n, v, t)
      PROVE  PacketTypes'
  <2>1. Record("updated", n, v)
    BY <1>9 DEF counter_updated
  <2>2. Logged
    BY <1>0, <1>1, <2>1, Recorded DEF Kinds
  <2>3. updates' \in Seq(Update)
    <3>1. CASE n \in DOMAIN counter_traces
      <4>1. counter_traces[n] \in Ids /\ v \in Nat
        BY <3>1, PacketTracesAssumption DEF PacketTypes, Partial
      <4>2. updateTrace(counter_traces[n], v, simulation_time) \in Update
        BY <1>0, <4>1 DEF updateTrace, Update
      <4>3. updates' = <<updateTrace(counter_traces[n], v, simulation_time)>>
        BY <1>9, <3>1 DEF counter_updated
      <4> QED
        BY <4>2, <4>3
    <3>2. CASE n \notin DOMAIN counter_traces
      BY <1>9, <3>2, EmptySeq DEF counter_updated
    <3> QED
      BY <3>1, <3>2
  <2> QED
    BY <1>0, <1>1, <1>2, <1>4, <1>9, <2>2, <2>3
    DEF counter_updated, PacketTypes, packets, traces, latency
<1> QED
  BY <1>1, <1>5, <1>6, <1>7, <1>8, <1>9 DEF Callback

LEMMA StartTypes ==
  ASSUME PacketTypes,
         \/ \E n \in CounterNames : addCounterTrace(n)
         \/ \E pair \in LatencyPairs : addLatencyTrace(pair[1], pair[2])
         \/ \E m \in Modules : addThroughputTrace(m)
  PROVE  /\ PacketTypes'
         /\ simulation_time' = simulation_time /\ trace_id' = trace_id + 1
<1>1. /\ simulation_time' = simulation_time /\ trace_id' = trace_id + 1
      /\ UNCHANGED <<packets, counters, latency_write_triggers>>
      /\ updates' = <<>>
  BY DEF addCounterTrace, addLatencyTrace, addThroughputTrace, Started
<1>2. /\ simulation_time \in Times /\ simulation_time \in Nat
      /\ trace_id \in Nat /\ trace_id <= Len(log) /\ Len(log) \in Nat
  BY PacketTracesAssumption, LenProperties DEF PacketTypes, Times
<1>3. /\ trace_id + 1 \in Nat /\ trace_id <= trace_id + 1
      /\ simulation_time <= simulation_time
  BY <1>2
<1>4. /\ Partial(counter_traces, CounterNames, Ids')
      /\ latency_read_triggers \in [Modules -> Seq(ReadTrigger')]
      /\ latency_write_triggers \in [Modules -> [Packets -> Seq(WriteTrigger')]]
      /\ Partial(throughput_triggers, Modules, RateTrigger')
  BY <1>1, <1>2, <1>3, TypesLater
<1>5. trace_id \in Ids'
  BY <1>1, <1>2 DEF Ids
<1>6. updates' \in Seq(Update')
  BY <1>1, EmptySeq
<1> DEFINE Logged == /\ log' \in Seq(Event) /\ Len(log') <= MaxLog
                     /\ Len(log') = Len(log) + 1
           Rest == PacketTypes'
<1> HIDE DEF Ids, ReadTrigger, WriteTrigger, RateTrigger, Update
<1>7. ASSUME Logged, Partial(counter_traces', CounterNames, Ids'),
             latency_read_triggers' \in [Modules -> Seq(ReadTrigger')],
             Partial(throughput_triggers', Modules, RateTrigger')
      PROVE  PacketTypes'
  <2>1. trace_id' \in Nat /\ trace_id' <= Len(log')
    BY <1>1, <1>2, <1>7
  <2> QED
    BY <1>1, <1>2, <1>4, <1>6, <1>7, <2>1 DEF PacketTypes, packets
<1>8. ASSUME NEW n \in CounterNames, addCounterTrace(n) PROVE PacketTypes'
  <2>1. Record("counter", n, n)
    BY <1>8 DEF addCounterTrace, Started
  <2>2. Logged
    BY <1>1, <1>2, <2>1, Recorded DEF Kinds, StartKinds
  <2>3. Partial(counter_traces', CounterNames, Ids')
    BY <1>4, <1>5, <1>8, WithTyped DEF addCounterTrace
  <2> QED
    BY <1>4, <1>7, <1>8, <2>2, <2>3 DEF addCounterTrace
<1>9. ASSUME NEW pair \in LatencyPairs, addLatencyTrace(pair[1], pair[2])
      PROVE  PacketTypes'
  <2>1. pair[1] \in Modules /\ pair[2] \in Modules
    BY PacketTracesAssumption
  <2>2. Record("latency", pair[1], pair[2])
    BY <1>9 DEF addLatencyTrace, Started
  <2>3. Logged
    BY <1>1, <1>2, <2>1, <2>2, Recorded DEF Kinds, StartKinds
  <2>4. latency_read_triggers' \in [Modules -> Seq(ReadTrigger')]
    <3> DEFINE item == [trace_id |-> trace_id, write_module_name |-> pair[2]]
    <3>1. item \in ReadTrigger'
      BY <1>5, <2>1 DEF ReadTrigger
    <3>2. latency_read_triggers' =
            [latency_read_triggers EXCEPT ![pair[1]] = Append(@, item)]
      BY <1>9 DEF addLatencyTrace
    <3> HIDE DEF item
    <3>3. Append(latency_read_triggers[pair[1]], item) \in Seq(ReadTrigger')
      BY <1>4, <2>1, <3>1, AppendProperties
    <3> QED
      BY <1>4, <3>2, <3>3
  <2> QED
    BY <1>4, <1>7, <1>9, <2>3, <2>4 DEF addLatencyTrace
<1>10. ASSUME NEW m \in Modules, addThroughputTrace(m) PROVE PacketTypes'
  <2>1. Record("throughput", m, m)
    BY <1>10 DEF addThroughputTrace, Started
  <2>2. Logged
    BY <1>1, <1>2, <2>1, Recorded DEF Kinds, StartKinds
  <2>3. NewTrigger(m) \in RateTrigger'
    BY <1>5 DEF NewTrigger, RateTrigger
  <2>4. Partial(throughput_triggers', Modules, RateTrigger')
    BY <1>4, <1>10, <2>3, WithTyped DEF addThroughputTrace
  <2> QED
    BY <1>4, <1>7, <1>10, <2>2, <2>4 DEF addThroughputTrace
<1> QED
  BY <1>1, <1>8, <1>9, <1>10

(* Between callbacks a request changes nothing, or starts a trace.         *)
LEMMA RequestEffects ==
  ASSUME parseRequest
  PROVE  \/ UNCHANGED manager
         \/ \E n \in CounterNames : addCounterTrace(n)
         \/ \E pair \in LatencyPairs : addLatencyTrace(pair[1], pair[2])
         \/ \E m \in Modules : addThroughputTrace(m)
BY DEF parseRequest, AskPackets, StartTracing, handleGetPacketList,
       handleBacktrace, handleGetPacket, handleGetDroppedPackets,
       handleGetSimulationTime, Query

LEMMA InitTypes == Init => PacketTypes
<1> SUFFICES ASSUME Init PROVE PacketTypes
  OBVIOUS
<1>1. <<>> \in Seq(Drops) /\ <<>> \in Seq(Update) /\ <<>> \in Seq(Event)
  BY EmptySeq
<1>2. <<>> \in Seq(ReadTrigger) /\ <<>> \in Seq(WriteTrigger) /\ Len(<<>>) = 0
  BY EmptySeq
<1>3. \A D, R : Partial(<<>>, D, R)
  BY DEF Partial
<1>4. 0 \in Times /\ MaxLog \in Nat
  BY PacketTracesAssumption DEF Times
<1> QED
  BY <1>1, <1>2, <1>3, <1>4 DEF Init, ManagerInit, PacketTypes

LEMMA StepTypes == PacketTypes /\ [Next]_vars => PacketTypes'
<1> SUFFICES ASSUME PacketTypes, [Next]_vars PROVE PacketTypes'
  OBVIOUS
<1>1. CASE ObserverStep
  BY <1>1, CallbackTypes DEF ObserverStep
<1>2. CASE UNCHANGED manager
  BY <1>2 DEF manager, packets, traces, latency, PacketTypes, Ids, ReadTrigger,
              WriteTrigger, RateTrigger, Past, Update
<1>3. CASE parseRequest
  BY <1>2, <1>3, RequestEffects, StartTypes
<1> QED
  BY <1>1, <1>2, <1>3 DEF Next, vars

(* The part of the type invariant about the last request.                  *)
Asked ==
  /\ request = Nothing \/ request.type \in RequestKinds
  /\ answer = Nothing \/ answer.type \in AnswerKinds

LEMMA Responded ==
  ASSUME NEW asked, NEW first, NEW rest,
         asked.type \in RequestKinds, first.type \in AnswerKinds,
         \/ Respond(asked, <<first>>) \/ Respond(asked, <<first, rest>>)
  PROVE  Asked'
<1>1. request' = asked /\ answer' = first
  BY DEF Respond
<1> QED
  BY <1>1 DEF Asked, RequestKinds, AnswerKinds, PacketReplies

LEMMA StepAsked == Asked /\ [Next]_vars => Asked'
<1> SUFFICES ASSUME Asked, [Next]_vars PROVE Asked'
  OBVIOUS
<1> USE DEF Reply, Failed, RequestKinds, AnswerKinds, PacketReplies
<1>1. CASE UNCHANGED vars
  BY <1>1 DEF vars, Asked
<1>2. CASE ObserverStep /\ request' = Nothing /\ answer' = Nothing
  BY <1>2 DEF Asked
<1>3. ASSUME NEW m, NEW ignored, handleGetPacketList(m, ignored)
      PROVE  Asked'
  <2> DEFINE content == {<<p, packet_list[p].current_location,
                           packet_list[p].last_notify_time>> :
                         p \in {q \in DOMAIN packet_list :
                           packet_list[q].current_location \in m \ ignored}}
             asked == [type |-> "GetPacketList", arg |-> m \ ignored]
             reply == Reply("PacketListValues", content)
  <2>1. Respond(asked, <<reply>>)
    BY <1>3 DEF handleGetPacketList, Query
  <2> HIDE DEF content
  <2>2. asked.type \in RequestKinds /\ reply.type \in AnswerKinds
    OBVIOUS
  <2> HIDE DEF asked, reply, RequestKinds, AnswerKinds
  <2> QED
    BY <2>1, <2>2, Responded
<1>4. ASSUME NEW arg, NEW whoami, NEW garbage,
             handleBacktrace(arg, whoami, garbage)
      PROVE  Asked'
  <2>1. \A id : Backtraced(id).type \in AnswerKinds
    BY DEF Backtraced
  <2> QED
    BY <1>4, <2>1, Responded DEF handleBacktrace, Query
<1>5. ASSUME NEW kind \in PacketReplies, NEW id, handleGetPacket(kind, id)
      PROVE  Asked'
  <2>1. Respond([type |-> kind, arg |-> id], <<Reply(kind, id), Failed>>)
        \/ Respond([type |-> kind, arg |-> id], <<Failed>>)
    BY <1>5 DEF handleGetPacket, Query
  <2> QED
    BY <2>1, Responded
<1>6. CASE handleGetDroppedPackets
  BY <1>6, Responded DEF handleGetDroppedPackets, Query
<1>7. CASE handleGetSimulationTime
  BY <1>7, Responded DEF handleGetSimulationTime, Query
<1>8. ASSUME NEW kind \in {"counter", "latency", "throughput"}, NEW at,
             NEW result, handleStartTracing(kind, at, result)
      PROVE  Asked'
  <2> DEFINE asked == [type |-> kind, arg |-> at, asked |-> Len(log)]
             reply == IF result THEN Reply("StartTracingStatus", trace_id)
                      ELSE Failed
  <2>1. asked.type \in RequestKinds /\ reply.type \in AnswerKinds
    OBVIOUS
  <2>2. Respond(asked, <<reply, Failed>>)
    BY <1>8 DEF handleStartTracing
  <2> HIDE DEF asked, reply, RequestKinds, AnswerKinds
  <2> QED
    BY <2>1, <2>2, Responded
<1> QED
  BY <1>1, <1>2, <1>3, <1>4, <1>5, <1>6, <1>7, <1>8
  DEF Next, parseRequest, AskPackets, StartTracing

(* What the data manager keeps of packets, traces and triggers, and the    *)
(* last request and its answer, have their types, no trigger is from the   *)
(* future, and every id was given to a trace.                              *)
THEOREM PacketsTyped == Spec => []TypeOK
<1>1. Init => PacketTypes /\ Asked
  BY InitTypes DEF Init, Asked
<1>2. PacketTypes /\ Asked /\ [Next]_vars => PacketTypes' /\ Asked'
  BY StepTypes, StepAsked
<1>3. PacketTypes /\ Asked => TypeOK
  BY TypesGiveTypeOK DEF Asked, TypeOK
<1> QED
  BY <1>1, <1>2, <1>3, PTL DEF Spec
-----------------------------------------------------------------------------
(* What is kept of the history. *)

LatencyStarts(h, m) ==
  {s \in Starts(h) : h[s].kind = "latency" /\ h[s].at = m}

(* every latency trace, where it starts, in the order they were started    *)
StartList(list, m, h) ==
  LET S == LatencyStarts(h, m)
  IN  /\ Len(list) = Cardinality(S)
      /\ \A s \in S : list[Place(s, S)] =
                        [trace_id |-> IdOf(h, s), write_module_name |-> h[s].of]

ReadTriggers(h, lists) == \A m \in Modules : StartList(lists[m], m, h)

(* list has the triggers of the pairs of a read and a trace in S, in the   *)
(* order of the reads                                                      *)
Lists(list, S, h) ==
  /\ Len(list) = Cardinality(S)
  /\ \A d \in S : list[PairPlace(d, S)] =
                    [trace_id |-> IdOf(h, d[2]), read_time |-> h[d[1]].time]

WriteTriggers(h, lists) ==
  \A w \in Modules, p \in Packets : Lists(lists[w][p], Pending(h, w, p), h)

(* the newest trace of each module, and the last write since it started    *)
RateTriggers(h, rates) ==
  \A m \in Modules :
    LET s == Newest(h, m)
        j == WriteBefore(h, m, Len(h) + 1)
    IN  IF s = 0 THEN m \notin DOMAIN rates
        ELSE /\ m \in DOMAIN rates
             /\ rates[m].trace_id = IdOf(h, s)
             /\ rates[m].last_time = IF s < j THEN h[j].time ELSE Never

CounterIds(h, ids) ==
  \A n \in CounterNames :
    IF n \in DOMAIN ids
    THEN \E s \in CounterTraces(h, n) :
           CounterTraces(h, n) = {s} /\ ids[n] = IdOf(h, s)
    ELSE CounterTraces(h, n) = {}

TimeNow(h) == IF Len(h) = 0 THEN 0 ELSE h[Len(h)].time

History ==
  /\ trace_id = Cardinality(Starts(log))
  /\ simulation_time = TimeNow(log)
  /\ ReadTriggers(log, latency_read_triggers)
  /\ WriteTriggers(log, latency_write_triggers)
  /\ RateTriggers(log, throughput_triggers)
  /\ CounterIds(log, counter_traces)

(* The inductive invariant behind UpdatesRight.                            *)
UpdatesInv ==
  PacketTypes /\ History /\ (log # <<>> => Published(log, updates))

LEMMA NewMax ==
  ASSUME NEW n \in Nat, NEW S \in SUBSET (1 .. n)
  PROVE  /\ Max(S \cup {0}) \in 0 .. n
         /\ Max((S \cup {n + 1}) \cup {0}) = n + 1
<1>1. S \cup {0} \in SUBSET (0 .. n) /\ S \cup {0} # {}
  OBVIOUS
<1>2. Max(S \cup {0}) \in 0 .. n
  BY <1>1, MaxIsLast
<1> DEFINE T == (S \cup {n + 1}) \cup {0}
<1>3. T \in SUBSET (0 .. n + 1) /\ T # {} /\ n + 1 \in Nat /\ n + 1 \in T
  OBVIOUS
<1> HIDE DEF T
<1>4. Max(T) \in T /\ n + 1 <= Max(T)
  BY <1>3, MaxIsLast
<1>5. Max(T) \in 0 .. n + 1
  BY <1>3, <1>4
<1>6. Max(T) = n + 1
  BY <1>4, <1>5
<1> QED
  BY <1>2, <1>6 DEF T

LEMMA LatencyStartsGrow ==
  ASSUME NEW h, NEW h2, NEW e, Grown(h, h2, e), NEW m
  PROVE  /\ LatencyStarts(h, m) \in SUBSET (1 .. Len(h))
         /\ LatencyStarts(h2, m) = IF e.kind = "latency" /\ e.at = m
                                   THEN LatencyStarts(h, m) \cup {Len(h) + 1}
                                   ELSE LatencyStarts(h, m)
<1> DEFINE n == Len(h)
<1>1. /\ h2[n + 1] = e /\ \A i \in 1 .. n : h2[i] = h[i]
      /\ Starts(h) \in SUBSET (1 .. n)
      /\ Starts(h2) = IF e.kind \in StartKinds
                      THEN Starts(h) \cup {n + 1} ELSE Starts(h)
  BY StartsGrow DEF Grown
<1> HIDE DEF n
<1>2. e.kind = "latency" => e.kind \in StartKinds
  BY DEF StartKinds
<1>3. \A s : s \in LatencyStarts(h2, m) <=>
               \/ s \in LatencyStarts(h, m)
               \/ s = n + 1 /\ e.kind = "latency" /\ e.at = m
  BY <1>1, <1>2 DEF LatencyStarts
<1> QED
  BY <1>1, <1>3 DEF LatencyStarts, n

(* The newest trace and the trace of a counter.                            *)
LEMMA NewestGrow ==
  ASSUME NEW h, NEW h2, NEW e, Grown(h, h2, e), NEW m
  PROVE  /\ Newest(h, m) \in Starts(h) \cup {0}
         /\ Newest(h2, m) = IF e.kind = "throughput" /\ e.at = m /\ e.of = m
                            THEN Len(h) + 1 ELSE Newest(h, m)
         /\ CounterTraces(h2, m) = IF e.kind = "counter" /\ e.at = m /\ e.of = m
                                   THEN CounterTraces(h, m) \cup {Len(h) + 1}
                                   ELSE CounterTraces(h, m)
<1> DEFINE n == Len(h)
           rates(g) == {s \in Starts(g) : Is(g, s, "throughput", m, m)}
<1>1. /\ n \in Nat /\ h2[n + 1] = e /\ \A i \in 1 .. n : h2[i] = h[i]
      /\ Starts(h) \in SUBSET (1 .. n)
      /\ Starts(h2) = IF e.kind \in StartKinds
                      THEN Starts(h) \cup {n + 1} ELSE Starts(h)
  BY StartsGrow DEF Grown
<1> HIDE DEF n
<1>2. \A k \in StartKinds : \A s :
        /\ s \in Starts(h2) /\ Is(h2, s, k, m, m) <=>
             \/ s \in Starts(h) /\ Is(h, s, k, m, m)
             \/ s = n + 1 /\ e.kind = k /\ e.at = m /\ e.of = m
  BY <1>1 DEF Is
<1>3. "throughput" \in StartKinds /\ "counter" \in StartKinds
  BY DEF StartKinds
<1>4. CounterTraces(h2, m) = IF e.kind = "counter" /\ e.at = m /\ e.of = m
                             THEN CounterTraces(h, m) \cup {n + 1}
                             ELSE CounterTraces(h, m)
  <2>1. \A s : s \in CounterTraces(h2, m) <=>
                 \/ s \in CounterTraces(h, m)
                 \/ s = n + 1 /\ e.kind = "counter" /\ e.at = m /\ e.of = m
    BY <1>2, <1>3 DEF CounterTraces
  <2> QED
    BY <2>1
<1>5. \A s : s \in rates(h2) <=>
               \/ s \in rates(h)
               \/ s = n + 1 /\ e.kind = "throughput" /\ e.at = m /\ e.of = m
  BY <1>2, <1>3
<1>6. rates(h) \in SUBSET (1 .. n) /\ rates(h) \in SUBSET Starts(h)
  BY <1>1
<1>7. Newest(h, m) = Max(rates(h) \cup {0}) /\ Newest(h2, m) = Max(rates(h2) \cup {0})
  BY DEF Newest
<1> HIDE DEF rates
<1>8. Newest(h, m) \in rates(h) \cup {0}
  <2>1. rates(h) \cup {0} \in SUBSET (0 .. n) /\ rates(h) \cup {0} # {}
    BY <1>1, <1>6
  <2> QED
    BY <1>1, <1>7, <2>1, MaxIsLast
<1>9. CASE e.kind = "throughput" /\ e.at = m /\ e.of = m
  <2>1. rates(h2) = rates(h) \cup {n + 1}
    BY <1>5, <1>9
  <2>2. Newest(h2, m) = n + 1
    BY <1>1, <1>6, <1>7, <2>1, NewMax
  <2> QED
    BY <1>4, <1>6, <1>8, <1>9, <2>2 DEF n
<1>10. CASE ~(e.kind = "throughput" /\ e.at = m /\ e.of = m)
  <2>1. rates(h2) = rates(h)
    BY <1>5, <1>10
  <2> QED
    BY <1>4, <1>6, <1>7, <1>8, <1>10, <2>1 DEF n
<1> QED
  BY <1>9, <1>10

(* The last write at a module.                                             *)
LEMMA WriteBeforeGrow ==
  ASSUME NEW h, NEW h2, NEW e, Grown(h, h2, e), NEW m
  PROVE  /\ WriteBefore(h, m, Len(h) + 1) \in 0 .. Len(h)
         /\ WriteBefore(h2, m, Len(h) + 1) = WriteBefore(h, m, Len(h) + 1)
         /\ WriteBefore(h2, m, Len(h2) + 1) =
              IF e.kind = "write" /\ e.at = m THEN Len(h) + 1
              ELSE WriteBefore(h, m, Len(h) + 1)
<1> DEFINE n == Len(h)
           writes(g, i) == {j \in 1 .. i - 1 : g[j].kind = "write" /\ g[j].at = m}
<1>1. /\ n \in Nat /\ h2[n + 1] = e /\ \A i \in 1 .. n : h2[i] = h[i]
      /\ Len(h2) = n + 1
      /\ (n + 1) - 1 = n /\ (n + 1) + 1 - 1 = n + 1
      /\ \A i : i \in 1 .. n + 1 <=> i \in 1 .. n \/ i = n + 1
  BY DEF Grown
<1> HIDE DEF n
<1>2. /\ writes(h, n + 1) = {j \in 1 .. n : h[j].kind = "write" /\ h[j].at = m}
      /\ writes(h2, n + 1) = {j \in 1 .. n : h2[j].kind = "write" /\ h2[j].at = m}
      /\ writes(h2, Len(h2) + 1) =
           {j \in 1 .. n + 1 : h2[j].kind = "write" /\ h2[j].at = m}
  BY <1>1
<1>3. \A g, i : WriteBefore(g, m, i) = Max(writes(g, i) \cup {0})
  BY DEF WriteBefore
<1> HIDE DEF writes
<1>4. writes(h2, n + 1) = writes(h, n + 1) /\ writes(h, n + 1) \in SUBSET (1 .. n)
  BY <1>1, <1>2
<1>5. Max(writes(h, n + 1) \cup {0}) \in 0 .. n
  BY <1>1, <1>4, NewMax
<1>6. CASE e.kind = "write" /\ e.at = m
  <2>1. writes(h2, Len(h2) + 1) = writes(h, n + 1) \cup {n + 1}
    BY <1>1, <1>2, <1>6
  <2>2. WriteBefore(h2, m, Len(h2) + 1) = n + 1
    <3>1. Max((writes(h, n + 1) \cup {n + 1}) \cup {0}) = n + 1
      BY <1>1, <1>4, NewMax
    <3> QED
      BY <1>3, <2>1, <3>1, Zenon
  <2> QED
    BY <1>3, <1>4, <1>5, <1>6, <2>2 DEF n
<1>7. CASE ~(e.kind = "write" /\ e.at = m)
  <2>1. writes(h2, Len(h2) + 1) = writes(h, n + 1)
    BY <1>1, <1>2, <1>7
  <2> QED
    BY <1>3, <1>4, <1>5, <1>7, <2>1 DEF n
<1> QED
  BY <1>6, <1>7
-----------------------------------------------------------------------------
(* Lists of triggers when the history grows. *)

LEMMA ListsKept ==
  ASSUME NEW h, NEW h2, NEW e, Grown(h, h2, e), NEW w, NEW p, NEW list,
         Lists(list, Pending(h, w, p), h)
  PROVE  Lists(list, Pending(h, w, p), h2)
<1> DEFINE S == Pending(h, w, p)
<1>1. Starts(h) \in SUBSET (1 .. Len(h)) /\ Len(h) \in Nat
  BY StartsGrow DEF Grown
<1>2. \A d \in S : d[1] \in 1 .. Len(h) /\ d[2] \in 1 .. Len(h)
  BY <1>1 DEF Pending
<1>3. ASSUME NEW i \in 1 .. Len(h) PROVE IdOf(h2, i) = IdOf(h, i) /\ h2[i] = h[i]
  <2>1. i \in 1 .. Len(h) + 1
    BY <1>1
  <2> QED
    BY <2>1, StartsGrow DEF Grown
<1> HIDE DEF S
<1>4. Lists(list, S, h)
  BY DEF S
<1>5. Lists(list, S, h2)
  BY <1>2, <1>3, <1>4 DEF Lists
<1> QED
  BY <1>5 DEF S

(* A read of a later time comes last.                                      *)
LEMMA ListsAppended ==
  ASSUME NEW n \in Nat, NEW S \in SUBSET ((1 .. n) \X (1 .. n)),
         NEW x \in Nat \X Nat, x \notin S,
         \A d \in S : Earlier(d, x) /\ ~Earlier(x, d),
         NEW h, NEW T, NEW list \in Seq(T), NEW item \in T,
         item = [trace_id |-> IdOf(h, x[2]), read_time |-> h[x[1]].time],
         Lists(list, S, h)
  PROVE  Lists(Append(list, item), S \cup {x}, h)
<1>1. /\ Cardinality(S \cup {x}) = Cardinality(S) + 1
      /\ PairPlace(x, S \cup {x}) = Cardinality(S) + 1
      /\ \A d \in S : PairPlace(d, S \cup {x}) = PairPlace(d, S)
  BY LastPairPlace
<1>2. \A d \in S : PairPlace(d, S) \in 1 .. Cardinality(S)
  BY PairPlaces
<1>3. Len(list) = Cardinality(S)
  BY DEF Lists
<1>4. /\ Len(Append(list, item)) = Len(list) + 1
      /\ \A i \in 1 .. Len(list) : Append(list, item)[i] = list[i]
      /\ Append(list, item)[Len(list) + 1] = item
  BY AppendProperties
<1>5. ASSUME NEW d \in S \cup {x}
      PROVE  Append(list, item)[PairPlace(d, S \cup {x})] =
               [trace_id |-> IdOf(h, d[2]), read_time |-> h[d[1]].time]
  <2>1. CASE d = x
    BY <1>1, <1>3, <1>4, <2>1
  <2>2. CASE d \in S
    <3>1. list[PairPlace(d, S)] =
            [trace_id |-> IdOf(h, d[2]), read_time |-> h[d[1]].time]
      BY <2>2 DEF Lists
    <3> QED
      BY <1>1, <1>2, <1>3, <1>4, <2>2, <3>1
  <2> QED
    BY <2>1, <2>2
<1> QED
  BY <1>1, <1>3, <1>4, <1>5 DEF Lists

(* The traces that start at a module, after one more.                      *)
LEMMA ReadTriggersGrow ==
  ASSUME NEW h, NEW h2, NEW e, Grown(h, h2, e), NEW T,
         NEW lists \in [Modules -> Seq(T)], NEW lists2, ReadTriggers(h, lists),
         \A m \in Modules :
           \/ /\ ~(e.kind = "latency" /\ e.at = m)
              /\ lists2[m] = lists[m]
           \/ /\ e.kind = "latency" /\ e.at = m
              /\ \E item \in T :
                   /\ item = [trace_id |-> Cardinality(Starts(h)),
                              write_module_name |-> e.of]
                   /\ lists2[m] = Append(lists[m], item)
  PROVE  ReadTriggers(h2, lists2)
<1> DEFINE n == Len(h)
<1>1. /\ n \in Nat /\ h2[n + 1] = e /\ \A i \in 1 .. n : h2[i] = h[i]
      /\ \A i \in 1 .. n + 1 : IdOf(h2, i) = IdOf(h, i)
      /\ IdOf(h, n + 1) = Cardinality(Starts(h))
      /\ \A i \in 1 .. n : i \in 1 .. n + 1
      /\ n + 1 \in 1 .. n + 1
  BY StartsGrow DEF Grown
<1> SUFFICES ASSUME NEW m \in Modules PROVE StartList(lists2[m], m, h2)
  BY DEF ReadTriggers
<1> DEFINE R == LatencyStarts(h, m)
           of(g, s) == [trace_id |-> IdOf(g, s), write_module_name |-> g[s].of]
<1>2. /\ R \in SUBSET (1 .. n)
      /\ LatencyStarts(h2, m) = IF e.kind = "latency" /\ e.at = m
                                THEN R \cup {n + 1} ELSE R
  BY LatencyStartsGrow
<1>3. /\ Len(lists[m]) = Cardinality(R)
      /\ \A s \in R : lists[m][Place(s, R)] = of(h, s)
  BY DEF ReadTriggers, StartList
<1> HIDE DEF n, R
<1>4. \A s \in R : of(h2, s) = of(h, s)
  BY <1>1, <1>2
<1>5. /\ Cardinality(R) \in Nat
      /\ \A s \in R : Place(s, R) \in 1 .. Cardinality(R)
  BY <1>1, <1>2, Places
<1> HIDE DEF of
<1>6. CASE ~(e.kind = "latency" /\ e.at = m)
  BY <1>2, <1>3, <1>4, <1>6 DEF of, StartList
<1>7. CASE e.kind = "latency" /\ e.at = m
  <2>1. PICK item \in T :
          /\ item = [trace_id |-> Cardinality(Starts(h)),
                     write_module_name |-> e.of]
          /\ lists2[m] = Append(lists[m], item)
    BY <1>7
  <2>2. /\ Cardinality(R \cup {n + 1}) = Cardinality(R) + 1
        /\ Place(n + 1, R \cup {n + 1}) = Cardinality(R) + 1
        /\ \A x \in R : Place(x, R \cup {n + 1}) = Place(x, R)
    BY <1>1, <1>2, LastPlace
  <2>3. /\ Len(lists2[m]) = Cardinality(R) + 1
        /\ \A i \in 1 .. Cardinality(R) : lists2[m][i] = lists[m][i]
        /\ lists2[m][Cardinality(R) + 1] = item
    <3>1. lists[m] \in Seq(T)
      OBVIOUS
    <3> QED
      BY <1>3, <2>1, <3>1, AppendProperties
  <2>4. item = of(h2, n + 1)
    BY <1>1, <2>1 DEF of
  <2>5. \A s \in R \cup {n + 1} :
          lists2[m][Place(s, R \cup {n + 1})] = of(h2, s)
    BY <1>3, <1>4, <1>5, <2>2, <2>3, <2>4
  <2> QED
    BY <1>2, <1>7, <2>2, <2>3, <2>5 DEF of, StartList
<1> QED
  BY <1>6, <1>7

(* rates2 is what entry e makes of rates                                   *)
RatesFollow(h, e, rates, rates2) ==
  \A m \in Modules :
    IF e.kind = "throughput" /\ e.at = m /\ e.of = m
    THEN /\ m \in DOMAIN rates2
         /\ rates2[m].trace_id = Cardinality(Starts(h))
         /\ rates2[m].last_time = Never
    ELSE /\ m \in DOMAIN rates2 <=> m \in DOMAIN rates
         /\ m \in DOMAIN rates =>
              /\ rates2[m].trace_id = rates[m].trace_id
              /\ rates2[m].last_time =
                   IF e.kind = "write" /\ e.at = m THEN e.time
                   ELSE rates[m].last_time

(* Rates, after one more entry.                                            *)
LEMMA RateTriggersGrow ==
  ASSUME NEW h, NEW h2, NEW e, Grown(h, h2, e), NEW rates, NEW rates2,
         RateTriggers(h, rates),
         RatesFollow(h, e, rates, rates2)
  PROVE  RateTriggers(h2, rates2)
<1> DEFINE n == Len(h)
<1>1. /\ n \in Nat /\ h2[n + 1] = e /\ \A i \in 1 .. n : h2[i] = h[i]
      /\ \A i \in 1 .. n + 1 : IdOf(h2, i) = IdOf(h, i)
      /\ IdOf(h, n + 1) = Cardinality(Starts(h))
      /\ \A i \in 1 .. n : i \in 1 .. n + 1 /\ i < n + 1
      /\ n + 1 \in 1 .. n + 1 /\ n + 1 # 0
      /\ \A i \in 0 .. n : ~(n + 1 < i)
      /\ Starts(h) \in SUBSET (1 .. n)
      /\ \A i \in 0 .. n : \A s \in Nat : s < i => i \in 1 .. n
  BY StartsGrow DEF Grown
<1> SUFFICES ASSUME NEW m \in Modules
             PROVE  LET s == Newest(h2, m)
                        j == WriteBefore(h2, m, Len(h2) + 1)
                    IN  IF s = 0 THEN m \notin DOMAIN rates2
                        ELSE /\ m \in DOMAIN rates2
                             /\ rates2[m].trace_id = IdOf(h2, s)
                             /\ rates2[m].last_time =
                                  IF s < j THEN h2[j].time ELSE Never
  BY DEF RateTriggers
<1> DEFINE s == Newest(h, m)
           j == WriteBefore(h, m, n + 1)
           s2 == Newest(h2, m)
           j2 == WriteBefore(h2, m, Len(h2) + 1)
<1>2. /\ s \in Starts(h) \cup {0}
      /\ s2 = IF e.kind = "throughput" /\ e.at = m /\ e.of = m
              THEN n + 1 ELSE s
  BY NewestGrow
<1>3. /\ j \in 0 .. n
      /\ j2 = IF e.kind = "write" /\ e.at = m THEN n + 1 ELSE j
  BY WriteBeforeGrow
<1>4. IF s = 0 THEN m \notin DOMAIN rates
      ELSE /\ m \in DOMAIN rates
           /\ rates[m].trace_id = IdOf(h, s)
           /\ rates[m].last_time = IF s < j THEN h[j].time ELSE Never
  BY DEF RateTriggers
<1>7. IF e.kind = "throughput" /\ e.at = m /\ e.of = m
      THEN /\ m \in DOMAIN rates2
           /\ rates2[m].trace_id = Cardinality(Starts(h))
           /\ rates2[m].last_time = Never
      ELSE /\ m \in DOMAIN rates2 <=> m \in DOMAIN rates
           /\ m \in DOMAIN rates =>
                /\ rates2[m].trace_id = rates[m].trace_id
                /\ rates2[m].last_time =
                     IF e.kind = "write" /\ e.at = m THEN e.time
                     ELSE rates[m].last_time
  BY DEF RatesFollow
<1> HIDE DEF n, s, j, s2, j2
<1>5. CASE e.kind = "throughput" /\ e.at = m /\ e.of = m
  <2>1. s2 = n + 1 /\ j2 = j /\ ~(s2 < j2)
    BY <1>1, <1>2, <1>3, <1>5
  <2> QED
    BY <1>1, <1>5, <1>7, <2>1 DEF s2, j2
<1>6. CASE ~(e.kind = "throughput" /\ e.at = m /\ e.of = m)
  <2>1. s2 = s
    BY <1>2, <1>6
  <2>2. CASE s = 0
    BY <1>4, <1>6, <1>7, <2>1, <2>2 DEF s2
  <2>3. CASE s # 0
    <3>1. s \in 1 .. n /\ s \in Nat /\ s < n + 1 /\ IdOf(h2, s) = IdOf(h, s)
      BY <1>1, <1>2, <2>3
    <3>2. /\ m \in DOMAIN rates2 /\ rates2[m].trace_id = IdOf(h2, s)
          /\ rates2[m].last_time = IF e.kind = "write" /\ e.at = m THEN e.time
                                   ELSE rates[m].last_time
      BY <1>4, <1>6, <1>7, <2>3, <3>1
    <3>3. rates2[m].last_time = IF s < j2 THEN h2[j2].time ELSE Never
      <4>1. CASE e.kind = "write" /\ e.at = m
        BY <1>1, <1>3, <3>1, <3>2, <4>1
      <4>2. CASE ~(e.kind = "write" /\ e.at = m)
        <5>1. j2 = j /\ (s < j => h2[j] = h[j])
          BY <1>1, <1>3, <3>1, <4>2
        <5> QED
          BY <1>4, <2>3, <3>2, <4>2, <5>1
      <4> QED
        BY <4>1, <4>2
    <3> QED
      BY <2>1, <2>3, <3>2, <3>3 DEF s2, j2
  <2> QED
    BY <2>2, <2>3
<1> QED
  BY <1>5, <1>6

(* Counters, after one more entry.                                         *)
LEMMA CounterIdsGrow ==
  ASSUME NEW h, NEW h2, NEW e, Grown(h, h2, e), NEW ids, NEW ids2,
         CounterIds(h, ids),
         \A n \in CounterNames :
           IF e.kind = "counter" /\ e.at = n /\ e.of = n
           THEN /\ n \notin DOMAIN ids /\ n \in DOMAIN ids2
                /\ ids2[n] = Cardinality(Starts(h))
           ELSE /\ n \in DOMAIN ids2 <=> n \in DOMAIN ids
                /\ n \in DOMAIN ids => ids2[n] = ids[n]
  PROVE  CounterIds(h2, ids2)
<1>1. /\ Len(h) \in Nat /\ Starts(h) \in SUBSET (1 .. Len(h))
      /\ \A i \in 1 .. Len(h) + 1 : IdOf(h2, i) = IdOf(h, i)
      /\ IdOf(h, Len(h) + 1) = Cardinality(Starts(h))
      /\ \A i \in 1 .. Len(h) : i \in 1 .. Len(h) + 1
      /\ Len(h) + 1 \in 1 .. Len(h) + 1
  BY StartsGrow DEF Grown
<1>2. ASSUME NEW n \in CounterNames
      PROVE  IF n \in DOMAIN ids2
             THEN \E s \in CounterTraces(h2, n) :
                    CounterTraces(h2, n) = {s} /\ ids2[n] = IdOf(h2, s)
             ELSE CounterTraces(h2, n) = {}
  <2>1. /\ CounterTraces(h2, n) = IF e.kind = "counter" /\ e.at = n /\ e.of = n
                                  THEN CounterTraces(h, n) \cup {Len(h) + 1}
                                  ELSE CounterTraces(h, n)
    BY NewestGrow
  <2>2. CounterTraces(h, n) \in SUBSET Starts(h)
    BY DEF CounterTraces
  <2> QED
    BY <1>1, <2>1, <2>2 DEF CounterIds
<1> QED
  BY <1>2 DEF CounterIds

(* The triggers that wait, when nothing was read.                          *)
LEMMA WriteTriggersGrow ==
  ASSUME NEW h, NEW h2, NEW e, Grown(h, h2, e), NEW lists, NEW lists2,
         WriteTriggers(h, lists), e.kind # "read",
         \A w \in Modules, p \in Packets :
           lists2[w][p] = IF e.kind = "write" /\ e.at = w /\ e.of = p
                          THEN <<>> ELSE lists[w][p]
  PROVE  WriteTriggers(h2, lists2)
<1> SUFFICES ASSUME NEW w \in Modules, NEW p \in Packets
             PROVE  Lists(lists2[w][p], Pending(h2, w, p), h2)
  BY DEF WriteTriggers
<1>1. \A d : d \in Pending(h2, w, p) <=>
               /\ d \in Pending(h, w, p)
               /\ ~(e.kind = "write" /\ e.at = w /\ e.of = p)
  BY PendingGrow
<1>2. CASE e.kind = "write" /\ e.at = w /\ e.of = p
  <2>1. lists2[w][p] = <<>> /\ Pending(h2, w, p) = {}
    BY <1>1, <1>2
  <2>2. Cardinality({}) = 0 /\ Len(<<>>) = 0
    BY FS_EmptySet, EmptySeq
  <2> QED
    BY <2>1, <2>2 DEF Lists
<1>3. CASE ~(e.kind = "write" /\ e.at = w /\ e.of = p)
  <2>1. lists2[w][p] = lists[w][p] /\ Pending(h2, w, p) = Pending(h, w, p)
    BY <1>1, <1>3
  <2>2. Lists(lists[w][p], Pending(h, w, p), h)
    BY DEF WriteTriggers
  <2> QED
    BY <2>1, <2>2, ListsKept
<1> QED
  BY <1>2, <1>3

(* The reads that wait after k rounds of the loop over the traces from m   *)
After(h, m, p, w, q, k) ==
  {d \in (1 .. Len(h) + 1) \X Starts(h) :
     \/ d[1] # Len(h) + 1 /\ d \in Pending(h, w, q)
     \/ /\ d[1] = Len(h) + 1 /\ q = p
        /\ d[2] \in LatencyStarts(h, m) /\ h[d[2]].of = w
        /\ Place(d[2], LatencyStarts(h, m)) <= k}

LEMMA AfterNone ==
  ASSUME NEW h, Len(h) \in Nat, DOMAIN h = 1 .. Len(h), NEW m, NEW p, NEW w, NEW q
  PROVE  After(h, m, p, w, q, 0) = Pending(h, w, q)
<1> DEFINE n == Len(h)
           R == LatencyStarts(h, m)
<1>1. Starts(h) \in SUBSET (1 .. n) /\ R \in SUBSET (1 .. n)
  BY DEF Starts, LatencyStarts
<1>2. \A s \in R : Place(s, R) \in 1 .. Cardinality(R)
  BY <1>1, Places
<1>3. Cardinality(R) \in Nat
  BY <1>1, Places
<1> HIDE DEF R
<1>4. \A s \in R : ~(Place(s, R) <= 0)
  BY <1>2, <1>3
<1>5. Pending(h, w, q) \in SUBSET ((1 .. n) \X Starts(h))
  BY DEF Pending
<1>6. \A i \in 1 .. n : i # n + 1 /\ i \in 1 .. n + 1
  OBVIOUS
<1>7. \A i \in 1 .. n + 1 : i = n + 1 \/ i \in 1 .. n
  OBVIOUS
<1> HIDE DEF n
<1>8. After(h, m, p, w, q, 0) =
        {d \in (1 .. n + 1) \X Starts(h) :
           \/ d[1] # n + 1 /\ d \in Pending(h, w, q)
           \/ /\ d[1] = n + 1 /\ q = p /\ d[2] \in R /\ h[d[2]].of = w
              /\ Place(d[2], R) <= 0}
  BY DEF After, n, R
<1> QED
  BY <1>4, <1>5, <1>6, <1>8

LEMMA AfterAll ==
  ASSUME NEW h, NEW h2, NEW e, Grown(h, h2, e), e.kind = "read", NEW w, NEW q
  PROVE  After(h, e.at, e.of, w, q, Cardinality(LatencyStarts(h, e.at))) =
           Pending(h2, w, q)
<1> DEFINE n == Len(h)
           R == LatencyStarts(h, e.at)
<1>1. /\ n \in Nat /\ Starts(h) \in SUBSET (1 .. n) /\ R \in SUBSET (1 .. n)
  BY StartsGrow, LatencyStartsGrow DEF Grown
<1>2. \A s \in R : Place(s, R) \in 1 .. Cardinality(R)
  BY <1>1, Places
<1>3. Cardinality(R) \in Nat
  BY <1>1, Places
<1>4. \A s : s \in R <=> s \in Starts(h) /\ h[s].kind = "latency" /\ h[s].at = e.at
  BY DEF LatencyStarts
<1>5. Pending(h, w, q) \in SUBSET ((1 .. n) \X Starts(h))
  BY DEF Pending
<1>6. /\ \A i \in 1 .. n : i # n + 1 /\ i \in 1 .. n + 1
      /\ n + 1 \in 1 .. n + 1
  BY <1>1
<1>7. \A d : d \in Pending(h2, w, q) <=>
               \/ d \in Pending(h, w, q)
               \/ /\ e.of = q
                  /\ \E s \in Starts(h) : /\ d = <<n + 1, s>>
                                          /\ Is(h, s, "latency", e.at, w)
  BY PendingGrow
<1>8. \A d : d \in After(h, e.at, e.of, w, q, Cardinality(R)) <=>
        /\ d \in (1 .. n + 1) \X Starts(h)
        /\ \/ d[1] # n + 1 /\ d \in Pending(h, w, q)
           \/ /\ d[1] = n + 1 /\ q = e.of /\ d[2] \in R /\ h[d[2]].of = w
              /\ Place(d[2], R) <= Cardinality(R)
  BY DEF After
<1> HIDE DEF n, R
<1>9. \A s \in R : Place(s, R) <= Cardinality(R)
  BY <1>2, <1>3
<1>10. \A d : d \in Pending(h2, w, q) => d \in After(h, e.at, e.of, w, q, Cardinality(R))
  BY <1>4, <1>5, <1>6, <1>7, <1>8, <1>9 DEF Is
<1>11. \A d : d \in After(h, e.at, e.of, w, q, Cardinality(R)) => d \in Pending(h2, w, q)
  BY <1>4, <1>5, <1>6, <1>7, <1>8 DEF Is
<1> QED
  BY <1>10, <1>11 DEF R

(* Round k + 1 adds the trace at place k + 1, where it ends, as the last.  *)
OneMore(h, m, p, s, w, q, k) ==
  LET x == <<Len(h) + 1, s>>
      S == After(h, m, p, w, q, k)
  IN  /\ h[s].of = w /\ q = p => /\ After(h, m, p, w, q, k + 1) = S \cup {x}
                                 /\ x \notin S
                                 /\ \A d \in S : Earlier(d, x) /\ ~Earlier(x, d)
      /\ ~(h[s].of = w /\ q = p) => After(h, m, p, w, q, k + 1) = S

LEMMA AfterOneMore ==
  ASSUME NEW h, Len(h) \in Nat, DOMAIN h = 1 .. Len(h), NEW m, NEW p,
         NEW s \in LatencyStarts(h, m), NEW k \in Nat,
         Place(s, LatencyStarts(h, m)) = k + 1, NEW w, NEW q
  PROVE  OneMore(h, m, p, s, w, q, k)
<1> DEFINE n == Len(h)
           R == LatencyStarts(h, m)
<1>1. n \in Nat /\ Starts(h) \in SUBSET (1 .. n) /\ R \in SUBSET (1 .. n)
  BY DEF Starts, LatencyStarts
<1>2. R \in SUBSET Starts(h)
  BY DEF LatencyStarts
<1>3. /\ \A r \in R : Place(r, R) \in 1 .. Cardinality(R)
      /\ \A x, y \in R : x < y => Place(x, R) < Place(y, R)
  BY <1>1, Places
<1>4. Cardinality(R) \in Nat
  BY <1>1, Places
<1>5. \A j, d : d \in After(h, m, p, w, q, j) <=>
        /\ d \in (1 .. n + 1) \X Starts(h)
        /\ \/ d[1] # n + 1 /\ d \in Pending(h, w, q)
           \/ /\ d[1] = n + 1 /\ q = p /\ d[2] \in R /\ h[d[2]].of = w
              /\ Place(d[2], R) <= j
  BY DEF After
<1>6. s \in R /\ Place(s, R) = k + 1
  OBVIOUS
<1> HIDE DEF n, R
<1>7. ASSUME NEW r \in R PROVE /\ Place(r, R) <= k <=> r < s
                               /\ Place(r, R) <= k + 1 <=> r < s \/ r = s
  <2>1. r \in Nat /\ s \in Nat /\ Place(r, R) \in Nat
    BY <1>1, <1>3, <1>6
  <2>2. r < s => Place(r, R) < k + 1
    BY <1>3, <1>6
  <2>3. s < r => k + 1 < Place(r, R)
    BY <1>3, <1>6
  <2>4. r < s \/ s < r \/ r = s
    BY <2>1
  <2> QED
    BY <1>6, <2>1, <2>2, <2>3, <2>4
<1>8. n + 1 \in 1 .. n + 1 /\ s \in Starts(h)
  BY <1>1, <1>2, <1>6
<1>9. CASE h[s].of = w /\ q = p
  <2>1. \A d : d \in After(h, m, p, w, q, k + 1) <=>
                 d \in After(h, m, p, w, q, k) \/ d = <<n + 1, s>>
    BY <1>5, <1>6, <1>7, <1>8, <1>9
  <2>4. After(h, m, p, w, q, k + 1) = After(h, m, p, w, q, k) \cup {<<n + 1, s>>}
    BY <2>1
  <2>2. <<n + 1, s>> \notin After(h, m, p, w, q, k)
    <3>1. s \in Nat /\ ~(s < s)
      BY <1>1, <1>6
    <3> QED
      BY <1>5, <1>6, <1>7, <3>1
  <2>3. ASSUME NEW d \in After(h, m, p, w, q, k)
        PROVE  Earlier(d, <<n + 1, s>>) /\ ~Earlier(<<n + 1, s>>, d)
    <3>1. d[1] \in 1 .. n + 1 /\ d[2] \in 1 .. n /\ s \in 1 .. n
      BY <1>1, <1>5, <1>6
    <3>2. d[1] = n + 1 => d[2] < s
      BY <1>5, <1>7
    <3> QED
      BY <1>1, <3>1, <3>2 DEF Earlier
  <2> QED
    BY <1>9, <2>2, <2>3, <2>4 DEF OneMore, n
<1>10. CASE ~(h[s].of = w /\ q = p)
  <2>1. \A d : d \in After(h, m, p, w, q, k + 1) <=> d \in After(h, m, p, w, q, k)
    BY <1>5, <1>6, <1>7, <1>10
  <2>2. After(h, m, p, w, q, k + 1) = After(h, m, p, w, q, k)
    BY <2>1
  <2> QED
    BY <1>10, <2>2 DEF OneMore
<1> QED
  BY <1>9, <1>10

(* trace started at s, and t is when the last entry of h2 was made         *)
IsRound(trace, t, h, h2, s) ==
  /\ trace = [trace_id |-> IdOf(h, s), write_module_name |-> h[s].of]
  /\ t = h2[Len(h) + 1].time

(* One round of the loop, with the trace that started at s.                *)
LEMMA Round ==
  ASSUME NEW h, NEW h2, NEW e, Grown(h, h2, e), NEW m, NEW p \in Packets,
         NEW s \in LatencyStarts(h, m), NEW k \in Nat,
         Place(s, LatencyStarts(h, m)) = k + 1,
         NEW T, NEW g \in [Modules -> [Packets -> Seq(T)]], NEW trace,
         NEW t, IsRound(trace, t, h, h2, s),
         trace.write_module_name \in Modules,
         [trace_id |-> trace.trace_id, read_time |-> t] \in T,
         \A w \in Modules, q \in Packets :
           Lists(g[w][q], After(h, m, p, w, q, k), h2)
  PROVE  \A w \in Modules, q \in Packets :
           Lists(Trigger(g, trace, p, t)[w][q], After(h, m, p, w, q, k + 1), h2)
<1> DEFINE n == Len(h)
           item == [trace_id |-> trace.trace_id, read_time |-> t]
           x == <<n + 1, s>>
<1>0. n \in Nat /\ DOMAIN h = 1 .. n /\ h2[n + 1] = e
  BY DEF Grown
<1>1. /\ n \in Nat /\ DOMAIN h = 1 .. n /\ n + 1 \in Nat
      /\ h2[n + 1] = e /\ LatencyStarts(h, m) \in SUBSET (1 .. n)
      /\ Starts(h) \in SUBSET (1 .. n) /\ 1 .. n \in SUBSET (1 .. n + 1)
  <2>1. n + 1 \in Nat /\ 1 .. n \in SUBSET (1 .. n + 1)
    BY <1>0
  <2> QED
    BY <1>0, <2>1, LatencyStartsGrow, StartsGrow
<1>2. /\ Trigger(g, trace, p, t)[trace.write_module_name][p] =
           Append(g[trace.write_module_name][p],
                  [trace_id |-> trace.trace_id, read_time |-> t])
      /\ \A w \in Modules, q \in Packets :
           ~(w = trace.write_module_name /\ q = p) =>
             Trigger(g, trace, p, t)[w][q] = g[w][q]
  BY TriggerAt
<1>3. IdOf(h2, s) = IdOf(h, s)
  <2>1. s \in 1 .. n + 1
    BY <1>1
  <2> QED
    BY <2>1, StartsGrow
<1>4. item = [trace_id |-> IdOf(h2, x[2]), read_time |-> h2[x[1]].time]
  BY <1>1, <1>3 DEF IsRound
<1>5. trace.write_module_name = h[s].of /\ item \in T /\ x \in Nat \X Nat
  BY <1>1 DEF IsRound
<1> SUFFICES ASSUME NEW w \in Modules, NEW q \in Packets
             PROVE  Lists(Trigger(g, trace, p, t)[w][q],
                          After(h, m, p, w, q, k + 1), h2)
  OBVIOUS
<1> DEFINE S == After(h, m, p, w, q, k)
           S2 == After(h, m, p, w, q, k + 1)
           list == g[w][q]
           list2 == Trigger(g, trace, p, t)[w][q]
<1>6. list2 = IF w = h[s].of /\ q = p THEN Append(list, item) ELSE list
  BY <1>2, <1>5
<1>7. /\ h[s].of = w /\ q = p =>
           /\ S2 = S \cup {x} /\ x \notin S
           /\ \A d \in S : Earlier(d, x) /\ ~Earlier(x, d)
      /\ ~(h[s].of = w /\ q = p) => S2 = S
  <2>1. Len(h) \in Nat /\ DOMAIN h = 1 .. Len(h)
    BY <1>1
  <2>2. OneMore(h, m, p, s, w, q, k)
    BY <2>1, AfterOneMore
  <2> QED
    BY <2>2 DEF OneMore
<1>8. Lists(list, S, h2) /\ list \in Seq(T)
  OBVIOUS
<1>9. S \in SUBSET ((1 .. n + 1) \X (1 .. n + 1))
  BY <1>1 DEF After
<1> HIDE DEF n, item, x, S, S2, list, list2
<1>10. CASE h[s].of = w /\ q = p
  <2>1. /\ S2 = S \cup {x} /\ x \notin S /\ list2 = Append(list, item)
        /\ \A d \in S : Earlier(d, x) /\ ~Earlier(x, d)
    BY <1>6, <1>7, <1>10
  <2>2. Lists(Append(list, item), S \cup {x}, h2)
    BY <1>1, <1>4, <1>5, <1>8, <1>9, <2>1, ListsAppended
  <2> QED
    BY <2>1, <2>2 DEF S2, list2
<1>11. CASE ~(h[s].of = w /\ q = p)
  BY <1>6, <1>7, <1>8, <1>11 DEF S2, list2
<1> QED
  BY <1>10, <1>11

(* The loop turns the triggers that wait before a read into those that     *)
(* wait after it.                                                          *)
LEMMA LoopRight ==
  ASSUME NEW h, NEW h2, NEW e, Grown(h, h2, e), e.kind = "read",
         NEW m, m = e.at, NEW p \in Packets, p = e.of, NEW t, t = e.time,
         NEW T, NEW list, NEW lists, NEW f, StartList(list, m, h),
         WriteTriggers(h, lists), Rounds(f, list, lists, p, t),
         RoundTypes(f, list, t, T)
  PROVE  WriteTriggers(h2, f[Len(list)])
<1> DEFINE n == Len(h)
           R == LatencyStarts(h, m)
           N == Cardinality(R)
           Right(k) == \A w \in Modules, q \in Packets :
                         Lists(f[k][w][q], After(h, m, p, w, q, k), h2)
           done == {k \in 0 .. N : Right(k)}
<1>1. /\ n \in Nat /\ DOMAIN h = 1 .. n /\ R \in SUBSET (1 .. n)
  BY LatencyStartsGrow DEF Grown
<1>2. /\ N \in Nat /\ Len(list) = N
      /\ \A k \in 1 .. N : \E s \in R : Place(s, R) = k
  BY <1>1, Places DEF StartList
<1>3. 0 \in done
  <2>1. ASSUME NEW w \in Modules, NEW q \in Packets
        PROVE  Lists(f[0][w][q], After(h, m, p, w, q, 0), h2)
    <3>1. After(h, m, p, w, q, 0) = Pending(h, w, q)
      BY <1>1, AfterNone
    <3>2. Lists(lists[w][q], Pending(h, w, q), h)
      BY DEF WriteTriggers
    <3> QED
      BY <3>1, <3>2, ListsKept DEF Rounds
  <2> QED
    BY <1>2, <2>1
<1>4. ASSUME NEW k \in 0 .. N, k # N, k \in done PROVE k + 1 \in done
  <2>1. k + 1 \in 1 .. N /\ (k + 1) - 1 = k /\ k + 1 \in 0 .. N /\ k \in Nat
    BY <1>2, <1>4
  <2>2. PICK s \in R : Place(s, R) = k + 1
    BY <1>2, <2>1
  <2>3. PICK trace : trace = list[k + 1]
    OBVIOUS
  <2>4. PICK g : g = f[k]
    OBVIOUS
  <2>5. IsRound(trace, t, h, h2, s)
    BY <2>2, <2>3 DEF IsRound, Grown, StartList
  <2>6. /\ trace.write_module_name \in Modules
        /\ [trace_id |-> trace.trace_id, read_time |-> t] \in T
        /\ f[k + 1] = Trigger(g, trace, p, t)
        /\ g \in [Modules -> [Packets -> Seq(T)]]
    BY <1>2, <2>1, <2>3, <2>4 DEF Rounds, RoundTypes
  <2>7. \A w \in Modules, q \in Packets :
          Lists(g[w][q], After(h, m, p, w, q, k), h2)
    BY <1>4, <2>4
  <2>8. \A w \in Modules, q \in Packets :
          Lists(Trigger(g, trace, p, t)[w][q], After(h, m, p, w, q, k + 1), h2)
    BY <2>1, <2>2, <2>5, <2>6, <2>7, Round
  <2> QED
    BY <2>1, <2>6, <2>8
<1>5. Right(N)
  <2> HIDE DEF done, N
  <2>1. \A k \in 0 .. N : k \in done
    BY <1>2, <1>3, <1>4, CountUp
  <2>2. N \in done
    BY <1>2, <2>1
  <2> QED
    BY <2>2 DEF done
<1>6. \A w, q : After(h, m, p, w, q, N) = Pending(h2, w, q)
  BY AfterAll
<1> QED
  BY <1>2, <1>5, <1>6 DEF WriteTriggers
-----------------------------------------------------------------------------
(* What is published is what the history calls for. *)

LEMMA TriggeredRight ==
  ASSUME PacketTypes, History, NEW m \in Modules, NEW p \in Packets,
         NEW t \in Times, simulation_time <= t, NEW h2, NEW e,
         Grown(log, h2, e), e.kind = "read", e.at = m, e.of = p, e.time = t
  PROVE  WriteTriggers(h2, Triggered(m, p, t))
<1> DEFINE list == latency_read_triggers[m]
<1>1. list \in Seq(ReadTrigger) /\ Len(list) \in Nat /\ DOMAIN list = 1 .. Len(list)
  BY LenProperties DEF PacketTypes
<1>2. StartList(list, m, log)
  BY DEF History, ReadTriggers
<1>3. WriteTriggers(log, latency_write_triggers)
  BY DEF History
<1>4. PICK f : /\ Rounds(f, list, latency_write_triggers, p, t)
               /\ f[Len(list)] = Triggered(m, p, t)
  BY <1>1, LoopResult
<1>5. RoundTypes(f, list, t, UpTo(t))
  BY <1>4, LoopTypes
<1> HIDE DEF list
<1>6. WriteTriggers(h2, f[Len(list)])
  BY <1>2, <1>3, <1>4, <1>5, LoopRight
<1> QED
  BY <1>4, <1>6

LEMMA NothingPublished ==
  ASSUME NEW h, NEW h2, NEW e, Grown(h, h2, e),
         e.kind \notin {"write", "updated"}
  PROVE  Published(h2, <<>>)
<1>1. /\ Len(h2) = Len(h) + 1 /\ h2[Len(h2)] = e
  BY DEF Grown
<1>2. /\ Latencies(h2, Len(h2)) = {} /\ Throughputs(h2, Len(h2)) = <<>>
      /\ CounterUpdates(h2, Len(h2)) = <<>>
  BY <1>1 DEF Latencies, Throughputs, CounterUpdates
<1>3. <<>> \o <<>> = <<>> /\ Len(<<>>) = 0 /\ DOMAIN <<>> = {}
  OBVIOUS
<1>4. Cardinality({}) = 0
  BY FS_EmptySet
<1> QED
  BY <1>2, <1>3, <1>4 DEF Published

(* A rate is due when the history has a write after the newest trace.      *)
LEMMA ThroughputsRight ==
  ASSUME PacketTypes, History, NEW m \in Modules, NEW t, NEW h2, NEW e,
         Grown(log, h2, e), e.kind = "write", e.at = m, e.time = t
  PROVE  Throughputs(h2, Len(log) + 1) = ThroughputUpdates(m, t)
<1> DEFINE n == Len(log)
           s == Newest(log, m)
           j == WriteBefore(log, m, n + 1)
<1>1. /\ n \in Nat /\ h2[n + 1] = e /\ \A i \in 1 .. n : h2[i] = log[i]
      /\ \A i \in 1 .. n : i \in 1 .. n + 1
      /\ \A i \in 1 .. n + 1 : IdOf(h2, i) = IdOf(log, i)
      /\ Starts(log) \in SUBSET (1 .. n)
  BY StartsGrow DEF Grown
<1>2. Newest(h2, m) = s /\ s \in Starts(log) \cup {0}
  BY NewestGrow
<1>3. WriteBefore(h2, m, n + 1) = j /\ j \in 0 .. n
  BY WriteBeforeGrow
<1>4. IF s = 0 THEN m \notin DOMAIN throughput_triggers
      ELSE /\ m \in DOMAIN throughput_triggers
           /\ throughput_triggers[m].trace_id = IdOf(log, s)
           /\ throughput_triggers[m].last_time =
                IF s < j THEN log[j].time ELSE Never
  BY DEF History, RateTriggers
<1>5. \A i \in 1 .. n : log[i].time # Never
  <2>1. \A i \in 1 .. n : log[i] \in Event
    BY ElementOfSeq DEF PacketTypes
  <2> QED
    BY <2>1, PacketTracesAssumption DEF Event, Times
<1>6. Throughputs(h2, n + 1) =
        IF 0 < s /\ s < j
        THEN <<updateTrace(IdOf(h2, s), Rate(t - h2[j].time), t)>> ELSE <<>>
  BY <1>1, <1>2, <1>3 DEF Throughputs
<1> HIDE DEF n, s, j
<1>7. s \in Nat /\ j \in Nat
  BY <1>1, <1>2, <1>3
<1>8. CASE 0 < s /\ s < j
  <2>1. s # 0 /\ s \in 1 .. n /\ j \in 1 .. n
    BY <1>1, <1>2, <1>3, <1>7, <1>8
  <2>2. /\ m \in DOMAIN throughput_triggers
        /\ throughput_triggers[m].trace_id = IdOf(h2, s)
        /\ throughput_triggers[m].last_time = h2[j].time
        /\ throughput_triggers[m].last_time # Never
    BY <1>1, <1>4, <1>5, <1>8, <2>1
  <2> QED
    BY <1>6, <1>8, <2>2 DEF ThroughputUpdates, n
<1>9. CASE ~(0 < s /\ s < j)
  <2>1. s = 0 \/ (s # 0 /\ ~(s < j))
    BY <1>7, <1>9
  <2>2. ~(/\ m \in DOMAIN throughput_triggers
          /\ throughput_triggers[m].last_time # Never)
    BY <1>4, <2>1
  <2>3. ThroughputUpdates(m, t) = <<>>
    BY <2>2 DEF ThroughputUpdates
  <2> QED
    BY <1>6, <1>9, <2>3 DEF n
<1> QED
  BY <1>8, <1>9

(* A write publishes the latencies it completes, then a rate.              *)
LEMMA WritePublished ==
  ASSUME PacketTypes, History, NEW m \in Modules, NEW p \in Packets,
         NEW t \in Times, simulation_time <= t, NEW h2, NEW e,
         Grown(log, h2, e), e.kind = "write", e.at = m, e.of = p, e.time = t
  PROVE  Published(h2, LatencyUpdates(m, p, t) \o ThroughputUpdates(m, t))
<1> DEFINE n == Len(log)
           S == Pending(log, m, p)
           due == latency_write_triggers[m][p]
           late == LatencyUpdates(m, p, t)
           rate == ThroughputUpdates(m, t)
<1>1. /\ n \in Nat /\ Len(h2) = n + 1 /\ h2[n + 1] = e
      /\ \A i \in 1 .. n : h2[i] = log[i]
      /\ \A i \in 1 .. n : i \in 1 .. n + 1
      /\ \A i \in 1 .. n + 1 : IdOf(h2, i) = IdOf(log, i)
  BY StartsGrow DEF Grown
<1>2. Latencies(h2, n + 1) = S
  BY <1>1, PendingMeasured DEF Latencies
<1>3. Throughputs(h2, n + 1) = rate
  BY ThroughputsRight
<1>4. CounterUpdates(h2, n + 1) = <<>>
  BY <1>1 DEF CounterUpdates
<1>5. late \in Seq(Update) /\ rate \in Seq(Update)
  BY UpdatesTyped
<1>6. Lists(due, S, log) /\ due \in Seq(WriteTrigger)
  BY DEF History, WriteTriggers, PacketTypes
<1>7. /\ Cardinality(S) \in Nat
      /\ \A d \in S : /\ PairPlace(d, S) \in 1 .. Cardinality(S)
                      /\ d[1] \in 1 .. n /\ d[2] \in 1 .. n
  <2>1. S \in SUBSET ((1 .. n) \X (1 .. n))
    BY PendingGrow
  <2>2. /\ Cardinality(S) \in Nat
        /\ \A d \in S : PairPlace(d, S) \in 1 .. Cardinality(S)
    BY <1>1, <2>1, PairPlaces
  <2>3. \A d \in S : d[1] \in 1 .. n /\ d[2] \in 1 .. n
    BY <2>1
  <2> QED
    BY <2>2, <2>3
<1> HIDE DEF n, S, rate
<1>8. /\ Len(late) = Cardinality(S)
      /\ \A k \in 1 .. Cardinality(S) :
           late[k] = updateTrace(due[k].trace_id, t - due[k].read_time, t)
  <2>1. Len(due) = Cardinality(S) /\ DOMAIN due = 1 .. Cardinality(S)
    BY <1>6, LenProperties DEF Lists
  <2>2. late = [i \in 1 .. Cardinality(S) |->
                 updateTrace(due[i].trace_id, t - due[i].read_time, t)]
    BY <2>1 DEF LatencyUpdates
  <2> HIDE DEF late
  <2>3. DOMAIN late = 1 .. Cardinality(S) /\ DOMAIN late = 1 .. Len(late)
        /\ Len(late) \in Nat
    BY <1>5, <2>2, LenProperties
  <2>4. Len(late) = Cardinality(S)
    BY <1>7, <2>3
  <2> QED
    BY <2>2, <2>4
<1>9. ASSUME NEW d \in S PROVE late[PairPlace(d, S)] = Latency(h2, n + 1, d)
  <2>1. due[PairPlace(d, S)] =
          [trace_id |-> IdOf(log, d[2]), read_time |-> log[d[1]].time]
    BY <1>6 DEF Lists
  <2>2. /\ IdOf(h2, d[2]) = IdOf(log, d[2]) /\ h2[d[1]] = log[d[1]]
        /\ PairPlace(d, S) \in 1 .. Cardinality(S)
    BY <1>1, <1>7
  <2> HIDE DEF late, due
  <2>3. late[PairPlace(d, S)] =
          updateTrace(IdOf(h2, d[2]), t - h2[d[1]].time, t)
    BY <1>8, <2>1, <2>2
  <2> QED
    BY <1>1, <2>3 DEF Latency
<1> HIDE DEF late
<1>10. /\ Len(late \o rate) = Len(late) + Len(rate)
       /\ \A i \in 1 .. Len(late) + Len(rate) :
            (late \o rate)[i] = IF i <= Len(late) THEN late[i]
                                ELSE rate[i - Len(late)]
       /\ Len(late) \in Nat /\ Len(rate) \in Nat /\ DOMAIN rate = 1 .. Len(rate)
  <2>1. Len(late) \in Nat /\ Len(rate) \in Nat /\ DOMAIN rate = 1 .. Len(rate)
    BY <1>5, LenProperties
  <2> QED
    BY <1>5, <2>1, ConcatProperties
<1>11. rate \o <<>> = rate
  BY <1>5, ConcatEmptySeq
<1>12. \A d \in S : (late \o rate)[PairPlace(d, S)] = Latency(h2, n + 1, d)
  <2>1. ASSUME NEW d \in S
        PROVE  (late \o rate)[PairPlace(d, S)] = late[PairPlace(d, S)]
    <3>1. /\ PairPlace(d, S) \in 1 .. Len(late) + Len(rate)
          /\ PairPlace(d, S) <= Len(late)
      BY <1>7, <1>8, <1>10
    <3> QED
      BY <1>10, <3>1
  <2> QED
    BY <1>9, <2>1
<1>13. \A k \in DOMAIN rate : (late \o rate)[Cardinality(S) + k] = rate[k]
  <2>1. ASSUME NEW k \in 1 .. Len(rate)
        PROVE  (late \o rate)[Cardinality(S) + k] = rate[k]
    <3>1. /\ Cardinality(S) + k \in 1 .. Len(late) + Len(rate)
          /\ ~(Cardinality(S) + k <= Len(late))
          /\ (Cardinality(S) + k) - Len(late) = k
      BY <1>7, <1>8, <1>10
    <3> QED
      BY <1>10, <3>1
  <2> QED
    BY <1>10, <2>1
<1>14. /\ Latencies(h2, Len(h2)) = S
       /\ Throughputs(h2, Len(h2)) \o CounterUpdates(h2, Len(h2)) = rate
  BY <1>1, <1>2, <1>3, <1>4, <1>11
<1>15. Len(h2) = n + 1 /\ Len(late \o rate) = Cardinality(S) + Len(rate)
  BY <1>1, <1>8, <1>10
<1>16. PICK u : u = late \o rate
  OBVIOUS
<1>17. /\ Len(u) = Cardinality(S) + Len(rate)
       /\ \A d \in S : u[PairPlace(d, S)] = Latency(h2, Len(h2), d)
       /\ \A k \in DOMAIN rate : u[Cardinality(S) + k] = rate[k]
  BY <1>12, <1>13, <1>15, <1>16
<1>18. Published(h2, u)
  BY <1>14, <1>17 DEF Published
<1> QED
  BY <1>16, <1>18 DEF late, rate

(* An update of a counter publishes its value, when it is traced.          *)
LEMMA UpdatePublished ==
  ASSUME PacketTypes, History, NEW n \in CounterNames, NEW v, NEW h2, NEW e,
         Grown(log, h2, e), e.kind = "updated", e.at = n, e.of = v
  PROVE  Published(h2, IF n \in DOMAIN counter_traces
                       THEN <<updateTrace(counter_traces[n], v, simulation_time)>>
                       ELSE <<>>)
<1>1. /\ Len(log) \in Nat /\ Len(h2) = Len(log) + 1 /\ h2[Len(log) + 1] = e
      /\ (Len(log) + 1) - 1 = Len(log)
      /\ \A i \in 1 .. Len(log) : h2[i] = log[i] /\ i \in 1 .. Len(log) + 1
      /\ \A i \in 1 .. Len(log) + 1 : IdOf(h2, i) = IdOf(log, i)
      /\ Starts(log) \in SUBSET (1 .. Len(log))
  BY StartsGrow DEF Grown
<1>2. CounterTraces(h2, n) = CounterTraces(log, n)
  BY NewestGrow
<1>3. CounterTraces(log, n) \in SUBSET (1 .. Len(log))
  BY <1>1 DEF CounterTraces
<1>4. /\ Latencies(h2, Len(log) + 1) = {} /\ Throughputs(h2, Len(log) + 1) = <<>>
  BY <1>1 DEF Latencies, Throughputs
<1>5. Cardinality({}) = 0
  BY FS_EmptySet
<1>6. \A a : <<>> \o <<a>> = <<a>>
  <2>1. ASSUME NEW a PROVE <<>> \o <<a>> = <<a>>
    <3>1. <<a>> \in Seq({a})
      OBVIOUS
    <3> QED
      BY <3>1, ConcatEmptySeq, Zenon
  <2> QED
    BY <2>1
<1>7. CASE n \in DOMAIN counter_traces
  <2>1. PICK s \in CounterTraces(log, n) :
          CounterTraces(log, n) = {s} /\ counter_traces[n] = IdOf(log, s)
    BY <1>7 DEF History, CounterIds
  <2>2. s \in 1 .. Len(log) /\ IdOf(h2, s) = IdOf(log, s)
    BY <1>1, <1>3
  <2>3. Max({s}) = s
    BY <2>2 DEF Max
  <2>4. simulation_time = h2[Len(log)].time
    <3>1. Len(log) # 0 /\ Len(log) \in 1 .. Len(log)
      BY <1>1, <2>2
    <3> QED
      BY <1>1, <3>1 DEF History, TimeNow
  <2> DEFINE one == updateTrace(counter_traces[n], v, simulation_time)
  <2>5. CounterUpdates(h2, Len(log) + 1) = <<one>>
    BY <1>1, <1>2, <2>1, <2>2, <2>3, <2>4 DEF CounterUpdates
  <2> HIDE DEF one
  <2>6. /\ Len(<<one>>) = 1 /\ DOMAIN <<one>> = {1} /\ 0 + 1 = 1
    OBVIOUS
  <2>7. <<>> \o <<one>> = <<one>>
    BY <1>6
  <2>8. /\ Latencies(h2, Len(h2)) = {}
        /\ Throughputs(h2, Len(h2)) \o CounterUpdates(h2, Len(h2)) = <<one>>
    BY <1>1, <1>4, <2>5, <2>7
  <2>9. Published(h2, <<one>>)
    BY <1>5, <2>6, <2>8 DEF Published
  <2> QED
    BY <1>7, <2>9 DEF one
<1>8. CASE n \notin DOMAIN counter_traces
  <2>1. CounterTraces(h2, n) = {}
    BY <1>2, <1>8 DEF History, CounterIds
  <2>2. CounterUpdates(h2, Len(log) + 1) = <<>>
    BY <1>1, <2>1 DEF CounterUpdates
  <2>3. <<>> \o <<>> = <<>> /\ Len(<<>>) = 0 /\ DOMAIN <<>> = {}
    OBVIOUS
  <2>4. /\ Latencies(h2, Len(h2)) = {} /\ Throughputs(h2, Len(h2)) = <<>>
        /\ CounterUpdates(h2, Len(h2)) = <<>>
    BY <1>1, <1>4, <2>2
  <2>5. Published(h2, <<>>)
    BY <1>5, <2>3, <2>4 DEF Published
  <2> QED
    BY <1>8, <2>5
<1> QED
  BY <1>7, <1>8
-----------------------------------------------------------------------------
(* Every step keeps the history right. *)

(* What an entry of the history is not about stays right, and the ids go   *)
(* on with each trace started.                                             *)
LEMMA Uninvolved ==
  ASSUME NEW h, NEW h2, NEW e, Grown(h, h2, e)
  PROVE  /\ TimeNow(h2) = e.time
         /\ Cardinality(Starts(h2)) = IF e.kind \in StartKinds
                                      THEN Cardinality(Starts(h)) + 1
                                      ELSE Cardinality(Starts(h))
         /\ \A T : \A lists \in [Modules -> Seq(T)] :
              e.kind # "latency" /\ ReadTriggers(h, lists) =>
                ReadTriggers(h2, lists)
         /\ \A lists : e.kind \notin {"read", "write"} /\ WriteTriggers(h, lists)
                         => WriteTriggers(h2, lists)
         /\ \A rates : e.kind \notin {"throughput", "write"} /\ RateTriggers(h, rates)
                         => RateTriggers(h2, rates)
         /\ \A ids : e.kind # "counter" /\ CounterIds(h, ids) => CounterIds(h2, ids)
<1>1. TimeNow(h2) = e.time
  BY DEF Grown, TimeNow
<1>2. Cardinality(Starts(h2)) = IF e.kind \in StartKinds
                                THEN Cardinality(Starts(h)) + 1
                                ELSE Cardinality(Starts(h))
  <2>1. /\ Starts(h) \in SUBSET (1 .. Len(h)) /\ Len(h) \in Nat
        /\ Starts(h2) = IF e.kind \in StartKinds
                        THEN Starts(h) \cup {Len(h) + 1} ELSE Starts(h)
    BY StartsGrow DEF Grown
  <2>2. IsFiniteSet(Starts(h)) /\ Len(h) + 1 \notin Starts(h)
    <3>1. Len(h) + 1 \notin 1 .. Len(h)
      BY <2>1
    <3>2. DOMAIN h = 1 .. Len(h)
      BY DEF Grown
    <3> QED
      BY <2>1, <3>1, <3>2, IdTypes
  <2>3. Cardinality(Starts(h) \cup {Len(h) + 1}) = Cardinality(Starts(h)) + 1
    BY <2>2, FS_AddElement
  <2> QED
    BY <2>1, <2>3
<1>3. ASSUME NEW T, NEW lists \in [Modules -> Seq(T)], e.kind # "latency",
             ReadTriggers(h, lists)
      PROVE  ReadTriggers(h2, lists)
  BY <1>3, ReadTriggersGrow
<1>4. ASSUME NEW lists, e.kind \notin {"read", "write"}, WriteTriggers(h, lists)
      PROVE  WriteTriggers(h2, lists)
  BY <1>4, WriteTriggersGrow
<1>5. ASSUME NEW rates, e.kind \notin {"throughput", "write"},
             RateTriggers(h, rates)
      PROVE  RateTriggers(h2, rates)
  <2>1. RatesFollow(h, e, rates, rates)
    BY <1>5 DEF RatesFollow
  <2> QED
    BY <1>5, <2>1, RateTriggersGrow
<1>6. ASSUME NEW ids, e.kind # "counter", CounterIds(h, ids)
      PROVE  CounterIds(h2, ids)
  BY <1>6, CounterIdsGrow
<1> QED
  BY <1>1, <1>2, <1>3, <1>4, <1>5, <1>6
LEMMA ReadRight ==
  ASSUME UpdatesInv, NEW m \in Modules, NEW p \in Packets,
         NEW t \in simulation_time .. MaxTime, data_read(m, p, t)
  PROVE  History' /\ Published(log', updates')
<1> DEFINE e == [kind |-> "read", at |-> m, of |-> p, time |-> t]
<1>1. /\ t \in Times /\ simulation_time <= t /\ simulation_time' = t
      /\ trace_id' = trace_id /\ updates' = <<>>
      /\ latency_read_triggers' = latency_read_triggers
      /\ latency_write_triggers' = Triggered(m, p, t)
      /\ throughput_triggers' = throughput_triggers
      /\ counter_traces' = counter_traces
  BY PacketTracesAssumption DEF UpdatesInv, PacketTypes, Times, data_read
<1>2. Grown(log, log', e)
  BY <1>1, Recorded DEF UpdatesInv, data_read, Kinds
<1>3. PICK h2 : h2 = log'
  OBVIOUS
<1>4. /\ e.kind = "read" /\ e.at = m /\ e.of = p /\ e.time = t
      /\ e.kind \notin StartKinds
  BY DEF StartKinds
<1> HIDE DEF e
<1>5. WriteTriggers(h2, Triggered(m, p, t))
  BY <1>1, <1>2, <1>3, <1>4, TriggeredRight DEF UpdatesInv
<1>6. /\ TimeNow(h2) = t /\ Cardinality(Starts(h2)) = trace_id
      /\ ReadTriggers(h2, latency_read_triggers)
      /\ RateTriggers(h2, throughput_triggers)
      /\ CounterIds(h2, counter_traces)
  BY <1>2, <1>3, <1>4, Uninvolved DEF UpdatesInv, PacketTypes, History
<1>7. Published(h2, <<>>)
  BY <1>2, <1>3, <1>4, NothingPublished
<1> QED
  BY <1>1, <1>3, <1>5, <1>6, <1>7 DEF History

LEMMA WriteRight ==
  ASSUME UpdatesInv, NEW m \in Modules, NEW p \in Packets,
         NEW t \in simulation_time .. MaxTime, data_written(m, p, t)
  PROVE  History' /\ Published(log', updates')
<1> DEFINE e == [kind |-> "write", at |-> m, of |-> p, time |-> t]
           rates == IF m \in DOMAIN throughput_triggers
                    THEN [throughput_triggers EXCEPT ![m].last_time = t]
                    ELSE throughput_triggers
<1>1. /\ t \in Times /\ simulation_time <= t /\ simulation_time' = t
      /\ trace_id' = trace_id
      /\ updates' = LatencyUpdates(m, p, t) \o ThroughputUpdates(m, t)
      /\ latency_read_triggers' = latency_read_triggers
      /\ latency_write_triggers' = Spent(m, p)
      /\ throughput_triggers' = rates
      /\ counter_traces' = counter_traces
  BY PacketTracesAssumption DEF UpdatesInv, PacketTypes, Times, data_written
<1>2. Grown(log, log', e)
  BY <1>1, Recorded DEF UpdatesInv, data_written, Kinds
<1>3. PICK h2 : h2 = log'
  OBVIOUS
<1>4. /\ e.kind = "write" /\ e.at = m /\ e.of = p /\ e.time = t
      /\ e.kind \notin StartKinds
  BY DEF StartKinds
<1> HIDE DEF e
<1>5. \A w \in Modules, q \in Packets :
        Spent(m, p)[w][q] = IF e.kind = "write" /\ e.at = w /\ e.of = q
                            THEN <<>> ELSE latency_write_triggers[w][q]
  <2>1. latency_write_triggers \in [Modules -> [Packets -> Seq(WriteTrigger)]]
    BY DEF UpdatesInv, PacketTypes
  <2> HIDE DEF WriteTrigger
  <2> QED
    BY <1>4, <2>1 DEF Spent
<1>6. WriteTriggers(h2, Spent(m, p))
  <2>1. WriteTriggers(log, latency_write_triggers)
    BY DEF UpdatesInv, History
  <2> QED
    BY <1>2, <1>3, <1>4, <1>5, <2>1, WriteTriggersGrow
<1>7. RateTriggers(h2, rates)
  <2>1. RateTriggers(log, throughput_triggers)
        /\ \A x \in DOMAIN throughput_triggers : throughput_triggers[x] \in RateTrigger
    BY DEF UpdatesInv, History, PacketTypes, Partial
  <2>2. \A x \in Modules :
          /\ x \in DOMAIN rates <=> x \in DOMAIN throughput_triggers
          /\ x \in DOMAIN throughput_triggers =>
               /\ rates[x].trace_id = throughput_triggers[x].trace_id
               /\ rates[x].last_time =
                    IF e.kind = "write" /\ e.at = x THEN e.time
                    ELSE throughput_triggers[x].last_time
    BY <1>4, <2>1 DEF RateTrigger
  <2> HIDE DEF rates
  <2>3. RatesFollow(log, e, throughput_triggers, rates)
    BY <1>4, <2>2 DEF RatesFollow
  <2> QED
    BY <1>2, <1>3, <1>4, <2>1, <2>2, <2>3, RateTriggersGrow
<1>8. /\ TimeNow(h2) = t /\ Cardinality(Starts(h2)) = trace_id
      /\ ReadTriggers(h2, latency_read_triggers)
      /\ CounterIds(h2, counter_traces)
  BY <1>2, <1>3, <1>4, Uninvolved DEF UpdatesInv, PacketTypes, History
<1>9. Published(h2, LatencyUpdates(m, p, t) \o ThroughputUpdates(m, t))
  BY <1>1, <1>2, <1>3, <1>4, WritePublished DEF UpdatesInv
<1> HIDE DEF rates
<1> QED
  BY <1>1, <1>3, <1>6, <1>7, <1>8, <1>9 DEF History
(* Drops, and counters that come, go and change, leave the triggers alone. *)
LEMMA OtherRight ==
  ASSUME UpdatesInv, NEW e, Grown(log, log', e),
         e.kind \in {"dropped", "added", "removed", "updated"},
         simulation_time' = e.time, UNCHANGED traces
  PROVE  History'
<1>1. PICK h2 : h2 = log'
  OBVIOUS
<1>2. e.kind \notin StartKinds \cup {"read", "write"}
  BY DEF StartKinds
<1>3. /\ TimeNow(h2) = e.time /\ Cardinality(Starts(h2)) = trace_id
      /\ ReadTriggers(h2, latency_read_triggers)
      /\ WriteTriggers(h2, latency_write_triggers)
      /\ RateTriggers(h2, throughput_triggers)
      /\ CounterIds(h2, counter_traces)
  <2>1. e.kind \notin {"latency", "throughput", "counter"}
    BY <1>2
  <2> QED
    BY <1>1, <1>2, <2>1, Uninvolved DEF UpdatesInv, PacketTypes, History
<1> QED
  BY <1>1, <1>3 DEF History, traces, latency

LEMMA CallbackRight ==
  ASSUME UpdatesInv, NEW t \in simulation_time .. MaxTime, Callback(t)
  PROVE  History' /\ Published(log', updates')
<1>1. t \in Times /\ Kinds = StartKinds \cup
        {"read", "write", "dropped", "added", "removed", "updated"}
  BY PacketTracesAssumption DEF UpdatesInv, PacketTypes, Times, Kinds
<1>2. ASSUME NEW kind \in {"dropped", "added", "removed"},
             NEW at \in Modules \cup CounterNames,
             NEW of \in Modules \cup Packets \cup CounterNames \cup Amounts,
             simulation_time' = t, Record(kind, at, of), UNCHANGED traces,
             updates' = <<>>
      PROVE  History' /\ Published(log', updates')
  <2> DEFINE e == [kind |-> kind, at |-> at, of |-> of, time |-> t]
  <2>1. Grown(log, log', e)
    BY <1>1, <1>2, Recorded DEF UpdatesInv
  <2>2. e.kind = kind /\ e.time = t
    OBVIOUS
  <2> HIDE DEF e
  <2>3. History'
    BY <1>2, <2>1, <2>2, OtherRight
  <2>4. PICK h2 : h2 = log'
    OBVIOUS
  <2>5. Published(h2, <<>>)
    BY <2>1, <2>2, <2>4, NothingPublished
  <2> QED
    BY <1>2, <2>3, <2>4, <2>5
<1>3. ASSUME NEW d \in Drops, data_dropped(d[2], d[1], t)
      PROVE  History' /\ Published(log', updates')
  <2>1. d[1] \in Packets /\ d[2] \in Modules
    BY PacketTracesAssumption
  <2> QED
    BY <1>2, <1>3, <2>1 DEF data_dropped
<1>4. ASSUME NEW n \in CounterNames, counter_added(n, t) \/ counter_removed(n, t)
      PROVE  History' /\ Published(log', updates')
  <2>1. Record("added", n, n) \/ Record("removed", n, n)
    BY <1>4 DEF counter_added, counter_removed
  <2>2. simulation_time' = t /\ UNCHANGED traces /\ updates' = <<>>
    BY <1>4 DEF counter_added, counter_removed
  <2> QED
    BY <1>2, <2>1, <2>2
<1>5. ASSUME NEW n \in CounterNames, NEW v \in Amounts, counter_updated(n, v, t)
      PROVE  History' /\ Published(log', updates')
  <2> DEFINE e == [kind |-> "updated", at |-> n, of |-> v, time |-> t]
  <2>1. simulation_time' = t /\ UNCHANGED traces /\ Record("updated", n, v)
    BY <1>5 DEF counter_updated
  <2>2. Grown(log, log', e)
    BY <1>1, <2>1, Recorded DEF UpdatesInv
  <2>3. e.kind = "updated" /\ e.time = t /\ e.at = n /\ e.of = v
    OBVIOUS
  <2> HIDE DEF e
  <2>4. History'
    BY <2>1, <2>2, <2>3, OtherRight
  <2>5. PICK h2 : h2 = log'
    OBVIOUS
  <2>6. PICK u : u = IF n \in DOMAIN counter_traces
                     THEN <<updateTrace(counter_traces[n], v, simulation_time)>>
                     ELSE <<>>
    OBVIOUS
  <2>7. Published(h2, u)
    BY <2>2, <2>3, <2>5, <2>6, UpdatePublished DEF UpdatesInv
  <2> QED
    BY <1>5, <2>4, <2>5, <2>6, <2>7 DEF counter_updated
<1> QED
  BY <1>3, <1>4, <1>5, ReadRight, WriteRight DEF Callback

(* A trace that is started gets the next id, and nothing is published.     *)
LEMMA StartRight ==
  ASSUME UpdatesInv, NEW kind \in StartKinds, NEW at \in Modules \cup CounterNames,
         NEW of \in Modules \cup CounterNames, Started(kind, at, of),
         \A h2 : \A e :
           Grown(log, h2, e) /\ e.kind = kind /\ e.at = at /\ e.of = of =>
             /\ ReadTriggers(h2, latency_read_triggers')
             /\ RateTriggers(h2, throughput_triggers')
             /\ CounterIds(h2, counter_traces')
  PROVE  History' /\ Published(log', updates')
<1> DEFINE e == [kind |-> kind, at |-> at, of |-> of, time |-> simulation_time]
<1>1. /\ simulation_time \in Times /\ simulation_time' = simulation_time
      /\ trace_id' = trace_id + 1 /\ updates' = <<>>
      /\ latency_write_triggers' = latency_write_triggers
      /\ Record(kind, at, of)
  BY DEF UpdatesInv, PacketTypes, Started
<1>2. Grown(log, log', e)
  <2>1. kind \in Kinds
    BY DEF Kinds
  <2> QED
    BY <1>1, <2>1, Recorded DEF UpdatesInv
<1>3. PICK h2 : h2 = log'
  OBVIOUS
<1>4. /\ e.kind = kind /\ e.at = at /\ e.of = of /\ e.time = simulation_time
      /\ e.kind \notin {"read", "write", "updated"}
  BY DEF StartKinds
<1> HIDE DEF e
<1>5. /\ ReadTriggers(h2, latency_read_triggers')
      /\ RateTriggers(h2, throughput_triggers')
      /\ CounterIds(h2, counter_traces')
  BY <1>2, <1>3, <1>4
<1>6. /\ TimeNow(h2) = simulation_time
      /\ Cardinality(Starts(h2)) = trace_id + 1
      /\ WriteTriggers(h2, latency_write_triggers)
  BY <1>2, <1>3, <1>4, Uninvolved DEF UpdatesInv, History
<1>7. Published(h2, <<>>)
  BY <1>2, <1>3, <1>4, NothingPublished
<1> QED
  BY <1>1, <1>3, <1>5, <1>6, <1>7 DEF History
LEMMA CounterTraceRight ==
  ASSUME UpdatesInv, NEW n \in CounterNames, addCounterTrace(n)
  PROVE  History' /\ Published(log', updates')
<1>1. /\ n \notin DOMAIN counter_traces /\ Started("counter", n, n)
      /\ counter_traces' = With(counter_traces, n, trace_id)
      /\ UNCHANGED <<latency_read_triggers, throughput_triggers>>
  BY DEF addCounterTrace, CanTrace
<1>2. /\ latency_read_triggers \in [Modules -> Seq(ReadTrigger)]
      /\ ReadTriggers(log, latency_read_triggers)
      /\ RateTriggers(log, throughput_triggers)
      /\ CounterIds(log, counter_traces) /\ trace_id = Cardinality(Starts(log))
  BY DEF UpdatesInv, PacketTypes, History
<1>3. PICK ids : ids = With(counter_traces, n, trace_id)
  OBVIOUS
<1>4. ASSUME NEW h2, NEW e, Grown(log, h2, e), e.kind = "counter",
             e.at = n, e.of = n
      PROVE  /\ ReadTriggers(h2, latency_read_triggers)
             /\ RateTriggers(h2, throughput_triggers)
             /\ CounterIds(h2, ids)
  <2>1. \A x \in CounterNames :
          IF e.kind = "counter" /\ e.at = x /\ e.of = x
          THEN /\ x \notin DOMAIN counter_traces /\ x \in DOMAIN ids
               /\ ids[x] = Cardinality(Starts(log))
          ELSE /\ x \in DOMAIN ids <=> x \in DOMAIN counter_traces
               /\ x \in DOMAIN counter_traces => ids[x] = counter_traces[x]
    BY <1>1, <1>2, <1>3, <1>4 DEF With
  <2>2. CounterIds(h2, ids)
    BY <1>2, <1>4, <2>1, CounterIdsGrow
  <2>3. e.kind # "latency" /\ e.kind \notin {"throughput", "write"}
    BY <1>4
  <2> QED
    BY <1>2, <1>4, <2>2, <2>3, Uninvolved
<1> QED
  BY <1>1, <1>3, <1>4, StartRight DEF StartKinds

LEMMA LatencyTraceRight ==
  ASSUME UpdatesInv, NEW from \in Modules, NEW to \in Modules,
         addLatencyTrace(from, to)
  PROVE  History' /\ Published(log', updates')
<1> DEFINE item == [trace_id |-> trace_id, write_module_name |-> to]
           lists2 == [latency_read_triggers EXCEPT ![from] = Append(@, item)]
<1>1. /\ Started("latency", from, to) /\ latency_read_triggers' = lists2
      /\ UNCHANGED <<counter_traces, throughput_triggers>>
  BY DEF addLatencyTrace
<1>2. /\ RateTriggers(log, throughput_triggers) /\ CounterIds(log, counter_traces)
      /\ latency_read_triggers \in [Modules -> Seq(ReadTrigger)]
      /\ ReadTriggers(log, latency_read_triggers)
      /\ trace_id = Cardinality(Starts(log))
  BY DEF UpdatesInv, PacketTypes, History
<1>3. PICK T : T = ReadTrigger \cup {item}
  OBVIOUS
<1>4. latency_read_triggers \in [Modules -> Seq(T)] /\ item \in T
  <2> HIDE DEF item, ReadTrigger
  <2>1. Seq(ReadTrigger) \subseteq Seq(T)
    BY <1>3, WiderSeq
  <2> QED
    BY <1>2, <1>3, <2>1
<1>5. ASSUME NEW h2, NEW e, Grown(log, h2, e), e.kind = "latency",
             e.at = from, e.of = to
      PROVE  /\ ReadTriggers(h2, lists2)
             /\ RateTriggers(h2, throughput_triggers)
             /\ CounterIds(h2, counter_traces)
  <2>1. item = [trace_id |-> Cardinality(Starts(log)), write_module_name |-> e.of]
    BY <1>2, <1>5
  <2> HIDE DEF item
  <2>2. \A m \in Modules :
          \/ /\ ~(e.kind = "latency" /\ e.at = m)
             /\ lists2[m] = latency_read_triggers[m]
          \/ /\ e.kind = "latency" /\ e.at = m
             /\ lists2[m] = Append(latency_read_triggers[m], item)
    BY <1>4, <1>5
  <2> HIDE DEF lists2
  <2>3. \A m \in Modules :
          \/ /\ ~(e.kind = "latency" /\ e.at = m)
             /\ lists2[m] = latency_read_triggers[m]
          \/ /\ e.kind = "latency" /\ e.at = m
             /\ \E x \in T :
                  /\ x = [trace_id |-> Cardinality(Starts(log)),
                          write_module_name |-> e.of]
                  /\ lists2[m] = Append(latency_read_triggers[m], x)
    BY <1>4, <2>1, <2>2
  <2>4. ReadTriggers(h2, lists2)
    BY <1>2, <1>4, <1>5, <2>3, ReadTriggersGrow
  <2>5. e.kind # "counter" /\ e.kind \notin {"throughput", "write"}
    BY <1>5
  <2> QED
    BY <1>2, <1>5, <2>4, <2>5, Uninvolved
<1> HIDE DEF lists2
<1> QED
  BY <1>1, <1>5, StartRight DEF StartKinds

LEMMA ThroughputTraceRight ==
  ASSUME UpdatesInv, NEW m \in Modules, addThroughputTrace(m)
  PROVE  History' /\ Published(log', updates')
<1>1. /\ Started("throughput", m, m)
      /\ throughput_triggers' = With(throughput_triggers, m, NewTrigger(m))
      /\ UNCHANGED <<counter_traces, latency_read_triggers>>
  BY DEF addThroughputTrace
<1>2. /\ latency_read_triggers \in [Modules -> Seq(ReadTrigger)]
      /\ ReadTriggers(log, latency_read_triggers)
      /\ RateTriggers(log, throughput_triggers)
      /\ CounterIds(log, counter_traces) /\ trace_id = Cardinality(Starts(log))
  BY DEF UpdatesInv, PacketTypes, History
<1>3. PICK rates : rates = With(throughput_triggers, m, NewTrigger(m))
  OBVIOUS
<1>4. ASSUME NEW h2, NEW e, Grown(log, h2, e), e.kind = "throughput",
             e.at = m, e.of = m
      PROVE  /\ ReadTriggers(h2, latency_read_triggers)
             /\ RateTriggers(h2, rates)
             /\ CounterIds(h2, counter_traces)
  <2>2. RateTriggers(h2, rates)
    <3>1. RatesFollow(log, e, throughput_triggers, rates)
      BY <1>2, <1>3, <1>4 DEF RatesFollow, With, NewTrigger
    <3> QED
      BY <1>2, <1>4, <3>1, RateTriggersGrow
  <2>3. e.kind # "latency" /\ e.kind # "counter"
    BY <1>4
  <2> QED
    BY <1>2, <1>4, <2>2, <2>3, Uninvolved
<1> QED
  BY <1>1, <1>3, <1>4, StartRight DEF StartKinds

LEMMA InitRight == Init => UpdatesInv
<1> SUFFICES ASSUME Init PROVE UpdatesInv
  OBVIOUS
<1>1. PacketTypes /\ log = <<>>
  BY InitTypes DEF Init, ManagerInit
<1>2. /\ trace_id = 0 /\ simulation_time = 0 /\ counter_traces = <<>>
      /\ throughput_triggers = <<>>
      /\ latency_read_triggers = [m \in Modules |-> <<>>]
      /\ latency_write_triggers = [m \in Modules |-> [p \in Packets |-> <<>>]]
  BY DEF Init, ManagerInit
<1>3. PICK h : h = <<>>
  OBVIOUS
<1>4. Starts(h) = {} /\ Len(h) = 0
  BY <1>3 DEF Starts
<1>5. Cardinality({}) = 0 /\ Len(<<>>) = 0 /\ DOMAIN <<>> = {}
  BY FS_EmptySet
<1>6. ReadTriggers(h, latency_read_triggers)
  BY <1>2, <1>4, <1>5 DEF ReadTriggers, StartList, LatencyStarts
<1>7. WriteTriggers(h, latency_write_triggers)
  <2>1. \A w, p : Pending(h, w, p) = {}
    BY <1>4 DEF Pending
  <2> QED
    BY <1>2, <1>5, <2>1 DEF WriteTriggers, Lists
<1>8. RateTriggers(h, throughput_triggers)
  <2>1. 0 \in Nat /\ {0} \in SUBSET (0 .. 0) /\ {0} # {}
    OBVIOUS
  <2>2. Max({0}) = 0
    BY <2>1, MaxIsLast
  <2>3. \A m : Newest(h, m) = 0
    BY <1>4, <2>2 DEF Newest
  <2> QED
    BY <1>2, <1>5, <2>3 DEF RateTriggers
<1>9. CounterIds(h, counter_traces)
  BY <1>2, <1>4, <1>5 DEF CounterIds, CounterTraces
<1>10. TimeNow(h) = 0
  BY <1>4 DEF TimeNow
<1> QED
  BY <1>1, <1>2, <1>3, <1>4, <1>5, <1>6, <1>7, <1>8, <1>9, <1>10
  DEF UpdatesInv, History

LEMMA StepRight == UpdatesInv /\ [Next]_vars => UpdatesInv'
<1> SUFFICES ASSUME UpdatesInv, [Next]_vars PROVE UpdatesInv'
  OBVIOUS
<1>1. PacketTypes'
  BY StepTypes DEF UpdatesInv
<1>2. CASE ObserverStep
  BY <1>1, <1>2, CallbackRight DEF ObserverStep, UpdatesInv
<1>3. CASE UNCHANGED manager
  <2>1. /\ UNCHANGED <<trace_id, simulation_time, latency_read_triggers, log>>
        /\ UNCHANGED <<latency_write_triggers, throughput_triggers>>
        /\ UNCHANGED <<counter_traces, updates>>
    BY <1>3 DEF manager, traces, latency
  <2> QED
    BY <1>1, <2>1 DEF UpdatesInv, History
<1>4. CASE parseRequest
  <2>1. ASSUME NEW pair \in LatencyPairs, addLatencyTrace(pair[1], pair[2])
        PROVE  History' /\ Published(log', updates')
    <3>1. pair[1] \in Modules /\ pair[2] \in Modules
      BY PacketTracesAssumption
    <3> QED
      BY <2>1, <3>1, LatencyTraceRight
  <2>2. \/ UNCHANGED manager
        \/ History' /\ Published(log', updates')
    BY <1>4, <2>1, RequestEffects, CounterTraceRight, ThroughputTraceRight
  <2> QED
    BY <1>1, <1>3, <2>2 DEF UpdatesInv
<1> QED
  BY <1>2, <1>3, <1>4 DEF Next, vars

(* Every update pfpdb is sent is right, in number, value, trace and order: *)
(* what a callback publishes is what the history of reads, writes, counter *)
(* updates and traces started calls for, and no counter gets two traces.   *)
THEOREM UpdatesAreRight == Spec => []UpdatesRight
<1>1. Init => UpdatesInv
  BY InitRight
<1>2. UpdatesInv /\ [Next]_vars => UpdatesInv'
  BY StepRight
<1>3. UpdatesInv => UpdatesRight
  <2> SUFFICES ASSUME UpdatesInv, NEW n \in CounterNames
               PROVE  Cardinality(CounterTraces(log, n)) <= 1
    BY DEF UpdatesInv, UpdatesRight
  <2>1. CounterTraces(log, n) = {} \/ \E s : CounterTraces(log, n) = {s}
    BY DEF UpdatesInv, History, CounterIds
  <2>2. CASE CounterTraces(log, n) = {}
    BY <2>2, FS_EmptySet
  <2>3. ASSUME NEW s, CounterTraces(log, n) = {s}
        PROVE  Cardinality(CounterTraces(log, n)) <= 1
    <3>1. Cardinality({s}) = 1
      BY FS_Singleton
    <3> QED
      BY <2>3, <3>1
  <2> QED
    BY <2>1, <2>2, <2>3
<1> QED
  BY <1>1, <1>2, <1>3, PTL DEF Spec
-----------------------------------------------------------------------------
(* Reads and writes as brackets. *)

(* how many more reads than writes of p at m the first k entries have      *)
Depth(h, m, p, k) == Balance(h, m, p, 1, k)

(* What is counted up to b is counted up to a or after it.                 *)
LEMMA CountSplit ==
  ASSUME NEW h, NEW kind, NEW m, NEW p, NEW a \in Nat, NEW b \in Nat, a <= b
  PROVE  /\ Count(h, kind, m, p, 1, a) \in Nat
         /\ Count(h, kind, m, p, a + 1, b) \in Nat
         /\ Count(h, kind, m, p, 1, b) =
              Count(h, kind, m, p, 1, a) + Count(h, kind, m, p, a + 1, b)
<1> DEFINE C(x, y) == {k \in x .. y : Is(h, k, kind, m, p)}
<1>1. PICK A, B : A = C(1, a) /\ B = C(a + 1, b)
  OBVIOUS
<1>2. /\ A \in SUBSET Nat /\ B \in SUBSET Nat
      /\ \A k \in A \cup B : k <= b
  BY <1>1
<1>3. C(1, b) = A \cup B /\ A \cap B = {}
  BY <1>1
<1>4. /\ IsFiniteSet(A) /\ IsFiniteSet(B)
  BY <1>2, FS_BoundedSetOfNaturals
<1>5. /\ Cardinality(A) \in Nat /\ Cardinality(B) \in Nat /\ Cardinality({}) = 0
  BY <1>4, FS_CardinalityType, FS_EmptySet
<1>6. Cardinality(A \cup B) = Cardinality(A) + Cardinality(B) - Cardinality({})
  BY <1>3, <1>4, FS_Union
<1>7. /\ Count(h, kind, m, p, 1, a) = Cardinality(A)
      /\ Count(h, kind, m, p, a + 1, b) = Cardinality(B)
      /\ Count(h, kind, m, p, 1, b) = Cardinality(C(1, b))
  BY <1>1 DEF Count
<1>8. Cardinality(C(1, b)) = Cardinality(A \cup B)
  BY <1>3
<1> HIDE DEF C
<1>9. Cardinality(A \cup B) = Cardinality(A) + Cardinality(B)
  BY <1>5, <1>6
<1> QED
  BY <1>5, <1>7, <1>8, <1>9

(* An entry counts once if it is of the kind, else not.                    *)
LEMMA CountNext ==
  ASSUME NEW h, NEW kind, NEW m, NEW p, NEW k \in Nat
  PROVE  /\ Count(h, kind, m, p, 1, k) \in Nat
         /\ Is(h, k + 1, kind, m, p) =>
              Count(h, kind, m, p, 1, k + 1) = Count(h, kind, m, p, 1, k) + 1
         /\ ~Is(h, k + 1, kind, m, p) =>
              Count(h, kind, m, p, 1, k + 1) = Count(h, kind, m, p, 1, k)
<1> DEFINE C(y) == {x \in 1 .. y : Is(h, x, kind, m, p)}
<1>1. PICK A : A = C(k)
  OBVIOUS
<1>2. A \in SUBSET Nat /\ \A x \in A : x <= k
  BY <1>1
<1>3. IsFiniteSet(A) /\ k + 1 \notin A
  BY <1>2, FS_BoundedSetOfNaturals
<1>4. Cardinality(A) \in Nat /\ Cardinality(A \cup {k + 1}) = Cardinality(A) + 1
  BY <1>3, FS_CardinalityType, FS_AddElement
<1>5. C(k + 1) = IF Is(h, k + 1, kind, m, p) THEN A \cup {k + 1} ELSE A
  BY <1>1
<1> QED
  BY <1>1, <1>4, <1>5 DEF Count

(* A read leads deeper by one, a write back by one, others nowhere.        *)
LEMMA Depths ==
  ASSUME NEW h, NEW m, NEW p
  PROVE  /\ \A k \in Nat : Depth(h, m, p, k) \in Int
         /\ \A k \in Nat :
              Depth(h, m, p, k + 1) =
                IF Is(h, k + 1, "read", m, p) THEN Depth(h, m, p, k) + 1
                ELSE IF Is(h, k + 1, "write", m, p) THEN Depth(h, m, p, k) - 1
                ELSE Depth(h, m, p, k)
         /\ \A a, b \in Nat :
              a <= b => Balance(h, m, p, a + 1, b) =
                          Depth(h, m, p, b) - Depth(h, m, p, a)
<1> DEFINE R(a, b) == Count(h, "read", m, p, a, b)
           W(a, b) == Count(h, "write", m, p, a, b)
<1>1. ASSUME NEW k \in Nat
      PROVE  /\ R(1, k) \in Nat /\ W(1, k) \in Nat
             /\ Is(h, k + 1, "read", m, p) => R(1, k + 1) = R(1, k) + 1
             /\ ~Is(h, k + 1, "read", m, p) => R(1, k + 1) = R(1, k)
             /\ Is(h, k + 1, "write", m, p) => W(1, k + 1) = W(1, k) + 1
             /\ ~Is(h, k + 1, "write", m, p) => W(1, k + 1) = W(1, k)
  BY CountNext
<1>2. ASSUME NEW a \in Nat, NEW b \in Nat, a <= b
      PROVE  /\ R(1, a) \in Nat /\ W(1, a) \in Nat
             /\ R(a + 1, b) \in Nat /\ W(a + 1, b) \in Nat
             /\ R(1, b) = R(1, a) + R(a + 1, b) /\ W(1, b) = W(1, a) + W(a + 1, b)
  <2>1. R(1, a) \in Nat /\ R(a + 1, b) \in Nat /\ R(1, b) = R(1, a) + R(a + 1, b)
    BY <1>2, CountSplit
  <2>2. W(1, a) \in Nat /\ W(a + 1, b) \in Nat /\ W(1, b) = W(1, a) + W(a + 1, b)
    BY <1>2, CountSplit
  <2> QED
    BY <2>1, <2>2
<1>3. \A k : ~(Is(h, k, "read", m, p) /\ Is(h, k, "write", m, p))
  BY DEF Is
<1>4. \A a, b : Balance(h, m, p, a, b) = R(a, b) - W(a, b)
  BY DEF Balance
<1> HIDE DEF R, W
<1>5. \A k : Depth(h, m, p, k) = R(1, k) - W(1, k)
  BY <1>4 DEF Depth
<1>6. ASSUME NEW k \in Nat
      PROVE  /\ Depth(h, m, p, k) \in Int
             /\ Depth(h, m, p, k + 1) =
                  IF Is(h, k + 1, "read", m, p) THEN Depth(h, m, p, k) + 1
                  ELSE IF Is(h, k + 1, "write", m, p) THEN Depth(h, m, p, k) - 1
                  ELSE Depth(h, m, p, k)
  <2>1. R(1, k) \in Nat /\ W(1, k) \in Nat
    BY <1>1
  <2>2. CASE Is(h, k + 1, "read", m, p)
    BY <1>1, <1>3, <1>5, <2>1, <2>2
  <2>3. CASE Is(h, k + 1, "write", m, p)
    BY <1>1, <1>3, <1>5, <2>1, <2>3
  <2>4. CASE ~Is(h, k + 1, "read", m, p) /\ ~Is(h, k + 1, "write", m, p)
    BY <1>1, <1>5, <2>1, <2>4
  <2> QED
    BY <2>2, <2>3, <2>4
<1>7. ASSUME NEW a \in Nat, NEW b \in Nat, a <= b
      PROVE  Balance(h, m, p, a + 1, b) = Depth(h, m, p, b) - Depth(h, m, p, a)
  BY <1>2, <1>4, <1>5, <1>7
<1> QED
  BY <1>6, <1>7

(* The write at i ends the read at j when it is the first to lead below.   *)
LEMMA EndsByDepth ==
  ASSUME NEW h, NEW m, NEW p, NEW j \in Nat, Is(h, j, "read", m, p),
         NEW i \in Nat
  PROVE  Ends(h, i, j) <=>
           /\ j < i /\ Is(h, i, "write", m, p)
           /\ Depth(h, m, p, i - 1) = Depth(h, m, p, j)
           /\ \A k \in j + 1 .. i - 1 : Depth(h, m, p, k) >= Depth(h, m, p, j)
<1>1. h[j].at = m /\ h[j].of = p
  BY DEF Is
<1>2. Ends(h, i, j) <=>
        /\ j < i /\ Is(h, i, "write", m, p)
        /\ Balance(h, m, p, j + 1, i - 1) = 0
        /\ \A k \in j + 1 .. i - 1 : Balance(h, m, p, j + 1, k) >= 0
  BY <1>1 DEF Ends
<1>3. ASSUME j < i
      PROVE  /\ Balance(h, m, p, j + 1, i - 1) = 0 <=>
                  Depth(h, m, p, i - 1) = Depth(h, m, p, j)
             /\ \A k \in j + 1 .. i - 1 : Balance(h, m, p, j + 1, k) >= 0 <=>
                  Depth(h, m, p, k) >= Depth(h, m, p, j)
  <2>1. \A k \in j .. i - 1 : k \in Nat /\ j <= k
    OBVIOUS
  <2>2. ASSUME NEW k \in j .. i - 1
        PROVE  /\ Balance(h, m, p, j + 1, k) =
                    Depth(h, m, p, k) - Depth(h, m, p, j)
               /\ Depth(h, m, p, k) \in Int /\ Depth(h, m, p, j) \in Int
    BY <2>1, Depths
  <2>3. i - 1 \in j .. i - 1 /\ \A k \in j + 1 .. i - 1 : k \in j .. i - 1
    BY <1>3
  <2> QED
    BY <2>2, <2>3
<1> QED
  BY <1>2, <1>3

(* the reads of p at m among the first n entries that no write ended       *)
OpenReads(h, m, p, n) ==
  {j \in 1 .. n : /\ Is(h, j, "read", m, p)
                  /\ \A k \in j .. n : Depth(h, m, p, k) >= Depth(h, m, p, j)}

(* A read is open exactly as long as no write has ended it.                *)
LEMMA OpenUntilEnded ==
  ASSUME NEW h, NEW n \in Nat, NEW m, NEW p, NEW j \in 1 .. n,
         Is(h, j, "read", m, p)
  PROVE  j \in OpenReads(h, m, p, n) <=> \A k \in 1 .. n : ~Ends(h, k, j)
<1> DEFINE D(k) == Depth(h, m, p, k)
<1>1. \A k \in Nat : /\ D(k) \in Int
                     /\ D(k + 1) = IF Is(h, k + 1, "read", m, p) THEN D(k) + 1
                                   ELSE IF Is(h, k + 1, "write", m, p)
                                   THEN D(k) - 1 ELSE D(k)
  BY Depths
<1>2. \A k \in 1 .. n :
        Ends(h, k, j) <=>
          /\ j < k /\ Is(h, k, "write", m, p) /\ D(k - 1) = D(j)
          /\ \A i \in j + 1 .. k - 1 : D(i) >= D(j)
  <2>1. j \in Nat /\ \A k \in 1 .. n : k \in Nat
    OBVIOUS
  <2> QED
    BY <2>1, EndsByDepth
<1>3. \A k : ~(Is(h, k, "read", m, p) /\ Is(h, k, "write", m, p))
  BY DEF Is
<1> HIDE DEF D
<1>4. ASSUME NEW k \in 1 .. n, Ends(h, k, j)
      PROVE  j \notin OpenReads(h, m, p, n)
  <2>1. /\ k \in j .. n /\ k - 1 \in Nat /\ (k - 1) + 1 = k
        /\ Is(h, k, "write", m, p) /\ D(k - 1) = D(j)
    BY <1>2, <1>4
  <2>2. D(k) = D(j) - 1 /\ D(j) \in Int
    BY <1>1, <1>3, <2>1
  <2>3. ~(D(k) >= D(j))
    BY <2>2
  <2> QED
    BY <2>1, <2>3 DEF OpenReads, D
<1>5. ASSUME j \notin OpenReads(h, m, p, n)
      PROVE  \E k \in 1 .. n : Ends(h, k, j)
  <2> DEFINE below == {k \in j .. n : ~(D(k) >= D(j))}
  <2>1. below \in SUBSET Nat /\ below # {}
    BY <1>5 DEF OpenReads, D
  <2>2. PICK k \in below : \A i \in below : k <= i
    BY <2>1, MinIsFirst
  <2>3. /\ k \in j .. n /\ k # j /\ ~(D(k) >= D(j)) /\ D(k) \in Int /\ D(j) \in Int
    BY <1>1
  <2>4. /\ k - 1 \in j .. n /\ k - 1 \in Nat /\ (k - 1) + 1 = k /\ j < k
        /\ k \in 1 .. n /\ ~(k <= k - 1)
    BY <2>3
  <2>5. D(k - 1) >= D(j) /\ D(k - 1) \in Int
    BY <1>1, <2>2, <2>4
  <2>6. Is(h, k, "write", m, p) /\ D(k) = D(k - 1) - 1
    BY <1>1, <2>3, <2>4, <2>5
  <2>7. D(k - 1) = D(j)
    BY <2>3, <2>5, <2>6
  <2>8. \A i \in j + 1 .. k - 1 : D(i) >= D(j)
    <3>1. \A i \in j + 1 .. k - 1 : i \in j .. n /\ ~(k <= i)
      BY <2>3
    <3> QED
      BY <2>2, <3>1
  <2> QED
    BY <1>2, <2>4, <2>6, <2>7, <2>8
<1> QED
  BY <1>4, <1>5

(* The last open read is the one as deep as the last entry.                *)
LEMMA Innermost ==
  ASSUME NEW h, NEW n \in Nat, NEW m, NEW p, NEW j \in OpenReads(h, m, p, n)
  PROVE  Depth(h, m, p, n) = Depth(h, m, p, j) <=>
           \A r \in OpenReads(h, m, p, n) : r <= j
<1> DEFINE D(k) == Depth(h, m, p, k)
<1>1. \A k \in Nat : /\ D(k) \in Int
                     /\ D(k + 1) = IF Is(h, k + 1, "read", m, p) THEN D(k) + 1
                                   ELSE IF Is(h, k + 1, "write", m, p)
                                   THEN D(k) - 1 ELSE D(k)
  BY Depths
<1>2. /\ \A r \in OpenReads(h, m, p, n) :
           /\ r \in 1 .. n /\ Is(h, r, "read", m, p)
           /\ \A k \in r .. n : D(k) >= D(r)
      /\ \A r \in 1 .. n :
           Is(h, r, "read", m, p) /\ (\A k \in r .. n : D(k) >= D(r))
             => r \in OpenReads(h, m, p, n)
  BY DEF OpenReads
<1> HIDE DEF D
<1>3. j \in 1 .. n /\ j \in Nat /\ \A k \in j .. n : D(k) >= D(j)
  BY <1>2
<1>4. ASSUME D(n) = D(j), NEW r \in OpenReads(h, m, p, n), ~(r <= j)
      PROVE  FALSE
  <2>1. /\ r \in 1 .. n /\ r - 1 \in j .. n /\ r - 1 \in Nat /\ (r - 1) + 1 = r
        /\ n \in r .. n
    BY <1>2, <1>3, <1>4
  <2>2. D(r) = D(r - 1) + 1 /\ D(n) >= D(r) /\ D(r - 1) >= D(j)
    BY <1>1, <1>2, <1>3, <2>1
  <2>3. D(r) \in Int /\ D(r - 1) \in Int /\ D(j) \in Int
    BY <1>1, <1>3, <2>1
  <2> QED
    BY <1>4, <2>2, <2>3
<1>5. ASSUME D(n) # D(j) PROVE \E r \in OpenReads(h, m, p, n) : ~(r <= j)
  <2> DEFINE low == {k \in 0 .. n : k \in j .. n /\ D(k) <= D(j)}
  <2>1. low \in SUBSET (0 .. n) /\ j \in low
    <3>1. D(j) <= D(j) /\ j \in 0 .. n /\ j \in j .. n
      BY <1>1, <1>3
    <3> QED
      BY <3>1
  <2>2. PICK l \in low : \A i \in low : i <= l
    BY <2>1, MaxIsLast
  <2>3. l \in j .. n /\ l \in Nat /\ l # n /\ D(l) = D(j)
    <3>1. l \in j .. n /\ l \in Nat /\ n \in Nat /\ D(l) <= D(j) /\ D(l) >= D(j)
      BY <1>3
    <3>2. D(l) \in Int /\ D(j) \in Int
      BY <1>1, <1>3, <3>1
    <3> QED
      BY <1>5, <3>1, <3>2
  <2>4. \A k \in l + 1 .. n : ~(D(k) <= D(j)) /\ k \in Nat
    <3>1. \A k \in l + 1 .. n : k \in 0 .. n /\ k \in j .. n /\ ~(k <= l)
      BY <1>3, <2>3
    <3> QED
      BY <2>2, <3>1
  <2>5. l + 1 \in l + 1 .. n /\ l + 1 \in 1 .. n /\ ~(l + 1 <= j)
    BY <1>3, <2>3
  <2>6. Is(h, l + 1, "read", m, p) /\ D(l + 1) = D(j) + 1
    <3>1. ~(D(l + 1) <= D(j)) /\ D(l + 1) \in Int /\ D(j) \in Int
      BY <1>1, <1>3, <2>4, <2>5
    <3> QED
      BY <1>1, <2>3, <3>1
  <2>7. \A k \in l + 1 .. n : D(k) >= D(l + 1)
    <3>1. \A k \in l + 1 .. n : D(k) \in Int /\ D(j) \in Int
      BY <1>1, <1>3, <2>4
    <3> QED
      BY <2>4, <2>6, <3>1
  <2> QED
    BY <1>2, <2>5, <2>6, <2>7
<1> QED
  BY <1>4, <1>5 DEF D
-----------------------------------------------------------------------------
(* Visits, after one more entry. *)

LEMMA DepthsGrow ==
  ASSUME NEW h, NEW h2, NEW e, Grown(h, h2, e), NEW m, NEW p,
         NEW k \in 0 .. Len(h)
  PROVE  Depth(h2, m, p, k) = Depth(h, m, p, k)
<1>1. \A i \in 1 .. k : h2[i] = h[i]
  BY DEF Grown
<1>2. \A kind : {i \in 1 .. k : Is(h2, i, kind, m, p)} =
                {i \in 1 .. k : Is(h, i, kind, m, p)}
  BY <1>1 DEF Is
<1>3. \A kind : Count(h2, kind, m, p, 1, k) = Count(h, kind, m, p, 1, k)
  BY <1>2 DEF Count
<1> QED
  BY <1>3 DEF Depth, Balance

(* A write ends the last open read, and no entry ends a later one.         *)
LEMMA EndsGrow ==
  ASSUME NEW h, NEW h2, NEW e, Grown(h, h2, e), NEW m, NEW p,
         NEW j \in 1 .. Len(h), Is(h, j, "read", m, p)
  PROVE  /\ \A k \in 1 .. Len(h) : Ends(h2, k, j) <=> Ends(h, k, j)
         /\ Ends(h2, Len(h) + 1, j) <=>
              /\ e.kind = "write" /\ e.at = m /\ e.of = p
              /\ j \in OpenReads(h, m, p, Len(h))
              /\ \A r \in OpenReads(h, m, p, Len(h)) : r <= j
<1> DEFINE n == Len(h)
           D(k) == Depth(h, m, p, k)
           D2(k) == Depth(h2, m, p, k)
<1>1. /\ n \in Nat /\ j \in Nat /\ h2[n + 1] = e
      /\ \A i \in 1 .. n : h2[i] = h[i]
  BY DEF Grown
<1>2. \A k \in 0 .. n : D2(k) = D(k)
  BY DepthsGrow
<1>3. \A i \in 1 .. n : \A kind : Is(h2, i, kind, m, p) <=> Is(h, i, kind, m, p)
  BY <1>1 DEF Is
<1>4. Is(h2, n + 1, "write", m, p) <=> e.kind = "write" /\ e.at = m /\ e.of = p
  BY <1>1 DEF Is
<1>5. \A k \in 1 .. n + 1 :
        Ends(h2, k, j) <=>
          /\ j < k /\ Is(h2, k, "write", m, p) /\ D2(k - 1) = D2(j)
          /\ \A i \in j + 1 .. k - 1 : D2(i) >= D2(j)
  <2>1. Is(h2, j, "read", m, p) /\ \A k \in 1 .. n + 1 : k \in Nat
    BY <1>1, <1>3
  <2> QED
    BY <1>1, <2>1, EndsByDepth
<1>6. \A k \in 1 .. n :
        Ends(h, k, j) <=>
          /\ j < k /\ Is(h, k, "write", m, p) /\ D(k - 1) = D(j)
          /\ \A i \in j + 1 .. k - 1 : D(i) >= D(j)
  <2>1. \A k \in 1 .. n : k \in Nat
    BY <1>1
  <2> QED
    BY <1>1, <2>1, EndsByDepth
<1>7. \A k \in 0 .. n : D(k) \in Int
  <2>1. \A k \in 0 .. n : k \in Nat
    BY <1>1
  <2> QED
    BY <2>1, Depths
<1> HIDE DEF n, D, D2
<1>8. ASSUME NEW k \in 1 .. n PROVE Ends(h2, k, j) <=> Ends(h, k, j)
  <2>1. k \in 1 .. n + 1 /\ k - 1 \in 0 .. n /\ j \in 0 .. n
        /\ \A i \in j + 1 .. k - 1 : i \in 0 .. n
    BY <1>1 DEF n
  <2> QED
    BY <1>2, <1>3, <1>5, <1>6, <2>1
<1>9. Ends(h2, n + 1, j) <=>
        /\ Is(h2, n + 1, "write", m, p)
        /\ D(n) = D(j) /\ \A i \in j .. n : D(i) >= D(j)
  <2>1. n + 1 \in 1 .. n + 1 /\ (n + 1) - 1 = n /\ j < n + 1 /\ n \in 0 .. n
        /\ j \in 0 .. n /\ j + 1 .. n \in SUBSET (0 .. n)
    BY <1>1 DEF n
  <2>2. \A i \in j .. n : i = j \/ i \in j + 1 .. n
    BY <1>1
  <2>3. \A i \in j + 1 .. n : i \in j .. n
    BY <1>1
  <2>4. D(j) >= D(j)
    BY <1>7, <2>1
  <2>5. Ends(h2, n + 1, j) <=>
          /\ Is(h2, n + 1, "write", m, p) /\ D2(n) = D2(j)
          /\ \A i \in j + 1 .. n : D2(i) >= D2(j)
    BY <1>5, <2>1
  <2>6. D2(n) = D(n) /\ D2(j) = D(j) /\ \A i \in j + 1 .. n : D2(i) = D(i)
    BY <1>2, <2>1
  <2> QED
    BY <2>2, <2>3, <2>4, <2>5, <2>6
<1>10. j \in OpenReads(h, m, p, n) <=> \A i \in j .. n : D(i) >= D(j)
  BY DEF OpenReads, D, n
<1>11. j \in OpenReads(h, m, p, n) =>
         (D(n) = D(j) <=> \A r \in OpenReads(h, m, p, n) : r <= j)
  BY <1>1, Innermost DEF D
<1> QED
  BY <1>4, <1>8, <1>9, <1>10, <1>11 DEF n

(* no entry ends a read that comes later                                  *)
LEMMA NothingEndedBefore ==
  ASSUME NEW h, NEW i, NEW j, Ends(h, i, j)
  PROVE  j < i /\ Is(h, j, "read", h[j].at, h[j].of) /\ h[i].kind = "write"
         /\ h[i].at = h[j].at /\ h[i].of = h[j].of
BY DEF Ends, Is

(* A new entry changes nothing about which write ended which read.         *)
LEMMA EndsKept ==
  ASSUME NEW h, NEW h2, NEW e, Grown(h, h2, e),
         NEW i \in 1 .. Len(h), NEW j \in 1 .. Len(h)
  PROVE  Ends(h2, i, j) <=> Ends(h, i, j)
<1>1. h2[j] = h[j]
  BY DEF Grown
<1>2. CASE Is(h, j, "read", h[j].at, h[j].of)
  BY <1>2, EndsGrow
<1>3. CASE ~Is(h, j, "read", h[j].at, h[j].of)
  BY <1>1, <1>3 DEF Ends, Is
<1> QED
  BY <1>2, <1>3

(* A write ends the last open read of its packet and its module.           *)
LEMMA EndsNow ==
  ASSUME NEW h, NEW h2, NEW e, Grown(h, h2, e), NEW j \in 1 .. Len(h)
  PROVE  Ends(h2, Len(h) + 1, j) <=>
           /\ e.kind = "write" /\ j \in OpenReads(h, e.at, e.of, Len(h))
           /\ \A r \in OpenReads(h, e.at, e.of, Len(h)) : r <= j
<1> DEFINE m == h[j].at
           p == h[j].of
<1>1. h2[j] = h[j] /\ h2[Len(h) + 1] = e
  BY DEF Grown
<1>2. ASSUME Is(h, j, "read", m, p), m = e.at, p = e.of
      PROVE  Ends(h2, Len(h) + 1, j) <=>
               /\ e.kind = "write" /\ j \in OpenReads(h, m, p, Len(h))
               /\ \A r \in OpenReads(h, m, p, Len(h)) : r <= j
  BY <1>2, EndsGrow
<1>3. Ends(h2, Len(h) + 1, j) =>
        Is(h, j, "read", m, p) /\ m = e.at /\ p = e.of
  BY <1>1, NothingEndedBefore DEF Is
<1>4. j \in OpenReads(h, e.at, e.of, Len(h)) =>
        Is(h, j, "read", m, p) /\ m = e.at /\ p = e.of
  BY DEF OpenReads, Is
<1> HIDE DEF m, p
<1> QED
  BY <1>2, <1>3, <1>4

(* One of the open reads, if there are any, is the last.                   *)
LEMMA LastOpenRead ==
  ASSUME NEW h, NEW m, NEW p, NEW n \in Nat, OpenReads(h, m, p, n) # {}
  PROVE  \E j \in OpenReads(h, m, p, n) :
           \A r \in OpenReads(h, m, p, n) : r <= j
<1>1. OpenReads(h, m, p, n) \in SUBSET (0 .. n)
  BY DEF OpenReads
<1> QED
  BY <1>1, MaxIsLast

(* A read begins a visit, and a write when no read is open.                *)
LEMMA VisitsGrow ==
  ASSUME NEW h, NEW h2, NEW e, Grown(h, h2, e), NEW p
  PROVE  /\ Visits(h, p) \in SUBSET (1 .. Len(h))
         /\ \A i : i \in Visits(h2, p) <=>
              \/ i \in Visits(h, p)
              \/ /\ i = Len(h) + 1 /\ e.of = p
                 /\ \/ e.kind = "read"
                    \/ e.kind = "write" /\ OpenReads(h, e.at, p, Len(h)) = {}
<1> DEFINE n == Len(h)
<1>1. /\ n \in Nat /\ DOMAIN h = 1 .. n /\ DOMAIN h2 = 1 .. n + 1
      /\ h2[n + 1] = e /\ \A i \in 1 .. n : h2[i] = h[i]
      /\ n + 1 \notin 1 .. n /\ (n + 1) - 1 = n
      /\ \A i : i \in 1 .. n + 1 <=> i \in 1 .. n \/ i = n + 1
  BY DEF Grown
<1>2. \A i \in 1 .. n : 1 .. i - 1 \in SUBSET (1 .. n)
  BY <1>1
<1>3. Visits(h, p) \in SUBSET (1 .. n)
  BY <1>1 DEF Visits
<1>4. ASSUME NEW i \in 1 .. n PROVE i \in Visits(h2, p) <=> i \in Visits(h, p)
  <2>1. \A j \in 1 .. i - 1 : Ends(h2, i, j) <=> Ends(h, i, j)
    BY <1>2, EndsKept
  <2> HIDE DEF n
  <2> QED
    BY <1>1, <2>1 DEF Visits
<1>5. e.kind = "write" =>
        ((\A j \in 1 .. n : ~Ends(h2, n + 1, j)) <=>
           OpenReads(h, e.at, e.of, n) = {})
  <2>1. \A j \in 1 .. n : Ends(h2, n + 1, j) <=>
          /\ e.kind = "write" /\ j \in OpenReads(h, e.at, e.of, n)
          /\ \A r \in OpenReads(h, e.at, e.of, n) : r <= j
    BY EndsNow
  <2>2. OpenReads(h, e.at, e.of, n) \in SUBSET (1 .. n)
    BY DEF OpenReads
  <2>3. OpenReads(h, e.at, e.of, n) # {} =>
          \E j \in OpenReads(h, e.at, e.of, n) :
            \A r \in OpenReads(h, e.at, e.of, n) : r <= j
    BY <1>1, LastOpenRead
  <2> QED
    BY <2>1, <2>2, <2>3
<1>6. n + 1 \in Visits(h2, p) <=>
        /\ e.of = p
        /\ \/ e.kind = "read"
           \/ e.kind = "write" /\ OpenReads(h, e.at, p, n) = {}
  <2> HIDE DEF n
  <2> QED
    BY <1>1, <1>5 DEF Visits
<1>7. Visits(h2, p) \in SUBSET (1 .. n + 1)
  BY <1>1 DEF Visits
<1> QED
  BY <1>1, <1>3, <1>4, <1>6, <1>7

(* A visit changes only when it is ended, and was open till then.          *)
LEMMA VisitAtGrow ==
  ASSUME NEW h, NEW h2, NEW e, Grown(h, h2, e), NEW i \in 1 .. Len(h)
  PROVE  /\ ~Ends(h2, Len(h) + 1, i) => VisitAt(h2, i) = VisitAt(h, i)
         /\ Ends(h2, Len(h) + 1, i) =>
              /\ VisitAt(h2, i) = Visit(e.at, h[i].time, e.time)
              /\ VisitAt(h, i) = Visit(e.at, h[i].time, Never)
<1> DEFINE n == Len(h)
           E(g) == {k \in DOMAIN g : Ends(g, k, i)}
<1>1. /\ n \in Nat /\ DOMAIN h = 1 .. n /\ DOMAIN h2 = 1 .. n + 1
      /\ h2[n + 1] = e /\ \A k \in 1 .. n : h2[k] = h[k]
      /\ n + 1 \notin 1 .. n /\ n + 1 \in Nat
      /\ \A k : k \in 1 .. n + 1 <=> k \in 1 .. n \/ k = n + 1
  BY DEF Grown
<1>2. \A k \in 1 .. n : Ends(h2, k, i) <=> Ends(h, k, i)
  BY EndsKept
<1>3. \A g : VisitAt(g, i) =
        IF g[i].kind = "write" THEN Visit(g[i].at, Never, g[i].time)
        ELSE Visit(g[i].at, g[i].time,
                   IF E(g) = {} THEN Never ELSE g[Min(E(g))].time)
  BY DEF VisitAt
<1>4. E(h) \in SUBSET (1 .. n) /\ E(h) \in SUBSET Nat
  BY <1>1
<1>5. CASE ~Ends(h2, n + 1, i)
  <2>1. E(h2) = E(h)
    BY <1>1, <1>2, <1>5
  <2> HIDE DEF E
  <2>2. E(h) # {} => h2[Min(E(h))] = h[Min(E(h))]
    BY <1>1, <1>4, MinIsFirst
  <2>3. h2[i] = h[i]
    BY <1>1
  <2>4. VisitAt(h2, i) = VisitAt(h, i)
    BY <1>3, <2>1, <2>2, <2>3
  <2> QED
    BY <1>5, <2>4
<1>6. CASE Ends(h2, n + 1, i)
  <2>1. /\ i \in OpenReads(h, e.at, e.of, n)
        /\ h[i].kind = "read" /\ h[i].at = e.at /\ h2[i] = h[i]
    BY <1>1, <1>6, EndsNow DEF OpenReads, Is
  <2>2. \A k \in 1 .. n : ~Ends(h, k, i)
    <3>1. Is(h, i, "read", e.at, e.of)
      BY <2>1 DEF OpenReads
    <3> QED
      BY <1>1, <2>1, <3>1, OpenUntilEnded
  <2>3. E(h) = {} /\ E(h2) = {n + 1}
    BY <1>1, <1>2, <1>6, <2>2
  <2> HIDE DEF E
  <2>4. {n + 1} \subseteq Nat /\ {n + 1} # {}
    BY <1>1
  <2>5. Min({n + 1}) = n + 1
    BY <2>4, MinIsFirst
  <2>6. /\ VisitAt(h2, i) = Visit(e.at, h[i].time, e.time)
        /\ VisitAt(h, i) = Visit(e.at, h[i].time, Never)
    BY <1>1, <1>3, <2>1, <2>3, <2>5
  <2> QED
    BY <1>6, <2>6
<1> QED
  BY <1>5, <1>6

(* A visit that begins is open if by a read, and ended if by a write.      *)
LEMMA NewVisit ==
  ASSUME NEW h, NEW h2, NEW e, Grown(h, h2, e)
  PROVE  /\ e.kind = "read" =>
              VisitAt(h2, Len(h) + 1) = Visit(e.at, e.time, Never)
         /\ e.kind = "write" =>
              VisitAt(h2, Len(h) + 1) = Visit(e.at, Never, e.time)
<1>1. /\ Len(h) \in Nat /\ h2[Len(h) + 1] = e /\ DOMAIN h2 = 1 .. Len(h) + 1
  BY DEF Grown
<1>2. \A k \in 1 .. Len(h) + 1 : ~(Len(h) + 1 < k)
  BY <1>1
<1>3. {k \in DOMAIN h2 : Ends(h2, k, Len(h) + 1)} = {}
  BY <1>1, <1>2, NothingEndedBefore
<1> QED
  BY <1>1, <1>3 DEF VisitAt
-----------------------------------------------------------------------------
(* Backtraces, after one more entry. *)

(* an entry that is not about p leaves what a backtrace of p has to tell   *)
LEMMA TellsKept ==
  ASSUME NEW h, NEW h2, NEW e, Grown(h, h2, e), NEW p, NEW trace,
         ~(e.kind \in {"read", "write"} /\ e.of = p)
  PROVE  /\ Visits(h2, p) = Visits(h, p)
         /\ Tells(trace, h, p) => Tells(trace, h2, p)
<1>1. Visits(h2, p) = Visits(h, p) /\ Visits(h, p) \in SUBSET (1 .. Len(h))
  <2>1. /\ Visits(h, p) \in SUBSET (1 .. Len(h))
        /\ \A i : i \in Visits(h2, p) <=>
             \/ i \in Visits(h, p)
             \/ /\ i = Len(h) + 1 /\ e.of = p
                /\ \/ e.kind = "read"
                   \/ e.kind = "write" /\ OpenReads(h, e.at, p, Len(h)) = {}
    BY VisitsGrow
  <2>2. \A i : i \in Visits(h2, p) <=> i \in Visits(h, p)
    BY <2>1
  <2> QED
    BY <2>1, <2>2
<1>2. ASSUME NEW i \in Visits(h, p) PROVE VisitAt(h2, i) = VisitAt(h, i)
  <2>1. h[i].of = p /\ i \in 1 .. Len(h)
    BY <1>1 DEF Visits
  <2>2. h2[i] = h[i] /\ h2[Len(h) + 1] = e
    BY <2>1 DEF Grown
  <2>3. ~Ends(h2, Len(h) + 1, i)
    BY <2>1, <2>2, NothingEndedBefore
  <2> QED
    BY <2>1, <2>3, VisitAtGrow
<1> QED
  BY <1>1, <1>2 DEF Tells

(* a visit that begins is told at the end                                  *)
LEMMA TellsAppended ==
  ASSUME NEW h, NEW h2, NEW e, Grown(h, h2, e), NEW p, NEW v \in VisitOf,
         NEW trace \in Seq(VisitOf), Tells(trace, h, p),
         Len(h) + 1 \in Visits(h2, p), v = VisitAt(h2, Len(h) + 1)
  PROVE  Tells(Append(trace, v), h2, p)
<1> DEFINE n == Len(h)
           V == Visits(h, p)
<1>0. n \in Nat /\ h2[n + 1] = e /\ n + 1 \notin 1 .. n
  BY DEF Grown
<1>1. /\ V \in SUBSET (1 .. n) /\ Visits(h2, p) = V \cup {n + 1}
      /\ e.kind = "write" => OpenReads(h, e.at, e.of, n) = {}
  <2>1. /\ V \in SUBSET (1 .. n)
        /\ \A i : i \in Visits(h2, p) <=>
             \/ i \in V
             \/ /\ i = n + 1 /\ e.of = p
                /\ \/ e.kind = "read"
                   \/ e.kind = "write" /\ OpenReads(h, e.at, p, n) = {}
    BY VisitsGrow
  <2> HIDE DEF V, n
  <2>2. /\ e.of = p
        /\ e.kind = "read" \/ (e.kind = "write" /\ OpenReads(h, e.at, p, n) = {})
    BY <1>0, <2>1 DEF n
  <2>3. \A i : i \in Visits(h2, p) <=> i \in V \cup {n + 1}
    BY <2>1, <2>2 DEF n
  <2> QED
    BY <2>1, <2>2, <2>3
<1>3. \A i \in V : VisitAt(h2, i) = VisitAt(h, i)
  <2>1. \A i \in 1 .. n : ~Ends(h2, n + 1, i)
    BY <1>1, EndsNow
  <2> QED
    BY <1>1, <2>1, VisitAtGrow
<1>4. /\ Len(trace) = Cardinality(V) /\ Len(trace) \in Nat
      /\ \A i \in V : trace[Place(i, V)] = VisitAt(h, i)
      /\ \A i \in V : Place(i, V) \in 1 .. Len(trace)
  BY <1>0, <1>1, Places, LenProperties DEF Tells
<1>5. /\ Len(Append(trace, v)) = Len(trace) + 1
      /\ Append(trace, v)[Len(trace) + 1] = v
      /\ \A i \in 1 .. Len(trace) : Append(trace, v)[i] = trace[i]
  BY AppendProperties
<1>6. /\ Cardinality(V \cup {n + 1}) = Cardinality(V) + 1
      /\ Place(n + 1, V \cup {n + 1}) = Cardinality(V) + 1
      /\ \A i \in V : Place(i, V \cup {n + 1}) = Place(i, V)
  BY <1>0, <1>1, LastPlace
<1> HIDE DEF n, V
<1>7. \A i \in V \cup {n + 1} :
        Append(trace, v)[Place(i, V \cup {n + 1})] = VisitAt(h2, i)
  BY <1>3, <1>4, <1>5, <1>6 DEF n
<1> QED
  BY <1>1, <1>4, <1>5, <1>6, <1>7 DEF Tells

(* entries of the history bear times                                       *)
Timed(h) == /\ Len(h) \in Nat /\ DOMAIN h = 1 .. Len(h)
            /\ \A i \in 1 .. Len(h) : h[i].time # Never

(* A visit is open as long as no write has ended the read.                 *)
LEMMA OpenVisitAt ==
  ASSUME NEW h, Timed(h), NEW p, NEW m, NEW j \in Visits(h, p)
  PROVE  VisitAt(h, j).module = m /\ VisitAt(h, j).write_time = Never <=>
           j \in OpenReads(h, m, p, Len(h))
<1> DEFINE ends == {k \in DOMAIN h : Ends(h, k, j)}
<1>1. /\ j \in 1 .. Len(h) /\ Len(h) \in Nat /\ DOMAIN h = 1 .. Len(h)
      /\ h[j].of = p /\ h[j].time # Never /\ ends \in SUBSET Nat
      /\ h[j].kind = "read" \/ h[j].kind = "write"
  BY DEF Visits, Timed
<1>2. CASE h[j].kind = "write"
  <2>1. j \notin OpenReads(h, m, p, Len(h))
    BY <1>2 DEF OpenReads, Is
  <2> QED
    BY <1>1, <1>2, <2>1 DEF VisitAt, Visit
<1>3. CASE h[j].kind = "read"
  <2>1. VisitAt(h, j) = Visit(h[j].at, h[j].time,
                              IF ends = {} THEN Never ELSE h[Min(ends)].time)
    BY <1>3 DEF VisitAt
  <2>2. ends # {} => h[Min(ends)].time # Never
    <3>1. ends # {} => Min(ends) \in ends
      BY <1>1, MinIsFirst
    <3> QED
      BY <1>1, <3>1 DEF Timed
  <2>3. Is(h, j, "read", m, p) => (j \in OpenReads(h, m, p, Len(h)) <=> ends = {})
    BY <1>1, OpenUntilEnded
  <2>4. j \in OpenReads(h, m, p, Len(h)) => Is(h, j, "read", m, p)
    BY DEF OpenReads
  <2>5. Is(h, j, "read", m, p) <=> h[j].at = m
    BY <1>1, <1>3 DEF Is
  <2> HIDE DEF ends
  <2> QED
    BY <2>1, <2>2, <2>3, <2>4, <2>5 DEF Visit
<1> QED
  BY <1>1, <1>2, <1>3

(* A write finds the visit of the last open read.                          *)
LEMMA LastOpenVisit ==
  ASSUME NEW h, Timed(h), NEW p, NEW m, NEW trace \in Seq(VisitOf),
         Tells(trace, h, p), NEW i, i = LastOpen(trace, m)
  PROVE  /\ OpenReads(h, m, p, Len(h)) = {} => i = 0
         /\ \A j \in OpenReads(h, m, p, Len(h)) :
              (\A r \in OpenReads(h, m, p, Len(h)) : r <= j) =>
                j \in Visits(h, p) /\ i = Place(j, Visits(h, p))
<1> DEFINE n == Len(h)
           V == Visits(h, p)
           O == OpenReads(h, m, p, n)
           Open(k) == trace[k].module = m /\ trace[k].write_time = Never
<1>1. n \in Nat /\ V \in SUBSET (1 .. n) /\ O \in SUBSET V
  BY DEF Timed, Visits, OpenReads, Is
<1>2. /\ Len(trace) = Cardinality(V) /\ Cardinality(V) \in Nat
      /\ \A j \in V : trace[Place(j, V)] = VisitAt(h, j)
      /\ \A j \in V : Place(j, V) \in 1 .. Len(trace)
      /\ \A k \in 1 .. Len(trace) : \E j \in V : Place(j, V) = k
      /\ \A j, r \in V : r < j => Place(r, V) < Place(j, V)
  BY <1>1, Places DEF Tells
<1>3. \A j \in V : Open(Place(j, V)) <=> j \in O
  BY <1>2, OpenVisitAt
<1>4. \/ i = 0 /\ \A k \in 1 .. Len(trace) : ~Open(k)
      \/ /\ i \in 1 .. Len(trace) /\ Open(i)
         /\ \A k \in 1 .. Len(trace) : Open(k) => k <= i
  BY OpenVisit
<1> HIDE DEF n, V, O, Open
<1>5. O = {} => i = 0
  BY <1>2, <1>3, <1>4
<1>6. ASSUME NEW j \in O, \A r \in O : r <= j PROVE i = Place(j, V)
  <2>1. /\ j \in V /\ Place(j, V) \in 1 .. Len(trace) /\ Open(Place(j, V))
        /\ 1 .. Len(trace) \in SUBSET Nat
    BY <1>1, <1>2, <1>3
  <2>2. i \in 1 .. Len(trace) /\ Open(i) /\ Place(j, V) <= i
    BY <1>4, <2>1
  <2>3. PICK r \in V : Place(r, V) = i
    BY <1>2, <2>2
  <2>4. r \in O /\ r <= j /\ r \in Nat /\ j \in Nat
    BY <1>1, <1>3, <1>6, <2>1, <2>2, <2>3
  <2>5. r < j => i < Place(j, V)
    BY <1>2, <2>1, <2>3
  <2> QED
    BY <2>1, <2>2, <2>3, <2>4, <2>5
<1> QED
  BY <1>1, <1>5, <1>6 DEF n, V, O

(* a write ends the visit of the last open read                            *)
LEMMA TellsEnded ==
  ASSUME NEW h, NEW h2, NEW e, Grown(h, h2, e), e.kind = "write",
         Timed(h), NEW trace \in Seq(VisitOf), Tells(trace, h, e.of),
         NEW j \in OpenReads(h, e.at, e.of, Len(h)),
         \A r \in OpenReads(h, e.at, e.of, Len(h)) : r <= j
  PROVE  Tells(updateTraceWriteTime(trace, e.at, e.time), h2, e.of)
<1> DEFINE n == Len(h)
           V == Visits(h, e.of)
           i == Place(j, V)
           changed == Visit(e.at, trace[i].read_time, e.time)
           after == [trace EXCEPT ![i] = changed]
<1>1. n \in Nat /\ V \in SUBSET (1 .. n) /\ V \in SUBSET Nat /\ j \in V
  BY DEF Timed, Visits, OpenReads, Is
<1>2. Visits(h2, e.of) = V
  <2>1. \A k : k \in Visits(h2, e.of) <=> k \in V
    BY VisitsGrow
  <2> QED
    BY <2>1
<1>3. /\ Len(trace) = Cardinality(V) /\ DOMAIN trace = 1 .. Len(trace)
      /\ \A k \in V : trace[Place(k, V)] = VisitAt(h, k)
      /\ \A k \in V : Place(k, V) \in 1 .. Len(trace)
      /\ \A k, r \in V : r < k => Place(r, V) < Place(k, V)
  BY <1>1, Places, LenProperties DEF Tells
<1>4. LastOpen(trace, e.at) = i
  <2>1. PICK l : l = LastOpen(trace, e.at)
    OBVIOUS
  <2> QED
    BY <2>1, LastOpenVisit
<1>5. \A k \in 1 .. n : Ends(h2, n + 1, k) <=> k = j
  <2>1. \A k \in 1 .. n : Ends(h2, n + 1, k) <=>
          /\ k \in OpenReads(h, e.at, e.of, n)
          /\ \A r \in OpenReads(h, e.at, e.of, n) : r <= k
    BY EndsNow
  <2>2. OpenReads(h, e.at, e.of, n) \in SUBSET (1 .. n)
    BY DEF OpenReads
  <2> QED
    BY <1>1, <2>1, <2>2
<1>6. /\ VisitAt(h2, j) = Visit(e.at, h[j].time, e.time)
      /\ VisitAt(h, j) = Visit(e.at, h[j].time, Never)
      /\ \A k \in V \ {j} : VisitAt(h2, k) = VisitAt(h, k)
  BY <1>1, <1>5, VisitAtGrow
<1>7. /\ trace[i] = Visit(e.at, h[j].time, Never) /\ i \in 1 .. Len(trace)
      /\ trace[i].read_time = h[j].time
  BY <1>1, <1>3, <1>6 DEF Visit
<1>8. /\ i # 0 /\ updateTraceWriteTime(trace, e.at, e.time) = after
  BY <1>4, <1>7 DEF updateTraceWriteTime
<1>9. Len(after) = Len(trace)
  BY <1>7, ExceptSeq
<1> HIDE DEF n, V
<1>10. ASSUME NEW k \in V PROVE after[Place(k, V)] = VisitAt(h2, k)
  <2>1. CASE k = j
    BY <2>1, <1>3, <1>6, <1>7
  <2>2. CASE k # j
    <3>1. k < j \/ j < k
      BY <1>1, <2>2
    <3>2. Place(k, V) \in 1 .. Len(trace) /\ Place(k, V) # i
      <4>1. Place(k, V) \in 1 .. Len(trace) /\ i \in 1 .. Len(trace)
        BY <1>3, <1>7
      <4>2. Place(k, V) < i \/ i < Place(k, V)
        BY <1>1, <1>3, <3>1
      <4> QED
        BY <4>1, <4>2
    <3> QED
      BY <1>3, <1>6, <2>2, <3>2
  <2> QED
    BY <2>1, <2>2
<1> HIDE DEF after
<1> QED
  BY <1>2, <1>3, <1>8, <1>9, <1>10 DEF Tells

(* What the two callbacks do to a trace is what its history says.          *)
LEMMA TraceOfRead ==
  ASSUME NEW h, NEW h2, NEW e, Grown(h, h2, e), e.kind = "read",
         e.at \in Modules, e.time \in Times,
         NEW trace \in Seq(VisitOf), Tells(trace, h, e.of)
  PROVE  Tells(updateTraceReadTime(trace, e.at, e.time), h2, e.of)
<1> DEFINE v == Visit(e.at, e.time, Never)
<1>1. v \in VisitOf
  BY DEF Visit, VisitOf
<1>2. v = VisitAt(h2, Len(h) + 1) /\ Len(h) + 1 \in Visits(h2, e.of)
  BY NewVisit, VisitsGrow
<1> HIDE DEF v
<1>3. Tells(Append(trace, v), h2, e.of)
  BY <1>1, <1>2, TellsAppended
<1> QED
  BY <1>3 DEF updateTraceReadTime, v

LEMMA TraceOfWrite ==
  ASSUME NEW h, NEW h2, NEW e, Grown(h, h2, e), e.kind = "write", Timed(h),
         e.at \in Modules, e.time \in Times,
         NEW trace \in Seq(VisitOf), Tells(trace, h, e.of)
  PROVE  Tells(updateTraceWriteTime(trace, e.at, e.time), h2, e.of)
<1>1. CASE OpenReads(h, e.at, e.of, Len(h)) = {}
  <2> DEFINE v == Visit(e.at, Never, e.time)
  <2>1. v \in VisitOf
    BY DEF Visit, VisitOf
  <2>2. v = VisitAt(h2, Len(h) + 1) /\ Len(h) + 1 \in Visits(h2, e.of)
    BY <1>1, NewVisit, VisitsGrow
  <2>3. PICK i : i = LastOpen(trace, e.at)
    OBVIOUS
  <2>4. i = 0
    BY <1>1, <2>3, LastOpenVisit
  <2>5. updateTraceWriteTime(trace, e.at, e.time) = Append(trace, v)
    BY <2>3, <2>4 DEF updateTraceWriteTime
  <2> HIDE DEF v
  <2>6. Tells(Append(trace, v), h2, e.of)
    BY <2>1, <2>2, TellsAppended
  <2> QED
    BY <2>5, <2>6
<1>2. CASE OpenReads(h, e.at, e.of, Len(h)) # {}
  <2>1. Len(h) \in Nat
    BY DEF Timed
  <2>2. PICK j \in OpenReads(h, e.at, e.of, Len(h)) :
          \A r \in OpenReads(h, e.at, e.of, Len(h)) : r <= j
    BY <1>2, <2>1, LastOpenRead
  <2> QED
    BY <2>2, TellsEnded
<1> QED
  BY <1>1, <1>2
-----------------------------------------------------------------------------
(* What is kept of packets, drops and counters. *)

PacketFollows(q, h, p) ==
  /\ q.current_location = h[Arrival(h, p)].at
  /\ q.last_notify_time = h[Arrival(h, p)].time
  /\ Tells(q.trace, h, p)

PacketsFollow(h, list) ==
  \A p \in Packets :
    /\ p \in DOMAIN list <=> Seen(h, p)
    /\ p \in DOMAIN list => PacketFollows(list[p], h, p)

DropsFollow(h, list) ==
  /\ Len(list) = Cardinality(Dropped(h))
  /\ \A i \in Dropped(h) : list[Place(i, Dropped(h))] = <<h[i].of, h[i].at>>

CountersFollow(h, there) ==
  \A n \in CounterNames : n \in there <=> Present(h, n, Len(h))

About(e, p) == e.kind \in {"read", "write"} /\ e.of = p

(* A packet is seen by its first read or write, and comes by each read.    *)
LEMMA SeenGrow ==
  ASSUME NEW h, NEW h2, NEW e, Grown(h, h2, e), NEW p
  PROVE  /\ Seen(h2, p) <=> Seen(h, p) \/ About(e, p)
         /\ e.kind = "read" /\ e.of = p => Arrival(h2, p) = Len(h) + 1
         /\ About(e, p) /\ ~Seen(h, p) => Arrival(h2, p) = Len(h) + 1
         /\ ~(e.kind = "read" /\ e.of = p) /\ Seen(h, p) =>
              Arrival(h2, p) = Arrival(h, p) /\ Arrival(h, p) \in 1 .. Len(h)
<1> DEFINE n == Len(h)
<1>1. /\ n \in Nat /\ DOMAIN h = 1 .. n /\ DOMAIN h2 = 1 .. n + 1
      /\ h2[n + 1] = e /\ \A i \in 1 .. n : h2[i] = h[i]
      /\ n + 1 \notin 1 .. n /\ n + 1 \in Nat
      /\ \A i : i \in 1 .. n + 1 <=> i \in 1 .. n \/ i = n + 1
  BY DEF Grown
<1> HIDE DEF n
<1>2. /\ Reads(h, p) \in SUBSET (1 .. n) /\ Writes(h, p) \in SUBSET (1 .. n)
      /\ Reads(h2, p) = IF e.kind = "read" /\ e.of = p
                        THEN Reads(h, p) \cup {n + 1} ELSE Reads(h, p)
      /\ Writes(h2, p) = IF e.kind = "write" /\ e.of = p
                         THEN Writes(h, p) \cup {n + 1} ELSE Writes(h, p)
  <2>1. \A i : i \in Reads(h2, p) <=>
                 i \in Reads(h, p) \/ (i = n + 1 /\ e.kind = "read" /\ e.of = p)
    BY <1>1 DEF Reads
  <2>2. \A i : i \in Writes(h2, p) <=>
                 i \in Writes(h, p) \/ (i = n + 1 /\ e.kind = "write" /\ e.of = p)
    BY <1>1 DEF Writes
  <2>3. Reads(h, p) \in SUBSET (1 .. n) /\ Writes(h, p) \in SUBSET (1 .. n)
    BY <1>1 DEF Reads, Writes
  <2> QED
    BY <2>1, <2>2, <2>3
<1>3. Seen(h2, p) <=> Seen(h, p) \/ About(e, p)
  BY <1>2 DEF Seen, About
<1>4. ASSUME NEW S \in SUBSET (1 .. n)
      PROVE  /\ Max(S \cup {n + 1}) = n + 1
             /\ S # {} => Max(S) \in 1 .. n /\ Min(S) \in 1 .. n
             /\ S # {} => Min(S \cup {n + 1}) = Min(S)
             /\ Min({n + 1}) = n + 1
  <2>1. /\ S \in SUBSET (0 .. n) /\ S \subseteq Nat
        /\ S \cup {n + 1} \in SUBSET (0 .. n + 1) /\ S \cup {n + 1} \subseteq Nat
        /\ S \cup {n + 1} # {} /\ {n + 1} \subseteq Nat /\ {n + 1} # {}
    BY <1>1
  <2>2. /\ Max(S \cup {n + 1}) \in S \cup {n + 1}
        /\ n + 1 <= Max(S \cup {n + 1})
    <3>1. n + 1 \in S \cup {n + 1}
      OBVIOUS
    <3> QED
      BY <1>1, <2>1, <3>1, MaxIsLast
  <2>3. S # {} => Max(S) \in S /\ Min(S) \in S /\ \A y \in S : Min(S) <= y
    BY <1>1, <2>1, MaxIsLast, MinIsFirst
  <2>4. /\ Min(S \cup {n + 1}) \in S \cup {n + 1}
        /\ \A y \in S : Min(S \cup {n + 1}) <= y
    BY <2>1, MinIsFirst
  <2>5. Min({n + 1}) = n + 1
    BY <2>1, MinIsFirst
  <2>6. Max(S \cup {n + 1}) = n + 1
    <3> HIDE DEF n
    <3>1. \A x \in S : ~(n + 1 <= x)
      BY <1>1
    <3> QED
      BY <2>2, <3>1
  <2>7. ASSUME S # {} PROVE Min(S \cup {n + 1}) = Min(S)
    <3>1. PICK a, b : a = Min(S \cup {n + 1}) /\ b = Min(S)
      OBVIOUS
    <3>2. b \in S /\ a <= b /\ b \in Nat /\ b <= n
      <4>1. b \in S
        BY <2>3, <2>7, <3>1
      <4>2. a <= b
        BY <2>4, <3>1, <4>1
      <4>3. b \in Nat /\ b <= n
        BY <1>1, <4>1
      <4> QED
        BY <4>1, <4>2, <4>3
    <3>3. a \in S
      BY <1>1, <2>4, <3>1, <3>2
    <3>4. b <= a /\ a \in Nat
      BY <2>1, <2>3, <2>7, <3>1, <3>3
    <3> QED
      BY <3>1, <3>2, <3>4
  <2> QED
    BY <2>3, <2>5, <2>6, <2>7
<1>5. /\ Max(Reads(h, p) \cup {n + 1}) = n + 1 /\ Min({n + 1}) = n + 1
      /\ Reads(h, p) # {} => Max(Reads(h, p)) \in 1 .. n
      /\ Writes(h, p) # {} => /\ Min(Writes(h, p) \cup {n + 1}) = Min(Writes(h, p))
                              /\ Min(Writes(h, p)) \in 1 .. n
  BY <1>2, <1>4
<1>6. CASE e.kind = "read" /\ e.of = p
  <2>1. Reads(h2, p) = Reads(h, p) \cup {n + 1} /\ Reads(h2, p) # {}
    BY <1>2, <1>6
  <2>2. Arrival(h2, p) = n + 1
    BY <1>5, <2>1 DEF Arrival
  <2> QED
    BY <1>3, <1>6, <2>2 DEF n
<1>7. CASE e.kind = "write" /\ e.of = p
  <2>1. Reads(h2, p) = Reads(h, p) /\ Writes(h2, p) = Writes(h, p) \cup {n + 1}
    BY <1>2, <1>7
  <2>2. Seen(h, p) => Arrival(h2, p) = Arrival(h, p) /\ Arrival(h, p) \in 1 .. n
    BY <1>5, <2>1 DEF Arrival, Seen
  <2>3. ~Seen(h, p) => Reads(h2, p) = {} /\ Writes(h2, p) = {n + 1}
    BY <2>1 DEF Seen
  <2>4. ~Seen(h, p) => Arrival(h2, p) = n + 1
    BY <1>5, <2>3 DEF Arrival
  <2> QED
    BY <1>3, <1>7, <2>2, <2>4 DEF n
<1>8. CASE ~About(e, p)
  <2>1. Reads(h2, p) = Reads(h, p) /\ Writes(h2, p) = Writes(h, p)
    BY <1>2, <1>8 DEF About
  <2>2. Seen(h, p) => Arrival(h2, p) = Arrival(h, p) /\ Arrival(h, p) \in 1 .. n
    BY <1>5, <2>1 DEF Arrival, Seen
  <2> QED
    BY <1>3, <1>8, <2>2 DEF n, About
<1> QED
  BY <1>6, <1>7, <1>8 DEF About

(* An entry that is not about a packet leaves what is known of it.         *)
LEMMA PacketKept ==
  ASSUME NEW h, NEW h2, NEW e, Grown(h, h2, e), NEW p, ~About(e, p), NEW q
  PROVE  /\ Seen(h2, p) <=> Seen(h, p)
         /\ Seen(h, p) /\ PacketFollows(q, h, p) => PacketFollows(q, h2, p)
<1>1. Seen(h2, p) <=> Seen(h, p)
  BY SeenGrow
<1>2. ASSUME Seen(h, p), PacketFollows(q, h, p) PROVE PacketFollows(q, h2, p)
  <2>1. Arrival(h2, p) = Arrival(h, p) /\ Arrival(h, p) \in 1 .. Len(h)
    BY <1>2, SeenGrow DEF About
  <2>2. h2[Arrival(h, p)] = h[Arrival(h, p)]
    BY <2>1 DEF Grown
  <2>3. Tells(q.trace, h2, p)
    BY <1>2, TellsKept DEF About, PacketFollows
  <2> QED
    BY <1>2, <2>1, <2>2, <2>3 DEF PacketFollows
<1> QED
  BY <1>1, <1>2

(* There is nothing to tell of a packet that was not seen.                 *)
LEMMA UnseenTold ==
  ASSUME NEW h, NEW p, ~Seen(h, p)
  PROVE  Visits(h, p) = {} /\ Tells(<<>>, h, p)
<1>1. Visits(h, p) = {}
  BY DEF Seen, Reads, Writes, Visits
<1>2. Cardinality({}) = 0 /\ Len(<<>>) = 0
  BY FS_EmptySet
<1> QED
  BY <1>1, <1>2 DEF Tells

(* A packet that is read or written is known by that.                      *)
LEMMA PacketMet ==
  ASSUME NEW h, NEW h2, NEW e, Grown(h, h2, e), NEW p \in Packets, About(e, p),
         NEW list, PacketsFollow(h, list), NEW q, PacketFollows(q, h2, p)
  PROVE  PacketsFollow(h2, With(list, p, q))
<1>1. Seen(h2, p)
  BY SeenGrow
<1>2. p \in DOMAIN With(list, p, q) /\ With(list, p, q)[p] = q
  BY DEF With
<1>3. ASSUME NEW r \in Packets, r # p
      PROVE  /\ r \in DOMAIN With(list, p, q) <=> Seen(h2, r)
             /\ r \in DOMAIN With(list, p, q) =>
                  PacketFollows(With(list, p, q)[r], h2, r)
  <2>1. /\ r \in DOMAIN With(list, p, q) <=> r \in DOMAIN list
        /\ r \in DOMAIN list => With(list, p, q)[r] = list[r]
    BY <1>3 DEF With
  <2>2. ~About(e, r)
    BY <1>3 DEF About
  <2>3. Seen(h2, r) <=> Seen(h, r)
    BY <2>2, PacketKept
  <2>4. r \in DOMAIN list <=> Seen(h, r)
    BY DEF PacketsFollow
  <2>5. r \in DOMAIN list => PacketFollows(list[r], h, r)
    BY DEF PacketsFollow
  <2>6. r \in DOMAIN list => PacketFollows(list[r], h2, r)
    BY <2>2, <2>4, <2>5, PacketKept
  <2> QED
    BY <2>1, <2>3, <2>4, <2>6
<1>4. ASSUME NEW r \in Packets
      PROVE  /\ r \in DOMAIN With(list, p, q) <=> Seen(h2, r)
             /\ r \in DOMAIN With(list, p, q) =>
                  PacketFollows(With(list, p, q)[r], h2, r)
  <2>1. CASE r = p
    BY <1>1, <1>2, <2>1
  <2>2. CASE r # p
    BY <1>3, <2>2
  <2> QED
    BY <2>1, <2>2
<1> QED
  BY <1>4 DEF PacketsFollow

(* An entry that reads and writes nothing leaves all packets.              *)
LEMMA PacketsKept ==
  ASSUME NEW h, NEW h2, NEW e, Grown(h, h2, e), e.kind \notin {"read", "write"},
         NEW list, PacketsFollow(h, list)
  PROVE  PacketsFollow(h2, list)
<1> SUFFICES ASSUME NEW p \in Packets
             PROVE  /\ p \in DOMAIN list <=> Seen(h2, p)
                    /\ p \in DOMAIN list => PacketFollows(list[p], h2, p)
  BY DEF PacketsFollow
<1>1. ~About(e, p)
  BY DEF About
<1>2. Seen(h2, p) <=> Seen(h, p)
  BY <1>1, PacketKept
<1>3. /\ p \in DOMAIN list <=> Seen(h, p)
      /\ p \in DOMAIN list => PacketFollows(list[p], h, p)
  BY DEF PacketsFollow
<1>4. p \in DOMAIN list => PacketFollows(list[p], h2, p)
  BY <1>1, <1>3, PacketKept
<1> QED
  BY <1>2, <1>3, <1>4

(* The entry of a packet before a callback, a new one or the one it has.   *)
LEMMA EntryBefore ==
  ASSUME NEW h, PacketsFollow(h, packet_list), NEW p \in Packets, NEW m, NEW t,
         NEW q, q = DebuggerPacket(p, m, t)
  PROVE  /\ Tells(q.trace, h, p)
         /\ Seen(h, p) => PacketFollows(q, h, p)
         /\ ~Seen(h, p) => q.current_location = m /\ q.last_notify_time = t
<1>1. /\ p \in DOMAIN packet_list <=> Seen(h, p)
      /\ p \in DOMAIN packet_list => PacketFollows(packet_list[p], h, p)
  BY DEF PacketsFollow
<1>2. CASE Seen(h, p)
  BY <1>1, <1>2 DEF DebuggerPacket, PacketFollows
<1>3. CASE ~Seen(h, p)
  <2>1. q.trace = <<>> /\ q.current_location = m /\ q.last_notify_time = t
    BY <1>1, <1>3 DEF DebuggerPacket, Packet
  <2>2. Tells(<<>>, h, p)
    BY <1>3, UnseenTold
  <2> QED
    BY <1>3, <2>1, <2>2
<1> QED
  BY <1>2, <1>3

LEMMA ReadFollowed ==
  ASSUME PacketTypes, NEW h, PacketsFollow(h, packet_list),
         NEW m \in Modules, NEW p \in Packets, NEW t \in Times,
         NEW h2, NEW e, Grown(h, h2, e), e.kind = "read", e.at = m, e.of = p,
         e.time = t,
         NEW q, q = DebuggerPacket(p, m, t)
  PROVE  PacketsFollow(h2, With(packet_list, p,
           Packet(m, t, updateTraceReadTime(q.trace, m, t))))
<1>1. q.trace \in Seq(VisitOf) /\ Tells(q.trace, h, p)
  BY EntriesTyped, EntryBefore
<1>2. PICK tr : tr = updateTraceReadTime(q.trace, m, t)
  OBVIOUS
<1>3. Tells(tr, h2, p)
  BY <1>1, <1>2, TraceOfRead
<1>4. Arrival(h2, p) = Len(h) + 1 /\ h2[Len(h) + 1] = e
  BY SeenGrow DEF Grown
<1>5. PacketFollows(Packet(m, t, tr), h2, p)
  BY <1>3, <1>4 DEF PacketFollows, Packet
<1>6. About(e, p)
  BY DEF About
<1> QED
  BY <1>2, <1>5, <1>6, PacketMet

LEMMA WriteFollowed ==
  ASSUME PacketTypes, NEW h, Timed(h), PacketsFollow(h, packet_list),
         NEW m \in Modules, NEW p \in Packets, NEW t \in Times,
         NEW h2, NEW e, Grown(h, h2, e), e.kind = "write", e.at = m, e.of = p,
         e.time = t,
         NEW q, q = DebuggerPacket(p, m, t)
  PROVE  PacketsFollow(h2, With(packet_list, p,
           Packet(q.current_location, q.last_notify_time,
                  updateTraceWriteTime(q.trace, m, t))))
<1>1. q.trace \in Seq(VisitOf) /\ Tells(q.trace, h, p)
  BY EntriesTyped, EntryBefore
<1>2. PICK tr : tr = updateTraceWriteTime(q.trace, m, t)
  OBVIOUS
<1>3. Tells(tr, h2, p)
  BY <1>1, <1>2, TraceOfWrite
<1>4. /\ q.current_location = h2[Arrival(h2, p)].at
      /\ q.last_notify_time = h2[Arrival(h2, p)].time
  <2>1. CASE Seen(h, p)
    <3>1. Arrival(h2, p) = Arrival(h, p) /\ Arrival(h, p) \in 1 .. Len(h)
      BY <2>1, SeenGrow
    <3>2. h2[Arrival(h, p)] = h[Arrival(h, p)]
      BY <3>1 DEF Grown
    <3>3. PacketFollows(q, h, p)
      BY <2>1, EntryBefore
    <3> QED
      BY <3>1, <3>2, <3>3 DEF PacketFollows
  <2>2. CASE ~Seen(h, p)
    <3>1. Arrival(h2, p) = Len(h) + 1 /\ h2[Len(h) + 1] = e
      BY <2>2, SeenGrow DEF Grown, About
    <3>2. q.current_location = m /\ q.last_notify_time = t
      BY <2>2, EntryBefore
    <3> QED
      BY <3>1, <3>2
  <2> QED
    BY <2>1, <2>2
<1>5. PacketFollows(Packet(q.current_location, q.last_notify_time, tr), h2, p)
  BY <1>3, <1>4 DEF PacketFollows, Packet
<1>6. About(e, p)
  BY DEF About
<1> QED
  BY <1>2, <1>5, <1>6, PacketMet

(* The list of dropped packets.                                            *)
LEMMA DropsGrow ==
  ASSUME NEW h, NEW h2, NEW e, Grown(h, h2, e), NEW list \in Seq(Drops),
         DropsFollow(h, list)
  PROVE  /\ e.kind # "dropped" => DropsFollow(h2, list)
         /\ e.kind = "dropped" /\ <<e.of, e.at>> \in Drops =>
              DropsFollow(h2, Append(list, <<e.of, e.at>>))
<1> DEFINE n == Len(h)
           D == Dropped(h)
           d == <<e.of, e.at>>
<1>1. /\ n \in Nat /\ DOMAIN h = 1 .. n /\ DOMAIN h2 = 1 .. n + 1
      /\ h2[n + 1] = e /\ \A i \in 1 .. n : h2[i] = h[i]
      /\ n + 1 \notin 1 .. n
      /\ \A i : i \in 1 .. n + 1 <=> i \in 1 .. n \/ i = n + 1
  BY DEF Grown
<1> HIDE DEF n
<1>2. /\ D \in SUBSET (1 .. n)
      /\ \A i : i \in Dropped(h2) <=> i \in D \/ (i = n + 1 /\ e.kind = "dropped")
  BY <1>1 DEF Dropped
<1>3. /\ Len(list) = Cardinality(D) /\ Len(list) \in Nat
      /\ \A i \in D : list[Place(i, D)] = <<h[i].of, h[i].at>>
  BY LenProperties DEF DropsFollow
<1> HIDE DEF D, d
<1>4. CASE e.kind # "dropped"
  <2>1. Dropped(h2) = D
    BY <1>2, <1>4
  <2>2. \A i \in D : h2[i] = h[i]
    BY <1>1, <1>2
  <2> QED
    BY <1>3, <1>4, <2>1, <2>2 DEF DropsFollow
<1>5. ASSUME e.kind = "dropped", d \in Drops
      PROVE  DropsFollow(h2, Append(list, d))
  <2>1. Dropped(h2) = D \cup {n + 1}
    BY <1>2, <1>5
  <2>2. /\ Cardinality(D \cup {n + 1}) = Cardinality(D) + 1
        /\ Place(n + 1, D \cup {n + 1}) = Cardinality(D) + 1
        /\ \A i \in D : Place(i, D \cup {n + 1}) = Place(i, D)
    BY <1>1, <1>2, LastPlace
  <2>3. /\ Len(Append(list, d)) = Len(list) + 1
        /\ \A i \in 1 .. Len(list) : Append(list, d)[i] = list[i]
        /\ Append(list, d)[Len(list) + 1] = d
    BY <1>5, AppendProperties
  <2>4. \A i \in D : Place(i, D) \in 1 .. Len(list)
    BY <1>1, <1>2, <1>3, Places
  <2>5. ASSUME NEW i \in D \cup {n + 1}
        PROVE  Append(list, d)[Place(i, D \cup {n + 1})] = <<h2[i].of, h2[i].at>>
    <3>1. CASE i = n + 1
      BY <1>1, <1>3, <2>2, <2>3, <3>1 DEF d
    <3>2. CASE i \in D
      BY <1>1, <1>2, <1>3, <2>2, <2>3, <2>4, <3>2
    <3> QED
      BY <3>1, <3>2
  <2> QED
    BY <1>3, <2>1, <2>2, <2>3, <2>5 DEF DropsFollow
<1> QED
  BY <1>4, <1>5 DEF d

(* The counters that are there.                                            *)
LEMMA PresentGrow ==
  ASSUME NEW h, NEW h2, NEW e, Grown(h, h2, e), NEW c
  PROVE  /\ Present(h2, c, Len(h)) <=> Present(h, c, Len(h))
         /\ e.at = c /\ e.kind = "added" => Present(h2, c, Len(h2))
         /\ e.at = c /\ e.kind = "removed" => ~Present(h2, c, Len(h2))
         /\ ~(e.at = c /\ e.kind \in {"added", "removed"}) =>
              (Present(h2, c, Len(h2)) <=> Present(h, c, Len(h)))
<1> DEFINE n == Len(h)
           of(g, l) == {i \in 1 .. l : /\ g[i].at = c
                                       /\ g[i].kind \in {"added", "removed"}}
<1>1. /\ n \in Nat /\ Len(h2) = n + 1 /\ n + 1 \in Nat
      /\ h2[n + 1] = e /\ \A i \in 1 .. n : h2[i] = h[i]
      /\ n + 1 \notin 1 .. n
      /\ \A i : i \in 1 .. n + 1 <=> i \in 1 .. n \/ i = n + 1
  BY DEF Grown
<1> HIDE DEF n
<1>2. /\ of(h, n) \in SUBSET (1 .. n) /\ of(h2, n) = of(h, n)
      /\ \A i : i \in of(h2, n + 1) <=>
           \/ i \in of(h, n)
           \/ i = n + 1 /\ e.at = c /\ e.kind \in {"added", "removed"}
  BY <1>1
<1>3. \A g, l : Present(g, c, l) <=> of(g, l) # {} /\ g[Max(of(g, l))].kind = "added"
  BY DEF Present
<1> HIDE DEF of
<1>4. of(h, n) # {} => Max(of(h, n)) \in 1 .. n
  <2>1. of(h, n) \in SUBSET (0 .. n)
    BY <1>1, <1>2
  <2> QED
    BY <1>1, <1>2, <2>1, MaxIsLast
<1>5. Present(h2, c, n) <=> Present(h, c, n)
  BY <1>1, <1>2, <1>3, <1>4
<1>6. CASE e.at = c /\ e.kind \in {"added", "removed"}
  <2>1. of(h2, n + 1) = of(h, n) \cup {n + 1}
    BY <1>2, <1>6
  <2>2. of(h2, n + 1) \in SUBSET (0 .. n + 1) /\ n + 1 \in of(h2, n + 1)
    BY <1>1, <1>2, <2>1
  <2>3. Max(of(h2, n + 1)) \in of(h2, n + 1) /\ n + 1 <= Max(of(h2, n + 1))
    BY <1>1, <2>2, MaxIsLast
  <2>4. Max(of(h2, n + 1)) = n + 1
    <3>1. \A x \in of(h, n) : ~(n + 1 <= x)
      BY <1>1, <1>2
    <3> QED
      BY <2>1, <2>3, <3>1
  <2> QED
    BY <1>1, <1>3, <1>5, <1>6, <2>2, <2>4 DEF n
<1>7. CASE ~(e.at = c /\ e.kind \in {"added", "removed"})
  <2>1. of(h2, n + 1) = of(h, n)
    BY <1>2, <1>7
  <2>2. Present(h2, c, n + 1) <=> Present(h, c, n)
    BY <1>1, <1>3, <1>4, <2>1
  <2> QED
    BY <1>1, <1>5, <1>7, <2>2 DEF n
<1> QED
  BY <1>6, <1>7

(* A counter is there when the last entry that says so has it added.       *)
LEMMA CountersGrow ==
  ASSUME NEW h, NEW h2, NEW e, Grown(h, h2, e), NEW there, CountersFollow(h, there)
  PROVE  /\ e.kind = "added" => CountersFollow(h2, there \cup {e.at})
         /\ e.kind = "removed" => CountersFollow(h2, there \ {e.at})
         /\ e.kind \notin {"added", "removed"} => CountersFollow(h2, there)
<1>1. \A c \in CounterNames : c \in there <=> Present(h, c, Len(h))
  BY DEF CountersFollow
<1>2. \A c \in CounterNames :
        /\ e.at = c /\ e.kind = "added" => Present(h2, c, Len(h2))
        /\ e.at = c /\ e.kind = "removed" => ~Present(h2, c, Len(h2))
        /\ ~(e.at = c /\ e.kind \in {"added", "removed"}) =>
              (Present(h2, c, Len(h2)) <=> Present(h, c, Len(h)))
  BY PresentGrow
<1>3. CASE e.kind = "added"
  BY <1>1, <1>2, <1>3 DEF CountersFollow
<1>4. CASE e.kind = "removed"
  BY <1>1, <1>2, <1>4 DEF CountersFollow
<1>5. CASE e.kind \notin {"added", "removed"}
  BY <1>1, <1>2, <1>5 DEF CountersFollow
<1> QED
  BY <1>3, <1>4, <1>5

Followed ==
  /\ PacketsFollow(log, packet_list)
  /\ DropsFollow(log, dropped_packet_list)
  /\ CountersFollow(log, counters)

LEMMA LogTimed ==
  ASSUME PacketTypes
  PROVE  Timed(log)
<1>1. log \in Seq(Event) /\ Len(log) \in Nat /\ DOMAIN log = 1 .. Len(log)
  BY LenProperties DEF PacketTypes
<1>2. \A i \in 1 .. Len(log) : log[i] \in Event
  BY <1>1, ElementOfSeq
<1>3. \A x \in Times : x # Never
  BY PacketTracesAssumption DEF Times
<1> QED
  BY <1>1, <1>2, <1>3 DEF Timed, Event

(* An entry that is about no packet and that adds and removes no counter.  *)
LEMMA OtherFollowed ==
  ASSUME PacketTypes, Followed, NEW e, Grown(log, log', e),
         e.kind \notin {"read", "write", "dropped", "added", "removed"},
         UNCHANGED packets, UNCHANGED counters
  PROVE  Followed'
<1>1. PICK h2 : h2 = log'
  OBVIOUS
<1>2. dropped_packet_list \in Seq(Drops) /\ Grown(log, h2, e)
  BY <1>1 DEF PacketTypes
<1>3. PacketsFollow(h2, packet_list)
  BY <1>2, PacketsKept DEF Followed
<1>4. DropsFollow(h2, dropped_packet_list)
  BY <1>2, DropsGrow DEF Followed
<1>5. CountersFollow(h2, counters)
  BY <1>2, CountersGrow DEF Followed
<1> QED
  BY <1>1, <1>3, <1>4, <1>5 DEF Followed, packets

LEMMA CallbackFollowed ==
  ASSUME PacketTypes, Followed, NEW t \in simulation_time .. MaxTime, Callback(t)
  PROVE  Followed'
<1>1. /\ t \in Times /\ dropped_packet_list \in Seq(Drops)
      /\ Kinds = StartKinds \cup
           {"read", "write", "dropped", "added", "removed", "updated"}
  BY PacketTracesAssumption DEF PacketTypes, Times, Kinds
<1> DEFINE Entered(kind, at, of) ==
             [kind |-> kind, at |-> at, of |-> of, time |-> t]
<1>2. PICK h2 : h2 = log'
  OBVIOUS
<1>3. ASSUME NEW kind \in {"read", "write", "dropped", "added", "removed", "updated"},
             NEW at \in Modules \cup CounterNames,
             NEW of \in Modules \cup Packets \cup CounterNames \cup Amounts,
             simulation_time' = t, Record(kind, at, of)
      PROVE  Grown(log, h2, Entered(kind, at, of))
  BY <1>1, <1>2, <1>3, Recorded
<1>4. \A kind, at, of : LET e == Entered(kind, at, of)
                        IN  e.kind = kind /\ e.at = at /\ e.of = of /\ e.time = t
  OBVIOUS
<1> HIDE DEF Entered
<1>5. ASSUME NEW m \in Modules, NEW p \in Packets, data_read(m, p, t)
      PROVE  Followed'
  <2> DEFINE e == Entered("read", m, p)
  <2>1. /\ e.kind = "read" /\ e.at = m /\ e.of = p /\ e.time = t
        /\ Grown(log, h2, e)
    BY <1>3, <1>4, <1>5 DEF data_read
  <2> HIDE DEF e
  <2>2. PICK q : q = DebuggerPacket(p, m, t)
    OBVIOUS
  <2>3. PacketsFollow(h2, With(packet_list, p,
          Packet(m, t, updateTraceReadTime(q.trace, m, t))))
    BY <1>1, <2>1, <2>2, ReadFollowed DEF Followed
  <2>4. PacketsFollow(h2, packet_list')
    BY <1>5, <2>2, <2>3 DEF data_read
  <2>5. DropsFollow(h2, dropped_packet_list) /\ CountersFollow(h2, counters)
    BY <1>1, <2>1, DropsGrow, CountersGrow DEF Followed
  <2> QED
    BY <1>2, <1>5, <2>4, <2>5 DEF data_read, Followed
<1>6. ASSUME NEW m \in Modules, NEW p \in Packets, data_written(m, p, t)
      PROVE  Followed'
  <2> DEFINE e == Entered("write", m, p)
  <2>1. /\ e.kind = "write" /\ e.at = m /\ e.of = p /\ e.time = t
        /\ Grown(log, h2, e)
    BY <1>3, <1>4, <1>6 DEF data_written
  <2> HIDE DEF e
  <2>2. PICK q : q = DebuggerPacket(p, m, t)
    OBVIOUS
  <2>3. PacketsFollow(h2, With(packet_list, p,
          Packet(q.current_location, q.last_notify_time,
                 updateTraceWriteTime(q.trace, m, t))))
    BY <1>1, <2>1, <2>2, LogTimed, WriteFollowed DEF Followed
  <2>4. PacketsFollow(h2, packet_list')
    BY <1>6, <2>2, <2>3 DEF data_written
  <2>5. DropsFollow(h2, dropped_packet_list) /\ CountersFollow(h2, counters)
    BY <1>1, <2>1, DropsGrow, CountersGrow DEF Followed
  <2> QED
    BY <1>2, <1>6, <2>4, <2>5 DEF data_written, Followed
<1>7. ASSUME NEW d \in Drops, data_dropped(d[2], d[1], t)
      PROVE  Followed'
  <2>1. d[1] \in Packets /\ d[2] \in Modules /\ d = <<d[1], d[2]>>
    BY PacketTracesAssumption
  <2> DEFINE e == Entered("dropped", d[2], d[1])
  <2>2. /\ e.kind = "dropped" /\ e.at = d[2] /\ e.of = d[1]
        /\ Grown(log, h2, e)
    BY <1>3, <1>4, <1>7, <2>1 DEF data_dropped
  <2> HIDE DEF e
  <2>3. <<e.of, e.at>> = d
    BY <2>1, <2>2
  <2>4. DropsFollow(h2, Append(dropped_packet_list, d))
    BY <1>1, <2>2, <2>3, DropsGrow DEF Followed
  <2>5. PacketsFollow(h2, packet_list) /\ CountersFollow(h2, counters)
    BY <2>2, PacketsKept, CountersGrow DEF Followed
  <2> QED
    BY <1>2, <1>7, <2>1, <2>4, <2>5 DEF data_dropped, Followed
<1>8. ASSUME NEW n \in CounterNames, counter_added(n, t) PROVE Followed'
  <2> DEFINE e == Entered("added", n, n)
  <2>1. e.kind = "added" /\ e.at = n /\ Grown(log, h2, e)
    BY <1>3, <1>4, <1>8 DEF counter_added
  <2> HIDE DEF e
  <2>2. /\ PacketsFollow(h2, packet_list) /\ DropsFollow(h2, dropped_packet_list)
        /\ CountersFollow(h2, counters \cup {n})
    BY <1>1, <2>1, PacketsKept, DropsGrow, CountersGrow DEF Followed
  <2> QED
    BY <1>2, <1>8, <2>2 DEF counter_added, packets, Followed
<1>9. ASSUME NEW n \in CounterNames, counter_removed(n, t) PROVE Followed'
  <2> DEFINE e == Entered("removed", n, n)
  <2>1. e.kind = "removed" /\ e.at = n /\ Grown(log, h2, e)
    BY <1>3, <1>4, <1>9 DEF counter_removed
  <2> HIDE DEF e
  <2>2. /\ PacketsFollow(h2, packet_list) /\ DropsFollow(h2, dropped_packet_list)
        /\ CountersFollow(h2, counters \ {n})
    BY <1>1, <2>1, PacketsKept, DropsGrow, CountersGrow DEF Followed
  <2> QED
    BY <1>2, <1>9, <2>2 DEF counter_removed, packets, Followed
<1>10. ASSUME NEW n \in CounterNames, NEW v \in Amounts, counter_updated(n, v, t)
       PROVE  Followed'
  <2> DEFINE e == Entered("updated", n, v)
  <2>1. e.kind = "updated" /\ Grown(log, h2, e)
    BY <1>3, <1>4, <1>10 DEF counter_updated
  <2> HIDE DEF e
  <2>2. Grown(log, log', e) /\ UNCHANGED packets /\ UNCHANGED counters
    BY <1>2, <1>10, <2>1 DEF counter_updated
  <2> QED
    BY <2>1, <2>2, OtherFollowed
<1> QED
  BY <1>5, <1>6, <1>7, <1>8, <1>9, <1>10 DEF Callback

(* A trace that is started is one entry more, and leaves the rest.         *)
LEMMA StartLogged ==
  ASSUME PacketTypes, NEW kind \in StartKinds, NEW at \in Modules \cup CounterNames,
         NEW of \in Modules \cup CounterNames, Started(kind, at, of)
  PROVE  /\ Grown(log, log', [kind |-> kind, at |-> at, of |-> of,
                              time |-> simulation_time])
         /\ UNCHANGED packets /\ UNCHANGED counters
<1>1. /\ Record(kind, at, of) /\ UNCHANGED packets /\ UNCHANGED counters
      /\ simulation_time' = simulation_time /\ simulation_time \in Times
  BY DEF Started, PacketTypes
<1>2. kind \in Kinds
  BY DEF Kinds
<1> QED
  BY <1>1, <1>2, Recorded

LEMMA StartFollowed ==
  ASSUME PacketTypes, Followed, NEW kind \in StartKinds,
         NEW at \in Modules \cup CounterNames,
         NEW of \in Modules \cup CounterNames, Started(kind, at, of)
  PROVE  Followed'
<1> DEFINE e == [kind |-> kind, at |-> at, of |-> of, time |-> simulation_time]
<1>1. Grown(log, log', e) /\ UNCHANGED packets /\ UNCHANGED counters
  BY StartLogged
<1>2. e.kind \notin {"read", "write", "dropped", "added", "removed"}
  BY DEF StartKinds
<1> HIDE DEF e
<1> QED
  BY <1>1, <1>2, OtherFollowed

LEMMA StepFollowed == PacketTypes /\ Followed /\ [Next]_vars => Followed'
<1> SUFFICES ASSUME PacketTypes, Followed, [Next]_vars PROVE Followed'
  OBVIOUS
<1>1. CASE ObserverStep
  BY <1>1, CallbackFollowed DEF ObserverStep
<1>2. CASE UNCHANGED manager
  BY <1>2 DEF manager, packets, Followed
<1>3. CASE parseRequest
  <2>1. ASSUME NEW n \in CounterNames, addCounterTrace(n) PROVE Followed'
    <3>1. Started("counter", n, n) /\ "counter" \in StartKinds
      BY <2>1 DEF addCounterTrace, StartKinds
    <3> QED
      BY <3>1, StartFollowed
  <2>2. ASSUME NEW pair \in LatencyPairs, addLatencyTrace(pair[1], pair[2])
        PROVE  Followed'
    <3>1. /\ Started("latency", pair[1], pair[2]) /\ "latency" \in StartKinds
          /\ pair[1] \in Modules /\ pair[2] \in Modules
      BY <2>2, PacketTracesAssumption DEF addLatencyTrace, StartKinds
    <3> QED
      BY <3>1, StartFollowed
  <2>3. ASSUME NEW m \in Modules, addThroughputTrace(m) PROVE Followed'
    <3>1. Started("throughput", m, m) /\ "throughput" \in StartKinds
      BY <2>3 DEF addThroughputTrace, StartKinds
    <3> QED
      BY <3>1, StartFollowed
  <2> QED
    BY <1>2, <1>3, <2>1, <2>2, <2>3, RequestEffects
<1> QED
  BY <1>1, <1>2, <1>3 DEF Next, vars

LEMMA InitFollowed == Init => Followed
<1> SUFFICES ASSUME Init PROVE Followed
  OBVIOUS
<1>1. /\ packet_list = <<>> /\ dropped_packet_list = <<>> /\ counters = {}
      /\ log = <<>>
  BY DEF Init, ManagerInit
<1>2. PICK h : h = <<>>
  OBVIOUS
<1>3. Len(h) = 0 /\ DOMAIN h = {} /\ Cardinality({}) = 0
  BY <1>2, FS_EmptySet
<1>4. PacketsFollow(h, packet_list)
  <2>1. \A p : ~Seen(h, p)
    BY <1>3 DEF Seen, Reads, Writes
  <2> QED
    BY <1>1, <2>1 DEF PacketsFollow
<1>5. DropsFollow(h, dropped_packet_list)
  <2>1. Dropped(h) = {}
    BY <1>3 DEF Dropped
  <2> QED
    BY <1>1, <1>2, <1>3, <2>1 DEF DropsFollow
<1>6. CountersFollow(h, counters)
  <2>1. \A c : ~Present(h, c, 0)
    BY DEF Present
  <2> QED
    BY <1>1, <1>3, <2>1 DEF CountersFollow
<1> QED
  BY <1>1, <1>2, <1>4, <1>5, <1>6 DEF Followed

(* The backtrace of a packet has each of its reads and each of its writes  *)
(* once, in order, and a write in the innermost visit that is open, in     *)
(* whatever order modules read and write the packet.                       *)
THEOREM BacktracesTell == Spec => []BacktraceTells
<1>1. Init => PacketTypes /\ Followed
  BY InitTypes, InitFollowed
<1>2. PacketTypes /\ Followed /\ [Next]_vars => PacketTypes' /\ Followed'
  BY StepTypes, StepFollowed
<1>3. Followed => BacktraceTells
  <2> SUFFICES ASSUME Followed, NEW p \in Packets, Visits(log, p) # {}
               PROVE  p \in DOMAIN packet_list /\ Tells(packet_list[p].trace, log, p)
    BY DEF BacktraceTells
  <2>1. Seen(log, p)
    BY UnseenTold
  <2> QED
    BY <2>1 DEF Followed, PacketsFollow, PacketFollows
<1> QED
  BY <1>1, <1>2, <1>3, PTL DEF Spec
-----------------------------------------------------------------------------
(* Answers. *)

(* The packets listed are those seen last in one of the modules.           *)
ListedIn(arg) ==
  {<<p, packet_list[p].current_location, packet_list[p].last_notify_time>> :
     p \in {p \in DOMAIN packet_list : packet_list[p].current_location \in arg}}
SeenIn(h, arg) ==
  {Sighting(h, p) : p \in {q \in Packets : Seen(h, q)
                             /\ h[Arrival(h, q)].at \in arg}}

LEMMA ListedSeen ==
  ASSUME PacketTypes, NEW h, PacketsFollow(h, packet_list), NEW arg
  PROVE  ListedIn(arg) = SeenIn(h, arg)
<1>1. DOMAIN packet_list \subseteq Packets
  BY DEF PacketTypes, Partial
<1>2. \A p \in Packets : p \in DOMAIN packet_list <=> Seen(h, p)
  BY DEF PacketsFollow
<1>3. \A p \in DOMAIN packet_list :
        /\ packet_list[p].current_location = h[Arrival(h, p)].at
        /\ packet_list[p].last_notify_time = h[Arrival(h, p)].time
  BY <1>1 DEF PacketsFollow, PacketFollows
<1>4. {p \in DOMAIN packet_list : packet_list[p].current_location \in arg} =
        {q \in Packets : Seen(h, q) /\ h[Arrival(h, q)].at \in arg}
  BY <1>1, <1>2, <1>3
<1>5. \A p \in DOMAIN packet_list :
        <<p, packet_list[p].current_location, packet_list[p].last_notify_time>>
          = Sighting(h, p)
  BY <1>3 DEF Sighting
<1> QED
  BY <1>4, <1>5 DEF ListedIn, SeenIn

LEMMA PacketListFits ==
  ASSUME PacketTypes, Followed, NEW m, NEW ignored, handleGetPacketList(m, ignored)
  PROVE  Fits'
<1>1. PICK arg : arg = m \ ignored
  OBVIOUS
<1>2. /\ request' = [type |-> "GetPacketList", arg |-> arg] /\ log' = log
      /\ answer' = Reply("PacketListValues", ListedIn(arg))
  BY <1>1 DEF handleGetPacketList, Query, Respond, manager, ListedIn
<1>3. PICK h : h = log
  OBVIOUS
<1>4. ListedIn(arg) = SeenIn(h, arg)
  BY <1>3, ListedSeen DEF Followed
<1>5. answer' = Reply("PacketListValues", SeenIn(h, arg))
  BY <1>2, <1>4
<1> QED
  BY <1>2, <1>3, <1>5 DEF Fits, SeenIn

LEMMA BacktraceFits ==
  ASSUME PacketTypes, Followed, NEW arg, NEW whoami, NEW garbage,
         \/ arg \in {"none", "malformed"} /\ whoami \in Packets \cup {NoPacket}
         \/ arg \in Packets,
         handleBacktrace(arg, whoami, garbage)
  PROVE  Fits'
<1> DEFINE asked == IF arg = "none" THEN whoami ELSE arg
<1>1. /\ "none" \notin Packets /\ "malformed" \notin Packets
      /\ whoami \in Packets \cup {NoPacket} => whoami # "malformed"
      /\ DOMAIN packet_list \subseteq Packets
  BY PacketRequestsAssumption DEF PacketTypes, Partial
<1>2. /\ request' = [type |-> "Backtrace", arg |-> asked] /\ log' = log
      /\ answer' = IF arg = "malformed" THEN Failed ELSE Backtraced(asked)
  BY DEF handleBacktrace, Query, Respond, manager
<1>3. Fits' = LET p == request'.arg
              IN  IF p \notin Packets \/ ~Seen(log', p) THEN answer' = Failed
                  ELSE /\ answer'.type = "BacktraceReply"
                       /\ answer'.content[1] = p
                       /\ Tells(answer'.content[2], log', p)
  BY <1>2 DEF Fits
<1>4. CASE asked \in Packets /\ Seen(log, asked)
  <2>1. arg # "malformed" /\ asked \in DOMAIN packet_list
        /\ Tells(packet_list[asked].trace, log, asked)
    BY <1>1, <1>4 DEF Followed, PacketsFollow, PacketFollows
  <2>2. answer' = Reply("BacktraceReply", <<asked, packet_list[asked].trace>>)
    BY <1>2, <2>1 DEF Backtraced
  <2> HIDE DEF asked
  <2> QED
    BY <1>2, <1>3, <1>4, <2>1, <2>2 DEF Reply
<1>5. CASE ~(asked \in Packets /\ Seen(log, asked))
  <2>1. asked \notin DOMAIN packet_list
    BY <1>1, <1>5 DEF Followed, PacketsFollow
  <2>2. answer' = Failed
    BY <1>2, <2>1 DEF Backtraced
  <2> HIDE DEF asked
  <2> QED
    BY <1>2, <1>3, <1>5, <2>2
<1> QED
  BY <1>4, <1>5

LEMMA PacketFits ==
  ASSUME PacketTypes, Followed, NEW kind \in PacketReplies,
         NEW id \in Packets \cup {NoPacket}, handleGetPacket(kind, id)
  PROVE  Fits'
<1>1. /\ request' = [type |-> kind, arg |-> id] /\ log' = log
      /\ answer' = IF id \in DOMAIN packet_list /\ id \in Described
                   THEN Reply(kind, id) ELSE Failed
  BY DEF handleGetPacket, Query, Respond, manager
<1>2. Described \subseteq Packets /\ (id \in Described => id \in Packets)
  BY PacketRequestsAssumption
<1>3. id \in Described => (id \in DOMAIN packet_list <=> Seen(log, id))
  BY <1>2 DEF Followed, PacketsFollow
<1> QED
  BY <1>1, <1>3 DEF Fits, PacketReplies

LEMMA DroppedFits ==
  ASSUME PacketTypes, Followed, handleGetDroppedPackets
  PROVE  Fits'
<1>1. /\ request' = [type |-> "GetDroppedPackets"] /\ log' = log
      /\ answer' = Reply("DroppedPackets", dropped_packet_list)
  BY DEF handleGetDroppedPackets, Query, Respond, manager
<1>2. DropsFollow(log, dropped_packet_list)
  BY DEF Followed
<1>3. request'.type = "GetDroppedPackets" /\ answer'.type = "DroppedPackets"
      /\ answer'.content = dropped_packet_list
  BY <1>1 DEF Reply
<1> QED
  BY <1>1, <1>2, <1>3 DEF Fits, DropsFollow

LEMMA TimeFits ==
  ASSUME PacketTypes, simulation_time = TimeNow(log), handleGetSimulationTime
  PROVE  Fits'
<1>1. /\ request' = [type |-> "GetSimulationTime"] /\ log' = log
      /\ answer' = Reply("SimulationTime", simulation_time)
  BY DEF handleGetSimulationTime, Query, Respond, manager
<1>2. log = <<>> <=> Len(log) = 0
  BY EmptySeq DEF PacketTypes
<1>3. TimeNow(log) = IF log = <<>> THEN 0 ELSE Last(log).time
  BY <1>2 DEF TimeNow, Last
<1> QED
  BY <1>1, <1>3 DEF Fits

(* a trace that is started is answered with the id it gets                 *)
LEMMA StartFits ==
  ASSUME PacketTypes, Followed, History,
         NEW kind \in {"latency", "throughput"}, NEW asked,
         handleStartTracing(kind, asked, TRUE),
         NEW at \in Modules, NEW of \in Modules, Started(kind, at, of)
  PROVE  Fits'
<1>1. /\ request'.type = kind
      /\ answer' = Reply("StartTracingStatus", trace_id)
  BY DEF handleStartTracing, Respond
<1>2. PICK h2 : h2 = log'
  OBVIOUS
<1> DEFINE e == [kind |-> kind, at |-> at, of |-> of, time |-> simulation_time]
<1>3. Grown(log, h2, e)
  BY <1>2, StartLogged DEF StartKinds
<1> HIDE DEF e
<1>4. Len(h2) = Len(log) + 1 /\ Len(log) + 1 \in 1 .. Len(log) + 1
  BY <1>3 DEF Grown
<1>5. IdOf(h2, Len(h2)) = trace_id
  BY <1>3, <1>4, StartsGrow DEF History
<1> QED
  BY <1>1, <1>2, <1>5 DEF Fits

LEMMA CounterFits ==
  ASSUME PacketTypes, Followed, History, NEW n \in CounterNames,
         handleStartTracing("counter", n, CanTrace(n)),
         IF CanTrace(n) THEN addCounterTrace(n) ELSE UNCHANGED manager
  PROVE  Fits'
<1>1. /\ request' = [type |-> "counter", arg |-> n, asked |-> Len(log)]
      /\ answer' = IF CanTrace(n) THEN Reply("StartTracingStatus", trace_id)
                   ELSE Failed
  BY DEF handleStartTracing, Respond
<1>2. PICK h2 : h2 = log'
  OBVIOUS
<1>3. Fits' <=> answer' = IF Traceable(h2, n, Len(log))
                          THEN Reply("StartTracingStatus", IdOf(h2, Len(h2)))
                          ELSE Failed
  BY <1>1, <1>2 DEF Fits
<1>4. CanTrace(n) <=> Traceable(log, n, Len(log))
  <2>1. n \in counters <=> Present(log, n, Len(log))
    BY DEF Followed, CountersFollow
  <2>2. n \notin DOMAIN counter_traces <=> CounterTraces(log, n) = {}
    BY DEF History, CounterIds
  <2>3. DOMAIN log = 1 .. Len(log)
    BY LenProperties DEF PacketTypes
  <2>4. CounterTraces(log, n) = {} <=>
          \A i \in 1 .. Len(log) : ~Is(log, i, "counter", n, n)
    BY <2>3 DEF CounterTraces, Starts, Is
  <2> QED
    BY <2>1, <2>2, <2>4 DEF CanTrace, Traceable
<1>5. CASE CanTrace(n)
  <2> DEFINE e == [kind |-> "counter", at |-> n, of |-> n, time |-> simulation_time]
  <2>1. Started("counter", n, n)
    BY <1>5 DEF addCounterTrace
  <2>2. Grown(log, h2, e)
    BY <1>2, <2>1, StartLogged DEF StartKinds
  <2> HIDE DEF e
  <2>3. /\ Len(h2) = Len(log) + 1 /\ Len(log) + 1 \in 1 .. Len(log) + 1
        /\ \A i \in 1 .. Len(log) : h2[i] = log[i]
    BY <2>2 DEF Grown
  <2>4. IdOf(h2, Len(h2)) = trace_id
    BY <2>2, <2>3, StartsGrow DEF History
  <2>5. Present(h2, n, Len(log)) <=> Present(log, n, Len(log))
    BY <2>2, PresentGrow
  <2>6. Traceable(h2, n, Len(log)) <=> Traceable(log, n, Len(log))
    BY <2>3, <2>5 DEF Traceable, Is
  <2> QED
    BY <1>1, <1>3, <1>4, <1>5, <2>4, <2>6
<1>6. CASE ~CanTrace(n)
  <2>1. h2 = log
    BY <1>2, <1>6 DEF manager
  <2> QED
    BY <1>1, <1>3, <1>4, <1>6, <2>1
<1> QED
  BY <1>5, <1>6

(* The inductive invariant behind AnswerFits.                              *)
AnswersInv == UpdatesInv /\ Followed /\ AnswerFits

(* Every request is answered as the history has it.                        *)
LEMMA RequestFits ==
  ASSUME UpdatesInv, Followed, parseRequest
  PROVE  Fits'
<1>1. PacketTypes /\ History /\ simulation_time = TimeNow(log)
  BY DEF UpdatesInv, History
<1>2. CASE AskPackets
  BY <1>1, <1>2, PacketListFits, BacktraceFits, PacketFits, DroppedFits
  DEF AskPackets
<1>3. CASE handleGetSimulationTime
  BY <1>1, <1>3, TimeFits
<1>4. CASE StartTracing
  <2>1. ASSUME NEW n \in CounterNames, handleStartTracing("counter", n, CanTrace(n)),
               IF CanTrace(n) THEN addCounterTrace(n) ELSE UNCHANGED manager
        PROVE  Fits'
    BY <1>1, <2>1, CounterFits
  <2>2. ASSUME NEW pair \in LatencyPairs,
               handleStartTracing("latency", pair[1], TRUE),
               addLatencyTrace(pair[1], pair[2])
        PROVE  Fits'
    <3>1. /\ Started("latency", pair[1], pair[2])
          /\ pair[1] \in Modules /\ pair[2] \in Modules
      BY <2>2, PacketTracesAssumption DEF addLatencyTrace
    <3> QED
      BY <1>1, <2>2, <3>1, StartFits
  <2>3. ASSUME NEW m \in Modules, handleStartTracing("throughput", m, TRUE),
               addThroughputTrace(m)
        PROVE  Fits'
    <3>1. Started("throughput", m, m)
      BY <2>3 DEF addThroughputTrace
    <3> QED
      BY <1>1, <2>3, <3>1, StartFits
  <2> QED
    BY <1>4, <2>1, <2>2, <2>3 DEF StartTracing
<1> QED
  BY <1>2, <1>3, <1>4 DEF parseRequest

(* The reply that reaches pfpdb is the one its request asks for, as the    *)
(* history has it, whatever was read, written, dropped, counted and traced *)
(* before, and a failure when there is nothing to tell.                    *)
THEOREM AnswersFit == Spec => []AnswerFits
<1>1. Init => AnswersInv
  BY InitRight, InitFollowed DEF Init, AnswersInv, AnswerFits
<1>2. AnswersInv /\ [Next]_vars => AnswersInv'
  <2> SUFFICES ASSUME AnswersInv, [Next]_vars PROVE AnswersInv'
    OBVIOUS
  <2>1. UpdatesInv' /\ Followed'
    BY StepRight, StepFollowed DEF AnswersInv, UpdatesInv
  <2>2. CASE ObserverStep /\ request' = Nothing
    BY <2>1, <2>2 DEF AnswersInv, AnswerFits, Nothing
  <2>3. CASE parseRequest
    BY <2>1, <2>3, RequestFits DEF AnswersInv, AnswerFits
  <2>4. CASE UNCHANGED vars
    <3>1. log' = log /\ request' = request /\ answer' = answer
      BY <2>4 DEF vars, manager
    <3> QED
      BY <2>1, <3>1 DEF AnswersInv, AnswerFits, Fits
  <2> QED
    BY <2>2, <2>3, <2>4 DEF Next
<1>3. AnswersInv => AnswerFits
  BY DEF AnswersInv
<1> QED
  BY <1>1, <1>2, <1>3, PTL DEF Spec
=============================================================================
