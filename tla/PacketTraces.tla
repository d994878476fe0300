---------------------------- MODULE PacketTraces -----------------------------
(***************************************************************************)
(* Packets and traces.  DebugDataManager keeps, of every packet it was     *)
(* told of, where and when it was read and written, and turns reads and    *)
(* writes into the updates of latency, throughput and counter traces,      *)
(* which DebuggerIPCServer publishes.                                      *)
(*                                                                         *)
(* The observer callbacks run one after the other in the process           *)
(* notify_observers, which empties its queue before time goes on; traces   *)
(* are started while the simulation is halted (DebuggerHandshake,          *)
(* Exclusive).  So each callback and each start is one step.               *)
(***************************************************************************)
EXTENDS Integers, Sequences, SequencesExt, FiniteSetsExt

CONSTANTS
  Modules, CounterNames,
  Packets,           \* ids of debuggable data; other data is not looked at
  LatencyPairs,      \* ends of the latency traces the user starts
  Drops,             \* packets and the modules that drop them
  Amounts,           \* values of counters
  Second,            \* a second, in units of the simulation time
  Infinite,          \* what a double shows for Second / 0
  Never,             \* the time -1
  MaxTime,           \* bound: simulation time
  MaxLog             \* bound: callbacks and traces started

ASSUME PacketTracesAssumption ==
  /\ LatencyPairs \subseteq Modules \X Modules
  /\ Drops \subseteq Packets \X Modules
  /\ Amounts \subseteq Nat /\ Second \in Nat \ {0}
  /\ Infinite \notin Int /\ Never \notin Nat
  /\ MaxTime \in Nat /\ MaxLog \in Nat

VARIABLES
  packet_list,            \* of each packet seen: location, time, trace
  dropped_packet_list,
  counters,               \* names the data manager has
  trace_id,               \* the next id of a trace
  counter_traces,         \* of each counter traced: the trace's id
  latency_read_triggers,  \* of each module: traces that start there
  latency_write_triggers, \* of each module and packet: reads to be matched
  throughput_triggers,    \* of each module traced: the newest trace
  simulation_time,
  updates,                \* what the last callback published
  log                     \* history: callbacks, and traces started

packets == <<packet_list, dropped_packet_list>>
latency == <<latency_read_triggers, latency_write_triggers>>
traces == <<trace_id, counter_traces, latency, throughput_triggers>>
manager == <<packets, counters, traces, simulation_time, updates, log>>

ManagerInit ==
  /\ packet_list = <<>> /\ dropped_packet_list = <<>> /\ counters = {}
  /\ trace_id = 0 /\ counter_traces = <<>>
  /\ latency_read_triggers = [m \in Modules |-> <<>>]
  /\ latency_write_triggers = [m \in Modules |-> [p \in Packets |-> <<>>]]
  /\ throughput_triggers = <<>>
  /\ simulation_time = 0 /\ updates = <<>> /\ log = <<>>

Record(kind, at, of) ==
  /\ Len(log) < MaxLog
  /\ log' = Append(log, [kind |-> kind, at |-> at, of |-> of,
                         time |-> simulation_time'])

(* an update is stamped with the data manager's time t                     *)
updateTrace(id, value, t) == [id |-> id, value |-> value, timestamp |-> t]

(* packets per second, when a packet followed the last one after d         *)
Rate(d) == IF d = 0 THEN Infinite ELSE Second \div d

(* map f with a value for x, be it new or not                              *)
With(f, x, value) ==
  [y \in DOMAIN f \cup {x} |-> IF y = x THEN value ELSE f[y]]

-----------------------------------------------------------------------------
(* DebuggerPacket. *)

Packet(m, t, trace) ==
  [current_location |-> m, last_notify_time |-> t, trace |-> trace]

DebuggerPacket(p, m, t) ==
  IF p \in DOMAIN packet_list THEN packet_list[p] ELSE Packet(m, t, <<>>)

Visit(m, r, w) == [module |-> m, read_time |-> r, write_time |-> w]

updateTraceReadTime(trace, m, t) == Append(trace, Visit(m, t, Never))

(* Fault: the first visit that is open, not the last *)
updateTraceWriteTime_First(trace, m, t) ==
  LET i == SelectInSeq(trace, LAMBDA v : v.module = m /\ v.write_time = Never)
  IN  IF i = 0 THEN Append(trace, Visit(m, Never, t))
      ELSE [trace EXCEPT ![i] = Visit(m, @.read_time, t)]

(* a write ends the last visit of the module that is open                  *)
LastOpen(trace, m) ==
  SelectLastInSeq(trace, LAMBDA v : v.module = m /\ v.write_time = Never)

updateTraceWriteTime(trace, m, t) ==
  LET i == LastOpen(trace, m)
  IN  IF i = 0 THEN Append(trace, Visit(m, Never, t))
      ELSE [trace EXCEPT ![i] = Visit(m, @.read_time, t)]

-----------------------------------------------------------------------------
(* The observer callbacks, at time t. *)

(* a trace that starts where p was read sets a trigger where it ends       *)
Trigger(triggers, trace, p, t) ==
  [triggers EXCEPT ![trace.write_module_name][p] =
    Append(@, [trace_id |-> trace.trace_id, read_time |-> t])]

Triggered(m, p, t) ==
  LET list == latency_read_triggers[m]
      after[i \in 0 .. Len(list)] ==
        IF i = 0 THEN latency_write_triggers
        ELSE Trigger(after[i - 1], list[i], p, t)
  IN  after[Len(list)]

data_read(m, p, t) ==
  /\ packet_list' =
       With(packet_list, p,
            Packet(m, t, updateTraceReadTime(DebuggerPacket(p, m, t).trace, m, t)))
  /\ latency_write_triggers' = Triggered(m, p, t)
  /\ updates' = <<>>
  /\ simulation_time' = t /\ Record("read", m, p)
  /\ UNCHANGED <<dropped_packet_list, counters, trace_id, counter_traces,
                 latency_read_triggers, throughput_triggers>>

LatencyUpdates(m, p, t) ==
  LET due == latency_write_triggers[m][p]
  IN  [i \in DOMAIN due |->
        updateTrace(due[i].trace_id, t - due[i].read_time, t)]

ThroughputUpdates(m, t) ==
  IF m \in DOMAIN throughput_triggers /\ throughput_triggers[m].last_time # Never
  THEN <<updateTrace(throughput_triggers[m].trace_id,
                     Rate(t - throughput_triggers[m].last_time), t)>>
  ELSE <<>>

(* Fault: the triggers stay when they were used *)
Spent_Kept(m, p) == latency_write_triggers

Spent(m, p) == [latency_write_triggers EXCEPT ![m][p] = <<>>]

(* location and time of the packet stay                                    *)
data_written(m, p, t) ==
  /\ packet_list' =
       LET q == DebuggerPacket(p, m, t)
       IN  With(packet_list, p,
                Packet(q.current_location, q.last_notify_time,
                       updateTraceWriteTime(q.trace, m, t)))
  /\ updates' = LatencyUpdates(m, p, t) \o ThroughputUpdates(m, t)
  /\ latency_write_triggers' = Spent(m, p)
  /\ throughput_triggers' =
       IF m \in DOMAIN throughput_triggers
       THEN [throughput_triggers EXCEPT ![m].last_time = t]
       ELSE throughput_triggers
  /\ simulation_time' = t /\ Record("write", m, p)
  /\ UNCHANGED <<dropped_packet_list, counters, trace_id, counter_traces,
                 latency_read_triggers>>

(* Fault: module and packet change places *)
data_dropped_Swapped(m, p, t) ==
  /\ dropped_packet_list' = Append(dropped_packet_list, <<m, p>>)
  /\ updates' = <<>>
  /\ simulation_time' = t /\ Record("dropped", m, p)
  /\ UNCHANGED <<packet_list, counters, traces>>

data_dropped(m, p, t) ==
  /\ dropped_packet_list' = Append(dropped_packet_list, <<p, m>>)
  /\ updates' = <<>>
  /\ simulation_time' = t /\ Record("dropped", m, p)
  /\ UNCHANGED <<packet_list, counters, traces>>

counter_added(n, t) ==
  /\ counters' = counters \cup {n} /\ updates' = <<>>
  /\ simulation_time' = t /\ Record("added", n, n)
  /\ UNCHANGED <<packets, traces>>

counter_removed(n, t) ==
  /\ counters' = counters \ {n} /\ updates' = <<>>
  /\ simulation_time' = t /\ Record("removed", n, n)
  /\ UNCHANGED <<packets, traces>>

(* published before the time is set; without the counter the process ends  *)
(* (Counters, NeverThrows)                                                 *)
counter_updated(n, v, t) ==
  /\ n \in counters
  /\ updates' = IF n \in DOMAIN counter_traces
                THEN <<updateTrace(counter_traces[n], v, simulation_time)>>
                ELSE <<>>
  /\ simulation_time' = t /\ Record("updated", n, v)
  /\ UNCHANGED <<packets, counters, traces>>

-----------------------------------------------------------------------------
(* Traces are started by requests.  The result is the trace's id.          *)

Started(kind, at, of) ==
  /\ UNCHANGED <<packets, counters, latency_write_triggers, simulation_time>>
  /\ trace_id' = trace_id + 1 /\ updates' = <<>>
  /\ Record(kind, at, of)

CanTrace(n) == n \in counters /\ n \notin DOMAIN counter_traces

addCounterTrace(n) ==
  /\ CanTrace(n)
  /\ counter_traces' = With(counter_traces, n, trace_id)
  /\ Started("counter", n, n)
  /\ UNCHANGED <<latency_read_triggers, throughput_triggers>>

addLatencyTrace(from, to) ==
  /\ latency_read_triggers' =
       [latency_read_triggers EXCEPT
         ![from] = Append(@, [trace_id |-> trace_id,
                              write_module_name |-> to])]
  /\ Started("latency", from, to)
  /\ UNCHANGED <<counter_traces, throughput_triggers>>

(* the trace the module had before gets no more updates                    *)
NewTrigger(m) == [trace_id |-> trace_id, last_time |-> Never]

addThroughputTrace(m) ==
  /\ throughput_triggers' = With(throughput_triggers, m, NewTrigger(m))
  /\ Started("throughput", m, m)
  /\ UNCHANGED <<counter_traces, latency_read_triggers>>

Callback(t) ==
  \/ \E m \in Modules, p \in Packets : data_read(m, p, t) \/ data_written(m, p, t)
  \/ \E d \in Drops : data_dropped(d[2], d[1], t)
  \/ \E n \in CounterNames : counter_added(n, t) \/ counter_removed(n, t)
  \/ \E n \in CounterNames, v \in Amounts : counter_updated(n, v, t)

ObserverStep ==
  \E t \in simulation_time .. MaxTime : t <= simulation_time + 1 /\ Callback(t)
-----------------------------------------------------------------------------
Times == 0 .. MaxTime
Ids == 0 .. trace_id - 1
Entry == [current_location : Modules, last_notify_time : Times,
          trace : Seq([module : Modules, read_time : Times \cup {Never},
                       write_time : Times \cup {Never}])]

Partial(f, D, R) == DOMAIN f \subseteq D /\ \A x \in DOMAIN f : f[x] \in R

(* Type invariant of the data manager's part that packets and traces use.  *)
ManagerTypeOK ==
  /\ Partial(packet_list, Packets, Entry)
  /\ dropped_packet_list \in Seq(Drops)
  /\ counters \subseteq CounterNames
  /\ trace_id \in 0 .. MaxLog
  /\ Partial(counter_traces, CounterNames, Ids)
  /\ latency_read_triggers \in
       [Modules -> Seq([trace_id : Ids, write_module_name : Modules])]
  /\ latency_write_triggers \in
       [Modules -> [Packets -> Seq([trace_id : Ids, read_time : Times])]]
  /\ Partial(throughput_triggers, Modules,
             [trace_id : Ids, last_time : Times \cup {Never}])
  /\ simulation_time \in Times
  /\ updates \in Seq([id : Ids, value : Nat \cup {Infinite}, timestamp : Times])

(* What history h says, without the triggers.  Entry i is an event.        *)
Is(h, i, kind, at, of) == h[i].kind = kind /\ h[i].at = at /\ h[i].of = of
Starts(h) ==
  {i \in DOMAIN h : h[i].kind \in {"latency", "throughput", "counter"}}
IdOf(h, i) == Cardinality({s \in Starts(h) : s < i})

(* the write at i completes the read at j for the trace started at s: the  *)
(* packet was read where the trace starts, after the trace was started,    *)
(* and not written since where it ends                                     *)
Completes(h, i, j, s) ==
  /\ s < j /\ Is(h, s, "latency", h[j].at, h[i].at)
  /\ Is(h, j, "read", h[j].at, h[i].of)
  /\ \A k \in j + 1 .. i - 1 : ~Is(h, k, "write", h[i].at, h[i].of)

Measured(h, i) ==
  {d \in (1 .. i - 1) \X Starts(h) : Completes(h, i, d[1], d[2])}

(* the newest trace of module m, and the last write there before i         *)
Newest(h, m) == Max({s \in Starts(h) : Is(h, s, "throughput", m, m)} \cup {0})
WriteBefore(h, m, i) ==
  Max({j \in 1 .. i - 1 : h[j].kind = "write" /\ h[j].at = m} \cup {0})
CounterTraces(h, n) == {s \in Starts(h) : Is(h, s, "counter", n, n)}

Latencies(h, i) == IF h[i].kind = "write" THEN Measured(h, i) ELSE {}

Latency(h, i, d) ==
  updateTrace(IdOf(h, d[2]), h[i].time - h[d[1]].time, h[i].time)

Throughputs(h, i) ==
  LET m == h[i].at
      j == WriteBefore(h, m, i)
  IN  IF h[i].kind = "write" /\ 0 < Newest(h, m) /\ Newest(h, m) < j
      THEN <<updateTrace(IdOf(h, Newest(h, m)),
                         Rate(h[i].time - h[j].time), h[i].time)>>
      ELSE <<>>

CounterUpdates(h, i) ==
  LET of == CounterTraces(h, h[i].at)
  IN  IF h[i].kind = "updated" /\ of # {}
      THEN <<updateTrace(IdOf(h, Max(of)), h[i].of, h[i - 1].time)>>
      ELSE <<>>

(* the place of x among S in order, of a pair in the order of its parts    *)
Place(x, S) == Cardinality({y \in S : y <= x})
Earlier(a, b) == a[1] < b[1] \/ (a[1] = b[1] /\ a[2] <= b[2])
PairPlace(d, S) == Cardinality({e \in S : Earlier(e, d)})

(* What is published is what the history calls for:                        *)
(*  - by a write, for each latency trace that ends at the module, the time *)
(*    since every read of the packet at its start that no write has ended  *)
(*    yet, in the order of the reads; then the rate that the time since    *)
(*    the last write at the module amounts to, for the newest trace of the *)
(*    module and only if that write came after its start;                  *)
(*  - by an update of a counter, its value for the one trace it has, after *)
(*    a removal and a new addition too, with the time of the callback      *)
(*    before;                                                              *)
(*  - nothing else.                                                        *)
Published(h, u) ==
  LET i == Len(h)
      late == Latencies(h, i)
      rest == Throughputs(h, i) \o CounterUpdates(h, i)
  IN  /\ Len(u) = Cardinality(late) + Len(rest)
      /\ \A d \in late : u[PairPlace(d, late)] = Latency(h, i, d)
      /\ \A k \in DOMAIN rest : u[Cardinality(late) + k] = rest[k]

UpdatesRight ==
  /\ log # <<>> => Published(log, updates)
  /\ \A n \in CounterNames : Cardinality(CounterTraces(log, n)) <= 1

(* reads and writes of packet p at module m among entries a to b           *)
Count(h, kind, m, p, a, b) == Cardinality({k \in a .. b : Is(h, k, kind, m, p)})
Balance(h, m, p, a, b) == Count(h, "read", m, p, a, b) - Count(h, "write", m, p, a, b)

(* the write at i ends the visit that the read at j began: what was read   *)
(* in between was written in between, and nothing else was                 *)
Ends(h, i, j) ==
  LET m == h[j].at
      p == h[j].of
  IN  /\ j < i /\ Is(h, j, "read", m, p) /\ Is(h, i, "write", m, p)
      /\ Balance(h, m, p, j + 1, i - 1) = 0
      /\ \A k \in j + 1 .. i - 1 : Balance(h, m, p, j + 1, k) >= 0

Visits(h, p) ==
  {i \in DOMAIN h :
     /\ h[i].of = p
     /\ \/ h[i].kind = "read"
        \/ h[i].kind = "write" /\ \A j \in 1 .. i - 1 : ~Ends(h, i, j)}

VisitAt(h, i) ==
  LET ends == {k \in DOMAIN h : Ends(h, k, i)}
  IN  IF h[i].kind = "write" THEN Visit(h[i].at, Never, h[i].time)
      ELSE Visit(h[i].at, h[i].time,
                 IF ends = {} THEN Never ELSE h[Min(ends)].time)

Tells(trace, h, p) ==
  LET visits == Visits(h, p)
  IN  /\ Len(trace) = Cardinality(visits)
      /\ \A i \in visits : trace[Place(i, visits)] = VisitAt(h, i)

(* The backtrace of a packet has each of its reads and each of its writes  *)
(* once, in order, and a write in the visit it ends, the innermost one     *)
(* when the packet was in the module more than once.                       *)
BacktraceTells ==
  \A p \in Packets :
    Visits(log, p) # {} => /\ p \in DOMAIN packet_list
                           /\ Tells(packet_list[p].trace, log, p)
=============================================================================
