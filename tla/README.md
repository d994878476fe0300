# A TLA+ verification of PFPSim's core

PFPSim simulates forwarding devices as SystemC models. This project models the
parts of `src/pfpsim/core` that decide something and are hard to test: the
debugger that shares the simulation with a second thread, the rules by which it
halts the simulation, what it keeps of counters, packets and traces, the table
entries it shows, the queues between simulation processes, the tree of modules
with its configuration, and the start of the program.

## 1. The system

A model is a tree of `PFPObject`s (`PFPObject.cpp`). Its SystemC processes move
packets through queues (`LMTQueue.h`, `MTQueue.h`) and report what happens by
pushing bound callbacks on one global queue, `PFPObject::events_`. One process,
`DebuggerUtilities::notify_observers`, pops the callbacks and calls the
`DebugObserver`, which records them in the `DebugDataManager` and may halt the
simulation. A second operating-system thread, `DebuggerIPCServer::requestThread`,
serves the requests of the user interface `pfpdb` (a separate program, not in
this repository) over a nanomsg REQ/REP socket and works on the same
`DebugDataManager`. A control plane model, when there is one, reports its tables
to pfpdb through `CPDebuggerInterface`.

| component | state | operations | talks to | hard behaviour | what makes it correct |
|---|---|---|---|---|---|
| debugger handshake (`DebuggerIPCServer`, `DebugObserver`) | `start_mutex` with `ulock`, `stop_mutex`/`stopped`, `bkpt_mutex`/`continue_command`, `run_called`, `kill_thread`, `reply_message` | run, continue, next, the other requests; `notifyServer`, `pause`; shutdown | pfpdb by socket, the simulation by two condition variables | two threads, spurious wakeups, requests sent twice, teardown | the threads take turns; each halt is reported once, by a live message; no wakeup is lost; every request is answered |
| breakpoints (`Breakpoint`, `DebugDataManager`, `checkBreakpointHit`) | `breakpoint_list`, `next_id`, `ignore_module_list`, `break_packet_dropped`, `current_packet_id`, `simulation_time` | set, remove, enable, disable, ignore, continue-for, next; data read, written, dropped | handshake | pointers into a changing vector, internal (stealth) breakpoints, subset equality, times kept as texts and read as floats | a limit is overshot by no more than its rounding, stealth and temporary breakpoints go when they should, others stay |
| counters and watchpoints (`PFPObject`, `DebugDataManager`, `counter_updated`) | `counters_` of each module, `events_`, `counters`, `watchpoint_list` | add, set, increment, decrement, remove; set, remove, enable, disable a watchpoint | queue, handshake | synchronous and queued notifications, a halt inside a loop, narrowing and wrap-around | the copy agrees with the counters, no update of an unknown counter, no change of a watched counter without a halt, a hit tells what is shown |
| `LMTQueue` | `queue_`, `slots_`, `mutex_`, two events | `push`, `pop`, `full`, `empty`, `available` | modules | tests outside the mutex, immediate notifications | a bounded FIFO channel |
| `MTQueue` | `queue_`, `mutex_`, one event | `push`, `pop`, `size` | modules, `notify_observers` | the same | no pop of an empty queue, drained |
| packets and traces (`DebuggerPacket`, `DebugDataManager`) | `packet_list`, `dropped_packet_list`, counter traces, latency read and write triggers, throughput triggers | data read, written, dropped; counter added, updated, removed; start a trace | observer, PUB socket of traces | triggers that outlive what set them, a write matched to an earlier read, division by a zero interval | what is published, and the backtrace, is what the history of reads and writes calls for |
| request handlers (`DebuggerIPCServer`) | the REP socket | 25 kinds of request | pfpdb | several replies to one request, answers about what was never seen | pfpdb gets the answer that fits its request |
| control plane entries (`CPDebuggerInterface`) | `table_entries` by table and action, with handle and status | add, update handle, update, delete, confirm | control plane model, requests | confirmations come later, handles are used again, commands fail | what is shown settles to what the device has |
| control plane commands (`cp/`) | none of its own | parse, execute, process a result | control plane model, device | widths of byte strings, failures | a value keeps its number when resized |
| module tree, configuration (`PFPObject`, `ConfigurationParameters`, `PFPContext`) | parent, name, `childModules_`, `observers_`, `SimulationParameters` | construct, register children, attach the observer, fill a base configuration, look a parameter up | modules, observer, JSON | recursion along the tree, null values, who is the top, types of JSON numbers | the nearest definition wins, every module reports once, its data under a full name of its own (counters go by the module's name, which may be shared) |
| program start (`pfp_main`, `PFPConfig`) | variables of `parse_args`, the `PFPConfig` singleton | read the options, apply defaults, start | module tree | an option with two words, joined to one text and cut again | the arguments mean what the user wrote |
| messages, interfaces, utilities, JSON | - | - | - | none (copying, formatting, vendored) | - |

The two queues have no lock that a second thread could contend for: SystemC runs
one process at a time and never preempts it.

## 2. The modules

| module | what it is |
|---|---|
| `ControlTransfer` | abstract: control is a baton handed between pfpdb and the simulation |
| `DebuggerHandshake` | the two threads, one action per mutex or condition variable operation; refines `ControlTransfer` |
| `Breakpoints` | the rules of halting; requests and callbacks as single steps |
| `Counters` | counters, the event queue, the copy, watchpoints |
| `PacketTraces` | packets, and the three kinds of trace |
| `PacketRequests` | the requests about packets and traces, with their replies; extends `PacketTraces` |
| `ControlPlane` | commands, the device, the list of entries |
| `ProgramStart` | the command line |
| `ConfigValues` | JSON values, and filling a base configuration with an instance's |
| `ModuleTree` | construction, registration, lookups, names; extends the two above |
| `Channel` | abstract: a bounded FIFO channel |
| `QueueProcesses` | what both queues share: processes that test, wait, lock and notify under the cooperative scheduler |
| `LMTQueue` | the bounded queue, with its count of slots and two events; extends `QueueProcesses`, refines `Channel` |
| `MTQueue` | the unbounded queue; extends `QueueProcesses` |
| `MCHandshake`, `MCBreakpoints`, `MCCounters`, `MCPackets`, `MCControlPlane`, `MCModuleTree`, `MCQueue`, `MCMTQueue` | values of the constants for TLC |
| `DebuggerHandshakeProofs`, `QueueProofs`, `CountersProofs`, `BreakpointsProofs`, `PacketProofs`, `ControlPlaneProofs`, `ModuleTreeProofs` | theorems |
| `ListLemmas` | facts about the list operators, for the five last |

They compose by rely and guarantee. `Breakpoints`, `Counters`, `PacketTraces`,
`PacketRequests` and `ControlPlane` take every request and every callback as one
step, and serve requests only between two callbacks or at a halt: that is what
`Exclusive` and `PromptMeansHalted` of `DebuggerHandshake` establish for runs
with `-d`. `Counters` takes `events_` as a sequence, as `Channel` allows for the
queues; `MTQueue` models that queue's own steps. `PacketTraces` takes the
callbacks in any order in which `events_` may deliver them, and `Counters` says
when an update finds no counter. `ProgramStart` ends where the tree is built;
`ModuleTree` extends it and ends with the observer attached to every module,
which is where the other modules' reports begin.

Operators whose comment starts with "Fault:" are not part of any specification.
Each is a variant of the action that follows it with one plausible bug (a
dropped guard, a lost notification, a missing reset); substituting it for the
action shows that the properties notice.

### DebuggerHandshake

`simPc` and `srvPc` are where the two threads are; the names follow the code.
`pause_lock`, `pause_test`, `pause_sleep`, `pause_wait` are the steps of
`DebugObserver::pause`; `stop_*` those of `waitForStop`; `notify_*` those of
`notifyServer`; `cont_*` those of `handleContinue`. Sleeping releases the mutex
in the same step. A sleeping thread that is notified or wakes spuriously goes
back to acquiring the mutex and tests again. `observing` is the inside of an
observer callback, in which the simulation thread holds references into the data
manager's lists. The client is the environment: it sends one request at a time,
and its socket may send some kinds of request again (`Resent`), which the
server cannot tell from new ones; replies to repeated ones are dropped. Calling
`unlock` through the deleted `ulock` (only without `-d`) is undefined and is a
choice between going on and the end of the process.

Every other request is one step that answers (`Service`). Its handler may end the process
instead, by `stoi` or `stod` of a malformed number or a control plane that is
not there; that is left out.

Constants: `Enable` is the `-d` option. `EarlyContinue` lets the client send
Continue before its first Run. `MaxInbox` bounds the requests queued: three are
one outstanding request and two repetitions of it.

### Breakpoints

Conditions are a function from kinds of condition to values, as the map in the
code. The value of a time condition is a text: `handleRun` and `handleContinue`
make it with `std::to_string`, which keeps six decimals, and
`checkBreakpointHit` reads it with `stof`, which gives the nearest 32-bit float.
Both are constants, so any rounding can be put in for them, and `Slack` bounds what a time
may grow by on the way, for the times up to `MaxTime`. The runs round some times up
and some down on the way to a text, and some texts on the way to a float. A text by the user that is no number makes
`stof` throw in the simulation's thread; `BreakpointsAssumption` leaves it
out. `AfterHit` follows `checkBreakpointHit` with `hit_bkpt` as an index: the
vector's `erase` moves later elements up under it. `limit` and
`otherHalt` are history variables: what the last run, continue or next is to stop at,
the exact time of it; and whether a watchpoint or a dropped packet has halted the
simulation, after which stealth breakpoints may be left over.

### Counters

`Liberties` names what the model of the device, or the user, may do beyond what
the code copes with: add a counter before the observer is attached, with an
initial value, under a name that another module uses, or again while its removal
is queued; remove a counter the module does not have; edit watchpoints when one
was hit. The run `cnt_copy` takes the last of them, `cnt_early_readd` the one
before it. `walk` is the iterator of the loop in
`counter_updated` while the simulation is halted in it; `undefined` is the state
after it has read outside the vector. Whether `push_back` reallocates the vector
is left open. `SizeRange` and `IntRange` stand for 2^64 and 2^32.

### LMTQueue and MTQueue

One action per statement; the statements and the properties that both queues
have are written once, in `QueueProcesses`. `current` is the process that has
control; it keeps it until it waits. A notification makes all waiting processes
runnable; they test again. The mutex is modelled although it never blocks, which
is a property (`LockNeverWaits`, `PopIsSafe`), not an assumption. `Capacity` is the template
parameter N of `LMTQueue`; for `MTQueue`, which has no limit, it bounds the model.

### PacketTraces and PacketRequests

The state is the data manager's, the triggers with the places of the code:
reads set write triggers at the modules their traces end in, writes use them up.
`log` is a history variable: the callbacks and the traces started, in order.
`updates` is what the last callback published. The properties say what should
have been published, and what a backtrace should hold, from `log` alone, without
triggers: `Measured` picks the reads that a write completes, `Ends` matches
writes to reads like brackets. Order is said by places: what belongs to an entry
of `log` stands at its `Place` among the entries of its kind. `Triggered` is the
loop over the traces that start at a module, as a recursive function. Times are natural numbers, -1 is `Never`; a rate
is `Second` divided by the interval, `Infinite` for none, as with doubles.

A handler's replies are a sequence. The REP socket delivers the first and
refuses the others, since no request is then left to answer; `send` ignores the
error. The list of packets shows where and when a packet came to the place it is
at (`Arrival`), since a write changes neither. So `handleGetPacketField` and its two siblings, which send a failure
after the answer, work, and so does `StartTracing`, which falls through to the
default. An uninitialised id, looked up after a malformed one was answered, is
any id.

### ControlPlane

`table_entries` is the map in the code: of each table, its actions, of each
action a sequence of entries. Commands and results are on their way in two
queues; the device executes commands in order, gives out any free handle, and may
refuse to insert or modify. The control plane, the device and the user are
environment: `Liberties` names what user and device do that the code does not
cope with, and `cp_tables` takes none of it. Keys are byte strings to base
`Base`, typed as a number and a width. After the undefined loop step of
`confirmDeleteEntry` the model takes either the plain outcome or the state
`undefined`, in which it stops.

### ProgramStart, ConfigValues, ModuleTree

`asked` is the command line as the user meant it, in groups of words, `argv` the
words that `getopt_long` sees. A word has a `Form`, the option that `getopt_long`
takes it for (short or long) with the argument that is in the same word, and
`Pieces`, between which its = are. `-X` joins its two words with an =, and
`argMap` has for a key, the text before the first =, all that is behind it: so
`-X k=1 foo` gives `1=foo` to `k`. `--UserOpt` has an optional argument: without
one in its own word, `optarg` is a null pointer (`UserOptionAlone`). Left out of
`getopt_long` are several flags in one word (`-dh`), abbreviated long options and the
word `--`. A JSON value is its type and its contents.
`CompareStructure` fills a base with an instance's file and may end the process
(`Exit`). The tree is chosen at the start, any shape, then built as generated
code does: configuration before the children, registration after. A lookup
changes nothing, so the model makes one and keeps it in `answer`; outcomes that
end the process are values of their own. What recurses along the tree or into a
value in the code is a recursive function here, over the modules or over pairs
of values; `Nesting` gives each value that files hold the depth to which it nests,
which is what makes the recursion into values end. `argMap` is a function of all keys
that the words can make, empty where the map has no such key. All ends of the
process by `exit` are one outcome for a caller, whatever the exit code.

What filling has to do is said without recursion into the values: `Parts` is
what two or three values have at the same place, at every depth up to
`MaxNesting`. `Fits` and `IsFilled` say of each place by itself what the instance,
the base and the result may be there. `Searched` is the list of modules that a
lookup is to ask, one after the other.

## 3. The runs

| run | checks | bounds |
|---|---|---|
| `hs_enabled` | with `-d`: types, turn-taking, live replies, prompt, wakeups, no deadlock, every request answered, the baton refinement | three requests queued, two kinds of halt |
| `hs_disabled` | without `-d`: the teardown when the request thread is not waiting for a stop | two requests queued, two kinds of halt |
| `bp_halts` | a limit is overshot by its rounding at most; what a hit removes and keeps | two user breakpoints, disabled and enabled at any prompt, one module, one packet, times 0 to 3 with texts and floats that round up or down by one, all kinds of halt |
| `cnt_copy` | the copy agrees with the counters, no watched change passes, a hit agrees with the copy | two modules, two names, two events queued, two watchpoints, edited at any halt, counters modulo 4 |
| `lmt_queue` | queue safety; refinement of the channel with liveness | two producers, two consumers, two slots, two items |
| `mt_queue` | safety and draining | two producers, two consumers, length 2 |
| `pkt_history` | published updates, backtraces and answers are what the history calls for | two packets, one of them with debug information, two modules, one counter, latency traces between two pairs, times 0 and 1, four callbacks or starts; plain questions while there are at most two |
| `cp_tables` | shown entries settle, are not hidden, have handles of their own; keys keep their number | one table, two actions, three handles, two commands and two results on their way, numbers of two bytes resized to one, two and five, bytes modulo 2 |
| `cfg_start` | arguments, filling of configurations, lookups, the observer's reach | command lines of up to three of sixteen groups of words, short and long, with = in keys and values; three modules in every tree, two names, thirteen configurations (base files of up to three levels, instance files that leave keys out, change types, or have lists of other lengths), one lookup; trees are built for the empty command line |

Two of everything are enough for the cases of interest: two processes woken by
one notification, an element before and behind the one erased, two names with
events that interleave, a request and its repetition, an entry and its successor
under the same handle. Four steps of history hold the shortest cases of each
kind of trace: start, read, write, and one event before or after them (a second
read, a write before the start, another packet). Three modules are a chain of
three and two siblings. In `cfg_start` the tree reads nothing from the command
line, so it is built for one only. Symmetry is over the actions and the data of
table entries, and over the modules below the top, which no step tells apart.

Runs that find a disagreement between the code and what it says of itself (each
is described under `findings` in `PROJECT.json`):

| run | what it shows |
|---|---|
| `bp_temporary` | a temporary breakpoint survives its hit |
| `cnt_early_readd` | a counter removed and added again is lost, and its next update ends the process |
| `pkt_last_update` | a packet is listed with the time of its last read, not of its last read or write |

`CHECK_DEADLOCK FALSE` stands where the process may exit (without `-d`, at
start-up), end by an exception or in an undefined state (`cnt_copy` too, whose
walk over the watchpoints may leave the list).

### Disagreements without a run

The models contain these, or reading for them showed them; a single step or two
bring each about.

Handshake:
- Continue before the first Run blocks the request thread for ever
  (`EarlyContinue = TRUE` violates `Answered`).
- A repeated Continue is served twice (`Resent` with Continue violates
  `PromptMeansHalted`), and a second Run is answered with SimulationEnd although
  the simulation has not ended (`DebuggerMessages.h:182`).
- Without `-d` the destructor may never return: `kill_thread` is tested where
  requests are received, not in `waitForStop` (`DebuggerIPCServer.cpp:397`).
  And the request thread changes lists that the simulation thread is walking
  (`Enable = FALSE` violates `SingleAccess`, which `Exclusive` asks for with
  `-d`).

Breakpoints and counters:
- An event at the very time that a Continue is to stop at passes when that time
  was rounded up on its way over a text and a float (`DebuggerIPCServer.cpp:411`,
  `DebugObserver.cpp:308`): 0.1 becomes 0.100000001, and 16777219 becomes 16777220.
  `LimitKept` allows for it by `Slack`.
- A disabled breakpoint hides an enabled one behind it in the list, also the
  stealth one of a Continue (`DebugObserver.cpp:321`), while `Breakpoint.h:99` says of it
  only that it will not be hit. `LimitKept` leaves such events out by `Hidden`.
- Removing the watchpoint that was hit, or adding one so that the vector moves,
  then continuing, takes the loop over the watchpoints outside the vector
  (`DebugObserver.cpp:110`): `getWatchpointList` hands out a reference without
  the mutex that is to guard it (`DebugDataManager.h:342`). `cnt_copy` gets to this state,
  `undefined`, and stops in it.
- `data_dropped` does not ask `checkIgnoreModules`; `isEqual` is a subset test,
  so a narrower breakpoint is dropped as equal.
- A counter added in a constructor, before `attach_observer`, never becomes
  known; an initial value is shown as 0; counters of one name in two modules
  share an entry of the copy; `remove_counter` of a name the module does not have
  notifies the observer and returns true. Each of these `Liberties` violates
  `Agreement` or `NeverThrows`.
- An old value of -1 is told as 0 at a hit: -1 also stands for "no such counter".
- `decrement_counter` by more than the value wraps around.
- Counters are reported under the module's own name, data under its full one.

Packets and traces:
- A counter trace's update carries the time of the callback before; a second
  throughput trace of a module silences the first; two writes at the same time
  make an infinite rate; latency triggers of packets that never arrive stay.

Control plane (its `Liberties` violate `EntriesSettle`, "no handle" together with
"two at once", and "narrow growth", with a literal of width three, `NumberKept`):
- A modified entry is looked for under the action it is to get, so one that
  changes its action is never found (`CPDebuggerInterface.cpp:108`, against
  `CPDebuggerInterface.h:126`). A second change before the first is confirmed,
  two entries of one key, or an entry without a handle are confused likewise.
- A byte string that grows to less than its double and one more loses its number
  (`grammar.y:290`): as many bytes and one are cleared, not the room made; and
  every growth moves one byte more than there is, past the end.
- `confirmDeleteEntry` erases the node its loop stands on
  (`CPDebuggerInterface.cpp:169`).
- There is no call for a failed command, so a refused entry stays INSERTING or
  MODIFYING.

Modules, configuration, start:
- A name that contains "top" is taken for the top (`PFPObject.cpp:184`): such a module
  reports its data under the empty name, and searches for parameters end there. `operator[]` searches the parents of the module whose process
  runs, crashes from the top's own process, and ends the process outside of any;
  a key with the value null hides the parents from `operator[]` but not from
  `GetParameter`; `GetParameter` of the top returns null where that of other
  modules exits.
- An index past the end of a list throws or exits, whatever the parents hold. A
  3 does not replace a -3 or a 3.0: their JSON types differ, and the process ends.
- Two children of one name replace each other in `childModules_`; queues and
  other members that are not registered never get the observer.
- `--UserOpt` without an argument in its own word makes a string of a null pointer.
- `-Xk=1`, which the usage text allows (`pfp_main.cpp:45`), takes the next word, whatever
  it is, as its value, and at the end of the line a null pointer (`pfp_main.cpp:98`).

### Fairness

`DebuggerHandshake`: both threads are scheduled (weak fairness of their steps
but for spurious wakeups). Strong fairness of acquiring a mutex: the other
thread releases it again and again, and a thread that waits gets it at last.
Strong fairness of `SimEnd`: a model has finitely many events. Nothing is
assumed of the client. `LMTQueue`, `MTQueue`: the process in control runs on
(weak); SystemC's evaluation phase runs every runnable process (strong fairness of
`Dispatch`); a module that yields comes back to the queue (`Call`, `CallPop`).
Producers of `MTQueue` owe nothing. The other modules have safety properties
only: their steps are answers to an environment that owes nothing, and what they
leave to happen later (a confirmation, a write) is the device's or the model's.

## 4. What is proved

For all values of the constants, under the named assumptions in the modules.
Each safety proof strengthens the property to an inductive invariant, shows one
step per action that it is kept, and derives the property from it.

`DebuggerHandshakeProofs`:
- `TypeCorrect`, `WakeupsKept`: types, and no lost wakeup, with and without
  `-d`. Wakeups need `Locks`: who holds a mutex is where that thread is, and a
  thread about to sleep has seen its predicate false under the mutex.
- `ThreadsExclusive`, `RepliesFresh`: with `-d`, from `TurnTaking`. The
  properties are not inductive alone: that no handler runs in a callback depends on
  who has been granted control, hence on the flags, hence on the whole protocol.
  `TurnTaking` says for each phase (before the first Run, active, halted) which
  of the three possible states the handshake is in (halt not yet seen; pfpdb
  served; control granted).
- `PromptHalted`: with `-d` and at most Run sent again, from `ClientTurn`: the
  outstanding request is in the queue or being served, exactly once.
- `BatonRefined`: with `-d` each step is a step of `ControlTransfer` or a
  stutter, under the mapping `Holder`.

`BreakpointsProofs`, from `TypeInv` (what is in the list, and that the user's ids
are unique and used up) and lemmas on what the list operations keep, erase and
move:
- `BreakpointTypes`: for all kinds of halt.
- `LimitNotOvershot` (`LimitKept`), for all kinds of halt, from `LimitInv`: while the
  simulation runs towards a limit, some breakpoint of the list has conditions
  that are among the limit's, a time rounded by at most `Slack` (`Rounded`),
  either the stealth one or the one `addBreakpoint` found equal. So at an event that is
  `Due` a breakpoint is found; the first one found is enabled, since no disabled one
  matches (`Hidden`). Other halts and leftover stealth breakpoints make no
  difference, since the list changes only with a halt. What the rounding and disabled
  breakpoints do is in section 3.
- `StealthGone` (`NoStealthAtPrompt`), `TemporaryGoes` (`TemporaryTidied`), `OthersStay`
  (`OthersKept`), from `StealthInv`: as long as `otherHalt` is false, a stealth
  breakpoint stands last, is temporary, and is there only while the simulation runs.
  So what `removeBreakpoint(-1)` erases is behind `hit_bkpt`, or is what it points to
  (`HitEffect`). After another halt this fails: `bp_temporary` shows the unconditional
  `TemporaryDestroyed` violated then.

`CountersProofs`, assuming `Careful` (none of the liberties but "edit in walk"):
`CountersAgree` and `CountersNeverThrow` from `CountersInv`: a name has one owner
at most; the copy has each counter of a module, no removal of it is queued, and
the updates queued lead to its value (`Kept`); a name without an owner has
nothing queued and is not in the copy, or its last event queued is its only
removal (`Gone`). This is what each of the liberties breaks.

In the same module, about watchpoints, and for all liberties: `CountersTypes`, and
`HitsAgree` (`PromptAgrees`), from `HitInv`: ids are unique; a
simulation that runs is not halted in a walk; and in a walk the copy has the value reported of the counter reported, and the
watchpoint with the id reported, if it is still there, is on that counter. Edits in the
walk keep this: what is removed is gone, and what is added has a fresh id
(`Edited`). That the walk stays in the list is false then (section 3).

`PacketProofs`:
- `PacketsTyped`, from `PacketTypes`: an id is below the number of traces
  started, a read time not after the simulation's.
- `UpdatesAreRight` (`UpdatesRight`), from `UpdatesInv`. The property compares
  what was published with the history alone; the invariant says what the triggers
  have to do with it (`History`): the list of read triggers of a module is its
  latency traces in order, the list of write triggers of a module and a packet
  is the reads that no write has ended yet (`Pending`) in the order of `PairPlace`, the
  throughput trigger is the newest trace with the last write since, and a
  counter has the one trace of its name. TLC checked it on the bounds of
  `pkt_history` before it was proved. A read runs the loop of `Triggered`, which
  is proved by counting up its rounds (`CountUp`): after k rounds the write
  triggers are those that the first k traces call for (`After`).
- `BacktracesTell` (`BacktraceTells`), from `Followed`: a packet is in the list
  when it was seen, with the place it came to last, the time when it did, and a trace that
  tells its visits; the list of drops and the set of counters follow the history
  too. The proof reads the history as brackets: a read of the packet at the
  module leads deeper by one, a write leads back (`Depth`), and a read is open as
  long as the depth has not fallen below its own (`OpenUntilEnded`). The last open
  read is the only one as deep as the last entry (`Innermost`), so it is the one
  that a write ends (`EndsNow`), and its visit is the one that the search from the
  back finds (`LastOpenVisit`); a write that finds none begins a visit.
- `AnswersFit` (`AnswerFits`), from `AnswersInv`: `UpdatesInv`, for the ids of traces,
  the counters traced and the time, and `Followed`, for the rest. It holds for the
  requests after any history, also those that the runs leave out (`MaxAsked`). It
  assumes that the word "none" or "malformed" for an argument is not a packet's id.

`ControlPlaneProofs`:
- `ControlTypes`, for all liberties of user and device.
- `ListFollowsDevice` (`EntriesSettle`), `DeviceIsListed` (`NoneHidden`),
  `OneEntryPerHandle` (`HandlesUnique`), assuming `Orderly`: of the liberties at
  most "narrow growth", which concerns keys only. With each of the others TLC
  finds the list astray (section 3). They come from `ControlInv`, which TLC
  checked on the bounds of `cp_tables` before it was proved. It takes a table as
  the set of its entries, none listed twice, and results and commands as one
  line, oldest first, and keeps a ledger of them: each status of an entry stands for
  something in the line, on the device or refused (`Stands`), and each insert,
  modify, delete or failure in the line for an entry (`InsertsStand` and its
  siblings); a handle names one entry, a key one that is not being deleted (`Named`);
  at most one command for an entry is in the line, one insert for a key (`OneEach`);
  what the device holds is listed or about to get its handle (`Held`); a refused key
  is not free again (`Refusals`). The heart is an insert that the device gives a
  handle used before, or a key whose old entry still shows: the deletion of the old
  entry then stands ahead of the insert in the line, so that its result is
  taken first. The `Ledger` lemmas show this for sets and the line alone; the
  others carry the lists of `table_entries` over to them.
- `NumbersKept` (`NumberKept`), for all liberties but "narrow growth", from
  `KeysWidened`: the key of an insert command is made from its literal. That it has
  the number's last digits (`ResizedDigits`) needs `LiteralAssumption`: a key wider
  than twice a literal is filled with zeros, which are the number's further digits only
  because it is below `Power(DecimalWidth)`. That the digits make up the number
  again (`DigitsNumber`) is shown by counting up the bytes: the first i of w
  make up what is left of the number when w - i digits are cut off.

`QueueProofs`: `QueueTypes`, `QueueChecked`, `QueueWakeups`, `QueueLock`, `QueueSlots`,
`QueueIsChannel`, for any number of processes and slots, from `QueueInv`: only the
process in control is inside a call, and `slots_` is off by one exactly between
the change of the queue and its count. `MTQueueTypes`, `MTQueuePops`,
`MTQueueIsChannel` in the same way from `ProcessInv`, of an instance
`MT` of `MTQueue` over the same variables and any capacity.

`ModuleTreeProofs`, from `IInv`, whose parts are named below:
- `TreeTypes`, from `TreeInv`: a module is configured only after its parent and done
  only after its children (`StageInv`); its parameters are what its files amount
  to (`LoadInv`); `childModules_` has the children of the modules that are done and
  of no others (`RegisterInv`); the observer is with all modules or with none
  (`ObserverInv`).
- `ArgumentsMeant` (`ArgumentsTaken`), from `TakenInv`: as long as `parse_args`
  reads a well formed line, it stands at the beginning of a group, the k-th say, and
  its variables are what the groups before say (`Upto`). That the words of group
  k are where `optind` points is a fact about `FlattenSeq` (`Flattened`, `WordsAt`),
  shown by counting up the groups; what one more -X, joined and cut at its first =,
  makes of the map is `ArgMapAppend`.
- `FillingKeepsShape` (`FillKeepsShape`). The recursion into values is shown to have a
  value for every pair (`CompareStructureIs`) by counting up `Nesting`. Then:
  where the process goes on, each place fits (`FitsIfCompared`) and is filled as it
  should be (`FilledIfCompared`); where it ends, the misfit is found at some place by
  going down one level at a time (`ComparedIfFits`). The shape is a statement
  about each place, so the proofs go down the levels of `Parts` (`PartsWithin`).
- `NearestFound` (`NearestWins`), assuming `PlainNames`: no name contains "top"
  (section 3 says what becomes of the others). Each search is shown to be a
  function of the tree (`UpwardSearch`) that gives the first value on the way up
  (`SearchIsNearest`), by induction from the top down, which is what `IsTree` allows
  (`TreeInduction`). An answer stays right (`AnswerInv`) because the modules it was
  read from are configured before the lookup and never again.
- `EveryModuleReports` (`AllReport`), assuming `PlainNames`: when the top is done every
  module is (`AllDone`), so the walk of `attach_observer` along `childModules_` gets to
  every module (`AllReached`); hierarchies of two modules differ in length, or in
  the name at some module where their ways part (`HierarchyTells`). Without `PlainNames` it is false: two modules whose
  names contain "top" have the same empty full name.

`ListLemmas` holds what the list proofs need: the least element of a set of
natural numbers, from well-foundedness, the greatest of a bounded one, counting
up to a number, and what `RemoveAt` leaves where.

Every safety invariant and every action property that the passing runs check is
proved. Only model-checked: all liveness (`Answered`, the fairness part of
`ImplementsBaton`, `ShutdownCompletes`, `IsChannel`'s liveness, `Drains`), which
is out of the prover's reach, as fairness needs ENABLED. The three runs that find
a disagreement are TLC's alone.

## 5. Not modelled, and the plan

- The JSON library (`json.hpp`) is vendored, and more than half of the source
  lines; what the code uses of its values is in `ConfigValues`. Protocol buffer
  messages and `DebuggerMessages.cpp` copy fields; a message is its kind with the
  contents a property compares.
- The scanner and parser of the command language (generated by flex and bison),
  its hexadecimal and address literals, boot and transaction commands, which keep
  no state in this code, and the fields of LPM and ternary keys, which are kept and
  printed.
- Reading and parsing of files, output, `PFPObserver` and the other interfaces
  without state, `StringUtils`.
- Plain listings (all counters, breakpoints, watchpoints, ignored modules) only
  read: one step of `DebuggerHandshake`.
- What a process does after undefined behaviour.

What is left to do: the composition of `Counters` with the steps of `MTQueue` in
one module instead of by rely and guarantee; and trees with names that contain
"top", of which section 3 says only what goes wrong.
