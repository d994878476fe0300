----------------------------- MODULE Breakpoints -----------------------------
(***************************************************************************)
(* Breakpoints, ignored modules, break-on-drop and the packet in focus:    *)
(* the part of DebugDataManager that decides when the simulation halts,    *)
(* with the requests that change it and the observer callbacks that        *)
(* consult it.  Requests are served only while the simulation is halted    *)
(* and callbacks run only while it is not (DebuggerHandshake, Exclusive),  *)
(* so each is one step and control alternates.                             *)
(***************************************************************************)
EXTENDS Integers, Sequences, SequencesExt, FiniteSets

CONSTANTS
  Modules, Packets,
  UserConditions,   \* condition maps of the breakpoints the user sets
  MaxTime,          \* bound: simulation time
  Delays,           \* "run/continue for" this long
  to_string(_),     \* std::to_string: the text of a time, six decimals
  stof(_),          \* std::stof: the 32-bit float nearest to what a text says
  Slack,            \* bound: what a time may grow by, to a text and back
  MaxBreakpoints    \* bound: breakpoints the user sets

(* BreakpointCondition.  A map from conditions to values is a function.    *)
(* The value of a time condition is a text.                                *)
Conditions == {"READ", "WRITE", "TIME", "PKT"}

ASSUME BreakpointsAssumption ==
  /\ Packets \subseteq Nat /\ Delays \subseteq Nat
  /\ MaxTime \in Nat /\ MaxBreakpoints \in Nat
  /\ \A u \in UserConditions :
       /\ DOMAIN u \subseteq Conditions
       /\ "TIME" \in DOMAIN u => stof(u["TIME"]) \in Int
  /\ Slack \in Nat
  /\ \A t \in 0 .. MaxTime, d \in Delays :
       /\ stof(to_string(t + d)) \in Int
       /\ stof(to_string(t + d)) <= t + d + Slack

VARIABLES
  breakpoint_list, next_id, ignore_module_list, break_packet_dropped,
  current_packet_id, simulation_time,
  turn,      \* who has control: "debugger" or "simulation"
  report,    \* what the user is told of this halt
  limit,     \* history: what the last Run, Continue or Next is to stop at
  otherHalt  \* history: a watchpoint or a dropped packet halted the simulation

data == <<breakpoint_list, next_id, ignore_module_list, break_packet_dropped>>
vars ==
  <<data, current_packet_id, simulation_time, turn, report, limit, otherHalt>>

Stealth == -1
NoPacket == -1
NoLimit == <<>>
NoReport == [kind |-> "None", id |-> Stealth, packet |-> NoPacket,
             module |-> "none"]
Breakpoint(identifier, u, t, d) ==
  [id |-> identifier, conditions |-> u, temp |-> t, disabled |-> d]

Init ==
  /\ breakpoint_list = <<>> /\ next_id = 0
  /\ ignore_module_list = {} /\ break_packet_dropped = FALSE
  /\ current_packet_id = NoPacket /\ simulation_time = 0
  /\ turn = "debugger" /\ report = NoReport /\ limit = NoLimit
  /\ otherHalt = FALSE

-----------------------------------------------------------------------------
(* Breakpoint::isEqual as called on each breakpoint of the list: its       *)
(* conditions are among those of the new one                               *)
isEqual(old, new) ==
  \A k \in DOMAIN old.conditions :
    k \in DOMAIN new.conditions /\ new.conditions[k] = old.conditions[k]

(* Fault: the comparison goes the other way round *)
addBreakpoint_Reversed(list, new) ==
  IF \E i \in DOMAIN list : isEqual(new, list[i]) THEN list
  ELSE Append(list, new)

addBreakpoint(list, new) ==
  IF \E i \in DOMAIN list : isEqual(list[i], new) THEN list
  ELSE Append(list, new)

(* Fault: the breakpoint behind the one sought is erased *)
removeBreakpoint_Next(list, identifier) ==
  LET i == SelectInSeq(list, LAMBDA b : b.id = identifier)
  IN  IF i = 0 THEN list ELSE RemoveAt(list, IF i < Len(list) THEN i + 1 ELSE i)

removeBreakpoint(list, identifier) ==
  RemoveFirstMatch(list, LAMBDA b : b.id = identifier)

(* enableBreakpoint, disableBreakpoint *)
setDisabled(list, identifier, d) ==
  LET i == SelectInSeq(list, LAMBDA b : b.id = identifier)
  IN  IF i = 0 THEN list ELSE [list EXCEPT ![i].disabled = d]

-----------------------------------------------------------------------------
(* Requests. *)

Request ==
  /\ turn = "debugger"
  /\ UNCHANGED <<current_packet_id, simulation_time, turn, report, limit,
                 otherHalt>>

(* Fault: the same id again *)
SetBreakpoint_SameId(u, t, d) ==
  /\ Request
  /\ next_id < MaxBreakpoints
  /\ breakpoint_list' =
       addBreakpoint(breakpoint_list,
                     Breakpoint(next_id, u, t \/ "TIME" \in DOMAIN u, d))
  /\ UNCHANGED <<next_id, ignore_module_list, break_packet_dropped>>

(* handleSetBreakpoint: the id is used up even when the list has an equal  *)
SetBreakpoint(u, t, d) ==
  /\ Request
  /\ next_id < MaxBreakpoints
  /\ breakpoint_list' =
       addBreakpoint(breakpoint_list,
                     Breakpoint(next_id, u, t \/ "TIME" \in DOMAIN u, d))
  /\ next_id' = next_id + 1
  /\ UNCHANGED <<ignore_module_list, break_packet_dropped>>

(* handleRemoveBreakpoint *)
RemoveBreakpoint(identifier) ==
  /\ Request
  /\ breakpoint_list' = removeBreakpoint(breakpoint_list, identifier)
  /\ UNCHANGED <<next_id, ignore_module_list, break_packet_dropped>>

(* handleEnableDisableBreakpoint *)
EnableDisableBreakpoint(identifier, d) ==
  /\ Request
  /\ breakpoint_list' = setDisabled(breakpoint_list, identifier, d)
  /\ UNCHANGED <<next_id, ignore_module_list, break_packet_dropped>>

(* handleIgnoreModule: addIgnoreModule or removeIgnoreModule *)
IgnoreModule(m, del) ==
  /\ Request
  /\ ignore_module_list' = IF del THEN ignore_module_list \ {m}
                           ELSE ignore_module_list \cup {m}
  /\ UNCHANGED <<breakpoint_list, next_id, break_packet_dropped>>

(* handleBreakOnPacketDrop *)
BreakOnPacketDrop(on) ==
  /\ Request
  /\ break_packet_dropped' = on
  /\ UNCHANGED <<breakpoint_list, next_id, ignore_module_list>>

(* control goes to the simulation, which is to stop at l: a stealth        *)
(* breakpoint with the conditions u sees to that                           *)
Resume(u, l) ==
  /\ turn = "debugger" /\ turn' = "simulation"
  /\ limit' = l /\ report' = NoReport
  /\ breakpoint_list' =
       IF u = NoLimit THEN breakpoint_list
       ELSE addBreakpoint(breakpoint_list, Breakpoint(Stealth, u, TRUE, FALSE))
  /\ UNCHANGED <<next_id, ignore_module_list, break_packet_dropped,
                 current_packet_id, simulation_time, otherHalt>>

Only(k, v) == [c \in {k} |-> v]

(* handleRun and handleContinue, with and without a time *)
Continue(delay) ==
  LET break_time == simulation_time + delay
  IN  Resume(Only("TIME", to_string(break_time)), Only("TIME", break_time))

ContinueForever == Resume(NoLimit, NoLimit)

(* handleNext: the next event of the packet in focus *)
HandleNext ==
  Resume(Only("PKT", current_packet_id), Only("PKT", current_packet_id))

-----------------------------------------------------------------------------
(* Observer callbacks. *)

Holds(k, v, e) ==
  CASE k = "READ"  -> e.read /\ v = e.module
    [] k = "WRITE" -> ~e.read /\ v = e.module
    [] k = "PKT"   -> v = e.packet
    [] k = "TIME"  -> stof(v) <= e.time

Matches(b, e) ==
  \A k \in DOMAIN b.conditions : Holds(k, b.conditions[k], e)

Halt(r) == turn' = "debugger" /\ report' = r /\ limit' = NoLimit

(* What stands at hit_bkpt after removeBreakpoint(-1): the pointer keeps   *)
(* its place while the breakpoints behind an erased one move up; past the  *)
(* new end the erased slot still shows the last breakpoint                 *)
AtPointer(old, new, i) == IF i <= Len(new) THEN new[i] ELSE old[i]

(* Fault: a stealth breakpoint outlives the hit of another one *)
AfterHit_KeepStealth(list, i) ==
  IF list[i].temp THEN removeBreakpoint(list, list[i].id) ELSE list

(* The list after the hit of its i-th breakpoint *)
AfterHit(list, i) ==
  LET unstealthed == IF list[i].id = Stealth THEN list
                     ELSE removeBreakpoint(list, Stealth)
      pointee == AtPointer(list, unstealthed, i)
  IN  IF pointee.temp THEN removeBreakpoint(unstealthed, pointee.id)
      ELSE unstealthed

(* checkIgnoreModules, then checkBreakpointHit: only the first breakpoint  *)
(* whose conditions hold is considered                                     *)
CheckBreakpointHit(e) ==
  LET i == SelectInSeq(breakpoint_list, LAMBDA b : Matches(b, e))
  IN  IF e.module \in ignore_module_list \/ i = 0
         \/ (i # 0 /\ breakpoint_list[i].disabled)
      THEN UNCHANGED <<breakpoint_list, current_packet_id, turn, report, limit>>
      ELSE /\ current_packet_id' = e.packet
           /\ breakpoint_list' = AfterHit(breakpoint_list, i)
           /\ Halt([kind |-> IF breakpoint_list[i].id = Stealth
                             THEN "SimulationStopped" ELSE "BreakpointHit",
                    id |-> breakpoint_list[i].id, packet |-> e.packet,
                    module |-> e.module])

Event(m, p, r) ==
  [module |-> m, packet |-> p, read |-> r, time |-> simulation_time']

TimePasses ==
  /\ turn = "simulation"
  /\ simulation_time' \in {t \in {simulation_time, simulation_time + 1} :
                             t <= MaxTime}

(* data_read (r) and data_written (~r) *)
DataEvent(m, p, r) ==
  /\ TimePasses
  /\ CheckBreakpointHit(Event(m, p, r))
  /\ UNCHANGED <<next_id, ignore_module_list, break_packet_dropped, otherHalt>>

(* data_dropped, when break-on-drop is set *)
DataDropped(m, p) ==
  /\ TimePasses
  /\ break_packet_dropped
  /\ Halt([kind |-> "PacketDropped", id |-> Stealth, packet |-> p,
           module |-> m])
  /\ otherHalt' = TRUE
  /\ UNCHANGED <<data, current_packet_id>>

(* counter_updated, when a watchpoint is set on the counter *)
WatchpointHit ==
  /\ TimePasses
  /\ Halt([NoReport EXCEPT !.kind = "WatchpointHit"])
  /\ otherHalt' = TRUE
  /\ UNCHANGED <<data, current_packet_id>>

-----------------------------------------------------------------------------
Ids == -1 .. MaxBreakpoints - 1

Next ==
  \/ \E u \in UserConditions, t, d \in BOOLEAN : SetBreakpoint(u, t, d)
  \/ \E i \in Ids : RemoveBreakpoint(i)
  \/ \E i \in Ids, d \in BOOLEAN : EnableDisableBreakpoint(i, d)
  \/ \E m \in Modules, del \in BOOLEAN : IgnoreModule(m, del)
  \/ \E on \in BOOLEAN : BreakOnPacketDrop(on)
  \/ \E delay \in Delays : Continue(delay)
  \/ ContinueForever \/ HandleNext
  \/ \E m \in Modules, p \in Packets, r \in BOOLEAN : DataEvent(m, p, r)
  \/ \E m \in Modules, p \in Packets : DataDropped(m, p)
  \/ WatchpointHit

Spec == Init /\ [][Next]_vars
-----------------------------------------------------------------------------
(* Type invariant, and ids: the user's are unique and not yet to come.     *)
TypeOK ==
  /\ \A i \in DOMAIN breakpoint_list :
       LET b == breakpoint_list[i] IN
       /\ b.id \in Stealth .. next_id - 1
       /\ DOMAIN b.conditions \subseteq Conditions
       /\ b.temp \in BOOLEAN /\ b.disabled \in BOOLEAN
       /\ \A j \in DOMAIN breakpoint_list :
            b.id # Stealth /\ breakpoint_list[j].id = b.id => i = j
  /\ next_id \in 0 .. MaxBreakpoints
  /\ ignore_module_list \subseteq Modules
  /\ break_packet_dropped \in BOOLEAN
  /\ current_packet_id \in Packets \cup {NoPacket}
  /\ simulation_time \in 0 .. MaxTime
  /\ turn \in {"debugger", "simulation"} /\ otherHalt \in BOOLEAN

UserIds(list) == {list[i].id : i \in DOMAIN list} \ {Stealth}
Halts == turn = "simulation" /\ turn' = "debugger"
Reported == report'.kind = "BreakpointHit"

(* The event e is at the limit l; if that is a time, by its rounding later *)
Due(l, e) ==
  \A k \in DOMAIN l : IF k = "TIME" THEN l[k] + Slack <= e.time
                      ELSE Holds(k, l[k], e)

(* A disabled breakpoint would hide those behind it from the event.        *)
Hidden(e) ==
  \E i \in DOMAIN breakpoint_list :
    breakpoint_list[i].disabled /\ Matches(breakpoint_list[i], e)

HaltsAtLimit ==
  \A m \in Modules \ ignore_module_list, p \in Packets, r \in BOOLEAN :
    LET e == Event(m, p, r)
    IN  DataEvent(m, p, r) /\ limit # NoLimit /\ Due(limit, e) /\ ~Hidden(e)
        => turn' = "debugger"

(* What a Run, Continue or Next is to stop at is overshot by no more than  *)
(* the rounding of its time: an event that reaches it, in a module that is *)
(* not ignored and with no disabled breakpoint to hide it, halts the       *)
(* simulation, though the stealth breakpoint for it may have been left out *)
(* as equal to another, and other breakpoints and halts come before.       *)
LimitKept == [][HaltsAtLimit]_vars

(* As long as only breakpoints halt the simulation, stealth breakpoints    *)
(* do not outlive the halt they were set for: none is there to be listed,  *)
(* or to halt a later run, when the user has control.                      *)
NoStealthAtPrompt ==
  turn = "debugger" /\ ~otherHalt =>
    \A i \in DOMAIN breakpoint_list : breakpoint_list[i].id # Stealth

(* The temporary breakpoint that is hit is destroyed.                      *)
HitDestroys ==
  Halts /\ Reported =>
    \A i \in DOMAIN breakpoint_list :
      breakpoint_list[i].temp /\ breakpoint_list[i].id = report'.id
      => report'.id \notin UserIds(breakpoint_list')

(* A temporary breakpoint is destroyed when it is hit, as its header says. *)
TemporaryDestroyed == [][HitDestroys]_vars

(* It is, as long as only breakpoints halt the simulation.                 *)
TemporaryTidied == [][~otherHalt' => HitDestroys]_vars

(* A halt removes no breakpoint of the user but the one it reports, as     *)
(* long as only breakpoints halt the simulation.                           *)
OthersKept ==
  [][turn = "simulation" /\ ~otherHalt' =>
       UserIds(breakpoint_list) \ {report'.id}
         \subseteq UserIds(breakpoint_list')]_vars
=============================================================================
