-------------------------- MODULE BreakpointsProofs --------------------------
(***************************************************************************)
(* Proofs about Breakpoints, for every set of modules, packets and         *)
(* conditions and every bound.                                             *)
(***************************************************************************)
EXTENDS Breakpoints, ListLemmas

Pids == Packets \cup {NoPacket}
Texts == {to_string(t) : t \in Nat}
ConditionMaps == UserConditions \cup [{"TIME"} -> Texts] \cup [{"PKT"} -> Pids]
Entry == [id : Int, conditions : ConditionMaps, temp : BOOLEAN,
          disabled : BOOLEAN]

UserUnique(list) ==
  \A i, j \in 1 .. Len(list) :
    list[i].id # Stealth /\ list[i].id = list[j].id => i = j

(* A list of entries, with ids of the user that were given out before n.   *)
ListOf(list, n) ==
  /\ list \in Seq(Entry)
  /\ UserUnique(list)
  /\ \A i \in 1 .. Len(list) : list[i].id \in Stealth .. n - 1

(* The inductive invariant behind TypeOK.                                  *)
ListTypes == ListOf(breakpoint_list, next_id)
OtherTypes ==
  /\ next_id \in 0 .. MaxBreakpoints
  /\ ignore_module_list \subseteq Modules
  /\ break_packet_dropped \in BOOLEAN
  /\ current_packet_id \in Pids
  /\ simulation_time \in 0 .. MaxTime
  /\ turn \in {"debugger", "simulation"} /\ otherHalt \in BOOLEAN
TypeInv == ListTypes /\ OtherTypes
-----------------------------------------------------------------------------
(* Lemmas about the operations on the list. *)

(* The list stays, if an equal breakpoint is in it, or grows by one.       *)
LEMMA AddedBreakpoint ==
  ASSUME NEW list \in Seq(Entry), NEW b \in Entry
  PROVE  \/ /\ addBreakpoint(list, b) = list
            /\ \E i \in 1 .. Len(list) : isEqual(list[i], b)
         \/ /\ addBreakpoint(list, b) \in Seq(Entry)
            /\ Len(addBreakpoint(list, b)) = Len(list) + 1
            /\ addBreakpoint(list, b)[Len(list) + 1] = b
            /\ \A i \in 1 .. Len(list) : addBreakpoint(list, b)[i] = list[i]
BY AppendProperties, LenProperties DEF addBreakpoint

(* At most the first breakpoint of that id is erased.                      *)
LEMMA RemovedBreakpoint ==
  ASSUME NEW list \in Seq(Entry), NEW identifier
  PROVE  LET new == removeBreakpoint(list, identifier) IN
         /\ new \in Seq(Entry)
         /\ \/ /\ new = list
               /\ \A i \in 1 .. Len(list) : list[i].id # identifier
            \/ \E at \in 1 .. Len(list) :
                 /\ list[at].id = identifier
                 /\ \A i \in 1 .. at - 1 : list[i].id # identifier
                 /\ Len(new) = Len(list) - 1
                 /\ \A i \in 1 .. Len(list) - 1 :
                      new[i] = IF i < at THEN list[i] ELSE list[i + 1]
<1> DEFINE I == {i \in 1 .. Len(list) : list[i].id = identifier}
           new == removeBreakpoint(list, identifier)
<1>1. CASE I = {}
  <2>1. new = list
    BY <1>1 DEF removeBreakpoint, RemoveFirstMatch
  <2> QED
    BY <1>1, <2>1
<1>2. CASE I # {}
  <2> DEFINE at == Min(I)
  <2>1. I \subseteq Nat /\ Len(list) \in Nat
    BY LenProperties
  <2>2. at \in I /\ \A i \in I : at <= i
    BY <1>2, <2>1, MinIsFirst
  <2>3. new = RemoveAt(list, at)
    BY <1>2 DEF removeBreakpoint, RemoveFirstMatch, SelectInSeq
  <2> HIDE DEF at, new
  <2>4. at \in 1 .. Len(list) /\ list[at].id = identifier
    BY <2>2
  <2>5. \A i \in 1 .. at - 1 : list[i].id # identifier
    <3> SUFFICES ASSUME NEW i \in 1 .. at - 1, list[i].id = identifier
                 PROVE  FALSE
      OBVIOUS
    <3>1. i \in I
      BY <2>1, <2>4
    <3> QED
      BY <3>1, <2>1, <2>2
  <2>6. /\ new \in Seq(Entry) /\ Len(new) = Len(list) - 1
        /\ \A i \in 1 .. Len(list) - 1 :
             new[i] = IF i < at THEN list[i] ELSE list[i + 1]
    BY <2>3, <2>4, RemovedAt
  <2> QED
    BY <2>4, <2>5, <2>6 DEF new
<1> QED
  BY <1>1, <1>2

(* What is left was there, what had another id is left, what stood in     *)
(* front of the erased one keeps its place, and nothing is left of an id   *)
(* that was there once.                                                    *)
Survive(list, new, identifier) ==
  /\ \A j \in 1 .. Len(new) : \E i \in 1 .. Len(list) : new[j] = list[i]
  /\ \A i \in 1 .. Len(list) :
       list[i].id # identifier => \E j \in 1 .. Len(new) : new[j] = list[i]
  /\ \A i \in 1 .. Len(list) :
       (\A j \in 1 .. i : list[j].id # identifier)
       => i <= Len(new) /\ new[i] = list[i]
UniqueSurvive(list, new, identifier) ==
  /\ UserUnique(list) => UserUnique(new)
  /\ (\A i, j \in 1 .. Len(list) :
        list[i].id = identifier /\ list[j].id = identifier => i = j)
     => \A j \in 1 .. Len(new) : new[j].id # identifier

LEMMA RemovalKeeps ==
  ASSUME NEW list \in Seq(Entry), NEW identifier
  PROVE  LET new == removeBreakpoint(list, identifier) IN
         /\ new \in Seq(Entry)
         /\ Survive(list, new, identifier)
         /\ UniqueSurvive(list, new, identifier)
<1> DEFINE new == removeBreakpoint(list, identifier)
<1>1. new \in Seq(Entry) /\ Len(list) \in Nat
  BY RemovedBreakpoint, LenProperties
<1>2. ASSUME new = list, \A i \in 1 .. Len(list) : list[i].id # identifier
      PROVE  Survive(list, new, identifier) /\ UniqueSurvive(list, new, identifier)
  <2> HIDE DEF new
  <2> QED
    BY <1>1, <1>2 DEF Survive, UniqueSurvive
<1>3. ASSUME NEW at \in 1 .. Len(list),
             list[at].id = identifier,
             \A i \in 1 .. at - 1 : list[i].id # identifier,
             Len(new) = Len(list) - 1,
             \A i \in 1 .. Len(list) - 1 :
               new[i] = IF i < at THEN list[i] ELSE list[i + 1]
      PROVE  Survive(list, new, identifier) /\ UniqueSurvive(list, new, identifier)
  <2> HIDE DEF new
  <2> DEFINE Old(j) == IF j < at THEN j ELSE j + 1
  <2>1. \A j \in 1 .. Len(new) :
          Old(j) \in 1 .. Len(list) /\ Old(j) # at /\ new[j] = list[Old(j)]
    BY <1>1, <1>3
  <2>2. \A i, j \in 1 .. Len(new) : Old(i) = Old(j) => i = j
    BY <1>1, <1>3
  <2>3. \A i \in 1 .. Len(list) : i # at =>
          \E j \in 1 .. Len(new) : new[j] = list[i]
    <3> SUFFICES ASSUME NEW i \in 1 .. Len(list), i # at
                 PROVE  \E j \in 1 .. Len(new) : new[j] = list[i]
      OBVIOUS
    <3>1. CASE i < at
      <4>1. i \in 1 .. Len(new) /\ new[i] = list[i]
        BY <3>1, <1>1, <1>3
      <4> QED
        BY <4>1
    <3>2. CASE i > at
      <4>1. i - 1 \in 1 .. Len(new) /\ new[i - 1] = list[i]
        <5>1. /\ i - 1 \in 1 .. Len(list) - 1 /\ ~(i - 1 < at)
              /\ (i - 1) + 1 = i
          BY <3>2, <1>1
        <5> QED
          BY <5>1, <1>3
      <4> QED
        BY <4>1
    <3> QED
      BY <3>1, <3>2, <1>1
  <2> HIDE DEF Old
  <2>4. UserUnique(list) => UserUnique(new)
    BY <2>1, <2>2 DEF UserUnique
  <2>5. \A i \in 1 .. Len(list) :
          (\A j \in 1 .. i : list[j].id # identifier)
          => i <= Len(new) /\ new[i] = list[i]
    <3> SUFFICES ASSUME NEW i \in 1 .. Len(list),
                        \A j \in 1 .. i : list[j].id # identifier
                 PROVE  i <= Len(new) /\ new[i] = list[i]
      OBVIOUS
    <3>1. i < at
      BY <1>1, <1>3
    <3> QED
      BY <3>1, <1>1, <1>3
  <2>6. (\A i, j \in 1 .. Len(list) :
           list[i].id = identifier /\ list[j].id = identifier => i = j)
        => \A j \in 1 .. Len(new) : new[j].id # identifier
    BY <1>3, <2>1
  <2> QED
    BY <1>3, <2>1, <2>3, <2>4, <2>5, <2>6 DEF Survive, UniqueSurvive
<1>4. \/ new = list /\ \A i \in 1 .. Len(list) : list[i].id # identifier
      \/ \E at \in 1 .. Len(list) :
           /\ list[at].id = identifier
           /\ \A i \in 1 .. at - 1 : list[i].id # identifier
           /\ Len(new) = Len(list) - 1
           /\ \A i \in 1 .. Len(list) - 1 :
                new[i] = IF i < at THEN list[i] ELSE list[i + 1]
  BY RemovedBreakpoint
<1> HIDE DEF new
<1>5. Survive(list, new, identifier) /\ UniqueSurvive(list, new, identifier)
  BY <1>2, <1>3, <1>4
<1> QED
  BY <1>1, <1>5 DEF new

(* Removing keeps ids unique and old.                                      *)
LEMMA ListShrinks ==
  ASSUME NEW list, NEW n \in Nat, ListOf(list, n), NEW identifier
  PROVE  ListOf(removeBreakpoint(list, identifier), n)
BY RemovalKeeps DEF ListOf, Survive, UniqueSurvive

(* Adding does, for a stealth breakpoint and for the next id.              *)
LEMMA ListGrows ==
  ASSUME NEW list, NEW n \in Nat, ListOf(list, n), NEW b \in Entry
  PROVE  /\ b.id = Stealth => ListOf(addBreakpoint(list, b), n)
         /\ b.id = n => ListOf(addBreakpoint(list, b), n + 1)
<1> DEFINE new == addBreakpoint(list, b)
<1>1. list \in Seq(Entry) /\ Len(list) \in Nat
  BY LenProperties DEF ListOf
<1>2. \/ new = list
      \/ /\ new \in Seq(Entry) /\ Len(new) = Len(list) + 1
         /\ new[Len(list) + 1] = b
         /\ \A i \in 1 .. Len(list) : new[i] = list[i]
  BY <1>1, AddedBreakpoint
<1> HIDE DEF new
<1>3. CASE new = list
  BY <1>3 DEF ListOf, new
<1>4. ASSUME new \in Seq(Entry), Len(new) = Len(list) + 1,
             new[Len(list) + 1] = b,
             \A i \in 1 .. Len(list) : new[i] = list[i],
             NEW k \in {n, n + 1},
             b.id = Stealth \/ (b.id = n /\ k = n + 1)
      PROVE  ListOf(new, k)
  <2>1. \A i \in 1 .. Len(new) : new[i].id \in Stealth .. k - 1
    <3> SUFFICES ASSUME NEW i \in 1 .. Len(new)
                 PROVE  new[i].id \in Stealth .. k - 1
      OBVIOUS
    <3>1. CASE i \in 1 .. Len(list)
      <4>1. new[i].id \in Stealth .. n - 1
        BY <1>4, <3>1 DEF ListOf
      <4> QED
        BY <4>1
    <3>2. CASE i = Len(list) + 1
      BY <1>4, <3>2 DEF Stealth
    <3> QED
      BY <1>1, <1>4, <3>1, <3>2
  <2>2. UserUnique(new)
    <3> SUFFICES ASSUME NEW i \in 1 .. Len(new), NEW j \in 1 .. Len(new),
                        new[i].id # Stealth, new[i].id = new[j].id
                 PROVE  i = j
      BY DEF UserUnique
    <3>1. \A x \in 1 .. Len(list) : new[x] = list[x] /\ new[x].id # n
      <4>1. \A x \in 1 .. Len(list) : list[x].id \in Stealth .. n - 1
        BY DEF ListOf
      <4>2. n \notin Stealth .. n - 1
        OBVIOUS
      <4> QED
        BY <1>4, <4>1, <4>2
    <3>2. \A x \in 1 .. Len(new) : x \in 1 .. Len(list) \/ x = Len(list) + 1
      BY <1>1, <1>4
    <3>3. CASE i \in 1 .. Len(list) /\ j \in 1 .. Len(list)
      BY <3>1, <3>3 DEF ListOf, UserUnique
    <3>4. CASE i = Len(list) + 1 \/ j = Len(list) + 1
      <4>1. b.id = n
        BY <1>4, <3>4
      <4>2. new[Len(list) + 1].id = n
        BY <1>4, <4>1
      <4>3. new[i].id = n /\ new[j].id = n
        BY <3>4, <4>2
      <4>4. i \notin 1 .. Len(list) /\ j \notin 1 .. Len(list)
        BY <3>1, <4>3
      <4> QED
        BY <3>2, <4>4
    <3> QED
      BY <3>2, <3>3, <3>4
  <2> QED
    BY <1>4, <2>1, <2>2 DEF ListOf
<1>5. b.id = Stealth => ListOf(new, n)
  BY <1>2, <1>3, <1>4
<1>6. b.id = n => ListOf(new, n + 1)
  <2>1. CASE new = list
    BY <2>1 DEF ListOf
  <2> QED
    BY <1>2, <1>4, <2>1
<1> QED
  BY <1>5, <1>6 DEF new

(* Enabling and disabling change nothing else.                             *)
LEMMA SwitchedIds ==
  ASSUME NEW list \in Seq(Entry), NEW identifier, NEW d \in BOOLEAN
  PROVE  LET new == setDisabled(list, identifier, d) IN
         /\ new \in Seq(Entry) /\ Len(new) = Len(list)
         /\ \A i \in 1 .. Len(list) : new[i].id = list[i].id
<1> DEFINE I == {i \in 1 .. Len(list) : list[i].id = identifier}
<1>1. CASE I = {}
  BY <1>1 DEF setDisabled, SelectInSeq
<1>2. CASE I # {}
  <2> DEFINE at == Min(I)
             new == [list EXCEPT ![at].disabled = d]
  <2>1. I \subseteq Nat /\ Len(list) \in Nat
    BY LenProperties
  <2>2. at \in 1 .. Len(list)
    BY <1>2, <2>1, MinIsFirst
  <2>3. setDisabled(list, identifier, d) = new
    BY <1>2, <2>2 DEF setDisabled, SelectInSeq
  <2> HIDE DEF at
  <2>4. list[at] \in Entry /\ [list[at] EXCEPT !.disabled = d] \in Entry
    <3>1. list[at] \in Entry
      BY <2>2, ElementOfSeq
    <3> QED
      BY <3>1 DEF Entry
  <2>5. /\ new = [list EXCEPT ![at] = [list[at] EXCEPT !.disabled = d]]
        /\ new \in Seq(Entry) /\ Len(new) = Len(list)
    BY <2>2, <2>4, ExceptSeq
  <2>6. \A i \in 1 .. Len(list) : new[i].id = list[i].id
    BY <2>2, <2>4 DEF Entry
  <2> HIDE DEF new
  <2> QED
    BY <2>3, <2>5, <2>6
<1> QED
  BY <1>1, <1>2

(* So ids stay unique and old.                                             *)
LEMMA ListSwitched ==
  ASSUME NEW list, NEW n \in Nat, ListOf(list, n), NEW identifier,
         NEW d \in BOOLEAN
  PROVE  ListOf(setDisabled(list, identifier, d), n)
BY SwitchedIds DEF ListOf, UserUnique
-----------------------------------------------------------------------------
(* The condition maps of the stealth breakpoints. *)

LEMMA DelayIsMap ==
  ASSUME TypeInv, NEW delay \in Delays
  PROVE  /\ simulation_time + delay \in Nat
         /\ Only("TIME", to_string(simulation_time + delay)) \in ConditionMaps
<1>1. simulation_time + delay \in Nat
  BY BreakpointsAssumption DEF TypeInv, OtherTypes
<1> DEFINE text == to_string(simulation_time + delay)
<1>2. text \in Texts
  BY <1>1 DEF Texts
<1> HIDE DEF text
<1>3. Only("TIME", text) \in [{"TIME"} -> Texts]
  BY <1>2 DEF Only
<1> QED
  BY <1>1, <1>3 DEF ConditionMaps, text

LEMMA NextIsMap ==
  ASSUME TypeInv
  PROVE  Only("PKT", current_packet_id) \in ConditionMaps
BY DEF TypeInv, OtherTypes, ConditionMaps, Only

(* What each step that hands control over does to the list.                *)
LEMMA ResumeStep ==
  ASSUME TypeInv, NEW u, NEW l, Resume(u, l), u = NoLimit \/ u \in ConditionMaps
  PROVE  /\ TypeInv'
         /\ turn' = "simulation" /\ limit' = l
         /\ u = NoLimit => breakpoint_list' = breakpoint_list
         /\ u # NoLimit =>
              /\ Breakpoint(Stealth, u, TRUE, FALSE) \in Entry
              /\ breakpoint_list' =
                   addBreakpoint(breakpoint_list,
                                 Breakpoint(Stealth, u, TRUE, FALSE))
<1> DEFINE b == Breakpoint(Stealth, u, TRUE, FALSE)
<1>1. u # NoLimit => b \in Entry /\ b.id = Stealth
  BY DEF Breakpoint, Entry, Stealth
<1>2. /\ next_id \in Nat /\ ListOf(breakpoint_list, next_id)
      /\ UNCHANGED <<next_id, ignore_module_list, break_packet_dropped,
                     current_packet_id, simulation_time, otherHalt>>
      /\ turn' = "simulation" /\ limit' = l
      /\ breakpoint_list' = IF u = NoLimit THEN breakpoint_list
                            ELSE addBreakpoint(breakpoint_list, b)
  BY BreakpointsAssumption DEF TypeInv, ListTypes, OtherTypes, Resume
<1> HIDE DEF b
<1>3. ListOf(breakpoint_list', next_id)
  BY <1>1, <1>2, ListGrows
<1>4. TypeInv'
  BY <1>2, <1>3 DEF TypeInv, ListTypes, OtherTypes
<1> QED
  BY <1>1, <1>2, <1>4 DEF b

(* What a hit removes, whatever hit_bkpt then points to, leaves a list.    *)
LEMMA HitTypes ==
  ASSUME NEW list, NEW n \in Nat, ListOf(list, n), NEW i
  PROVE  ListOf(AfterHit(list, i), n)
<1> DEFINE unstealthed == IF list[i].id = Stealth THEN list
                          ELSE removeBreakpoint(list, Stealth)
           pointee == AtPointer(list, unstealthed, i)
<1>1. ListOf(unstealthed, n)
  BY ListShrinks
<1>2. AfterHit(list, i) = IF pointee.temp
                          THEN removeBreakpoint(unstealthed, pointee.id)
                          ELSE unstealthed
  BY DEF AfterHit
<1> HIDE DEF unstealthed, pointee
<1> QED
  BY <1>1, <1>2, ListShrinks

(* A callback of data halts, or leaves the list alone.                     *)
Unhit == UNCHANGED <<breakpoint_list, current_packet_id, turn, report, limit>>
Hit(i, m, p, r) ==
  /\ i \in 1 .. Len(breakpoint_list)
  /\ Matches(breakpoint_list[i], Event(m, p, r))
  /\ ~breakpoint_list[i].disabled
  /\ current_packet_id' = p
  /\ breakpoint_list' = AfterHit(breakpoint_list, i)
  /\ Halt([kind |-> IF breakpoint_list[i].id = Stealth
                    THEN "SimulationStopped" ELSE "BreakpointHit",
           id |-> breakpoint_list[i].id, packet |-> p, module |-> m])

LEMMA DataStep ==
  ASSUME TypeInv, NEW m, NEW p, NEW r, DataEvent(m, p, r)
  PROVE  /\ turn = "simulation" /\ simulation_time' \in 0 .. MaxTime
         /\ UNCHANGED <<next_id, ignore_module_list, break_packet_dropped,
                        otherHalt>>
         /\ \/ \E i \in 1 .. Len(breakpoint_list) : Hit(i, m, p, r)
            \/ /\ Unhit
               /\ \/ m \in ignore_module_list
                  \/ \A j \in 1 .. Len(breakpoint_list) :
                       ~Matches(breakpoint_list[j], Event(m, p, r))
                  \/ \E j \in 1 .. Len(breakpoint_list) :
                       /\ breakpoint_list[j].disabled
                       /\ Matches(breakpoint_list[j], Event(m, p, r))
<1> DEFINE e == Event(m, p, r)
           I == {j \in 1 .. Len(breakpoint_list) : Matches(breakpoint_list[j], e)}
           first == SelectInSeq(breakpoint_list, LAMBDA b : Matches(b, e))
<1>1. e.module = m /\ e.packet = p
  BY DEF Event
<1>2. turn = "simulation" /\ simulation_time' \in 0 .. MaxTime
  BY BreakpointsAssumption DEF DataEvent, TimePasses, TypeInv, OtherTypes
<1>3. I \subseteq Nat /\ Len(breakpoint_list) \in Nat
  BY LenProperties DEF TypeInv, ListTypes, ListOf
<1>4. first = IF I # {} THEN Min(I) ELSE 0
  BY DEF SelectInSeq
<1>5. /\ I = {} => first = 0
      /\ I # {} => first \in I
  BY <1>3, <1>4, MinIsFirst
<1>6. 0 \notin I
  OBVIOUS
<1>7. CASE m \in ignore_module_list \/ first = 0
           \/ (first # 0 /\ breakpoint_list[first].disabled)
  <2>1. Unhit
    BY <1>1, <1>7 DEF DataEvent, CheckBreakpointHit, Unhit
  <2> HIDE DEF first, e
  <2>2. first = 0 => \A j \in 1 .. Len(breakpoint_list) :
                       ~Matches(breakpoint_list[j], e)
    BY <1>5, <1>6
  <2>3. first # 0 => /\ first \in 1 .. Len(breakpoint_list)
                     /\ Matches(breakpoint_list[first], e)
    BY <1>5
  <2> QED
    BY <1>2, <1>7, <2>1, <2>2, <2>3 DEF DataEvent, e
<1>8. CASE ~(m \in ignore_module_list \/ first = 0
             \/ (first # 0 /\ breakpoint_list[first].disabled))
  <2>1. /\ first # 0 /\ ~breakpoint_list[first].disabled
        /\ current_packet_id' = p
        /\ breakpoint_list' = AfterHit(breakpoint_list, first)
        /\ Halt([kind |-> IF breakpoint_list[first].id = Stealth
                          THEN "SimulationStopped" ELSE "BreakpointHit",
                 id |-> breakpoint_list[first].id, packet |-> p, module |-> m])
    BY <1>1, <1>8 DEF DataEvent, CheckBreakpointHit
  <2> HIDE DEF first
  <2>2. first \in I
    BY <1>5, <2>1
  <2>3. Hit(first, m, p, r) /\ first \in 1 .. Len(breakpoint_list)
    BY <2>1, <2>2 DEF Hit
  <2> QED
    BY <1>2, <2>3 DEF DataEvent
<1> QED
  BY <1>7, <1>8
-----------------------------------------------------------------------------
(* Types. *)

(* Each request and each callback keeps the types.                         *)
LEMMA TypeStep ==
  ASSUME TypeInv, [Next]_vars
  PROVE  TypeInv'
<1>1. next_id \in Nat /\ ListOf(breakpoint_list, next_id)
  BY BreakpointsAssumption DEF TypeInv, ListTypes, OtherTypes
<1>2. ASSUME NEW u \in UserConditions, NEW t \in BOOLEAN, NEW d \in BOOLEAN,
             SetBreakpoint(u, t, d)
      PROVE  TypeInv'
  <2> DEFINE b == Breakpoint(next_id, u, t \/ "TIME" \in DOMAIN u, d)
  <2>1. b \in Entry /\ b.id = next_id
    BY <1>1 DEF Breakpoint, Entry, ConditionMaps
  <2>2. /\ next_id < MaxBreakpoints /\ next_id' = next_id + 1
        /\ breakpoint_list' = addBreakpoint(breakpoint_list, b)
        /\ UNCHANGED <<ignore_module_list, break_packet_dropped,
                       current_packet_id, simulation_time, turn, otherHalt>>
    BY <1>2 DEF SetBreakpoint, Request
  <2> HIDE DEF b
  <2>3. ListOf(breakpoint_list', next_id + 1)
    BY <1>1, <2>1, <2>2, ListGrows
  <2>4. next_id + 1 \in 0 .. MaxBreakpoints
    BY <1>1, <2>2, BreakpointsAssumption
  <2> QED
    BY <2>2, <2>3, <2>4 DEF TypeInv, ListTypes, OtherTypes
<1>3. ASSUME NEW i \in Ids, RemoveBreakpoint(i) PROVE TypeInv'
  <2>1. ListOf(breakpoint_list', next_id)
    BY <1>1, <1>3, ListShrinks DEF RemoveBreakpoint
  <2> QED
    BY <1>3, <2>1 DEF RemoveBreakpoint, Request, TypeInv, ListTypes, OtherTypes
<1>4. ASSUME NEW i \in Ids, NEW d \in BOOLEAN, EnableDisableBreakpoint(i, d)
      PROVE  TypeInv'
  <2>1. ListOf(breakpoint_list', next_id)
    BY <1>1, <1>4, ListSwitched DEF EnableDisableBreakpoint
  <2> QED
    BY <1>4, <2>1
    DEF EnableDisableBreakpoint, Request, TypeInv, ListTypes, OtherTypes
<1>5. ASSUME NEW m \in Modules, NEW del \in BOOLEAN, IgnoreModule(m, del)
      PROVE  TypeInv'
  BY <1>5 DEF IgnoreModule, Request, TypeInv, ListTypes, OtherTypes
<1>6. ASSUME NEW on \in BOOLEAN, BreakOnPacketDrop(on) PROVE TypeInv'
  BY <1>6 DEF BreakOnPacketDrop, Request, TypeInv, ListTypes, OtherTypes
<1>7. ASSUME NEW delay \in Delays, Continue(delay) PROVE TypeInv'
  BY <1>7, DelayIsMap, ResumeStep DEF Continue
<1>8. CASE ContinueForever
  BY <1>8, ResumeStep DEF ContinueForever
<1>9. CASE HandleNext
  BY <1>9, NextIsMap, ResumeStep DEF HandleNext
<1>10. ASSUME NEW m \in Modules, NEW p \in Packets, NEW r \in BOOLEAN,
              DataEvent(m, p, r)
       PROVE  TypeInv'
  <2>1. /\ simulation_time' \in 0 .. MaxTime
        /\ UNCHANGED <<next_id, ignore_module_list, break_packet_dropped,
                       otherHalt>>
    BY <1>10, DataStep
  <2>2. CASE Unhit
    BY <2>1, <2>2 DEF Unhit, TypeInv, ListTypes, OtherTypes
  <2>3. ASSUME NEW i \in 1 .. Len(breakpoint_list), Hit(i, m, p, r)
        PROVE  TypeInv'
    <3>1. ListOf(breakpoint_list', next_id)
      BY <1>1, <2>3, HitTypes DEF Hit
    <3>2. turn' = "debugger" /\ current_packet_id' = p
      BY <2>3 DEF Hit, Halt
    <3> QED
      BY <2>1, <3>1, <3>2 DEF TypeInv, ListTypes, OtherTypes, Pids
  <2> QED
    BY <1>10, <2>2, <2>3, DataStep
<1>11. ASSUME NEW m \in Modules, NEW p \in Packets, DataDropped(m, p)
       PROVE  TypeInv'
  BY <1>11, BreakpointsAssumption
  DEF DataDropped, TimePasses, Halt, data, TypeInv, ListTypes, OtherTypes
<1>12. CASE WatchpointHit
  BY <1>12, BreakpointsAssumption
  DEF WatchpointHit, TimePasses, Halt, data, TypeInv, ListTypes, OtherTypes
<1>13. CASE UNCHANGED vars
  BY <1>13 DEF vars, data, TypeInv, ListTypes, OtherTypes
<1> QED
  BY <1>2, <1>3, <1>4, <1>5, <1>6, <1>7, <1>8, <1>9, <1>10, <1>11, <1>12,
     <1>13 DEF Next

LEMMA TypeStart == Init => TypeInv
<1> SUFFICES ASSUME Init PROVE TypeInv
  OBVIOUS
<1>1. ListOf(<<>>, 0)
  <2>1. 1 .. Len(<<>>) = {}
    OBVIOUS
  <2> QED
    BY <2>1 DEF ListOf, UserUnique
<1>2. ListTypes
  BY <1>1 DEF Init, ListTypes
<1>3. OtherTypes
  <2>1. next_id \in 0 .. MaxBreakpoints /\ simulation_time \in 0 .. MaxTime
    BY BreakpointsAssumption DEF Init
  <2>2. /\ ignore_module_list \subseteq Modules
        /\ break_packet_dropped \in BOOLEAN
        /\ current_packet_id \in Pids
        /\ turn \in {"debugger", "simulation"} /\ otherHalt \in BOOLEAN
    BY DEF Init, Pids
  <2> QED
    BY <2>1, <2>2 DEF OtherTypes
<1> QED
  BY <1>2, <1>3 DEF TypeInv

LEMMA TypeInvariant == Spec => []TypeInv
BY TypeStart, TypeStep, PTL DEF Spec

LEMMA TypesFollow == TypeInv => TypeOK
<1> SUFFICES ASSUME TypeInv PROVE TypeOK
  OBVIOUS
<1>1. DOMAIN breakpoint_list = 1 .. Len(breakpoint_list)
  BY LenProperties DEF TypeInv, ListTypes, ListOf
<1>2. \A c \in ConditionMaps : DOMAIN c \subseteq Conditions
  BY BreakpointsAssumption DEF ConditionMaps, Conditions
<1>3. ASSUME NEW i \in 1 .. Len(breakpoint_list)
      PROVE  /\ breakpoint_list[i].conditions \in ConditionMaps
             /\ breakpoint_list[i].temp \in BOOLEAN
             /\ breakpoint_list[i].disabled \in BOOLEAN
  <2>1. breakpoint_list[i] \in Entry
    BY ElementOfSeq DEF TypeInv, ListTypes, ListOf
  <2> QED
    BY <2>1 DEF Entry
<1> QED
  BY <1>1, <1>2, <1>3
  DEF TypeOK, TypeInv, ListTypes, ListOf, UserUnique, OtherTypes, Pids

(* The list, its ids and the rest keep their types, whatever the user sets *)
(* and however the simulation is halted (DebugDataManager).                *)
THEOREM BreakpointTypes == Spec => []TypeOK
BY TypeInvariant, TypesFollow, PTL
-----------------------------------------------------------------------------
(* The limit of a run.  The conditions of some breakpoint hold wherever    *)
(* the limit is due: of the stealth one that was set for it, or of the one *)
(* that it was left out for.  Its time is the limit's as the text and the  *)
(* float leave it.                                                         *)

Rounded(v, t) == t \in Nat /\ stof(v) \in Int /\ stof(v) <= t + Slack
Within(c, l) ==
  \A k \in DOMAIN c : /\ k \in DOMAIN l
                      /\ IF k = "TIME" THEN Rounded(c[k], l[k]) ELSE c[k] = l[k]
Guarded(list, l) == \E i \in 1 .. Len(list) : Within(list[i].conditions, l)
LimitInv ==
  turn = "simulation" /\ limit # NoLimit => Guarded(breakpoint_list, limit)

(* A breakpoint that is added, or left out as equal to one of the list,    *)
(* leaves the list with one that holds wherever it would.                  *)
LEMMA GuardAdded ==
  ASSUME NEW list \in Seq(Entry), NEW b \in Entry, NEW l
  PROVE  Within(b.conditions, l) => Guarded(addBreakpoint(list, b), l)
<1> DEFINE new == addBreakpoint(list, b)
<1>1. Len(list) \in Nat
  BY LenProperties
<1>2. \/ new = list /\ \E i \in 1 .. Len(list) : isEqual(list[i], b)
      \/ /\ Len(new) = Len(list) + 1 /\ new[Len(list) + 1] = b
         /\ \A i \in 1 .. Len(list) : new[i] = list[i]
  BY AddedBreakpoint
<1> HIDE DEF new
<1>3. ASSUME new = list, \E i \in 1 .. Len(list) : isEqual(list[i], b)
      PROVE  Within(b.conditions, l) => Guarded(new, l)
  BY <1>3 DEF isEqual, Guarded, Within
<1>4. ASSUME Len(new) = Len(list) + 1, new[Len(list) + 1] = b
      PROVE  Within(b.conditions, l) => Guarded(new, l)
  <2>1. Len(list) + 1 \in 1 .. Len(new)
    BY <1>1, <1>4
  <2> QED
    BY <1>4, <2>1 DEF Guarded
<1>5. Within(b.conditions, l) => Guarded(new, l)
  BY <1>2, <1>3, <1>4
<1> QED
  BY <1>5 DEF new

(* A breakpoint within the limit is hit where the limit is due.            *)
LEMMA GuardHits ==
  ASSUME NEW list, NEW l, Guarded(list, l), NEW e, e.time \in Int,
         Due(l, e)
  PROVE  \E i \in 1 .. Len(list) : Matches(list[i], e)
<1>1. PICK i \in 1 .. Len(list) : Within(list[i].conditions, l)
  BY DEF Guarded
<1> DEFINE c == list[i].conditions
<1> HIDE DEF c
<1>2. ASSUME NEW k \in DOMAIN c PROVE Holds(k, c[k], e)
  <2>1. /\ k \in DOMAIN l
        /\ IF k = "TIME" THEN Rounded(c[k], l[k]) ELSE c[k] = l[k]
    BY <1>1, <1>2 DEF Within, c
  <2>2. CASE k = "TIME"
    <3>1. /\ l[k] \in Nat /\ stof(c[k]) \in Int /\ stof(c[k]) <= l[k] + Slack
          /\ l[k] + Slack <= e.time /\ Slack \in Nat
      BY <2>1, <2>2, BreakpointsAssumption DEF Rounded, Due
    <3>2. stof(c[k]) <= e.time
      BY <3>1
    <3> QED
      BY <2>2, <3>2 DEF Holds
  <2>3. CASE k # "TIME"
    BY <2>1, <2>3 DEF Due
  <2> QED
    BY <2>2, <2>3
<1> QED
  BY <1>2 DEF Matches, c

(* What a continue or a next sets is within its limit.                     *)
LEMMA DelayWithin ==
  ASSUME TypeInv, NEW delay \in Delays
  PROVE  Within(Only("TIME", to_string(simulation_time + delay)),
                Only("TIME", simulation_time + delay))
<1>1. /\ simulation_time \in 0 .. MaxTime /\ simulation_time + delay \in Nat
      /\ stof(to_string(simulation_time + delay)) \in Int
      /\ stof(to_string(simulation_time + delay))
           <= simulation_time + delay + Slack
  BY BreakpointsAssumption DEF TypeInv, OtherTypes
<1>2. Rounded(to_string(simulation_time + delay), simulation_time + delay)
  BY <1>1 DEF Rounded
<1> QED
  BY <1>2 DEF Within, Only

LEMMA NotEmptyMap == ASSUME NEW k, NEW v PROVE Only(k, v) # <<>>
<1>1. k \in DOMAIN Only(k, v)
  BY DEF Only
<1>2. DOMAIN <<>> = {}
  OBVIOUS
<1> QED
  BY <1>1, <1>2

LEMMA NextWithin ==
  ASSUME NEW p PROVE Within(Only("PKT", p), Only("PKT", p))
BY DEF Within, Only

(* Each step keeps the limit guarded: while the simulation runs the list   *)
(* changes only with a halt.                                               *)
LEMMA LimitStep ==
  ASSUME TypeInv, LimitInv, [Next]_vars
  PROVE  LimitInv'
<1>1. breakpoint_list \in Seq(Entry)
  BY DEF TypeInv, ListTypes, ListOf
<1>2. turn' = "debugger" => LimitInv'
  BY DEF LimitInv
<1>3. Request => LimitInv'
  BY <1>2 DEF Request
<1>4. ASSUME NEW u, NEW l, Resume(u, l), u = NoLimit \/ u \in ConditionMaps,
             u = NoLimit => l = NoLimit, u # NoLimit => Within(u, l)
      PROVE  LimitInv'
  <2> DEFINE b == Breakpoint(Stealth, u, TRUE, FALSE)
  <2>1. /\ limit' = l
        /\ u # NoLimit => /\ b \in Entry
                          /\ breakpoint_list' = addBreakpoint(breakpoint_list, b)
    BY <1>4, ResumeStep
  <2>2. b.conditions = u
    BY DEF Breakpoint
  <2> HIDE DEF b
  <2>3. u # NoLimit => Guarded(breakpoint_list', l)
    BY <1>1, <1>4, <2>1, <2>2, GuardAdded
  <2> QED
    BY <1>4, <2>1, <2>3 DEF LimitInv
<1>5. ASSUME NEW delay \in Delays, Continue(delay) PROVE LimitInv'
  <2> DEFINE break_time == simulation_time + delay
             u == Only("TIME", to_string(break_time))
             l == Only("TIME", break_time)
  <2>1. u \in ConditionMaps /\ Within(u, l)
    BY DelayIsMap, DelayWithin
  <2>2. u # NoLimit
    BY NotEmptyMap DEF NoLimit
  <2>3. Resume(u, l)
    BY <1>5 DEF Continue
  <2> HIDE DEF u, l
  <2> QED
    BY <1>4, <2>1, <2>2, <2>3
<1>6. CASE ContinueForever
  BY <1>4, <1>6 DEF ContinueForever
<1>7. CASE HandleNext
  <2> DEFINE u == Only("PKT", current_packet_id)
  <2>1. u \in ConditionMaps /\ Within(u, u)
    BY NextIsMap, NextWithin
  <2>2. u # NoLimit
    BY NotEmptyMap DEF NoLimit
  <2>3. Resume(u, u)
    BY <1>7 DEF HandleNext
  <2> HIDE DEF u
  <2> QED
    BY <1>4, <2>1, <2>2, <2>3
<1>8. ASSUME NEW m, NEW p, NEW r, DataEvent(m, p, r) PROVE LimitInv'
  <2>1. CASE Unhit
    BY <2>1 DEF Unhit, LimitInv
  <2>2. ASSUME NEW i, Hit(i, m, p, r) PROVE LimitInv'
    BY <1>2, <2>2 DEF Hit, Halt
  <2> QED
    BY <1>8, <2>1, <2>2, DataStep
<1>9. ASSUME NEW m, NEW p, DataDropped(m, p) \/ WatchpointHit PROVE LimitInv'
  BY <1>2, <1>9 DEF DataDropped, WatchpointHit, Halt
<1>10. CASE UNCHANGED vars
  BY <1>10 DEF vars, data, LimitInv
<1> QED
  BY <1>3, <1>5, <1>6, <1>7, <1>8, <1>9, <1>10
  DEF Next, SetBreakpoint, RemoveBreakpoint, EnableDisableBreakpoint,
      IgnoreModule, BreakOnPacketDrop

(* What a Run, Continue or Next is to stop at is overshot by no more than  *)
(* its time is rounded (checkBreakpointHit), where no disabled breakpoint  *)
(* hides it: also when other halts left stealth breakpoints behind, and    *)
(* when the stealth breakpoint of this limit was left out as equal to one  *)
(* of the list.                                                            *)
THEOREM LimitNotOvershot == Spec => LimitKept
<1>1. Init => LimitInv
  BY DEF Init, LimitInv
<1>2. TypeInv /\ LimitInv /\ [Next]_vars => LimitInv'
  BY LimitStep
<1>3. ASSUME TypeInv, LimitInv, NEW m \in Modules \ ignore_module_list,
             NEW p \in Packets, NEW r \in BOOLEAN,
             DataEvent(m, p, r), limit # NoLimit,
             Due(limit, Event(m, p, r)), ~Hidden(Event(m, p, r))
      PROVE  turn' = "debugger"
  <2>1. turn = "simulation" /\ Event(m, p, r).time \in Int
    BY <1>3, DataStep, BreakpointsAssumption DEF Event
  <2>2. \E i \in 1 .. Len(breakpoint_list) :
          Matches(breakpoint_list[i], Event(m, p, r))
    BY <1>3, <2>1, GuardHits DEF LimitInv
  <2>3. DOMAIN breakpoint_list = 1 .. Len(breakpoint_list)
    BY <1>3, LenProperties DEF TypeInv, ListTypes, ListOf
  <2>4. \E i \in 1 .. Len(breakpoint_list) : Hit(i, m, p, r)
    BY <1>3, <2>2, <2>3, DataStep DEF Hidden
  <2> QED
    BY <2>4 DEF Hit, Halt
<1>4. TypeInv /\ LimitInv => [HaltsAtLimit]_vars
  BY <1>3 DEF HaltsAtLimit
<1>5. Spec => [](TypeInv /\ LimitInv)
  BY <1>1, <1>2, TypeInvariant, PTL DEF Spec
<1> QED
  BY <1>4, <1>5, PTL DEF LimitKept
-----------------------------------------------------------------------------
(* What a hit removes.  As long as nothing but breakpoints halts the       *)
(* simulation, a stealth breakpoint is the last of the list, and is there  *)
(* only while the simulation runs.                                         *)

StealthLast(list) ==
  \A i \in 1 .. Len(list) : list[i].id = Stealth => i = Len(list) /\ list[i].temp
NoStealth(list) == \A i \in 1 .. Len(list) : list[i].id # Stealth
StealthInv ==
  ~otherHalt => /\ StealthLast(breakpoint_list)
                /\ turn = "debugger" => NoStealth(breakpoint_list)

(* hit_bkpt still points to the breakpoint that was hit, if it points to   *)
(* one of the user's: it stands in front of the stealth one.               *)
LEMMA HitEffect ==
  ASSUME NEW list, list \in Seq(Entry), UserUnique(list), StealthLast(list),
         NEW i \in 1 .. Len(list)
  PROVE  LET new == AfterHit(list, i) IN
         /\ new \in Seq(Entry) /\ NoStealth(new)
         /\ \A k \in 1 .. Len(list) :
              list[k].id # Stealth /\ list[k].id # list[i].id
              => \E j \in 1 .. Len(new) : new[j] = list[k]
         /\ list[i].id # Stealth /\ list[i].temp
              => \A j \in 1 .. Len(new) : new[j].id # list[i].id
<1> DEFINE bare == removeBreakpoint(list, Stealth)
           new == AfterHit(list, i)
<1>1. /\ bare \in Seq(Entry) /\ Survive(list, bare, Stealth)
      /\ UniqueSurvive(list, bare, Stealth)
  BY RemovalKeeps
<1>2. Len(list) \in Nat
  BY LenProperties
<1>3. NoStealth(bare)
  BY <1>1 DEF UniqueSurvive, StealthLast, NoStealth
<1>4. ASSUME list[i].id = Stealth PROVE new = bare
  <2>1. list[i].temp /\ i <= Len(list)
    BY <1>2, <1>4 DEF StealthLast
  <2>2. AtPointer(list, list, i) = list[i]
    BY <2>1 DEF AtPointer
  <2> QED
    BY <1>4, <2>1, <2>2 DEF AfterHit
<1>5. ASSUME list[i].id # Stealth
      PROVE  /\ i \in 1 .. Len(bare) /\ bare[i] = list[i]
             /\ new = IF list[i].temp THEN removeBreakpoint(bare, list[i].id)
                      ELSE bare
  <2>1. \A j \in 1 .. i : list[j].id # Stealth
    BY <1>2, <1>5 DEF StealthLast
  <2>2. i \in Nat /\ 1 <= i /\ i <= Len(bare) /\ bare[i] = list[i]
    BY <1>1, <1>2, <2>1 DEF Survive
  <2>3. i \in 1 .. Len(bare)
    BY <1>1, <2>2, LenProperties
  <2>4. AtPointer(list, bare, i) = list[i]
    BY <2>2 DEF AtPointer
  <2>5. new = IF list[i].temp THEN removeBreakpoint(bare, list[i].id) ELSE bare
    BY <1>5, <2>4 DEF AfterHit
  <2> QED
    BY <2>2, <2>3, <2>5
<1> HIDE DEF bare, new
<1>6. CASE new = bare /\ (list[i].id = Stealth \/ ~list[i].temp)
  <2>1. \A k \in 1 .. Len(list) :
          list[k].id # Stealth => \E j \in 1 .. Len(bare) : bare[j] = list[k]
    BY <1>1 DEF Survive
  <2>2. /\ new \in Seq(Entry) /\ NoStealth(new)
        /\ \A k \in 1 .. Len(list) :
             list[k].id # Stealth => \E j \in 1 .. Len(new) : new[j] = list[k]
    BY <1>1, <1>3, <1>6, <2>1
  <2> QED
    BY <1>6, <2>2 DEF new
<1>7. CASE list[i].id # Stealth /\ list[i].temp
  <2> DEFINE identifier == list[i].id
  <2> HIDE DEF identifier
  <2>1. /\ new = removeBreakpoint(bare, identifier) /\ i \in 1 .. Len(bare)
        /\ bare[i] = list[i] /\ identifier # Stealth
    BY <1>5, <1>7 DEF identifier
  <2>2. /\ new \in Seq(Entry) /\ Survive(bare, new, identifier)
        /\ UniqueSurvive(bare, new, identifier)
    BY <1>1, <2>1, RemovalKeeps
  <2>3. NoStealth(new)
    BY <1>3, <2>2 DEF Survive, NoStealth
  <2>4. UserUnique(bare)
    BY <1>1 DEF UniqueSurvive
  <2>5. \A j \in 1 .. Len(new) : new[j].id # identifier
    BY <2>1, <2>2, <2>4 DEF UniqueSurvive, UserUnique
  <2>6. ASSUME NEW k \in 1 .. Len(list),
               list[k].id # Stealth, list[k].id # identifier
        PROVE  \E j \in 1 .. Len(new) : new[j] = list[k]
    <3>1. PICK x \in 1 .. Len(bare) : bare[x] = list[k]
      BY <1>1, <2>6 DEF Survive
    <3> QED
      BY <2>2, <2>6, <3>1 DEF Survive
  <2> QED
    BY <2>2, <2>3, <2>5, <2>6 DEF new, identifier
<1> QED
  BY <1>4, <1>5, <1>6, <1>7

(* To a list without stealth breakpoints one is added at the end.          *)
LEMMA StealthAdded ==
  ASSUME NEW list \in Seq(Entry), NoStealth(list), NEW b \in Entry
  PROVE  /\ b.id # Stealth => NoStealth(addBreakpoint(list, b))
         /\ b.temp => StealthLast(addBreakpoint(list, b))
<1> DEFINE new == addBreakpoint(list, b)
<1>1. \/ new = list
      \/ /\ Len(new) = Len(list) + 1 /\ new[Len(list) + 1] = b
         /\ \A x \in 1 .. Len(list) : new[x] = list[x]
  BY AddedBreakpoint
<1>2. Len(list) \in Nat
  BY LenProperties
<1> HIDE DEF new
<1>3. \A x \in 1 .. Len(new) :
        \/ x \in 1 .. Len(list) /\ new[x] = list[x]
        \/ x = Len(new) /\ new[x] = b
  BY <1>1, <1>2
<1>4. /\ b.id # Stealth => NoStealth(new)
      /\ b.temp => StealthLast(new)
  BY <1>3 DEF NoStealth, StealthLast
<1> QED
  BY <1>4 DEF new

(* Each step keeps the stealth breakpoint the last one.                    *)
LEMMA StealthStep ==
  ASSUME TypeInv, StealthInv, [Next]_vars
  PROVE  StealthInv'
<1> SUFFICES ASSUME ~otherHalt' PROVE StealthInv'
  BY DEF StealthInv
<1>1. /\ next_id \in Nat /\ breakpoint_list \in Seq(Entry)
      /\ UserUnique(breakpoint_list)
  BY BreakpointsAssumption DEF TypeInv, ListTypes, ListOf, OtherTypes
<1>2. NoStealth(breakpoint_list') => StealthInv'
  BY DEF StealthInv, StealthLast, NoStealth
<1>3. ASSUME NEW u \in UserConditions, NEW t \in BOOLEAN, NEW d \in BOOLEAN,
             SetBreakpoint(u, t, d)
      PROVE  StealthInv'
  <2> DEFINE b == Breakpoint(next_id, u, t \/ "TIME" \in DOMAIN u, d)
  <2>1. b \in Entry /\ b.id # Stealth
    BY <1>1 DEF Breakpoint, Entry, ConditionMaps, Stealth
  <2>2. /\ breakpoint_list' = addBreakpoint(breakpoint_list, b)
        /\ turn = "debugger" /\ UNCHANGED otherHalt
    BY <1>3 DEF SetBreakpoint, Request
  <2> HIDE DEF b
  <2> QED
    BY <1>1, <1>2, <2>1, <2>2, StealthAdded DEF StealthInv
<1>4. ASSUME NEW x \in Ids, RemoveBreakpoint(x) PROVE StealthInv'
  <2>1. /\ NoStealth(breakpoint_list)
        /\ Survive(breakpoint_list, breakpoint_list', x)
    BY <1>1, <1>4, RemovalKeeps DEF RemoveBreakpoint, Request, StealthInv
  <2> QED
    BY <1>2, <2>1 DEF Survive, NoStealth
<1>5. ASSUME NEW x \in Ids, NEW d \in BOOLEAN, EnableDisableBreakpoint(x, d)
      PROVE  StealthInv'
  <2>1. /\ NoStealth(breakpoint_list)
        /\ breakpoint_list' = setDisabled(breakpoint_list, x, d)
    BY <1>5 DEF EnableDisableBreakpoint, Request, StealthInv
  <2>2. NoStealth(setDisabled(breakpoint_list, x, d))
    BY <1>1, <2>1, SwitchedIds DEF NoStealth
  <2> QED
    BY <1>2, <2>1, <2>2
<1>6. ASSUME NEW m, NEW b, IgnoreModule(m, b) PROVE StealthInv'
  BY <1>6 DEF IgnoreModule, Request, StealthInv
<1>7. ASSUME NEW b, BreakOnPacketDrop(b) PROVE StealthInv'
  BY <1>7 DEF BreakOnPacketDrop, Request, StealthInv
<1>8. ASSUME NEW u, NEW l, Resume(u, l), u = NoLimit \/ u \in ConditionMaps
      PROVE  StealthInv'
  <2> DEFINE b == Breakpoint(Stealth, u, TRUE, FALSE)
  <2>1. /\ turn' = "simulation" /\ turn = "debugger"
        /\ UNCHANGED otherHalt
        /\ u = NoLimit => breakpoint_list' = breakpoint_list
        /\ u # NoLimit => /\ b \in Entry
                          /\ breakpoint_list' = addBreakpoint(breakpoint_list, b)
    BY <1>8, ResumeStep DEF Resume
  <2>2. b.temp
    BY DEF Breakpoint
  <2> HIDE DEF b
  <2>3. StealthLast(breakpoint_list')
    BY <1>1, <2>1, <2>2, StealthAdded DEF StealthInv
  <2> QED
    BY <2>1, <2>3 DEF StealthInv
<1>9. ASSUME NEW delay \in Delays, Continue(delay) PROVE StealthInv'
  BY <1>8, <1>9, DelayIsMap DEF Continue
<1>10. CASE ContinueForever
  BY <1>8, <1>10 DEF ContinueForever
<1>11. CASE HandleNext
  BY <1>8, <1>11, NextIsMap DEF HandleNext
<1>12. ASSUME NEW m, NEW p, NEW r, DataEvent(m, p, r) PROVE StealthInv'
  <2>1. UNCHANGED otherHalt
    BY <1>12 DEF DataEvent
  <2>2. CASE Unhit
    BY <2>1, <2>2 DEF Unhit, StealthInv
  <2>3. ASSUME NEW i \in 1 .. Len(breakpoint_list), Hit(i, m, p, r)
        PROVE  StealthInv'
    <3>1. NoStealth(breakpoint_list')
      BY <1>1, <2>1, <2>3, HitEffect DEF Hit, StealthInv
    <3> QED
      BY <1>2, <3>1
  <2> QED
    BY <1>12, <2>2, <2>3, DataStep
<1>13. ASSUME NEW m, NEW p, DataDropped(m, p) PROVE StealthInv'
  BY <1>13 DEF DataDropped
<1>14. CASE WatchpointHit
  BY <1>14 DEF WatchpointHit
<1>15. CASE UNCHANGED vars
  BY <1>15 DEF vars, data, StealthInv
<1> QED
  BY <1>3, <1>4, <1>5, <1>6, <1>7, <1>9, <1>10, <1>11, <1>12, <1>13, <1>14,
     <1>15 DEF Next

LEMMA StealthInvariant == Spec => [](TypeInv /\ StealthInv)
<1>1. Init => StealthInv
  <2>1. 1 .. Len(<<>>) = {}
    OBVIOUS
  <2> QED
    BY <2>1 DEF Init, StealthInv, StealthLast, NoStealth
<1>2. TypeInv /\ StealthInv /\ [Next]_vars => StealthInv'
  BY StealthStep
<1> QED
  BY <1>1, <1>2, TypeInvariant, PTL DEF Spec

(* Stealth breakpoints do not outlive the halt they were set for           *)
(* (checkBreakpointHit), as long as only breakpoints halt the simulation.  *)
THEOREM StealthGone == Spec => []NoStealthAtPrompt
<1>1. TypeInv /\ StealthInv => NoStealthAtPrompt
  BY LenProperties
  DEF TypeInv, ListTypes, ListOf, StealthInv, NoStealth, NoStealthAtPrompt
<1> QED
  BY <1>1, StealthInvariant, PTL

(* While the simulation has control the list changes only by a hit.        *)
LEMMA HaltIsHit ==
  ASSUME TypeInv, [Next]_vars, turn = "simulation", ~otherHalt'
  PROVE  \/ UNCHANGED <<breakpoint_list, turn>>
         \/ \E i \in 1 .. Len(breakpoint_list), m \in Modules, p \in Packets,
              r \in BOOLEAN : Hit(i, m, p, r)
<1>1. ASSUME NEW m \in Modules, NEW p \in Packets, NEW r \in BOOLEAN,
             DataEvent(m, p, r)
      PROVE  \/ UNCHANGED <<breakpoint_list, turn>>
             \/ \E i \in 1 .. Len(breakpoint_list) : Hit(i, m, p, r)
  BY <1>1, DataStep DEF Unhit
<1>2. ASSUME NEW m \in Modules, NEW p \in Packets, DataDropped(m, p)
      PROVE  FALSE
  BY <1>2 DEF DataDropped
<1>3. ~WatchpointHit
  BY DEF WatchpointHit
<1>4. CASE UNCHANGED vars
  BY <1>4 DEF vars, data
<1> QED
  BY <1>1, <1>2, <1>3, <1>4
  DEF Next, SetBreakpoint, RemoveBreakpoint, EnableDisableBreakpoint,
      IgnoreModule, BreakOnPacketDrop, Request, Continue, ContinueForever,
      HandleNext, Resume

(* Once another kind of halt was, otherHalt stays TRUE.                    *)
LEMMA HaltsCount ==
  ASSUME [Next]_vars, TypeInv, ~otherHalt'
  PROVE  ~otherHalt
BY DEF Next, vars, SetBreakpoint, RemoveBreakpoint, EnableDisableBreakpoint,
       IgnoreModule, BreakOnPacketDrop, Request, Continue, ContinueForever,
       HandleNext, Resume, DataEvent, DataDropped, WatchpointHit

(* A temporary breakpoint that is hit is destroyed, as long as only        *)
(* breakpoints halt the simulation: hit_bkpt still points to it after the  *)
(* stealth one is gone.                                                    *)
THEOREM TemporaryGoes == Spec => TemporaryTidied
<1>1. ASSUME TypeInv, StealthInv, [Next]_vars, ~otherHalt', Halts, Reported,
             NEW k \in DOMAIN breakpoint_list,
             breakpoint_list[k].temp, breakpoint_list[k].id = report'.id
      PROVE  report'.id \notin UserIds(breakpoint_list')
  <2>1. /\ breakpoint_list \in Seq(Entry) /\ UserUnique(breakpoint_list)
        /\ StealthLast(breakpoint_list)
    BY <1>1, HaltsCount DEF TypeInv, ListTypes, ListOf, StealthInv
  <2>2. k \in 1 .. Len(breakpoint_list)
    BY <1>1, <2>1, LenProperties
  <2>3. PICK i \in 1 .. Len(breakpoint_list), m \in Modules, p \in Packets,
             r \in BOOLEAN : Hit(i, m, p, r)
    BY <1>1, HaltIsHit DEF Halts
  <2>4. /\ report'.id = breakpoint_list[i].id /\ breakpoint_list[i].id # Stealth
        /\ breakpoint_list' = AfterHit(breakpoint_list, i)
    BY <1>1, <2>3 DEF Hit, Halt, Reported
  <2>5. i = k
    BY <1>1, <2>1, <2>2, <2>4 DEF UserUnique
  <2>6. LET new == AfterHit(breakpoint_list, i) IN
        /\ new \in Seq(Entry)
        /\ \A j \in 1 .. Len(new) : new[j].id # breakpoint_list[i].id
    BY <1>1, <2>1, <2>4, <2>5, HitEffect
  <2>7. /\ breakpoint_list' \in Seq(Entry)
        /\ \A j \in 1 .. Len(breakpoint_list') : breakpoint_list'[j].id # report'.id
    BY <2>4, <2>6
  <2> QED
    BY <2>7, LenProperties DEF UserIds
<1>2. TypeInv /\ StealthInv /\ [Next]_vars => [~otherHalt' => HitDestroys]_vars
  BY <1>1 DEF HitDestroys
<1> QED
  BY <1>2, StealthInvariant, PTL DEF Spec, TemporaryTidied

(* A halt removes no breakpoint of the user but the one it reports, as     *)
(* long as only breakpoints halt the simulation.                           *)
THEOREM OthersStay == Spec => OthersKept
<1>1. ASSUME TypeInv, StealthInv, [Next]_vars, turn = "simulation", ~otherHalt',
             NEW identifier \in UserIds(breakpoint_list) \ {report'.id}
      PROVE  identifier \in UserIds(breakpoint_list')
  <2>1. /\ breakpoint_list \in Seq(Entry) /\ UserUnique(breakpoint_list)
        /\ StealthLast(breakpoint_list)
    BY <1>1, HaltsCount DEF TypeInv, ListTypes, ListOf, StealthInv
  <2>2. PICK k \in 1 .. Len(breakpoint_list) : breakpoint_list[k].id = identifier
    BY <2>1, LenProperties DEF UserIds
  <2>3. identifier # Stealth
    BY DEF UserIds
  <2>4. CASE UNCHANGED breakpoint_list
    BY <2>4
  <2>5. ASSUME NEW i \in 1 .. Len(breakpoint_list), NEW m, NEW p, NEW r,
               Hit(i, m, p, r)
        PROVE  identifier \in UserIds(breakpoint_list')
    <3>1. /\ report'.id = breakpoint_list[i].id
          /\ breakpoint_list' = AfterHit(breakpoint_list, i)
      BY <2>5 DEF Hit, Halt
    <3> DEFINE new == AfterHit(breakpoint_list, i)
    <3>2. /\ new \in Seq(Entry)
          /\ breakpoint_list[k].id # Stealth
             /\ breakpoint_list[k].id # breakpoint_list[i].id
             => \E j \in 1 .. Len(new) : new[j] = breakpoint_list[k]
      BY <2>1, HitEffect
    <3>3. breakpoint_list[k].id # breakpoint_list[i].id
      BY <2>2, <3>1
    <3> HIDE DEF new
    <3>4. /\ \E j \in 1 .. Len(new) : new[j] = breakpoint_list[k]
          /\ DOMAIN new = 1 .. Len(new)
      BY <2>2, <2>3, <3>2, <3>3, LenProperties
    <3>5. breakpoint_list' = new
      BY <3>1 DEF new
    <3> QED
      BY <2>2, <2>3, <3>4, <3>5 DEF UserIds
  <2> QED
    BY <1>1, <2>4, <2>5, HaltIsHit
<1>2. TypeInv /\ StealthInv /\ [Next]_vars =>
        [turn = "simulation" /\ ~otherHalt' =>
           UserIds(breakpoint_list) \ {report'.id}
             \subseteq UserIds(breakpoint_list')]_vars
  BY <1>1
<1> QED
  BY <1>2, StealthInvariant, PTL DEF Spec, OthersKept
=============================================================================
