--------------------------- MODULE PacketRequests ----------------------------
(***************************************************************************)
(* The requests about packets and traces, on top of PacketTraces.  A       *)
(* handler may send more than one reply.  The nanomsg REP socket delivers  *)
(* the first; a send without a request to answer fails, and send() ignores *)
(* that.  Requests are served while the simulation is halted between two   *)
(* callbacks (DebuggerHandshake).                                          *)
(***************************************************************************)
EXTENDS PacketTraces

CONSTANTS
  Described,      \* packets whose TrType has a DebugInfo
  NoPacket,       \* the id -1
  MaxAsked        \* bound: entries of log up to which requests that change
                  \* nothing are modelled

ASSUME PacketRequestsAssumption ==
  /\ Described \subseteq Packets /\ NoPacket \notin Packets
  /\ {"none", "malformed"} \cap (Packets \cup {NoPacket}) = {}
  /\ MaxAsked \in Nat

VARIABLES
  request,        \* the last request since the last callback
  answer          \* the reply pfpdb got

vars == <<manager, request, answer>>

Nothing == [type |-> "Nothing"]

Init == ManagerInit /\ request = Nothing /\ answer = Nothing

-----------------------------------------------------------------------------
(* Replies. *)

Failed == [type |-> "GenericAcknowledge"]
Reply(type, content) == [type |-> type, content |-> content]

Respond(asked, replies) ==
  /\ request' = asked
  /\ answer' = IF replies = <<>> THEN Nothing ELSE Head(replies)

Query(asked, replies) ==
  /\ Respond(asked, replies)
  /\ UNCHANGED manager

-----------------------------------------------------------------------------
(* Handlers. *)

(* Ignored is what the list of ignored modules is (Breakpoints)            *)
handleGetPacketList(m, ignored) ==
  LET listed == {p \in DOMAIN packet_list :
                   packet_list[p].current_location \in m \ ignored}
  IN  Query([type |-> "GetPacketList", arg |-> m \ ignored],
            <<Reply("PacketListValues",
                    {<<p, packet_list[p].current_location,
                       packet_list[p].last_notify_time>> : p \in listed})>>)

Backtraced(id) ==
  IF id \in DOMAIN packet_list
  THEN Reply("BacktraceReply", <<id, packet_list[id].trace>>) ELSE Failed

(* Fault: a malformed id is only logged *)
handleBacktrace_Unanswered(arg, whoami, garbage) ==
  LET id == IF arg = "none" THEN whoami
            ELSE IF arg = "malformed" THEN garbage ELSE arg
  IN  Query([type |-> "Backtrace", arg |-> IF arg = "none" THEN whoami ELSE arg],
            <<Backtraced(id)>>)

(* a malformed id is answered, and then an uninitialised id looked up      *)
handleBacktrace(arg, whoami, garbage) ==
  LET id == IF arg = "none" THEN whoami
            ELSE IF arg = "malformed" THEN garbage ELSE arg
  IN  Query([type |-> "Backtrace", arg |-> IF arg = "none" THEN whoami ELSE arg],
            IF arg = "malformed" THEN <<Failed, Backtraced(id)>>
            ELSE <<Backtraced(id)>>)

PacketReplies == {"PacketFieldValue", "RawPacketValue", "ParsedPacketValue"}

(* handleGetPacketField, handleGetRawPacket, handleGetParsedPacket: a      *)
(* failure follows whatever was sent                                       *)
handleGetPacket(kind, id) ==
  Query([type |-> kind, arg |-> id],
        IF id \in DOMAIN packet_list /\ id \in Described
        THEN <<Reply(kind, id), Failed>> ELSE <<Failed>>)

handleGetSimulationTime ==
  Query([type |-> "GetSimulationTime"],
        <<Reply("SimulationTime", simulation_time)>>)

handleGetDroppedPackets ==
  Query([type |-> "GetDroppedPackets"],
        <<Reply("DroppedPackets", dropped_packet_list)>>)

(* StartTracing falls through to the default, which fails                  *)
handleStartTracing(kind, at, result) ==
  Respond([type |-> kind, arg |-> at, asked |-> Len(log)],
          <<IF result THEN Reply("StartTracingStatus", trace_id) ELSE Failed,
            Failed>>)

StartTracing ==
  \/ \E n \in CounterNames :
       /\ handleStartTracing("counter", n, CanTrace(n))
       /\ IF CanTrace(n) THEN addCounterTrace(n) ELSE UNCHANGED manager
  \/ \E pair \in LatencyPairs :
       /\ handleStartTracing("latency", pair[1], TRUE)
       /\ addLatencyTrace(pair[1], pair[2])
  \/ \E m \in Modules :
       handleStartTracing("throughput", m, TRUE) /\ addThroughputTrace(m)

AskPackets ==
  \/ \E m, ignored \in SUBSET Modules :
       /\ Cardinality(m) = 1 \/ m = Modules
       /\ Cardinality(ignored) <= 1
       /\ handleGetPacketList(m, ignored)
  \/ \E id \in Packets \cup {NoPacket} :
       \/ \E arg \in {"none", "malformed"} : handleBacktrace(arg, id, id)
       \/ \E kind \in PacketReplies : handleGetPacket(kind, id)
  \/ \E id \in Packets : handleBacktrace(id, NoPacket, NoPacket)
  \/ handleGetDroppedPackets

parseRequest ==
  \/ Len(log) <= MaxAsked /\ AskPackets
  \/ handleGetSimulationTime
  \/ StartTracing

Next ==
  \/ ObserverStep /\ request' = Nothing /\ answer' = Nothing
  \/ parseRequest

Spec == Init /\ [][Next]_vars
-----------------------------------------------------------------------------
RequestKinds ==
  {"GetPacketList", "Backtrace", "GetDroppedPackets", "GetSimulationTime",
   "counter", "latency", "throughput"} \cup PacketReplies
AnswerKinds ==
  {"PacketListValues", "BacktraceReply", "DroppedPackets", "SimulationTime",
   "StartTracingStatus", "GenericAcknowledge"} \cup PacketReplies

(* Type invariant.                                                         *)
TypeOK ==
  /\ ManagerTypeOK
  /\ request = Nothing \/ request.type \in RequestKinds
  /\ answer = Nothing \/ answer.type \in AnswerKinds

(* What history h says.                                                    *)
Reads(h, p) == {i \in DOMAIN h : h[i].kind = "read" /\ h[i].of = p}
Writes(h, p) == {i \in DOMAIN h : h[i].kind = "write" /\ h[i].of = p}
Seen(h, p) == Reads(h, p) \cup Writes(h, p) # {}
(* the entry by which p came to where it is: its last read, or the write   *)
(* that it was first seen by                                               *)
Arrival(h, p) ==
  IF Reads(h, p) # {} THEN Max(Reads(h, p)) ELSE Min(Writes(h, p))
Sighting(h, p) == <<p, h[Arrival(h, p)].at, h[Arrival(h, p)].time>>
LastUpdate(h, p) == Max(Reads(h, p) \cup Writes(h, p))
(* after l entries the counter n is there, and has no trace                *)
Present(h, n, l) ==
  LET of == {i \in 1 .. l : h[i].at = n /\ h[i].kind \in {"added", "removed"}}
  IN  of # {} /\ h[Max(of)].kind = "added"
Traceable(h, n, l) ==
  Present(h, n, l) /\ \A i \in 1 .. l : ~Is(h, i, "counter", n, n)
Dropped(h) == {i \in DOMAIN h : h[i].kind = "dropped"}

(* Whether the answer is the one the history calls for.                    *)
Fits ==
  CASE request.type = "GetPacketList" ->
         answer = Reply("PacketListValues",
                        {Sighting(log, p) : p \in
                           {q \in Packets : Seen(log, q)
                              /\ log[Arrival(log, q)].at \in request.arg}})
    [] request.type = "Backtrace" ->
         LET p == request.arg
         IN  IF p \notin Packets \/ ~Seen(log, p) THEN answer = Failed
             ELSE /\ answer.type = "BacktraceReply" /\ answer.content[1] = p
                  /\ Tells(answer.content[2], log, p)
    [] request.type = "GetSimulationTime" ->
         answer = Reply("SimulationTime", IF log = <<>> THEN 0 ELSE Last(log).time)
    [] request.type = "GetDroppedPackets" ->
         /\ answer.type = "DroppedPackets"
         /\ Len(answer.content) = Cardinality(Dropped(log))
         /\ \A i \in Dropped(log) : answer.content[Place(i, Dropped(log))] =
                                      <<log[i].of, log[i].at>>
    [] request.type = "counter" ->
         answer = IF Traceable(log, request.arg, request.asked)
                  THEN Reply("StartTracingStatus", IdOf(log, Len(log))) ELSE Failed
    [] request.type \in {"latency", "throughput"} ->
         answer = Reply("StartTracingStatus", IdOf(log, Len(log)))
    [] OTHER ->
         answer = IF request.arg \in Described /\ Seen(log, request.arg)
                  THEN Reply(request.type, request.arg) ELSE Failed

(* The reply that reaches pfpdb is the one its request asks for, as the    *)
(* history has it, and a failure when there is nothing to tell: no handler *)
(* forgets to answer, and the further replies of some never get through.   *)
(* A list has the packets that came to the modules asked for and no other  *)
(* since, each with the time when it came there.                           *)
AnswerFits == request # Nothing => Fits

(* What DebuggerPacket's header says of the time that a list shows: it is  *)
(* that of the packet's last read or write.  A write does not change it.   *)
ShownTimeIsLastUpdate ==
  request # Nothing /\ request.type = "GetPacketList" =>
    \A entry \in answer.content :
      entry[3] = log[LastUpdate(log, entry[1])].time
=============================================================================
