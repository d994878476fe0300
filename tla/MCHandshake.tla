----------------------------- MODULE MCHandshake -----------------------------
(* Constants for model checking DebuggerHandshake. *)
EXTENDS DebuggerHandshake

AllRequests == AllCommands
RunOnly == {"Run"}
TwoStops == {"BreakpointHit", "PacketDropped"}
OneStop == {"BreakpointHit"}
None == {}
=============================================================================
