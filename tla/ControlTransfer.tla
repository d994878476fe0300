--------------------------- MODULE ControlTransfer ---------------------------
(***************************************************************************)
(* What the handshake between the simulation thread and the debugger's     *)
(* request thread promises: control is a single baton.  Either pfpdb has   *)
(* it (the simulation is halted), or the simulation has it (pfpdb waits    *)
(* for its reply).  A Run, Continue or Next request grants it; a           *)
(* breakpoint, watchpoint, packet drop or the end of the simulation gives  *)
(* it back with exactly one report.  Once the simulation has ended every   *)
(* grant is returned at once with the report that it has ended.            *)
(***************************************************************************)

CONSTANT StopKinds      \* the reports of a halt other than the end

VARIABLES holder,       \* who has the baton, or what is in flight
          report,       \* the report of a halt on its way to pfpdb
          ended         \* the simulation has run to its end

vars == <<holder, report, ended>>

NoReport == "NULL"
EndReport == "SimulationEnd"

Init == holder = "debugger" /\ report = NoReport /\ ended = FALSE

(* pfpdb hands control over (DebuggerIPCServer::handleRun, handleContinue) *)
Grant ==
  /\ holder = "debugger"
  /\ holder' = "granted"
  /\ UNCHANGED <<report, ended>>

(* the simulation takes it up (waitForRunCommand or pause returns) *)
Resume ==
  /\ holder = "granted"
  /\ holder' = "simulation"
  /\ UNCHANGED <<report, ended>>

(* the simulation runs out of work *)
Finish ==
  /\ holder = "simulation" /\ ~ended
  /\ ended' = TRUE
  /\ UNCHANGED <<holder, report>>

(* the simulation halts with a report (DebugObserver::notifyServer) *)
Halt(k) ==
  /\ holder = "simulation"
  /\ ended <=> k = EndReport
  /\ holder' = "halted"
  /\ report' = k
  /\ UNCHANGED ended

(* the report reaches pfpdb, which has control again *)
Deliver ==
  /\ holder = "halted"
  /\ holder' = "debugger"
  /\ report' = NoReport
  /\ UNCHANGED ended

Next == Grant \/ Resume \/ Finish \/ Deliver
        \/ \E k \in StopKinds \cup {EndReport} : Halt(k)

(* a grant is taken up, the simulation does not run for ever, and its halt *)
(* is reported                                                             *)
Spec == /\ Init /\ [][Next]_vars
        /\ WF_vars(Resume)
        /\ WF_vars(\E k \in StopKinds \cup {EndReport} : Halt(k))
        /\ WF_vars(Deliver)
=============================================================================
