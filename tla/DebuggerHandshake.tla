-------------------------- MODULE DebuggerHandshake --------------------------
(***************************************************************************)
(* The two threads of a simulator built with the debugger, at the grain of *)
(* their mutex and condition variable operations:                          *)
(*   - the simulation thread: top::init, the SystemC events that call the  *)
(*     DebugObserver, DebugObserver::notifyServer/pause and the destructor; *)
(*   - the request thread of DebuggerIPCServer: requestThread, recv,       *)
(*     parseRequest, handleRun, handleContinue, handleNext, waitForStop.   *)
(* pfpdb, the client, is not in this repository: it has one request        *)
(* outstanding at a time, and its nanomsg REQ socket may send a request    *)
(* again when the reply takes long (the "double run message problem").     *)
(*                                                                         *)
(* A thread waiting on a condition variable that is notified, or wakes     *)
(* spuriously, goes back to the step that acquires the mutex.              *)
(***************************************************************************)
EXTENDS Naturals, Sequences

CONSTANTS
  Enable,         \* started with -d: PFP_DEBUGGER_ENABLED
  Commands,       \* the kinds of request the client sends
  EarlyContinue,  \* the client may send Continue before its first Run
  Resent,         \* the requests the client's socket may send again
  StopKinds,      \* the messages a halt may carry, the end excepted
  MaxInbox        \* bound: requests queued on the REP socket

AllCommands == {"Run", "Continue", "Query"}

ASSUME HandshakeAssumption ==
  /\ Enable \in BOOLEAN
  /\ EarlyContinue \in BOOLEAN
  /\ Commands \subseteq AllCommands
  /\ Resent \subseteq Commands
  /\ StopKinds \subseteq {"BreakpointHit", "SimulationStopped",
                          "WatchpointHit", "PacketDropped"}
  /\ MaxInbox \in Nat \ {0}

VARIABLES
  simPc,            \* where the simulation thread is
  srvPc,            \* where the request thread is
  ulock,            \* the unique_lock on start_mutex
  stop_mutex, bkpt_mutex,         \* who holds the mutex
  stopped, continue_command,      \* the predicates of the two waits
  run_called, kill_thread,
  ending,           \* ~DebugObserver is running
  bound,            \* the REP socket is bound
  reply_message,    \* the message it points to, or "NULL"
  reply_live,       \* ... and whether that message is still allocated
  inbox, request,   \* requests queued, and the one being served
  outstanding,      \* client: the request it waits for, or "none"
  answer            \* client: the last reply it received

sync == <<ulock, stop_mutex, bkpt_mutex, stopped, continue_command>>
life == <<run_called, kill_thread, ending, bound>>
reply == <<reply_message, reply_live>>
client == <<outstanding, answer>>
ipc == <<inbox, request, outstanding, answer>>
vars == <<simPc, srvPc, sync, life, reply, ipc>>

EndKind == "SimulationEnd"
Messages == StopKinds \cup {EndKind}
Requests == [type : AllCommands, dup : BOOLEAN]
NoRequest == [type |-> "Query", dup |-> TRUE]

SimPcs == {"init", "await_run", "running", "observing", "notify_lock",
           "notify_set", "notify_cv", "pause_lock", "pause_test",
           "pause_sleep", "pause_wait", "destroy", "kill", "shutdown", "join", "exited",
           "aborted"}
SrvPcs == {"loop", "recv", "service", "run_again", "run_unlock", "cont_lock",
           "cont_set", "cont_cv", "stop_lock", "stop_test", "stop_sleep",
           "stop_wait", "reply", "done", "aborted"}

Init ==
  /\ simPc = "init" /\ srvPc = "loop"
  /\ ulock = "owns"
  /\ stop_mutex = "free" /\ bkpt_mutex = "free"
  /\ stopped = FALSE /\ continue_command = FALSE
  /\ run_called = FALSE /\ kill_thread = FALSE
  /\ ending = FALSE /\ bound = TRUE
  /\ reply_message = "NULL" /\ reply_live = FALSE
  /\ inbox = <<>> /\ request = NoRequest
  /\ outstanding = "none" /\ answer = "NULL"

-----------------------------------------------------------------------------
(* The simulation thread. *)

SimGoto(from, to) == simPc = from /\ simPc' = to

(* top::init: with -d the simulation waits for Run before it starts *)
TopInit ==
  /\ SimGoto("init", IF Enable THEN "await_run" ELSE "running")
  /\ UNCHANGED <<srvPc, sync, life, reply, ipc>>

(* waitForRunCommand: a lock_guard on start_mutex, taken and released *)
WaitForRunCommand ==
  /\ SimGoto("await_run", "running")
  /\ ulock # "owns"
  /\ UNCHANGED <<srvPc, sync, life, reply, ipc>>

(* a model event calls an observer callback, which uses the data manager *)
Observe ==
  /\ SimGoto("running", "observing")
  /\ UNCHANGED <<srvPc, sync, life, reply, ipc>>

ObserveEnd ==
  /\ SimGoto("observing", "running")
  /\ UNCHANGED <<srvPc, sync, life, reply, ipc>>

(* a breakpoint, watchpoint or drop: setReplyMessage, then notifyServer *)
Stop(kind) ==
  /\ SimGoto("observing", "notify_lock")
  /\ reply_message' = kind /\ reply_live' = TRUE
  /\ UNCHANGED <<srvPc, sync, life, ipc>>

(* sc_start returns and the observer is destroyed *)
SimEnd ==
  /\ SimGoto("running", "destroy")
  /\ ending' = TRUE
  /\ UNCHANGED <<srvPc, sync, run_called, kill_thread, bound, reply, ipc>>

(* Fault: the destructor does not set the message it reports *)
DestroyEnabled_NoMessage ==
  /\ Enable
  /\ SimGoto("destroy", "notify_lock")
  /\ UNCHANGED <<srvPc, sync, life, reply, ipc>>

(* ~DebugObserver, while (enable): every turn reports the end and pauses *)
DestroyEnabled ==
  /\ Enable
  /\ SimGoto("destroy", "notify_lock")
  /\ reply_message' = EndKind /\ reply_live' = TRUE
  /\ UNCHANGED <<srvPc, sync, life, ipc>>

(* ~DebuggerIPCServer: delete ulock *)
DeleteLock ==
  /\ ~Enable
  /\ SimGoto("destroy", "kill")
  /\ ulock' = "deleted"
  /\ UNCHANGED <<srvPc, stop_mutex, bkpt_mutex, stopped, continue_command,
                 life, reply, ipc>>

(* Fault: kill_thread is never set *)
KillThread_NotSet ==
  /\ SimGoto("kill", "shutdown")
  /\ UNCHANGED <<srvPc, sync, life, reply, ipc>>

KillThread ==
  /\ SimGoto("kill", "shutdown")
  /\ kill_thread' = TRUE
  /\ UNCHANGED <<srvPc, sync, run_called, ending, bound, reply, ipc>>

(* nn_shutdown of the sockets: what was queued is gone *)
Shutdown ==
  /\ SimGoto("shutdown", "join")
  /\ bound' = FALSE /\ inbox' = <<>>
  /\ UNCHANGED <<srvPc, sync, run_called, kill_thread, ending, reply,
                 request, client>>

Join ==
  /\ SimGoto("join", "exited")
  /\ srvPc = "done"
  /\ UNCHANGED <<srvPc, sync, life, reply, ipc>>

(* Fault: stopped is set without stop_mutex *)
NotifyLock_Unlocked ==
  /\ SimGoto("notify_lock", "notify_set")
  /\ UNCHANGED <<srvPc, sync, life, reply, ipc>>

NotifyLock ==
  /\ SimGoto("notify_lock", "notify_set")
  /\ stop_mutex = "free" /\ stop_mutex' = "sim"
  /\ UNCHANGED <<srvPc, ulock, bkpt_mutex, stopped, continue_command,
                 life, reply, ipc>>

(* setStopped(true); lock.unlock() *)
NotifySet ==
  /\ SimGoto("notify_set", "notify_cv")
  /\ stopped' = TRUE /\ stop_mutex' = "free"
  /\ UNCHANGED <<srvPc, ulock, bkpt_mutex, continue_command, life, reply, ipc>>

WakeServer == srvPc' = IF srvPc = "stop_wait" THEN "stop_lock" ELSE srvPc

(* Fault: notify_all forgotten *)
NotifyCv_Silent ==
  /\ SimGoto("notify_cv", "pause_lock")
  /\ UNCHANGED <<srvPc, sync, life, reply, ipc>>

NotifyCv ==
  /\ SimGoto("notify_cv", "pause_lock")
  /\ WakeServer
  /\ UNCHANGED <<sync, life, reply, ipc>>

PauseLock ==
  /\ SimGoto("pause_lock", "pause_test")
  /\ bkpt_mutex = "free" /\ bkpt_mutex' = "sim"
  /\ UNCHANGED <<srvPc, ulock, stop_mutex, stopped, continue_command,
                 life, reply, ipc>>

(* Fault: setContinueCommand(false) forgotten *)
PauseProceed_NoReset ==
  /\ SimGoto("pause_test", IF ending THEN "destroy" ELSE "observing")
  /\ continue_command
  /\ bkpt_mutex' = "free"
  /\ UNCHANGED <<srvPc, ulock, stop_mutex, stopped, continue_command,
                 life, reply, ipc>>

(* while (!getContinueCommand()) cv.wait; setContinueCommand(false) *)
PauseProceed ==
  /\ SimGoto("pause_test", IF ending THEN "destroy" ELSE "observing")
  /\ continue_command
  /\ continue_command' = FALSE /\ bkpt_mutex' = "free"
  /\ UNCHANGED <<srvPc, ulock, stop_mutex, stopped, life, reply, ipc>>

(* Fault: pause without its loop *)
PauseTest_NoWait ==
  /\ SimGoto("pause_test", IF ending THEN "destroy" ELSE "observing")
  /\ ~continue_command
  /\ bkpt_mutex' = "free"
  /\ UNCHANGED <<srvPc, ulock, stop_mutex, stopped, continue_command,
                 life, reply, ipc>>

PauseTest ==
  /\ SimGoto("pause_test", "pause_sleep")
  /\ ~continue_command
  /\ UNCHANGED <<srvPc, sync, life, reply, ipc>>

(* cv.wait releases the mutex and sleeps, atomically *)
PauseWait ==
  /\ SimGoto("pause_sleep", "pause_wait")
  /\ bkpt_mutex' = "free"
  /\ UNCHANGED <<srvPc, ulock, stop_mutex, stopped, continue_command,
                 life, reply, ipc>>

PauseSpurious ==
  /\ SimGoto("pause_wait", "pause_lock")
  /\ UNCHANGED <<srvPc, sync, life, reply, ipc>>

-----------------------------------------------------------------------------
(* The request thread. *)

SrvGoto(from, to) == srvPc = from /\ srvPc' = to

(* send: the reply to a repeated request is not what the client waits for, *)
(* and nn_send on a shut down socket fails; its result is ignored          *)
Send(kind) ==
  IF request.dup \/ ~bound
  THEN UNCHANGED client
  ELSE outstanding' = "none" /\ answer' = kind

(* requestThread: while (!kill_thread) *)
Loop ==
  /\ SrvGoto("loop", IF kill_thread THEN "done" ELSE "recv")
  /\ UNCHANGED <<simPc, sync, life, reply, ipc>>

(* recv: nn_poll timed out after 100 ms *)
RecvTimeout ==
  /\ SrvGoto("recv", "loop")
  /\ inbox = <<>>
  /\ UNCHANGED <<simPc, sync, life, reply, ipc>>

(* recv and parseRequest: which handler serves the request *)
Handler(type) ==
  CASE type = "Run"      -> IF run_called THEN "run_again" ELSE "run_unlock"
    [] type = "Continue" -> "cont_lock"
    [] OTHER             -> "service"

Receive ==
  /\ inbox # <<>>
  /\ request' = Head(inbox) /\ inbox' = Tail(inbox)
  /\ SrvGoto("recv", Handler(Head(inbox).type))
  /\ run_called' = (run_called \/ Head(inbox).type = "Run")
  /\ UNCHANGED <<simPc, sync, kill_thread, ending, bound, reply, client>>

(* every handler other than Run, Continue and Next: it uses the data       *)
(* manager and replies                                                     *)
Service ==
  /\ SrvGoto("service", "loop")
  /\ Send("Answer")
  /\ UNCHANGED <<simPc, sync, life, reply, inbox, request>>

(* Fault: the request's type is sent back *)
RunAgain_Echo ==
  /\ SrvGoto("run_again", "loop")
  /\ Send(request.type)
  /\ UNCHANGED <<simPc, sync, life, reply, inbox, request>>

(* the second Run message is answered with SimulationEnd *)
RunAgain ==
  /\ SrvGoto("run_again", "loop")
  /\ Send(EndKind)
  /\ UNCHANGED <<simPc, sync, life, reply, inbox, request>>

(* handleRun: perhaps a time breakpoint, then ulock->unlock() *)
RunUnlock ==
  /\ ulock # "deleted"
  /\ SrvGoto("run_unlock", "stop_lock")
  /\ ulock' = "released"
  /\ UNCHANGED <<simPc, stop_mutex, bkpt_mutex, stopped, continue_command,
                 life, reply, ipc>>

(* unlock through the deleted ulock is undefined: the freed object may     *)
(* still look like a lock, or the exception or fault ends the process      *)
RunUnlockDeleted ==
  /\ srvPc = "run_unlock" /\ ulock = "deleted"
  /\ \/ srvPc' = "stop_lock" /\ UNCHANGED simPc
     \/ srvPc' = "aborted" /\ simPc' = "aborted"
  /\ UNCHANGED <<sync, life, reply, ipc>>

(* handleContinue, and handleNext after its stealth breakpoint *)
ContLock ==
  /\ SrvGoto("cont_lock", "cont_set")
  /\ bkpt_mutex = "free" /\ bkpt_mutex' = "srv"
  /\ UNCHANGED <<simPc, ulock, stop_mutex, stopped, continue_command,
                 life, reply, ipc>>

ContSet ==
  /\ SrvGoto("cont_set", "cont_cv")
  /\ continue_command' = TRUE /\ bkpt_mutex' = "free"
  /\ UNCHANGED <<simPc, ulock, stop_mutex, stopped, life, reply, ipc>>

WakeSimulation == simPc' = IF simPc = "pause_wait" THEN "pause_lock" ELSE simPc

ContCv ==
  /\ SrvGoto("cont_cv", "stop_lock")
  /\ WakeSimulation
  /\ UNCHANGED <<sync, life, reply, ipc>>

(* waitForStop *)
StopLock ==
  /\ SrvGoto("stop_lock", "stop_test")
  /\ stop_mutex = "free" /\ stop_mutex' = "srv"
  /\ UNCHANGED <<simPc, ulock, bkpt_mutex, stopped, continue_command,
                 life, reply, ipc>>

StopProceed ==
  /\ SrvGoto("stop_test", "reply")
  /\ stopped
  /\ stopped' = FALSE /\ stop_mutex' = "free"
  /\ UNCHANGED <<simPc, ulock, bkpt_mutex, continue_command, life, reply, ipc>>

StopTest ==
  /\ SrvGoto("stop_test", "stop_sleep")
  /\ ~stopped
  /\ UNCHANGED <<simPc, sync, life, reply, ipc>>

(* stop_cv.wait releases the mutex and sleeps, atomically *)
StopWait ==
  /\ SrvGoto("stop_sleep", "stop_wait")
  /\ stop_mutex' = "free"
  /\ UNCHANGED <<simPc, ulock, bkpt_mutex, stopped, continue_command,
                 life, reply, ipc>>

(* Fault: "if (!stopped)" for "while (!stopped)" *)
StopSpurious_If ==
  /\ SrvGoto("stop_wait", "reply")
  /\ UNCHANGED <<simPc, sync, life, reply, ipc>>

StopSpurious ==
  /\ SrvGoto("stop_wait", "stop_lock")
  /\ UNCHANGED <<simPc, sync, life, reply, ipc>>

(* send(reply); delete reply: reply_message is not reset.  Without a       *)
(* message the reply is a GenericAcknowledge                               *)
Reply ==
  /\ SrvGoto("reply", "loop")
  /\ Send(IF reply_message = "NULL" THEN "GenericAck" ELSE reply_message)
  /\ reply_live' = FALSE
  /\ UNCHANGED <<simPc, sync, life, reply_message, inbox, request>>

-----------------------------------------------------------------------------
(* The client and its socket. *)

ClientSend(type) ==
  /\ outstanding = "none" /\ bound
  /\ Len(inbox) < MaxInbox
  /\ type = "Continue" => EarlyContinue \/ run_called
  /\ inbox' = Append(inbox, [type |-> type, dup |-> FALSE])
  /\ outstanding' = type
  /\ UNCHANGED <<simPc, srvPc, sync, life, reply, request, answer>>

Resend ==
  /\ outstanding \in Resent /\ bound
  /\ Len(inbox) < MaxInbox
  /\ inbox' = Append(inbox, [type |-> outstanding, dup |-> TRUE])
  /\ UNCHANGED <<simPc, srvPc, sync, life, reply, request, client>>

-----------------------------------------------------------------------------
SimNext ==
  \/ TopInit \/ WaitForRunCommand \/ Observe \/ ObserveEnd
  \/ (\E kind \in StopKinds : Stop(kind))
  \/ SimEnd \/ DestroyEnabled \/ DeleteLock \/ KillThread \/ Shutdown \/ Join
  \/ NotifyLock \/ NotifySet \/ NotifyCv
  \/ PauseLock \/ PauseProceed \/ PauseTest \/ PauseWait \/ PauseSpurious

SrvNext ==
  \/ Loop \/ RecvTimeout \/ Receive \/ Service \/ RunAgain
  \/ RunUnlock \/ RunUnlockDeleted \/ ContLock \/ ContSet \/ ContCv
  \/ StopLock \/ StopProceed \/ StopTest \/ StopWait \/ StopSpurious \/ Reply

ClientNext == (\E type \in Commands : ClientSend(type)) \/ Resend

Next == SimNext \/ SrvNext \/ ClientNext

(***************************************************************************)
(* Fairness.  Both threads are scheduled (weak fairness of their steps;    *)
(* a spurious wakeup is never owed).  A mutex the other thread releases    *)
(* again and again is acquired at last, and a model has finitely many      *)
(* events, so a simulation that keeps running ends (strong fairness).      *)
(* Nothing is assumed of the client.                                       *)
(***************************************************************************)
SimStep ==
  \/ TopInit \/ WaitForRunCommand \/ Observe \/ ObserveEnd
  \/ DestroyEnabled \/ DeleteLock \/ KillThread \/ Shutdown \/ Join
  \/ NotifySet \/ NotifyCv \/ PauseProceed \/ PauseTest \/ PauseWait

SrvStep ==
  \/ Loop \/ RecvTimeout \/ Receive \/ Service \/ RunAgain
  \/ RunUnlock \/ RunUnlockDeleted \/ ContSet \/ ContCv
  \/ StopProceed \/ StopTest \/ StopWait \/ Reply

Fairness ==
  /\ WF_vars(SimStep) /\ WF_vars(SrvStep)
  /\ SF_vars(NotifyLock) /\ SF_vars(PauseLock)
  /\ SF_vars(ContLock) /\ SF_vars(StopLock)
  /\ SF_vars(SimEnd)

Spec == Init /\ [][Next]_vars
FairSpec == Spec /\ Fairness

-----------------------------------------------------------------------------
(* Type invariant of both threads, their shared flags and the sockets. *)
TypeOK ==
  /\ simPc \in SimPcs /\ srvPc \in SrvPcs
  /\ ulock \in {"owns", "released", "deleted"}
  /\ stop_mutex \in {"free", "sim", "srv"}
  /\ bkpt_mutex \in {"free", "sim", "srv"}
  /\ stopped \in BOOLEAN /\ continue_command \in BOOLEAN
  /\ run_called \in BOOLEAN /\ kill_thread \in BOOLEAN
  /\ ending \in BOOLEAN /\ bound \in BOOLEAN
  /\ reply_message \in Messages \cup {"NULL"} /\ reply_live \in BOOLEAN
  /\ inbox \in Seq(Requests) /\ request \in Requests
  /\ outstanding \in AllCommands \cup {"none"}
  /\ answer \in Messages \cup {"NULL", "Answer", "GenericAck"}

(* The simulation thread is inside an observer callback, between the calls *)
(* that lock the data manager, and so holds references into its lists.     *)
SimUsesData == simPc = "observing"

(* The request thread runs a handler that reads or changes those lists.    *)
SrvUsesData == srvPc \in {"service", "run_unlock", "cont_lock"}

(* Only one thread at a time works on the DebugDataManager.  Its mutex     *)
(* guards single calls; the getters return references to the lists, which  *)
(* DebugObserver walks after the guard is gone.                            *)
SingleAccess == ~(SimUsesData /\ SrvUsesData)

(* With -d the handshake alone keeps the two threads off each other's      *)
(* data: no handler runs while the simulation is in an observer callback.  *)
Exclusive == Enable => SingleAccess

(* The simulation is executing model code or deciding what to report.      *)
SimActive == simPc \in {"running", "observing", "destroy", "notify_lock",
                        "notify_set"}

(* The simulation has halted and its report is or was handed over.         *)
SimHalted == simPc \in {"notify_cv", "pause_lock", "pause_test", "pause_sleep",
                        "pause_wait"}

(* With -d handleRun and handleContinue send a message that this halt set  *)
(* and that is still allocated: reply_message is neither NULL, nor the one *)
(* deleted after the previous halt, nor replaced while it is being sent.   *)
FreshReply ==
  Enable /\ srvPc = "reply" =>
    SimHalted /\ reply_message # "NULL" /\ reply_live

(* With -d pfpdb has its prompt back only when the simulation is halted:   *)
(* no request is outstanding while model code runs.                        *)
PromptMeansHalted == Enable /\ outstanding = "none" => ~SimActive

(* No wakeup is lost in waitForStop or pause: a thread waits on its        *)
(* condition variable with its predicate true only while the notifier is   *)
(* between setting the flag and notify_all.                                *)
NoLostWakeup ==
  /\ srvPc = "stop_wait" /\ stopped => simPc = "notify_cv"
  /\ simPc = "pause_wait" /\ continue_command => srvPc = "cont_cv"

(* Every request is answered: the handshake does not leave the request     *)
(* thread in waitForStop for ever.                                         *)
Answered == outstanding # "none" ~> outstanding = "none"

(* The request thread is in waitForStop.                                    *)
InWaitForStop == srvPc \in {"stop_lock", "stop_test", "stop_sleep", "stop_wait"}

(* Without -d a simulation that ends tears the debugger down and the       *)
(* process ends, unless the request thread is caught in waitForStop.       *)
ShutdownCompletes ==
  \/ <>[]InWaitForStop
  \/ ending /\ ~Enable ~> simPc \in {"exited", "aborted"}

-----------------------------------------------------------------------------
(* The inductive invariant behind Exclusive, FreshReply and NoLostWakeup.  *)

(* who holds a mutex is where that thread is; a thread about to sleep has  *)
(* seen its predicate false and still holds the mutex that guards it       *)
Locks ==
  /\ stop_mutex = "sim" <=> simPc = "notify_set"
  /\ stop_mutex = "srv" <=> srvPc \in {"stop_test", "stop_sleep"}
  /\ bkpt_mutex = "sim" <=> simPc \in {"pause_test", "pause_sleep"}
  /\ bkpt_mutex = "srv" <=> srvPc = "cont_set"
  /\ srvPc = "stop_sleep" => ~stopped
  /\ simPc = "pause_sleep" => ~continue_command
  /\ ulock = "deleted" => simPc \in {"kill", "shutdown", "join", "exited",
                                     "aborted"}

BeforeRun == simPc \in {"init", "await_run"}
AwaitsStop == srvPc \in {"cont_cv", "stop_lock", "stop_test", "stop_sleep",
                         "stop_wait"}
AtPrompt == srvPc \in {"loop", "recv", "service", "run_again", "cont_lock",
                       "cont_set"}
MessageLive == reply_message # "NULL" /\ reply_live

(* with -d the destructor never gets past its loop *)
NeverTornDown ==
  /\ ulock # "deleted" /\ ~kill_thread /\ bound
  /\ simPc \notin {"kill", "shutdown", "join", "exited", "aborted"}
  /\ srvPc \notin {"done", "aborted"}

(* before the first Run: start_mutex holds the simulation back *)
StartTurn ==
  /\ ulock = "owns" => BeforeRun /\ (run_called <=> srvPc = "run_unlock")
  /\ ulock = "released" => run_called /\ srvPc # "run_unlock"
  /\ BeforeRun =>
       /\ ~stopped /\ srvPc # "reply"
       /\ ulock = "released" => AwaitsStop /\ ~continue_command
       /\ continue_command => AwaitsStop

(* while the simulation is active the request thread waits for its halt *)
ActiveTurn ==
  SimActive => /\ AwaitsStop /\ ~stopped /\ ~continue_command
               /\ simPc \in {"notify_lock", "notify_set"} => MessageLive

(* when it has halted: the halt is not yet seen; or the request thread has *)
(* taken it and serves pfpdb; or it has granted control, not yet taken up  *)
HaltedTurn ==
  SimHalted =>
    \/ stopped /\ ~continue_command /\ AwaitsStop /\ MessageLive
    \/ /\ ~stopped /\ ~continue_command
       /\ AtPrompt \/ (srvPc = "reply" /\ MessageLive)
    \/ ~stopped /\ continue_command /\ AwaitsStop

(* the end is reported by, and only by, the destructor *)
EndTurn ==
  /\ simPc \in {"init", "await_run", "running", "observing"} => ~ending
  /\ simPc = "destroy" => ending
  /\ simPc \in {"notify_lock", "notify_set"} =>
       (ending <=> reply_message = EndKind)

(* Turn-taking of the two threads with -d: exactly one of them owns the    *)
(* data manager, the reply message and the right to act at any moment.     *)
TurnTaking ==
  Enable => NeverTornDown /\ StartTurn /\ ActiveTurn /\ HaltedTurn /\ EndTurn

(* What the client waits for is in the queue or being served, once; what   *)
(* its socket sent again is only a Run, behind the Run it repeats, and is  *)
(* served by the second-Run reply.  The invariant behind PromptMeansHalted *)
(* when only Run is repeated.                                              *)
Serving == srvPc \notin {"loop", "recv", "done", "aborted"}
ServingOriginal == Serving /\ ~request.dup

ClientTurn ==
  /\ \A i \in DOMAIN inbox : ~inbox[i].dup =>
       /\ outstanding = inbox[i].type /\ ~ServingOriginal
       /\ \A j \in DOMAIN inbox : ~inbox[j].dup => j = i
  /\ \A i \in DOMAIN inbox : inbox[i].dup =>
       /\ inbox[i].type = "Run"
       /\ run_called \/ \E j \in DOMAIN inbox :
                            j < i /\ ~inbox[j].dup /\ inbox[j].type = "Run"
  /\ ServingOriginal => outstanding = request.type
  /\ ServingOriginal /\ request.type = "Run" => run_called
  /\ Serving /\ request.dup => srvPc = "run_again"
  /\ outstanding # "none" =>
       ServingOriginal \/ \E i \in DOMAIN inbox : ~inbox[i].dup

-----------------------------------------------------------------------------
(* The baton of ControlTransfer, read off the state of the two threads.    *)
Holder ==
  CASE SimActive -> "simulation"
    [] simPc \in {"init", "await_run"} ->
         IF ulock = "owns" THEN "debugger" ELSE "granted"
    [] OTHER -> IF continue_command THEN "granted"
                ELSE IF stopped \/ srvPc = "reply" THEN "halted"
                ELSE "debugger"

Baton == INSTANCE ControlTransfer WITH
           holder <- Holder,
           report <- IF Holder = "halted" THEN reply_message ELSE "NULL",
           ended  <- ending

(* With -d the two threads implement the hand-over of a single baton:      *)
(* every halt is reported exactly once, every grant is taken up once.      *)
ImplementsBaton == Baton!Spec

(* The part of it that does not depend on fairness.                        *)
BatonSafety == Baton!Init /\ [][Baton!Next]_(Baton!vars)
=============================================================================
