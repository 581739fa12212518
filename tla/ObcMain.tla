------------------------------- MODULE ObcMain -------------------------------
(***************************************************************************)
(* main(): the program of the on-board computer.  The main thread starts   *)
(* the dispatcher, queues the demonstration commands, and then, until a    *)
(* signal clears g_running, produces a telemetry frame, evaluates it,      *)
(* hands it to the dispatcher, executes the queued commands and sleeps.    *)
(* Then it stops the dispatcher and reports its counters.                  *)
(*                                                                         *)
(* It composes TelemetryDispatcher, of which main is the owner and the     *)
(* only producer, CommandQueue, of which main is the only caller, and      *)
(* FaultDetector.  The main thread, the dispatch thread and the signal     *)
(* interleave.  What main does between two operations the other two can    *)
(* see is one step.                                                        *)
(***************************************************************************)
EXTENDS FaultDetector, FiniteSets

CONSTANTS
  Configurations,   (* what loading the configuration may have left        *)
  NotUtf8,          (* the satellite names that are not UTF-8              *)
  Orbit,            (* the sinusoids of generateFrame(), at some times     *)
  CpuCycle,         (* 60 and 45 frames: after these the simulated loads   *)
  MemoryCycle,      (* start over                                          *)
  Demo,             (* the injected commands, in order                     *)
  MaxCommandDepth,  (* cfg.command_max_queue_depth and                     *)
  MaxQueueDepth,    (* cfg.telemetry_max_frame_queue_depth, whatever cfg   *)
  Fds, DestValid, CounterMod, NoFrame, NoCommand,   (* of the components   *)
  MaxFrames         (* bound: main produces at most this many frames       *)

(* What generateFrame() can put into frame id: sinusoids of the time, and  *)
(* two loads that rise with the number of the frame and start over.        *)
Simulated(id) ==
  { [ battery_voltage_v |-> o.battery_voltage_v,
      obc_temp_c        |-> o.obc_temp_c,
      payload_temp_c    |-> o.payload_temp_c,
      cpu_usage_pct     |-> 30 + (id % CpuCycle),
      memory_usage_pct  |-> 40 + (id % MemoryCycle) ] : o \in Orbit }

TelemetryFrames ==
  [ frame_id        : 0 .. MaxFrames - 1,
    satellite_id    : {c.satellite_name : c \in Configurations},
    readings        : UNION {Simulated(id) : id \in 0 .. MaxFrames - 1},
    fault_active    : BOOLEAN,
    safe_mode       : BOOLEAN,
    last_fault_code : FaultCodes ]

ASSUME MainAssumption ==
  /\ \A c \in Configurations :
       /\ Sound(c)
       /\ c.command_max_queue_depth = MaxCommandDepth
       /\ c.telemetry_max_frame_queue_depth = MaxQueueDepth
  /\ Orbit \subseteq
       [battery_voltage_v : 66 .. 82, obc_temp_c : 10 .. 40, payload_temp_c : 10 .. 50]
  /\ {CpuCycle, MemoryCycle} \subseteq Nat \ {0}
  /\ Demo \in Seq([sequence_number : Nat, opcode : 0 .. 255])
  /\ MaxCommandDepth \in Nat
  /\ MaxQueueDepth \in Nat
  /\ MaxFrames \in Nat
  /\ Fds \subseteq Nat
  /\ DestValid \in BOOLEAN
  /\ CounterMod \in Nat \ {0}
  /\ NoFrame \notin TelemetryFrames
  /\ NoCommand \notin {Demo[i] : i \in DOMAIN Demo}

VARIABLES
  pc,               (* where main() is                                     *)
  g_running,
  cfg,
  frame_id,
  tlm,              (* the local variable frame of the main loop           *)
  fault_active, fault_code, safe_mode,
  injected,         (* how many commands were passed to push()             *)
  cmd_queue,        (* the content of main's CommandQueue                  *)
  cmd_ret,          (* what its last call returned                         *)
  executed,         (* history: the commands whose handler ran             *)
  report            (* the counters main printed, or NoFrame               *)

VARIABLES           (* of the dispatcher *)
  m_queue, m_running, m_sock_fd, m_frames_sent, m_frames_dropped, loop, frame,
  owner, started, active, openFds, wire, offered

faultVars   == <<fault_active, fault_code, safe_mode>>
commandVars == <<injected, cmd_queue, cmd_ret, executed>>
frameVars   == <<frame_id, tlm, faultVars>>
dispatcherVars ==
  <<m_queue, m_running, m_sock_fd, m_frames_sent, m_frames_dropped, loop, frame,
    owner, started, active, openFds, wire, offered>>
mainVars    == <<pc, g_running, cfg, frameVars, commandVars, report>>

D == INSTANCE TelemetryDispatcher WITH
  Producers      <- {"main"},
  Frames         <- TelemetryFrames,
  Unserializable <- {f \in TelemetryFrames : f.satellite_id \in NotUtf8}

(* main never waits in popWait(). *)
Q == INSTANCE CommandQueue WITH
  Threads  <- {"main"},
  Commands <- {Demo[i] : i \in DOMAIN Demo},
  MaxDepth <- MaxCommandDepth,
  m_queue  <- cmd_queue,
  pc       <- [t \in {"main"} |-> "idle"],
  ret      <- cmd_ret

vars == <<mainVars, dispatcherVars>>

Init ==
  /\ pc = "start"
  /\ g_running = TRUE
  /\ cfg \in Configurations
  /\ frame_id = 0
  /\ tlm = NoFrame
  /\ fault_active = FALSE
  /\ fault_code = NONE
  /\ safe_mode = FALSE
  /\ injected = 0
  /\ executed = <<>>
  /\ report = NoFrame
  /\ D!Init
  /\ Q!Init

(* The main thread is at this point, and the process has not ended. *)
Running(at) == pc = at /\ owner # "terminated"

-----------------------------------------------------------------------------
(* Mutants. *)

FaultsNeverReset(r) ==
  LET events == Evaluate(cfg, r) IN
  /\ fault_active' = (fault_active \/ events # <<>>)
  /\ fault_code' = IF events = <<>> THEN fault_code ELSE events[Len(events)]
  /\ safe_mode' = (safe_mode \/ \E i \in DOMAIN events :
                                  events[i] \in {CPU_OVERLOAD, MEMORY_OVERLOAD})

SafeModeNotLatched(r) ==
  LET events == Evaluate(cfg, r) IN
  /\ fault_active' = (events # <<>>)
  /\ fault_code' = IF events = <<>> THEN fault_code ELSE events[Len(events)]
  /\ safe_mode' = \E i \in DOMAIN events : events[i] \in {CPU_OVERLOAD, MEMORY_OVERLOAD}

(* if instead of while. *)
DrainOnce ==
  /\ Running("drain")
  /\ Q!TryPop("main")
  /\ executed' = executed \o SubSeq(cmd_queue, 1, 1)
  /\ pc' = "sleep"
  /\ UNCHANGED <<g_running, cfg, frameVars, injected, report, dispatcherVars>>

(* stop() does not clear m_running. *)
StopLeavesRunning ==
  /\ Running("stop")
  /\ D!BeginStopLeavesRunning("stopping")
  /\ pc' = "join"
  /\ UNCHANGED <<g_running, cfg, frameVars, commandVars, report>>

(* stop() detaches the thread instead of joining it. *)
DoNotJoin ==
  /\ Running("join")
  /\ pc' = "report"
  /\ UNCHANGED <<g_running, cfg, frameVars, commandVars, report, dispatcherVars>>

-----------------------------------------------------------------------------
(* Start-up. *)

(* dispatcher.start().  Nothing catches what it throws. *)
StartDispatcher ==
  /\ Running("start")
  /\ D!StartWithoutSocket \/ \E fd \in Fds : D!Start(fd)
  /\ pc' = IF started' = "returned" THEN "inject" ELSE "terminated"
  /\ UNCHANGED <<g_running, cfg, frameVars, commandVars, report>>

(* injectCmd(): the command is pushed and push()'s answer is ignored. *)
InjectCmd ==
  /\ Running("inject")
  /\ injected < Len(Demo)
  /\ Q!Push("main", Demo[injected + 1])
  /\ injected' = injected + 1
  /\ UNCHANGED <<pc, g_running, cfg, frameVars, executed, report, dispatcherVars>>

EnterLoop ==
  /\ Running("inject")
  /\ injected = Len(Demo)
  /\ pc' = "check"
  /\ UNCHANGED <<g_running, cfg, frameVars, commandVars, report, dispatcherVars>>

-----------------------------------------------------------------------------
(* The main loop. *)

(* fault_active is reset, evaluate() runs, and the callback it calls for   *)
(* each event sets fault_active, overwrites fault_code and enters safe     *)
(* mode on an overload.  Nothing clears fault_code or safe_mode.           *)
EvaluateFaults(r) ==
  LET events == Evaluate(cfg, r) IN
  /\ fault_active' = (events # <<>>)
  /\ fault_code' = IF events = <<>> THEN fault_code ELSE events[Len(events)]
  /\ safe_mode' = (safe_mode \/ \E i \in DOMAIN events :
                                  events[i] \in {CPU_OVERLOAD, MEMORY_OVERLOAD})

(* The flags of a frame are those that evaluating the frame itself left. *)
FrameOf(r) ==
  [ frame_id        |-> frame_id,
    satellite_id    |-> cfg.satellite_name,
    readings        |-> r,
    fault_active    |-> fault_active',
    safe_mode       |-> safe_mode',
    last_fault_code |-> fault_code' ]

(* while (g_running.load()), generateFrame() and evaluate(). *)
ProduceFrame ==
  /\ Running("check")
  /\ g_running
  /\ frame_id < MaxFrames
  /\ \E r \in Simulated(frame_id) :
       /\ EvaluateFaults(r)
       /\ tlm' = FrameOf(r)
  /\ frame_id' = frame_id + 1
  /\ pc' = "enqueue"
  /\ UNCHANGED <<g_running, cfg, commandVars, report, dispatcherVars>>

(* dispatcher.enqueue(frame); a refused frame is only logged. *)
EnqueueFrame ==
  /\ Running("enqueue")
  /\ D!Enqueue("main", tlm)
  /\ pc' = "drain"
  /\ UNCHANGED <<g_running, cfg, frameVars, commandVars, report>>

(* The opcodes registerCommandHandlers() registers a handler for. *)
Handled == {1, 16, 17, 32, 33, 48}

(* cmd_handler.dispatch(cmd): the handler runs, or there is none and the   *)
(* command is rejected and gone.                                           *)
Dispatch(cmd) == Event(cmd.opcode \in Handled, cmd)

(* while (auto cmd = cmd_queue.tryPop()) cmd_handler.dispatch(cmd) *)
DrainCommands ==
  /\ Running("drain")
  /\ Q!TryPop("main")
  /\ \/ /\ cmd_queue = <<>>
        /\ pc' = "sleep"
        /\ UNCHANGED executed
     \/ /\ cmd_queue # <<>>
        /\ executed' = executed \o Dispatch(Head(cmd_queue))
        /\ UNCHANGED pc
  /\ UNCHANGED <<g_running, cfg, frameVars, injected, report, dispatcherVars>>

Sleep ==
  /\ Running("sleep")
  /\ pc' = "check"
  /\ UNCHANGED <<g_running, cfg, frameVars, commandVars, report, dispatcherVars>>

LeaveLoop ==
  /\ Running("check")
  /\ ~g_running
  /\ pc' = "stop"
  /\ UNCHANGED <<g_running, cfg, frameVars, commandVars, report, dispatcherVars>>

-----------------------------------------------------------------------------
(* Shutdown. *)

(* dispatcher.stop() up to join() ... *)
StopDispatcher ==
  /\ Running("stop")
  /\ D!Stop
  /\ pc' = "join"
  /\ UNCHANGED <<g_running, cfg, frameVars, commandVars, report>>

(* ... and from there. *)
JoinDispatcher ==
  /\ Running("join")
  /\ D!FinishStop
  /\ pc' = "report"
  /\ UNCHANGED <<g_running, cfg, frameVars, commandVars, report>>

(* framesSent() and framesDropped() are printed; the dispatcher is not     *)
(* used any more.                                                          *)
Report ==
  /\ Running("report")
  /\ report' = [sent |-> m_frames_sent, dropped |-> m_frames_dropped]
  /\ D!Retire("main")
  /\ pc' = "return"
  /\ UNCHANGED <<g_running, cfg, frameVars, commandVars>>

(* return 0 destroys the dispatcher. *)
Return ==
  /\ Running("return")
  /\ D!Destroy
  /\ pc' = "exited"
  /\ UNCHANGED <<g_running, cfg, frameVars, commandVars, report>>

-----------------------------------------------------------------------------
(* signalHandler(), at any time. *)
Signal ==
  /\ g_running
  /\ owner # "terminated"
  /\ pc \notin {"exited", "terminated"}
  /\ g_running' = FALSE
  /\ UNCHANGED <<pc, cfg, frameVars, commandVars, report, dispatcherVars>>

DispatchThread == D!DispatchLoop /\ UNCHANGED mainVars

MainThread ==
  \/ StartDispatcher
  \/ InjectCmd
  \/ EnterLoop
  \/ ProduceFrame
  \/ EnqueueFrame
  \/ DrainCommands
  \/ Sleep
  \/ LeaveLoop
  \/ StopDispatcher
  \/ JoinDispatcher
  \/ Report
  \/ Return

Ended == pc \in {"exited", "terminated"} \/ owner = "terminated"

Next ==
  \/ MainThread
  \/ DispatchThread
  \/ Signal
  \/ Ended /\ UNCHANGED vars

(* Both threads run; nobody has to send a signal. *)
Fairness == WF_vars(MainThread) /\ WF_vars(DispatchThread)

Spec == Init /\ [][Next]_vars /\ Fairness

-----------------------------------------------------------------------------
(* Properties. *)

(* The type invariant of main's own variables. *)
TypeOK ==
  /\ pc \in {"start", "inject", "check", "enqueue", "drain", "sleep", "stop", "join",
             "report", "return", "exited", "terminated"}
  /\ g_running \in BOOLEAN
  /\ cfg \in Configurations
  /\ frame_id \in 0 .. MaxFrames
  /\ tlm \in TelemetryFrames \cup {NoFrame}
  /\ fault_active \in BOOLEAN
  /\ fault_code \in FaultCodes
  /\ safe_mode \in BOOLEAN
  /\ injected \in 0 .. Len(Demo)
  /\ Len(cmd_queue) <= MaxCommandDepth
  /\ report \in [sent : 0 .. CounterMod - 1, dropped : 0 .. CounterMod - 1] \cup {NoFrame}

(* The telemetry on its way down, oldest first: the last frame on the      *)
(* wire, the one in the hands of the dispatch thread, the queue, and the   *)
(* one main has produced and not enqueued.                                 *)
Downlink ==
  (IF wire = NoFrame THEN <<>> ELSE <<wire>>)
    \o (IF loop \in {"send", "failed"} THEN <<frame>> ELSE <<>>)
    \o m_queue
    \o (IF pc = "enqueue" THEN <<tlm>> ELSE <<>>)

(* Frames reach the ground station in the order main numbered them, and    *)
(* safe mode, once reported, is reported by every later frame.             *)
Before(f, g) == f.frame_id < g.frame_id /\ (f.safe_mode => g.safe_mode)

DownlinkOrdered ==
  \A i, j \in DOMAIN Downlink : i < j => Before(Downlink[i], Downlink[j])

Overload(r) ==
  \/ r.cpu_usage_pct > cfg.cpu_usage_max_pct
  \/ r.memory_usage_pct > cfg.memory_usage_max_pct

Violation(r) ==
  \/ Less(r.battery_voltage_v, cfg.battery_voltage_min_v)
  \/ Less(cfg.battery_voltage_max_v, r.battery_voltage_v)
  \/ Less(r.obc_temp_c, cfg.temperature_min_c)
  \/ Less(cfg.temperature_max_c, r.obc_temp_c)
  \/ Overload(r)

(* The flags in a frame speak of the readings in the same frame:           *)
(* fault_active says whether these readings violate a threshold, however   *)
(* the frames before looked, a fault has a code, and an overload never     *)
(* leaves without safe mode.  main writes the flags of a frame after       *)
(* generateFrame() has filled in those of the frame before.  So it is with *)
(* every configuration load() lets through: thresholds that are a NaN or   *)
(* in the wrong order do not keep another violation from being reported.   *)
Truthful(f) ==
  /\ f.fault_active <=> Violation(f.readings)
  /\ f.fault_active => f.last_fault_code # NONE
  /\ Overload(f.readings) => f.safe_mode

FlagsMatchReadings == \A i \in DOMAIN Downlink : Truthful(Downlink[i])

(* A frame is in safe mode exactly when some frame up to it, sent or       *)
(* dropped, was produced in an overload, and a frame without a fault       *)
(* repeats the code of the frame before it: safe_mode and fault_code       *)
(* outlive the loop's reset of fault_active, and nothing but the fault     *)
(* callback sets them.                                                     *)
FlagsRemember ==
  \A i, j \in DOMAIN Downlink :
    LET f == Downlink[i]
        g == Downlink[j]
    IN  /\ f.safe_mode <=> \E id \in 0 .. f.frame_id : \E r \in Simulated(id) : Overload(r)
        /\ g.frame_id = f.frame_id + 1 /\ ~g.fault_active =>
             g.last_fault_code = f.last_fault_code

(* The numbers main prints at the end are final, and together with the     *)
(* frames still queued they account for every frame main produced.         *)
ReportAccounts ==
  pc \in {"return", "exited"} /\ owner # "terminated" =>
    /\ report.sent + report.dropped + Len(m_queue) = frame_id
    /\ report = [sent |-> m_frames_sent, dropped |-> m_frames_dropped]

(* The commands the queue accepted, the first ones injected, are at any    *)
(* time executed or still queued, once and in the order of injection; when *)
(* main goes to sleep all of them have been executed.                      *)
CommandsExecuted ==
  LET accepted == SubSeq(Demo, 1, IF injected < MaxCommandDepth THEN injected
                                                                ELSE MaxCommandDepth)
  IN  /\ executed \o cmd_queue = accepted
      /\ pc = "sleep" => executed = accepted

(* An exception ends the program at once or never: it comes out of start() *)
(* before there is a frame, or out of toJson() in the dispatch thread for  *)
(* the very first one, and then because the configured name is not UTF-8.  *)
(* Nothing has been sent by then, and once the ground station has a frame, *)
(* however many were dropped before it, no exception ends the program.     *)
AbnormalEndIsEarly ==
  /\ pc = "terminated" \/ owner = "terminated" => wire = NoFrame /\ m_frames_sent = 0
  /\ pc = "terminated" => frame_id = 0 /\ loop = "none"
  /\ owner = "terminated" => frame.frame_id = 0 /\ cfg.satellite_name \in NotUtf8

(* A signal ends the program, whatever the threads are doing.  stop()      *)
(* returns here because main, which waits for it, is the only producer.    *)
ShutdownCompletes == ~g_running ~> Ended

(* How many steps main is from the end once the signal has come.           *)
MainLeft ==
  IF Ended THEN 0 ELSE
    CASE pc = "return"  -> 1
      [] pc = "report"  -> 2
      [] pc = "join"    -> 3
      [] pc = "stop"    -> 4
      [] pc = "check"   -> 5
      [] pc = "sleep"   -> 6
      [] pc = "drain"   -> 7 + Len(cmd_queue)
      [] pc = "enqueue" -> 8 + Len(cmd_queue)
      [] pc = "inject"  -> 6 + Len(Demo) - injected
      [] pc = "start"   -> 7 + Len(Demo) - injected

(* After the signal every step of main brings the end of the program       *)
(* closer, and while main waits in join() so does every step of the        *)
(* dispatch thread: wherever the signal finds the two, neither makes the   *)
(* other start over, and no frame or command is produced any more.         *)
ShutdownAdvances ==
  [][~g_running =>
       \/ MainLeft' < MainLeft
       \/ UNCHANGED mainVars /\ (pc = "join" => D!StepsLeft' < D!StepsLeft)]_vars

(* What the ground station and the operator see of the program.  A frame   *)
(* is counted a little after it was sent.                                  *)
Ground == INSTANCE GroundView WITH
  Frames   <- TelemetryFrames,
  up       <- ~Ended,
  last     <- wire,
  received <- IF loop = "sent" THEN D!Inc(m_frames_sent, CounterMod) ELSE m_frames_sent,
  printed  <- IF pc \in {"return", "exited"} THEN {report.sent} ELSE {}

(* main() and the dispatch thread, with the signal at any time, show the   *)
(* ground station frames in order and print how many they were.            *)
ImplementsGroundView == Ground!Spec

(* "Evaluate all subsystems in the supplied frame." (FaultDetector.h:48)   *)
(* A temperature above temperature_max_c anywhere in the frame is a fault. *)
OverheatingIsAFault ==
  \A i \in DOMAIN Downlink :
    \/ Less(cfg.temperature_max_c, Downlink[i].readings.obc_temp_c)
    \/ Less(cfg.temperature_max_c, Downlink[i].readings.payload_temp_c)
    => Downlink[i].fault_active

=============================================================================
