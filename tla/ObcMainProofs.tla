---------------------------- MODULE ObcMainProofs ----------------------------
(***************************************************************************)
(* The program on the on-board computer, for every set of configurations   *)
(* that load() lets through, every orbit, all depths and any number of     *)
(* frames.  main() uses the dispatcher as its callers may, so that what is *)
(* proved of the dispatcher holds in the program; and what travels through *)
(* it keeps its order and says what it said when main() made it.           *)
(***************************************************************************)
EXTENDS ObcMain, FaultDetectorProofs, FiniteSetTheorems

(* The dispatcher of main() again, with its theorems. *)
DP == INSTANCE TelemetryDispatcherProofs WITH
  Producers      <- {"main"},
  Frames         <- TelemetryFrames,
  Unserializable <- {f \in TelemetryFrames : f.satellite_id \in NotUtf8}

LEMMA SameInit == D!Init <=> DP!Init
  BY DEF D!Init, D!NoFd, DP!Init, DP!NoFd

LEMMA SameNext == D!Next <=> DP!Next
  BY DEF D!Next, D!vars, D!countVars, D!threadVars, D!ownerVars, D!NoFd, D!Inc,
         D!Enqueue, D!Retire, D!StartAgain, D!StartWithoutSocket, D!Start, D!Stop,
         D!BeginStop, D!Destroy, D!FinishStop, D!ThreadAlive, D!DispatchLoop, D!LoopCheck,
         D!LoopWake, D!LoopPop, D!LoopSend, D!SendUdp, D!LoopTerminate, D!LoopCount,
         D!Terminated,
         DP!Next, DP!vars, DP!countVars, DP!threadVars, DP!ownerVars, DP!NoFd, DP!Inc,
         DP!Enqueue, DP!Retire, DP!StartAgain, DP!StartWithoutSocket, DP!Start, DP!Stop,
         DP!BeginStop, DP!Destroy, DP!FinishStop, DP!ThreadAlive, DP!DispatchLoop,
         DP!LoopCheck, DP!LoopWake, DP!LoopPop, DP!LoopSend, DP!SendUdp,
         DP!LoopTerminate, DP!LoopCount, DP!Terminated

LEMMA SameStep == [D!Next]_(D!vars) <=> [DP!Next]_(DP!vars)
  BY SameNext DEF D!vars, D!countVars, D!threadVars, D!ownerVars,
                  DP!vars, DP!countVars, DP!threadVars, DP!ownerVars

LEMMA SameInvariants ==
  /\ D!TypeOK <=> DP!TypeOK
  /\ D!Accounting <=> DP!Accounting
  /\ D!SocketLive <=> DP!SocketLive
  /\ D!NothingLeaks <=> DP!NothingLeaks
  BY DEF D!TypeOK, D!LoopStates, D!NoFd, D!Accounting, D!InHand, D!FrameInHand,
         D!SocketLive, D!ThreadAlive, D!NothingLeaks,
         DP!TypeOK, DP!LoopStates, DP!NoFd, DP!Accounting, DP!InHand, DP!FrameInHand,
         DP!SocketLive, DP!ThreadAlive, DP!NothingLeaks

-----------------------------------------------------------------------------
(* Every step of the program is a step of the dispatcher or leaves it      *)
(* alone.                                                                  *)

LEMMA DispatcherStep ==
  ASSUME pc = "enqueue" => tlm \in TelemetryFrames, [Next]_vars
  PROVE  [D!Next]_(D!vars)
  <1>a. ASSUME UNCHANGED dispatcherVars
        PROVE  UNCHANGED D!vars
    BY <1>a DEF dispatcherVars, D!vars, D!countVars, D!threadVars, D!ownerVars
  <1>1. CASE StartDispatcher
    BY <1>1 DEF StartDispatcher, D!Next
  <1>2. CASE EnqueueFrame
    <2>1. tlm \in TelemetryFrames
      BY <1>2 DEF EnqueueFrame, Running
    <2> QED
      BY <1>2, <2>1 DEF EnqueueFrame, D!Next
  <1>3. CASE StopDispatcher
    BY <1>3 DEF StopDispatcher, D!Next
  <1>4. CASE JoinDispatcher
    BY <1>4 DEF JoinDispatcher, D!Next
  <1>5. CASE Report
    BY <1>5 DEF Report, D!Next
  <1>6. CASE Return
    BY <1>6 DEF Return, D!Next
  <1>7. CASE DispatchThread
    BY <1>7 DEF DispatchThread, D!Next
  <1>8. CASE InjectCmd \/ EnterLoop \/ ProduceFrame \/ DrainCommands \/ Sleep \/ LeaveLoop
    BY <1>8, <1>a DEF InjectCmd, EnterLoop, ProduceFrame, DrainCommands, Sleep, LeaveLoop
  <1>9. CASE Signal
    BY <1>9, <1>a DEF Signal
  <1>10. CASE UNCHANGED vars
    BY <1>10, <1>a DEF vars
  <1> QED
    BY <1>1, <1>2, <1>3, <1>4, <1>5, <1>6, <1>7, <1>8, <1>9, <1>10 DEF Next, MainThread

-----------------------------------------------------------------------------
(* What evaluating a frame does to the flags. *)
LEMMA FlagsOf ==
  ASSUME NEW r, EvaluateFaults(r), safe_mode \in BOOLEAN, fault_code \in FaultCodes
  PROVE  /\ fault_active' \in BOOLEAN
         /\ fault_code' \in FaultCodes
         /\ safe_mode' \in BOOLEAN
         /\ fault_active' <=> Violation(r)
         /\ fault_active' => fault_code' # NONE
         /\ safe_mode' <=> safe_mode \/ Overload(r)
         /\ ~fault_active' => fault_code' = fault_code
  <1> DEFINE e == Evaluate(cfg, r)
  <1>1. /\ fault_active' = (e # <<>>)
        /\ fault_code' = IF e = <<>> THEN fault_code ELSE e[Len(e)]
        /\ safe_mode' = (safe_mode \/ \E i \in DOMAIN e :
                                        e[i] \in {CPU_OVERLOAD, MEMORY_OVERLOAD})
    BY DEF EvaluateFaults
  <1>2. /\ e \in Seq(FaultCodes)
        /\ Elements(e) =
             { k \in FaultCodes :
                 \/ k = LOW_BATTERY /\ LowBattery(cfg, r)
                 \/ k = OVER_TEMPERATURE /\ TooHot(cfg, r)
                 \/ k = UNDER_TEMPERATURE /\ TooCold(cfg, r) /\ ~TooHot(cfg, r)
                 \/ k = CPU_OVERLOAD /\ CpuOverload(cfg, r)
                 \/ k = MEMORY_OVERLOAD /\ MemoryOverload(cfg, r) }
    BY EvaluateExact
  <1> HIDE DEF e
  <1> USE DEF NONE, LOW_BATTERY, OVER_TEMPERATURE, UNDER_TEMPERATURE, CPU_OVERLOAD,
              MEMORY_OVERLOAD, FaultCodes
  <1>3. NONE \notin Elements(e)
    BY <1>2
  <1>4. e # <<>> => Len(e) \in DOMAIN e /\ e[Len(e)] \in Elements(e)
    BY <1>2 DEF Elements
  <1>5. e # <<>> <=> Elements(e) # {}
    BY <1>2, <1>4 DEF Elements
  <1>6. Violation(r) <=> \/ LowBattery(cfg, r)
                         \/ TooHot(cfg, r)
                         \/ TooCold(cfg, r)
                         \/ CpuOverload(cfg, r)
                         \/ MemoryOverload(cfg, r)
    BY DEF Violation, Overload, LowBattery, TooHot, TooCold, CpuOverload, MemoryOverload
  <1>7. /\ LowBattery(cfg, r) <=> LOW_BATTERY \in Elements(e)
        /\ TooHot(cfg, r) <=> OVER_TEMPERATURE \in Elements(e)
        /\ TooCold(cfg, r) /\ ~TooHot(cfg, r) <=> UNDER_TEMPERATURE \in Elements(e)
        /\ CpuOverload(cfg, r) <=> CPU_OVERLOAD \in Elements(e)
        /\ MemoryOverload(cfg, r) <=> MEMORY_OVERLOAD \in Elements(e)
    BY <1>2
  <1>8. Elements(e) \subseteq {LOW_BATTERY, OVER_TEMPERATURE, UNDER_TEMPERATURE,
                               CPU_OVERLOAD, MEMORY_OVERLOAD}
    BY <1>2
  <1>9. Elements(e) # {} <=> Violation(r)
    BY <1>6, <1>7, <1>8
  <1>10. Overload(r) <=> \E k \in Elements(e) : k \in {CPU_OVERLOAD, MEMORY_OVERLOAD}
    BY <1>7 DEF Overload, CpuOverload, MemoryOverload
  <1>11. safe_mode' <=> safe_mode \/ Overload(r)
    BY <1>1, <1>10 DEF Elements
  <1>12. fault_code' \in FaultCodes /\ (fault_active' => fault_code' # NONE)
    BY <1>1, <1>2, <1>3, <1>4
  <1> QED
    BY <1>1, <1>5, <1>9, <1>11, <1>12

-----------------------------------------------------------------------------
(* Types. *)

CommandSet == [sequence_number : Nat, opcode : 0 .. 255]

(* What TypeOK leaves open: the frame main is about to enqueue is one, and *)
(* commands are queued.                                                    *)
HandsOK ==
  /\ pc = "enqueue" => tlm \in TelemetryFrames
  /\ cmd_queue \in Seq(CommandSet)

Local == TypeOK /\ HandsOK

LEMMA LocalInit == Init => Local
  <1> SUFFICES ASSUME Init
               PROVE  Local
    OBVIOUS
  <1>1. cmd_queue \in Seq(CommandSet) /\ Len(cmd_queue) = 0
    <2>1. cmd_queue = <<>>
      BY DEF Init, Q!Init
    <2>2. <<>> \in Seq(CommandSet) /\ Len(<<>>) = 0
      OBVIOUS
    <2> QED
      BY <2>1, <2>2
  <1>2. Len(Demo) \in Nat /\ MaxCommandDepth \in Nat /\ MaxFrames \in Nat
    BY MainAssumption
  <1>3. injected \in 0 .. Len(Demo) /\ frame_id \in 0 .. MaxFrames
    BY <1>2 DEF Init
  <1>4. fault_code \in FaultCodes
    BY DEF Init, FaultCodes, NONE, MEMORY_OVERLOAD
  <1>5. g_running \in BOOLEAN /\ fault_active \in BOOLEAN /\ safe_mode \in BOOLEAN
    BY DEF Init
  <1>6. pc = "start" /\ cfg \in Configurations /\ tlm = NoFrame /\ report = NoFrame
    BY DEF Init
  <1> QED
    BY <1>1, <1>2, <1>3, <1>4, <1>5, <1>6 DEF Local, TypeOK, HandsOK

LEMMA QueueSteps ==
  ASSUME NEW S, NEW q \in Seq(S)
  PROVE  /\ Len(q) \in Nat
         /\ \A i \in 1 .. Len(q) : q[i] \in S
         /\ \A x \in S : Append(q, x) \in Seq(S) /\ Len(Append(q, x)) = Len(q) + 1
         /\ q # <<>> => Tail(q) \in Seq(S) /\ Len(Tail(q)) = Len(q) - 1
  OBVIOUS

LEMMA MadeFrame ==
  ASSUME TypeOK, frame_id < MaxFrames, NEW r \in Simulated(frame_id), EvaluateFaults(r)
  PROVE  FrameOf(r) \in TelemetryFrames
  <1>1. frame_id \in 0 .. MaxFrames - 1
    BY MainAssumption DEF TypeOK
  <1>2. cfg.satellite_name \in {c.satellite_name : c \in Configurations}
    BY DEF TypeOK
  <1>3. r \in UNION {Simulated(id) : id \in 0 .. MaxFrames - 1}
    BY <1>1
  <1>4. fault_active' \in BOOLEAN /\ safe_mode' \in BOOLEAN /\ fault_code' \in FaultCodes
    BY FlagsOf DEF TypeOK
  <1> QED
    BY <1>1, <1>2, <1>3, <1>4 DEF FrameOf, TelemetryFrames

LEMMA LocalStep ==
  ASSUME Local, D!TypeOK, [Next]_vars
  PROVE  Local'
  <1>a. ASSUME NEW x \in CommandSet,
               \/ cmd_queue' = cmd_queue
               \/ cmd_queue' = Append(cmd_queue, x) /\ Len(cmd_queue) < MaxCommandDepth
               \/ cmd_queue' = Tail(cmd_queue) /\ cmd_queue # <<>>
        PROVE  cmd_queue' \in Seq(CommandSet) /\ Len(cmd_queue') <= MaxCommandDepth
    <2>1. /\ cmd_queue \in Seq(CommandSet) /\ Len(cmd_queue) <= MaxCommandDepth
          /\ MaxCommandDepth \in Nat
      BY MainAssumption DEF Local, TypeOK, HandsOK
    <2> QED
      BY <1>a, <2>1, QueueSteps
  <1> USE DEF Local, TypeOK, HandsOK, Running, mainVars, frameVars, faultVars, commandVars
  <1>1. CASE StartDispatcher
    BY <1>1 DEF StartDispatcher
  <1>2. CASE InjectCmd
    <2>1. Demo[injected + 1] \in CommandSet /\ injected + 1 \in 0 .. Len(Demo)
      <3>1. Demo \in Seq(CommandSet)
        BY MainAssumption DEF CommandSet
      <3>2. Len(Demo) \in Nat /\ injected \in 0 .. Len(Demo) /\ injected < Len(Demo)
        BY <1>2, <3>1, QueueSteps DEF InjectCmd
      <3> QED
        BY <3>1, <3>2, QueueSteps
    <2>2. \/ cmd_queue' = cmd_queue
          \/ cmd_queue' = Append(cmd_queue, Demo[injected + 1])
             /\ Len(cmd_queue) < MaxCommandDepth
      BY <1>2 DEF InjectCmd, Q!Push, Q!HasRoom
    <2>3. cmd_queue' \in Seq(CommandSet) /\ Len(cmd_queue') <= MaxCommandDepth
      BY <2>1, <2>2, <1>a
    <2> QED
      BY <1>2, <2>1, <2>3 DEF InjectCmd
  <1>3. CASE EnterLoop \/ Sleep \/ LeaveLoop
    BY <1>3 DEF EnterLoop, Sleep, LeaveLoop
  <1>4. CASE ProduceFrame
    <2>1. PICK r \in Simulated(frame_id) : EvaluateFaults(r) /\ tlm' = FrameOf(r)
      BY <1>4 DEF ProduceFrame
    <2>2. tlm' \in TelemetryFrames
      BY <1>4, <2>1, MadeFrame DEF ProduceFrame
    <2>3. fault_active' \in BOOLEAN /\ safe_mode' \in BOOLEAN /\ fault_code' \in FaultCodes
      BY <2>1, FlagsOf
    <2>4. frame_id' \in 0 .. MaxFrames
      BY <1>4, MainAssumption DEF ProduceFrame
    <2> QED
      BY <1>4, <2>2, <2>3, <2>4 DEF ProduceFrame
  <1>5. CASE EnqueueFrame
    BY <1>5 DEF EnqueueFrame
  <1>6. CASE DrainCommands
    <2>1. cmd_queue' = cmd_queue \/ (cmd_queue # <<>> /\ cmd_queue' = Tail(cmd_queue))
      BY <1>6 DEF DrainCommands, Q!TryPop, Q!PopFront
    <2>2. cmd_queue' \in Seq(CommandSet) /\ Len(cmd_queue') <= MaxCommandDepth
      <3>1. [sequence_number |-> 0, opcode |-> 0] \in CommandSet
        BY DEF CommandSet
      <3> QED
        BY <2>1, <3>1, <1>a
    <2> QED
      BY <1>6, <2>2 DEF DrainCommands
  <1>7. CASE StopDispatcher
    BY <1>7 DEF StopDispatcher
  <1>8. CASE JoinDispatcher
    BY <1>8 DEF JoinDispatcher
  <1>9. CASE Report
    <2>1. /\ m_frames_sent \in 0 .. CounterMod - 1
          /\ m_frames_dropped \in 0 .. CounterMod - 1
      BY DEF D!TypeOK
    <2> QED
      BY <1>9, <2>1 DEF Report
  <1>10. CASE Return
    BY <1>10 DEF Return
  <1>11. CASE Signal
    BY <1>11 DEF Signal
  <1>12. CASE DispatchThread
    BY <1>12 DEF DispatchThread
  <1>13. CASE UNCHANGED vars
    BY <1>13 DEF vars
  <1> QED
    BY <1>1, <1>2, <1>3, <1>4, <1>5, <1>6, <1>7, <1>8, <1>9, <1>10, <1>11, <1>12, <1>13
    DEF Next, MainThread

-----------------------------------------------------------------------------
(* The dispatcher in the program. *)

LEMMA TypeInvariance == Init /\ [][Next]_vars => [](Local /\ DP!IInv)
  <1>1. Init => Local /\ DP!IInv
    <2>1. Init => DP!Init
      BY SameInit DEF Init
    <2>2. DP!Init => DP!IInv
      BY MainAssumption, DP!TypeInit, DP!AccountingInit, DP!OwnershipInit
      DEF DP!IInv, DP!Ownership
    <2> QED
      BY <2>1, <2>2, LocalInit
  <1>2. Local /\ DP!IInv /\ [Next]_vars => (Local /\ DP!IInv)'
    <2> SUFFICES ASSUME Local, DP!IInv, [Next]_vars
                 PROVE  (Local /\ DP!IInv)'
      OBVIOUS
    <2>1. D!TypeOK
      BY SameInvariants DEF DP!IInv
    <2>2. Local'
      BY <2>1, LocalStep
    <2>3. [DP!Next]_(DP!vars)
      BY DispatcherStep, SameStep DEF Local, HandsOK
    <2>4. DP!IInv'
      BY <2>3, MainAssumption, DP!TypeStep, DP!AccountingStep, DP!OwnershipStep
      DEF DP!IInv, DP!Ownership
    <2> QED
      BY <2>2, <2>4
  <1> QED
    BY <1>1, <1>2, PTL

(* Every variable of main() keeps its type, the report included, and the   *)
(* command queue stays within command_max_queue_depth.                     *)
THEOREM TypeCorrect == Spec => []TypeOK
  <1>1. Local => TypeOK
    BY DEF Local
  <1> QED
    BY <1>1, TypeInvariance, PTL DEF Spec

(* The program, with its signal, is a run of the dispatcher: main() calls  *)
(* start(), enqueue(), stop() and the destructor only where a caller may,  *)
(* and offers nothing but frames.                                          *)
THEOREM ProgramRunsDispatcher == Spec => D!Safety
  <1>1. Init => D!Init
    BY DEF Init
  <1>2. Local /\ [Next]_vars => [D!Next]_(D!vars)
    BY DispatcherStep DEF Local, HandsOK
  <1> QED
    BY <1>1, <1>2, TypeInvariance, PTL DEF Spec, D!Safety

(* In the program, too, every frame is counted once, the dispatch thread   *)
(* has its socket, and stop() leaves nothing behind.                       *)
THEOREM DispatcherSafeInProgram ==
  Spec => []D!TypeOK /\ []D!Accounting /\ []D!SocketLive /\ []D!NothingLeaks
  <1>1. DP!IInv => D!TypeOK /\ D!Accounting /\ D!SocketLive /\ D!NothingLeaks
    BY SameInvariants DEF DP!IInv
  <1> QED
    BY <1>1, TypeInvariance, PTL DEF Spec

-----------------------------------------------------------------------------
(* Where frames are between main() and the ground station, and how they    *)
(* move on.                                                                *)

AtGround == {wire} \ {NoFrame}
InThread == IF loop \in {"send", "failed"} THEN {frame} ELSE {}
Queued   == Elements(m_queue)
Made     == IF pc = "enqueue" THEN {tlm} ELSE {}

Carried == AtGround \cup InThread \cup Queued \cup Made

Stay     == UNCHANGED <<m_queue, AtGround, InThread, Made>>
Produced == /\ \E r \in Simulated(frame_id) : EvaluateFaults(r) /\ tlm' = FrameOf(r)
            /\ tlm' \in TelemetryFrames
            /\ frame_id' = frame_id + 1
            /\ Made = {} /\ Made' = {tlm'}
            /\ UNCHANGED <<m_queue, AtGround, InThread>>
Accepted == /\ Made = {tlm} /\ Made' = {} /\ m_queue' = Append(m_queue, tlm)
            /\ UNCHANGED <<AtGround, InThread>>
Refused  == Made' = {} /\ UNCHANGED <<m_queue, AtGround, InThread>>
Taken    == /\ m_queue # <<>> /\ m_queue' = Tail(m_queue)
            /\ InThread = {} /\ InThread' = {Head(m_queue)}
            /\ UNCHANGED <<AtGround, Made>>
Gone     == /\ InThread' = {}
            /\ AtGround' \in {AtGround, InThread}
            /\ UNCHANGED <<m_queue, Made>>

LEMMA ThreadMoves ==
  ASSUME DP!IInv, DispatchThread
  PROVE  /\ Stay \/ Taken \/ Gone
         /\ UNCHANGED <<cfg, frame_id, safe_mode, fault_code>>
  <1>1. Made' = Made /\ UNCHANGED <<cfg, frame_id, safe_mode, fault_code>>
    BY DEF DispatchThread, mainVars, frameVars, faultVars, Made
  <1> USE DEF AtGround, InThread
  <1>2. CASE D!LoopCheck \/ D!LoopWake
    BY <1>1, <1>2 DEF D!LoopCheck, D!LoopWake, Stay
  <1>3. CASE D!LoopPop
    BY <1>1, <1>3 DEF D!LoopPop, Stay, Taken
  <1>4. CASE D!LoopSend
    <2>1. frame \in TelemetryFrames
      BY <1>4 DEF D!LoopSend, DP!IInv, DP!HandOK
    <2>2. frame # NoFrame
      BY <2>1, MainAssumption
    <2> QED
      BY <1>1, <1>4, <2>2 DEF D!LoopSend, D!SendUdp, Stay, Gone
  <1>5. CASE D!LoopTerminate
    BY <1>1, <1>5 DEF D!LoopTerminate, Gone
  <1>6. CASE D!LoopCount
    BY <1>1, <1>6 DEF D!LoopCount, Gone
  <1> QED
    BY <1>2, <1>3, <1>4, <1>5, <1>6 DEF DispatchThread, D!DispatchLoop

LEMMA Moves ==
  ASSUME Local, DP!IInv, [Next]_vars
  PROVE  /\ cfg' = cfg
         /\ \/ Produced
            \/ UNCHANGED <<frame_id, safe_mode, fault_code>> /\ (Stay \/ Accepted \/ Refused \/ Taken \/ Gone)
  <1> USE DEF Running, mainVars, frameVars, faultVars, commandVars
  <1>a. ASSUME UNCHANGED <<m_queue, wire, frame, cfg, frame_id, safe_mode, fault_code>>,
               pc # "enqueue", pc' # "enqueue",
               loop' = loop \/ {loop, loop'} \cap {"send", "failed"} = {}
        PROVE  cfg' = cfg /\ UNCHANGED <<frame_id, safe_mode, fault_code>> /\ Stay
    BY <1>a DEF Stay, AtGround, InThread, Made
  <1>1. CASE StartDispatcher
    <2>1. loop = "none" \/ loop' = loop
      <3>1. owner = "idle" /\ ~m_running
        BY <1>1 DEF StartDispatcher, D!Start, D!StartWithoutSocket
      <3> QED
        BY <3>1 DEF DP!IInv, DP!NothingLeaks
    <2> QED
      BY <1>1, <1>a, <2>1
      DEF StartDispatcher, D!StartWithoutSocket, D!Start, D!countVars, D!threadVars
  <1>2. CASE InjectCmd \/ EnterLoop \/ DrainCommands \/ Sleep \/ LeaveLoop
    BY <1>2, <1>a
    DEF InjectCmd, EnterLoop, DrainCommands, Sleep, LeaveLoop, dispatcherVars
  <1>3. CASE ProduceFrame
    <2>1. PICK r \in Simulated(frame_id) : EvaluateFaults(r) /\ tlm' = FrameOf(r)
      BY <1>3 DEF ProduceFrame
    <2>2. tlm' \in TelemetryFrames
      BY <1>3, <2>1, MadeFrame DEF ProduceFrame, Local
    <2> QED
      BY <1>3, <2>1, <2>2
      DEF ProduceFrame, dispatcherVars, Produced, AtGround, InThread, Made
  <1>4. CASE EnqueueFrame
    BY <1>4 DEF EnqueueFrame, D!Enqueue, D!countVars, D!threadVars, Accepted, Refused,
                AtGround, InThread, Made
  <1>5. CASE StopDispatcher
    BY <1>5, <1>a DEF StopDispatcher, D!Stop, D!BeginStop, D!countVars, D!threadVars
  <1>6. CASE JoinDispatcher
    <2>1. loop \in {"none", "exited"} /\ loop' = "none"
      BY <1>6 DEF JoinDispatcher, D!FinishStop, D!ThreadAlive, DP!IInv, DP!HandOK
    <2> QED
      BY <1>6, <1>a, <2>1 DEF JoinDispatcher, D!FinishStop
  <1>7. CASE Report
    BY <1>7, <1>a DEF Report, D!Retire, D!threadVars
  <1>8. CASE Return
    BY <1>8, <1>a DEF Return, D!Destroy, D!BeginStop, D!threadVars
  <1>9. CASE DispatchThread
    BY <1>9, ThreadMoves
  <1>10. CASE Signal \/ UNCHANGED vars
    BY <1>10 DEF Signal, vars, dispatcherVars, Stay, AtGround, InThread, Made
  <1> QED
    BY <1>1, <1>2, <1>3, <1>4, <1>5, <1>6, <1>7, <1>8, <1>9, <1>10 DEF Next, MainThread

-----------------------------------------------------------------------------
(* What is said of the frames on their way. *)

Follows == {p \in TelemetryFrames \X TelemetryFrames : Before(p[1], p[2])}

AllBefore(A, B) == \A x \in A, y \in B : <<x, y>> \in Follows

(* They are frames that tell the truth under the configured name, they     *)
(* have the numbers main used, and none is in safe mode when main is not.  *)
Genuine ==
  \A f \in Carried :
    /\ f \in TelemetryFrames
    /\ Truthful(f)
    /\ f.satellite_id = cfg.satellite_name
    /\ f.frame_id < frame_id
    /\ f.safe_mode => safe_mode

(* What is further on its way was made earlier. *)
InOrder ==
  /\ Sorted(Follows, m_queue)
  /\ AllBefore(AtGround, InThread \cup Queued \cup Made)
  /\ AllBefore(InThread, Queued \cup Made)
  /\ AllBefore(Queued, Made)

LEMMA AppendElements ==
  ASSUME NEW S, NEW R, NEW q \in Seq(S), NEW x \in S
  PROVE  /\ Elements(Append(q, x)) = Elements(q) \cup {x}
         /\ Sorted(R, q) /\ (\A y \in Elements(q) : <<y, x>> \in R)
              => Sorted(R, Append(q, x))
  <1>1. /\ DOMAIN Append(q, x) = 1 .. Len(q) + 1 /\ Len(q) \in Nat
        /\ DOMAIN q = 1 .. Len(q)
        /\ Append(q, x)[Len(q) + 1] = x
        /\ \A i \in 1 .. Len(q) : Append(q, x)[i] = q[i]
    OBVIOUS
  <1>2. Elements(Append(q, x)) = Elements(q) \cup {x}
    BY <1>1 DEF Elements
  <1>3. ASSUME Sorted(R, q), \A y \in Elements(q) : <<y, x>> \in R
        PROVE  Sorted(R, Append(q, x))
    BY <1>1, <1>3 DEF Sorted, Elements
  <1> QED
    BY <1>2, <1>3

LEMMA TailElements ==
  ASSUME NEW S, NEW R, NEW q \in Seq(S), q # <<>>
  PROVE  /\ Elements(q) = {Head(q)} \cup Elements(Tail(q))
         /\ Sorted(R, q) => /\ Sorted(R, Tail(q))
                            /\ \A y \in Elements(Tail(q)) : <<Head(q), y>> \in R
  <1>1. /\ DOMAIN q = 1 .. Len(q) /\ Len(q) \in Nat /\ Len(q) > 0
        /\ DOMAIN Tail(q) = 1 .. Len(q) - 1
        /\ Head(q) = q[1]
        /\ \A i \in 1 .. Len(q) - 1 : Tail(q)[i] = q[i + 1]
    OBVIOUS
  <1>2. ASSUME NEW i \in DOMAIN q, i # 1
        PROVE  q[i] \in Elements(Tail(q))
    <2>1. i - 1 \in DOMAIN Tail(q) /\ Tail(q)[i - 1] = q[i]
      BY <1>1, <1>2
    <2> QED
      BY <2>1 DEF Elements
  <1>3. \A j \in DOMAIN Tail(q) : j + 1 \in DOMAIN q /\ Tail(q)[j] = q[j + 1] /\ 1 < j + 1
    BY <1>1
  <1>4. Elements(q) = {Head(q)} \cup Elements(Tail(q))
    BY <1>1, <1>2, <1>3 DEF Elements
  <1>5. ASSUME Sorted(R, q)
        PROVE  Sorted(R, Tail(q)) /\ \A y \in Elements(Tail(q)) : <<Head(q), y>> \in R
    <2>1. \A i, j \in DOMAIN Tail(q) : i < j => i + 1 < j + 1
      BY <1>1
    <2>2. Sorted(R, Tail(q))
      BY <1>3, <1>5, <2>1 DEF Sorted
    <2>3. 1 \in DOMAIN q
      BY <1>1
    <2> QED
      BY <1>1, <1>3, <1>5, <2>2, <2>3 DEF Sorted, Elements
  <1> QED
    BY <1>4, <1>5

LEMMA CarriedInit == Init => Genuine /\ InOrder
  BY DEF Init, D!Init, Genuine, InOrder, AllBefore, Sorted, Carried, AtGround, InThread,
         Queued, Made, Elements

(* Only main adds a frame, and it is the last one. *)
LEMMA CarriedMoves ==
  ASSUME Local, DP!IInv, InOrder, Genuine,
         Stay \/ Accepted \/ Refused \/ Taken \/ Gone
  PROVE  Carried' \subseteq Carried /\ InOrder'
  <1>1. m_queue \in Seq(TelemetryFrames)
    BY DEF DP!IInv, DP!TypeOK
  <1> USE DEF InOrder, AllBefore, Carried
  <1>2. CASE Stay
    BY <1>2 DEF Stay, Queued
  <1>3. CASE Accepted
    <2>1. tlm \in TelemetryFrames
      BY <1>3 DEF Accepted, Made, Local, HandsOK
    <2>2. m_queue' = Append(m_queue, tlm) /\ \A y \in Elements(m_queue) : <<y, tlm>> \in Follows
      BY <1>3 DEF Accepted, Queued
    <2>3. Sorted(Follows, m_queue)
      OBVIOUS
    <2>4. /\ Elements(Append(m_queue, tlm)) = Elements(m_queue) \cup {tlm}
          /\ Sorted(Follows, Append(m_queue, tlm))
      <3> HIDE DEF InOrder, AllBefore, Carried
      <3> QED
        BY <1>1, <2>1, <2>2, <2>3, AppendElements
    <2>5. Queued' = Queued \cup {tlm} /\ Sorted(Follows, m_queue')
      BY <2>2, <2>4 DEF Queued, Elements, Sorted
    <2> QED
      BY <1>3, <2>5 DEF Accepted
  <1>4. CASE Refused
    BY <1>4 DEF Refused, Queued
  <1>5. CASE Taken
    <2>1. /\ Queued = InThread' \cup Queued'
          /\ Sorted(Follows, m_queue')
          /\ \A x \in InThread', y \in Queued' : <<x, y>> \in Follows
      <3>1. /\ m_queue # <<>> /\ m_queue' = Tail(m_queue)
            /\ InThread' = {Head(m_queue)} /\ Sorted(Follows, m_queue)
        BY <1>5 DEF Taken
      <3> HIDE DEF InOrder, AllBefore, Carried
      <3>2. /\ Elements(m_queue) = {Head(m_queue)} \cup Elements(Tail(m_queue))
            /\ Sorted(Follows, Tail(m_queue))
            /\ \A y \in Elements(Tail(m_queue)) : <<Head(m_queue), y>> \in Follows
        BY <1>1, <3>1, TailElements
      <3>3. Queued' = Elements(Tail(m_queue)) /\ Queued = Elements(m_queue)
        BY <3>1 DEF Queued, Elements
      <3> QED
        BY <3>1, <3>2, <3>3 DEF Sorted
    <2> QED
      BY <1>5, <2>1 DEF Taken
  <1>6. CASE Gone
    BY <1>6 DEF Gone, Queued
  <1> QED
    BY <1>2, <1>3, <1>4, <1>5, <1>6

LEMMA TruthfulStays ==
  ASSUME cfg' = cfg, NEW f
  PROVE  Truthful(f)' <=> Truthful(f)
  BY DEF Truthful, Violation, Overload, Less

LEMMA CarriedProduced ==
  ASSUME Local, Genuine, InOrder, Produced, cfg' = cfg
  PROVE  Genuine' /\ InOrder'
  <1>1. PICK r \in Simulated(frame_id) : EvaluateFaults(r) /\ tlm' = FrameOf(r)
    BY DEF Produced
  <1>2. frame_id \in Nat /\ frame_id' = frame_id + 1 /\ safe_mode \in BOOLEAN
    BY MainAssumption DEF Local, TypeOK, Produced
  <1>3. /\ fault_active' <=> Violation(r)
        /\ fault_active' => fault_code' # NONE
        /\ Overload(r) => safe_mode'
        /\ safe_mode => safe_mode'
    BY <1>1, FlagsOf DEF Local, TypeOK
  <1>4. /\ tlm'.frame_id = frame_id
        /\ tlm'.satellite_id = cfg.satellite_name
        /\ tlm'.readings = r
        /\ tlm'.fault_active = fault_active'
        /\ tlm'.safe_mode = safe_mode'
        /\ tlm'.last_fault_code = fault_code'
    BY <1>1 DEF FrameOf
  <1> DEFINE t == tlm'
  <1>5. t \in TelemetryFrames
    BY DEF Produced
  <1>6. Truthful(t)
    BY <1>3, <1>4 DEF Truthful
  <1>7. Carried' = Carried \cup {t}
    BY DEF Produced, Carried, Queued
  <1>8. ASSUME NEW f \in Carried
        PROVE  <<f, t>> \in Follows
    <2>1. f \in TelemetryFrames /\ f.frame_id < frame_id /\ (f.safe_mode => safe_mode)
      BY DEF Genuine
    <2>2. Before(f, t)
      BY <1>3, <1>4, <2>1 DEF Before
    <2> QED
      BY <1>5, <2>1, <2>2 DEF Follows
  <1> HIDE DEF t
  <1>9. Genuine'
    <2> SUFFICES ASSUME NEW f \in Carried'
                 PROVE  /\ f \in TelemetryFrames
                        /\ Truthful(f)'
                        /\ f.satellite_id = cfg'.satellite_name
                        /\ f.frame_id < frame_id'
                        /\ f.safe_mode => safe_mode'
      BY DEF Genuine
    <2>1. CASE f = t
      BY <1>2, <1>4, <1>5, <1>6, <2>1, TruthfulStays DEF t
    <2>2. CASE f \in Carried
      <3>1. /\ f \in TelemetryFrames /\ Truthful(f) /\ f.satellite_id = cfg.satellite_name
            /\ f.frame_id < frame_id /\ (f.safe_mode => safe_mode)
        BY <2>2 DEF Genuine
      <3>2. f.frame_id \in Int
        BY <3>1, MainAssumption DEF TelemetryFrames
      <3> QED
        BY <1>2, <1>3, <3>1, <3>2, TruthfulStays
    <2> QED
      BY <1>7, <2>1, <2>2
  <1>10. InOrder'
    BY <1>8 DEF Produced, InOrder, AllBefore, Carried, Queued, t
  <1> QED
    BY <1>9, <1>10

LEMMA CarriedStep ==
  ASSUME Local, DP!IInv, Genuine, InOrder, [Next]_vars
  PROVE  Genuine' /\ InOrder'
  <1>1. CASE Produced
    BY <1>1, Moves, CarriedProduced
  <1>2. CASE UNCHANGED <<frame_id, safe_mode, fault_code>> /\ (Stay \/ Accepted \/ Refused \/ Taken \/ Gone)
    <2>1. Carried' \subseteq Carried /\ InOrder'
      BY <1>2, CarriedMoves
    <2>2. cfg' = cfg
      BY Moves
    <2>3. Genuine'
      BY <1>2, <2>1, <2>2, TruthfulStays DEF Genuine
    <2> QED
      BY <2>1, <2>3
  <1> QED
    BY <1>1, <1>2, Moves

LEMMA CarriedInvariance == Init /\ [][Next]_vars => [](Local /\ DP!IInv /\ Genuine /\ InOrder)
  <1>1. Init => Genuine /\ InOrder
    BY CarriedInit
  <1>2. Local /\ DP!IInv /\ Genuine /\ InOrder /\ [Next]_vars => (Genuine /\ InOrder)'
    BY CarriedStep
  <1> QED
    BY <1>1, <1>2, TypeInvariance, PTL

-----------------------------------------------------------------------------
(* The telemetry on its way down is what is carried, in that order. *)
LEMMA DownlinkIs ==
  ASSUME Local, DP!IInv, Genuine, InOrder
  PROVE  /\ Downlink \in Seq(TelemetryFrames)
         /\ Elements(Downlink) \subseteq Carried
         /\ Sorted(Follows, Downlink)
  <1> DEFINE w == IF wire = NoFrame THEN <<>> ELSE <<wire>>
             h == IF loop \in {"send", "failed"} THEN <<frame>> ELSE <<>>
             m == IF pc = "enqueue" THEN <<tlm>> ELSE <<>>
  <1>1. m_queue \in Seq(TelemetryFrames)
    BY DEF DP!IInv, DP!TypeOK
  <1>2. /\ w \in Seq(TelemetryFrames) /\ Elements(w) = AtGround /\ Sorted(Follows, w)
        /\ h \in Seq(TelemetryFrames) /\ Elements(h) = InThread /\ Sorted(Follows, h)
        /\ m \in Seq(TelemetryFrames) /\ Elements(m) = Made /\ Sorted(Follows, m)
    <2>1. ASSUME NEW x \in TelemetryFrames
          PROVE  /\ <<x>> \in Seq(TelemetryFrames)
                 /\ Elements(<<x>>) = {x}
                 /\ Sorted(Follows, <<x>>)
      BY DEF Elements, Sorted
    <2>2. <<>> \in Seq(TelemetryFrames) /\ Elements(<<>>) = {} /\ Sorted(Follows, <<>>)
      BY DEF Elements, Sorted
    <2>3. /\ wire # NoFrame => wire \in TelemetryFrames
          /\ loop \in {"send", "failed"} => frame \in TelemetryFrames
          /\ pc = "enqueue" => tlm \in TelemetryFrames
      BY DEF Genuine, Carried, AtGround, InThread, Made
    <2> QED
      BY <2>1, <2>2, <2>3 DEF AtGround, InThread, Made
  <1>3. Downlink = ((w \o h) \o m_queue) \o m
    BY DEF Downlink
  <1> HIDE DEF w, h, m
  <1>a. ASSUME NEW s \in Seq(TelemetryFrames), NEW t \in Seq(TelemetryFrames),
               Sorted(Follows, s), Sorted(Follows, t), AllBefore(Elements(s), Elements(t))
        PROVE  /\ s \o t \in Seq(TelemetryFrames)
               /\ Elements(s \o t) = Elements(s) \cup Elements(t)
               /\ Sorted(Follows, s \o t)
    <2>1. \A i \in DOMAIN s, j \in DOMAIN t : <<s[i], t[j]>> \in Follows
      BY <1>a DEF AllBefore, Elements
    <2>2. Sorted(Follows, s \o t)
      BY <1>a, <2>1, ConcatSorted
    <2>3. s \o t \in Seq(TelemetryFrames) /\ Elements(s \o t) = Elements(s) \cup Elements(t)
      BY ConcatMembers
    <2> QED
      BY <2>2, <2>3
  <1>4. /\ AllBefore(AtGround, InThread)
        /\ AllBefore(AtGround \cup InThread, Queued)
        /\ AllBefore(AtGround \cup InThread \cup Queued, Made)
    BY DEF InOrder, AllBefore
  <1>5. /\ w \o h \in Seq(TelemetryFrames)
        /\ Elements(w \o h) = AtGround \cup InThread
        /\ Sorted(Follows, w \o h)
    BY <1>2, <1>4, <1>a
  <1>6. /\ (w \o h) \o m_queue \in Seq(TelemetryFrames)
        /\ Elements((w \o h) \o m_queue) = AtGround \cup InThread \cup Queued
        /\ Sorted(Follows, (w \o h) \o m_queue)
    BY <1>1, <1>4, <1>5, <1>a DEF InOrder, Queued
  <1>7. /\ ((w \o h) \o m_queue) \o m \in Seq(TelemetryFrames)
        /\ Elements(((w \o h) \o m_queue) \o m) = Carried
        /\ Sorted(Follows, ((w \o h) \o m_queue) \o m)
    BY <1>2, <1>4, <1>6, <1>a DEF Carried
  <1> QED
    BY <1>3, <1>7

(* Frames reach the ground station in the order main() numbered them, and  *)
(* none after a frame in safe mode is out of it, however main(), its       *)
(* signal and the dispatch thread interleave and whatever is dropped.      *)
THEOREM TelemetryInOrder == Spec => []DownlinkOrdered
  <1>1. Local /\ DP!IInv /\ Genuine /\ InOrder => DownlinkOrdered
    BY DownlinkIs DEF Sorted, Follows, DownlinkOrdered
  <1> QED
    BY <1>1, CarriedInvariance, PTL DEF Spec

(* The flags of every frame on its way speak of the readings in it, for    *)
(* all thresholds that load() lets through.                                *)
THEOREM FlagsTruthful == Spec => []FlagsMatchReadings
  <1>1. Local /\ DP!IInv /\ Genuine /\ InOrder => FlagsMatchReadings
    BY DownlinkIs DEF Elements, Genuine, FlagsMatchReadings
  <1> QED
    BY <1>1, CarriedInvariance, PTL DEF Spec

-----------------------------------------------------------------------------
(* What the flags remember. *)

Overloaded(id) == \E r \in Simulated(id) : Overload(r)

(* The simulated loads are a matter of the frame's number alone. *)
LEMMA SameLoads ==
  ASSUME NEW id, NEW r \in Simulated(id)
  PROVE  Overload(r) <=> Overloaded(id)
  <1>1. \A x \in Simulated(id) : /\ x.cpu_usage_pct = 30 + (id % CpuCycle)
                                 /\ x.memory_usage_pct = 40 + (id % MemoryCycle)
    BY DEF Simulated
  <1> QED
    BY <1>1 DEF Overload, Overloaded

(* So it is with main's own variables, which are those of the last frame   *)
(* it made, and with the frames on their way.                              *)
Remembered ==
  /\ safe_mode <=> \E id \in 0 .. frame_id - 1 : Overloaded(id)
  /\ \A f \in Carried : f.safe_mode <=> \E id \in 0 .. f.frame_id : Overloaded(id)
  /\ \A f \in Carried : f.frame_id + 1 = frame_id => f.last_fault_code = fault_code
  /\ \A f, g \in Carried :
       g.frame_id = f.frame_id + 1 /\ ~g.fault_active => g.last_fault_code = f.last_fault_code

LEMMA RememberedInit == Init => Remembered
  BY DEF Init, D!Init, Remembered, Carried, AtGround, InThread, Queued, Made, Elements

LEMMA OverloadedStays ==
  ASSUME cfg' = cfg, NEW id
  PROVE  Overloaded(id)' <=> Overloaded(id)
  BY DEF Overloaded, Overload, Simulated

LEMMA RememberedProduced ==
  ASSUME Local, Genuine, Remembered, Produced, cfg' = cfg
  PROVE  Remembered'
  <1>1. PICK r \in Simulated(frame_id) : EvaluateFaults(r) /\ tlm' = FrameOf(r)
    BY DEF Produced
  <1>2. frame_id \in Nat /\ frame_id' = frame_id + 1
    BY MainAssumption DEF Local, TypeOK, Produced
  <1>3. /\ safe_mode' <=> safe_mode \/ Overload(r)
        /\ ~fault_active' => fault_code' = fault_code
    BY <1>1, FlagsOf DEF Local, TypeOK
  <1> DEFINE t == tlm'
  <1>4. /\ t.frame_id = frame_id
        /\ t.fault_active = fault_active'
        /\ t.safe_mode = safe_mode'
        /\ t.last_fault_code = fault_code'
    BY <1>1 DEF FrameOf
  <1>5. Carried' = Carried \cup {t}
    BY DEF Produced, Carried, Queued
  <1>6. \A f \in Carried : f.frame_id \in Int /\ f.frame_id < frame_id
    BY MainAssumption DEF Genuine, TelemetryFrames
  <1> HIDE DEF t
  <1>7. safe_mode' <=> \E id \in 0 .. frame_id : Overloaded(id)
    <2>1. Overload(r) <=> Overloaded(frame_id)
      BY <1>1, SameLoads
    <2>2. 0 .. frame_id = (0 .. frame_id - 1) \cup {frame_id}
      BY <1>2
    <2> QED
      BY <1>3, <2>1, <2>2 DEF Remembered
  <1>8. (safe_mode <=> \E id \in 0 .. frame_id - 1 : Overloaded(id))'
    <2>1. frame_id' - 1 = frame_id
      BY <1>2
    <2> QED
      BY <1>7, <2>1, OverloadedStays
  <1>9. ASSUME NEW f \in Carried'
        PROVE  (f.safe_mode <=> \E id \in 0 .. f.frame_id : Overloaded(id)')
    <2>1. CASE f = t
      BY <1>4, <1>7, <2>1, OverloadedStays
    <2>2. CASE f \in Carried
      BY <2>2, OverloadedStays DEF Remembered
    <2> QED
      BY <1>5, <2>1, <2>2
  <1>10. ASSUME NEW f \in Carried', f.frame_id + 1 = frame_id'
         PROVE  f.last_fault_code = fault_code'
    <2>1. f = t
      BY <1>2, <1>5, <1>6, <1>10
    <2> QED
      BY <1>4, <2>1
  <1>11. ASSUME NEW f \in Carried', NEW g \in Carried',
                g.frame_id = f.frame_id + 1, ~g.fault_active
         PROVE  g.last_fault_code = f.last_fault_code
    <2>1. CASE g = t
      <3>1. f \in Carried /\ f.frame_id + 1 = frame_id
        BY <1>2, <1>4, <1>5, <1>11, <2>1
      <3> QED
        BY <1>3, <1>4, <1>11, <2>1, <3>1 DEF Remembered
    <2>2. CASE g \in Carried
      <3>1. f \in Carried
        BY <1>2, <1>4, <1>5, <1>6, <1>11, <2>2
      <3> QED
        BY <1>11, <2>2, <3>1 DEF Remembered
    <2> QED
      BY <1>5, <2>1, <2>2
  <1> QED
    BY <1>8, <1>9, <1>10, <1>11 DEF Remembered

LEMMA RememberedStep ==
  ASSUME Local, DP!IInv, Genuine, InOrder, Remembered, [Next]_vars
  PROVE  Remembered'
  <1>1. cfg' = cfg
    BY Moves
  <1>2. CASE Produced
    BY <1>1, <1>2, RememberedProduced
  <1>3. CASE /\ UNCHANGED <<frame_id, safe_mode, fault_code>>
             /\ Stay \/ Accepted \/ Refused \/ Taken \/ Gone
    <2>1. Carried' \subseteq Carried
      BY <1>3, CarriedMoves
    <2>2. \A id : Overloaded(id)' <=> Overloaded(id)
      BY <1>1, OverloadedStays
    <2> QED
      BY <1>3, <2>1, <2>2 DEF Remembered
  <1> QED
    BY <1>2, <1>3, Moves

LEMMA RememberedInvariance ==
  Init /\ [][Next]_vars => [](Local /\ DP!IInv /\ Genuine /\ InOrder /\ Remembered)
  <1>1. Local /\ DP!IInv /\ Genuine /\ InOrder /\ Remembered /\ [Next]_vars => Remembered'
    BY RememberedStep
  <1> QED
    BY <1>1, RememberedInit, CarriedInvariance, PTL

(* Safe mode is entered in an overload, also in one whose frame never got  *)
(* down, and in nothing else, it is never left, and the code of the last   *)
(* fault stays until the next: for every configuration, orbit and cycle of *)
(* the loads, and whatever frames are dropped.                             *)
THEOREM FlagsRemembered == Spec => []FlagsRemember
  <1>1. Local /\ DP!IInv /\ Genuine /\ InOrder /\ Remembered => FlagsRemember
    <2> SUFFICES ASSUME Local, DP!IInv, Genuine, InOrder, Remembered,
                        NEW i \in DOMAIN Downlink, NEW j \in DOMAIN Downlink
                 PROVE  /\ Downlink[i].safe_mode <=>
                             \E id \in 0 .. Downlink[i].frame_id :
                               \E r \in Simulated(id) : Overload(r)
                        /\ Downlink[j].frame_id = Downlink[i].frame_id + 1
                             /\ ~Downlink[j].fault_active =>
                             Downlink[j].last_fault_code = Downlink[i].last_fault_code
      BY DEF FlagsRemember
    <2>1. Downlink[i] \in Carried /\ Downlink[j] \in Carried
      BY DownlinkIs DEF Elements
    <2> QED
      BY <2>1 DEF Remembered, Overloaded
  <1> QED
    BY <1>1, RememberedInvariance, PTL DEF Spec

(* With limits that the simulated loads do not reach, such as the default  *)
(* ones, no frame ever reports safe mode.                                  *)
THEOREM NoSpuriousSafeMode ==
  ASSUME \A c \in Configurations :
           /\ c.cpu_usage_max_pct \in Int /\ c.cpu_usage_max_pct >= 29 + CpuCycle
           /\ c.memory_usage_max_pct \in Int /\ c.memory_usage_max_pct >= 39 + MemoryCycle
  PROVE  Spec => [](\A i \in DOMAIN Downlink : ~Downlink[i].safe_mode)
  <1>1. ASSUME Local, DP!IInv, Genuine, InOrder, Remembered, NEW i \in DOMAIN Downlink
        PROVE  ~Downlink[i].safe_mode
    <2> DEFINE f == Downlink[i]
    <2>1. f \in Carried
      BY <1>1, DownlinkIs DEF Elements
    <2>2. f.frame_id \in Nat
      BY <1>1, <2>1, MainAssumption DEF Genuine, TelemetryFrames
    <2>3. ASSUME NEW id \in 0 .. f.frame_id, NEW r \in Simulated(id)
          PROVE  ~Overload(r)
      <3>1. /\ r.cpu_usage_pct = 30 + (id % CpuCycle)
            /\ r.memory_usage_pct = 40 + (id % MemoryCycle)
        BY <2>3 DEF Simulated
      <3>2. id % CpuCycle \in 0 .. CpuCycle - 1 /\ id % MemoryCycle \in 0 .. MemoryCycle - 1
        <4>1. /\ id \in Int /\ CpuCycle \in Int /\ CpuCycle > 0
              /\ MemoryCycle \in Int /\ MemoryCycle > 0
          BY <2>2, MainAssumption
        <4> QED
          BY <4>1
      <3>3. /\ cfg.cpu_usage_max_pct \in Int /\ cfg.cpu_usage_max_pct >= 29 + CpuCycle
            /\ cfg.memory_usage_max_pct \in Int
            /\ cfg.memory_usage_max_pct >= 39 + MemoryCycle
        BY <1>1 DEF Local, TypeOK
      <3>4. CpuCycle \in Int /\ MemoryCycle \in Int
        BY MainAssumption
      <3> QED
        BY <3>1, <3>2, <3>3, <3>4 DEF Overload
    <2>4. f.safe_mode <=> \E id \in 0 .. f.frame_id : Overloaded(id)
      BY <1>1, <2>1 DEF Remembered
    <2> QED
      BY <2>3, <2>4 DEF Overloaded
  <1>2. Local /\ DP!IInv /\ Genuine /\ InOrder /\ Remembered =>
          \A i \in DOMAIN Downlink : ~Downlink[i].safe_mode
    BY <1>1
  <1> QED
    BY <1>2, RememberedInvariance, PTL DEF Spec

-----------------------------------------------------------------------------
(* The final report. *)

Settled == m_frames_sent + m_frames_dropped + Len(m_queue) + D!InHand
Handed  == frame_id - IF pc = "enqueue" THEN 1 ELSE 0

(* As long as the counters do not wrap, they count what main handed over. *)
Balanced == Settled = Handed

(* After stop() the dispatcher is not started again, and once the report   *)
(* has been made nothing changes it.                                       *)
ShutDown ==
  /\ pc \in {"join", "report", "return", "exited"} => ~m_running
  /\ owner # "terminated" =>
       /\ pc = "join" => owner = "stopping"
       /\ pc \in {"report", "return"} => owner = "idle"
       /\ pc = "exited" => owner = "destroyed"
       /\ pc \in {"return", "exited"} =>
            report = [sent |-> m_frames_sent, dropped |-> m_frames_dropped]

LEMMA ShutDownInit == Init => ShutDown
  BY DEF Init, ShutDown

LEMMA ShutDownStep ==
  ASSUME DP!IInv, ShutDown, [Next]_vars
  PROVE  ShutDown'
  <1> USE DEF ShutDown, Running, mainVars, frameVars, faultVars, commandVars
  <1>1. CASE StartDispatcher
    BY <1>1 DEF StartDispatcher
  <1>2. CASE InjectCmd \/ EnterLoop \/ DrainCommands \/ Sleep \/ LeaveLoop \/ ProduceFrame
    BY <1>2
    DEF InjectCmd, EnterLoop, DrainCommands, Sleep, LeaveLoop, ProduceFrame, dispatcherVars
  <1>3. CASE EnqueueFrame
    BY <1>3 DEF EnqueueFrame
  <1>4. CASE StopDispatcher
    BY <1>4 DEF StopDispatcher, D!Stop, D!BeginStop
  <1>5. CASE JoinDispatcher
    BY <1>5 DEF JoinDispatcher, D!FinishStop
  <1>6. CASE Report
    BY <1>6 DEF Report, D!Retire, D!ownerVars, D!countVars
  <1>7. CASE Return
    BY <1>7 DEF Return, D!Destroy, D!BeginStop, D!countVars
  <1>8. CASE DispatchThread
    <2>1. owner' = owner \/ owner' = "terminated"
      BY <1>8 DEF DispatchThread, D!DispatchLoop, D!LoopCheck, D!LoopWake, D!LoopPop,
                  D!LoopSend, D!LoopTerminate, D!LoopCount, D!ownerVars
    <2>2. m_running' = m_running
      BY <1>8 DEF DispatchThread, D!DispatchLoop, D!LoopCheck, D!LoopWake, D!LoopPop,
                  D!LoopSend, D!LoopTerminate, D!LoopCount, D!ownerVars
    <2>3. loop # "none"
      BY <1>8 DEF DispatchThread, D!DispatchLoop, D!LoopCheck, D!LoopWake, D!LoopPop,
                  D!LoopSend, D!LoopTerminate, D!LoopCount
    <2>4. owner # "terminated" => pc \notin {"return", "exited"}
      BY <2>3 DEF DP!IInv, DP!NothingLeaks
    <2>5. owner = "terminated" => owner' = "terminated"
      BY <1>8 DEF DispatchThread, D!DispatchLoop, D!LoopCheck, D!LoopWake, D!LoopPop,
                  D!LoopSend, D!LoopTerminate, D!LoopCount, D!ownerVars
    <2> QED
      BY <1>8, <2>1, <2>2, <2>4, <2>5 DEF DispatchThread
  <1>9. CASE Signal \/ UNCHANGED vars
    BY <1>9 DEF Signal, vars, dispatcherVars
  <1> QED
    BY <1>1, <1>2, <1>3, <1>4, <1>5, <1>6, <1>7, <1>8, <1>9 DEF Next, MainThread

LEMMA BalancedInit == Init => Balanced
  BY DEF Init, D!Init, Balanced, Settled, Handed, D!InHand, D!FrameInHand

LEMMA BalancedStep ==
  ASSUME MaxFrames < CounterMod, Local, DP!IInv, Balanced, [Next]_vars
  PROVE  Balanced'
  <1>1. /\ m_frames_sent \in Nat /\ m_frames_dropped \in Nat
        /\ m_queue \in Seq(TelemetryFrames) /\ Len(m_queue) \in Nat
        /\ D!InHand \in {0, 1} /\ frame_id \in 0 .. MaxFrames
        /\ MaxFrames \in Nat /\ CounterMod \in Nat
        /\ MaxQueueDepth \in Nat
    BY MainAssumption DEF DP!IInv, DP!TypeOK, Local, TypeOK, D!InHand
  <1>2. Settled = Handed /\ Handed <= MaxFrames /\ Handed \in Int
    BY <1>1 DEF Balanced, Handed
  <1>a. ASSUME UNCHANGED <<m_frames_sent, m_frames_dropped, m_queue>>,
               D!FrameInHand' = D!FrameInHand, Handed' = Handed
        PROVE  Balanced'
    BY <1>a DEF Balanced, Settled, D!InHand
  <1> USE DEF Running, mainVars, frameVars, D!FrameInHand
  <1>3. CASE StartDispatcher
    <2>1. loop = "none"
      <3>1. owner = "idle" /\ ~m_running
        BY <1>3 DEF StartDispatcher, D!Start, D!StartWithoutSocket
      <3> QED
        BY <3>1 DEF DP!IInv, DP!NothingLeaks
    <2> QED
      BY <1>3, <1>a, <2>1
      DEF StartDispatcher, D!StartWithoutSocket, D!Start, D!countVars, D!threadVars, Handed
  <1>4. CASE InjectCmd \/ EnterLoop \/ DrainCommands \/ Sleep \/ LeaveLoop
    BY <1>4, <1>a
    DEF InjectCmd, EnterLoop, DrainCommands, Sleep, LeaveLoop, dispatcherVars, Handed
  <1>5. CASE ProduceFrame
    <2>1. Handed' = Handed
      BY <1>1, <1>5 DEF ProduceFrame, Handed
    <2> QED
      BY <1>5, <1>a, <2>1 DEF ProduceFrame, dispatcherVars
  <1>6. CASE EnqueueFrame
    <2>1. /\ Handed' = Handed + 1 /\ Handed < MaxFrames
          /\ UNCHANGED <<m_frames_sent, loop>>
      BY <1>1, <1>6 DEF EnqueueFrame, D!Enqueue, D!countVars, D!threadVars, Handed
    <2>2. D!InHand' = D!InHand
      BY <2>1 DEF D!InHand
    <2>3. CASE Len(m_queue) < MaxQueueDepth
      <3>1. Len(m_queue') = Len(m_queue) + 1 /\ m_frames_dropped' = m_frames_dropped
        BY <1>1, <1>6, <2>3 DEF EnqueueFrame, D!Enqueue, D!countVars
      <3> QED
        BY <1>1, <1>2, <2>1, <2>2, <3>1 DEF Balanced, Settled
    <2>4. CASE Len(m_queue) >= MaxQueueDepth
      <3>1. m_queue' = m_queue /\ m_frames_dropped' = D!Inc(m_frames_dropped, CounterMod)
        BY <1>1, <1>6, <2>4 DEF EnqueueFrame, D!Enqueue
      <3>2. m_frames_dropped < CounterMod - 1
        BY <1>1, <1>2, <2>1 DEF Settled
      <3>3. m_frames_dropped' = m_frames_dropped + 1
        BY <1>1, <3>1, <3>2 DEF D!Inc
      <3> QED
        BY <1>1, <1>2, <2>1, <2>2, <3>1, <3>3 DEF Balanced, Settled
    <2> QED
      BY <1>1, <2>3, <2>4
  <1>7. CASE StopDispatcher
    BY <1>7, <1>a
    DEF StopDispatcher, D!Stop, D!BeginStop, D!countVars, D!threadVars, Handed
  <1>8. CASE JoinDispatcher
    <2>1. loop \in {"none", "exited"} /\ loop' = "none"
      BY <1>8 DEF JoinDispatcher, D!FinishStop, D!ThreadAlive, DP!IInv, DP!HandOK
    <2> QED
      BY <1>8, <1>a, <2>1 DEF JoinDispatcher, D!FinishStop, D!countVars, Handed
  <1>9. CASE Report \/ Return
    BY <1>9, <1>a
    DEF Report, Return, D!Retire, D!Destroy, D!BeginStop, D!countVars, D!threadVars, Handed
  <1>10. CASE DispatchThread
    <2>1. Handed' = Handed
      BY <1>10 DEF DispatchThread, Handed
    <2>2. CASE D!LoopCheck \/ D!LoopWake \/ D!LoopSend \/ D!LoopTerminate
      BY <1>a, <2>1, <2>2
      DEF D!LoopCheck, D!LoopWake, D!LoopSend, D!SendUdp, D!LoopTerminate, D!countVars
    <2>3. CASE D!LoopPop
      <3>1. CASE m_queue = <<>>
        BY <1>a, <2>1, <2>3, <3>1 DEF D!LoopPop, D!countVars
      <3>2. CASE m_queue # <<>>
        <4>1. Len(m_queue') = Len(m_queue) - 1
          BY <1>1, <2>3, <3>2 DEF D!LoopPop
        <4>2. D!InHand = 0 /\ D!InHand' = 1
          BY <2>3, <3>2 DEF D!LoopPop, D!InHand
        <4>3. UNCHANGED <<m_frames_sent, m_frames_dropped>>
          BY <2>3 DEF D!LoopPop, D!countVars
        <4> QED
          BY <1>1, <1>2, <2>1, <4>1, <4>2, <4>3 DEF Balanced, Settled
      <3> QED
        BY <3>1, <3>2
    <2>4. CASE D!LoopCount
      <3>1. D!InHand = 1 /\ D!InHand' = 0 /\ m_queue' = m_queue
        BY <2>4 DEF D!LoopCount, D!InHand
      <3>2. m_frames_sent < CounterMod - 1 /\ m_frames_dropped < CounterMod - 1
        BY <1>1, <1>2, <3>1 DEF Settled
      <3>3. \/ m_frames_sent' = m_frames_sent + 1 /\ m_frames_dropped' = m_frames_dropped
            \/ m_frames_sent' = m_frames_sent /\ m_frames_dropped' = m_frames_dropped + 1
        BY <1>1, <2>4, <3>2 DEF D!LoopCount, D!Inc
      <3> QED
        BY <1>1, <1>2, <2>1, <3>1, <3>3 DEF Balanced, Settled
    <2> QED
      BY <1>10, <2>2, <2>3, <2>4 DEF DispatchThread, D!DispatchLoop
  <1>11. CASE Signal \/ UNCHANGED vars
    BY <1>11, <1>a DEF Signal, vars, dispatcherVars, Handed
  <1> QED
    BY <1>3, <1>4, <1>5, <1>6, <1>7, <1>8, <1>9, <1>10, <1>11 DEF Next, MainThread

(* The numbers main() prints at the end are final, and with the frames     *)
(* still queued they account for every frame, for any number of frames     *)
(* that the counters can count.                                            *)
THEOREM ReportCorrect ==
  ASSUME MaxFrames < CounterMod
  PROVE  Spec => []ReportAccounts
  <1>1. Init => ShutDown /\ Balanced
    BY ShutDownInit, BalancedInit
  <1>2. Local /\ DP!IInv /\ ShutDown /\ Balanced /\ [Next]_vars => (ShutDown /\ Balanced)'
    BY ShutDownStep, BalancedStep
  <1>3. Local /\ DP!IInv /\ ShutDown /\ Balanced => ReportAccounts
    <2> SUFFICES ASSUME Local, DP!IInv, ShutDown, Balanced,
                        pc \in {"return", "exited"}, owner # "terminated"
                 PROVE  /\ report.sent + report.dropped + Len(m_queue) = frame_id
                        /\ report = [sent |-> m_frames_sent, dropped |-> m_frames_dropped]
      BY DEF ReportAccounts
    <2>1. report = [sent |-> m_frames_sent, dropped |-> m_frames_dropped]
      BY DEF ShutDown
    <2>2. loop = "none"
      BY DEF ShutDown, DP!IInv, DP!NothingLeaks
    <2>3. D!InHand = 0 /\ Handed = frame_id
      <3>1. frame_id \in Int
        BY MainAssumption DEF Local, TypeOK
      <3> QED
        BY <2>2, <3>1 DEF D!InHand, D!FrameInHand, Handed
    <2>4. /\ m_frames_sent \in Int /\ m_frames_dropped \in Int /\ Len(m_queue) \in Int
      BY DEF DP!IInv, DP!TypeOK
    <2> QED
      BY <2>1, <2>3, <2>4 DEF Balanced, Settled
  <1> QED
    BY <1>1, <1>2, <1>3, TypeInvariance, PTL DEF Spec

-----------------------------------------------------------------------------
(* The end of the program. *)

(* No thread outlives it. *)
Over ==
  /\ owner = "terminated" => loop = "terminated"
  /\ pc = "terminated" => loop = "none"

LEMMA OverInit == Init => Over
  BY DEF Init, D!Init, Over

LEMMA OverStep ==
  ASSUME DP!IInv, Over, [Next]_vars
  PROVE  Over'
  <1> USE DEF Over, Running, mainVars
  <1>1. CASE StartDispatcher
    <2>1. owner = "idle" /\ ~m_running /\ owner' = owner
      BY <1>1 DEF StartDispatcher, D!Start, D!StartWithoutSocket
    <2>2. loop = "none"
      BY <2>1 DEF DP!IInv, DP!NothingLeaks
    <2>3. started' = "returned" \/ loop' = loop
      BY <1>1 DEF StartDispatcher, D!Start, D!StartWithoutSocket, D!threadVars
    <2> QED
      BY <1>1, <2>1, <2>2, <2>3 DEF StartDispatcher
  <1>2. CASE InjectCmd \/ EnterLoop \/ DrainCommands \/ Sleep \/ LeaveLoop \/ ProduceFrame
    BY <1>2
    DEF InjectCmd, EnterLoop, DrainCommands, Sleep, LeaveLoop, ProduceFrame, dispatcherVars
  <1>3. CASE EnqueueFrame
    BY <1>3 DEF EnqueueFrame, D!Enqueue, D!ownerVars, D!threadVars
  <1>4. CASE StopDispatcher
    BY <1>4 DEF StopDispatcher, D!Stop, D!BeginStop, D!threadVars
  <1>5. CASE JoinDispatcher
    BY <1>5 DEF JoinDispatcher, D!FinishStop
  <1>6. CASE Report
    BY <1>6 DEF Report, D!Retire, D!ownerVars, D!threadVars
  <1>7. CASE Return
    BY <1>7 DEF Return, D!Destroy, D!BeginStop, D!threadVars
  <1>8. CASE DispatchThread
    <2>1. \/ D!LoopTerminate
          \/ owner' = owner /\ loop # "terminated"
      BY <1>8 DEF DispatchThread, D!DispatchLoop, D!LoopCheck, D!LoopWake, D!LoopPop,
                  D!LoopSend, D!LoopCount, D!ownerVars
    <2>2. loop # "none" /\ pc' = pc
      BY <1>8 DEF DispatchThread, D!DispatchLoop, D!LoopCheck, D!LoopWake, D!LoopPop,
                  D!LoopSend, D!LoopTerminate, D!LoopCount
    <2> QED
      BY <2>1, <2>2 DEF D!LoopTerminate
  <1>9. CASE Signal \/ UNCHANGED vars
    BY <1>9 DEF Signal, vars, dispatcherVars
  <1> QED
    BY <1>1, <1>2, <1>3, <1>4, <1>5, <1>6, <1>7, <1>8, <1>9 DEF Next, MainThread

LEMMA EndInvariance == Init /\ [][Next]_vars => [](Local /\ DP!IInv /\ ShutDown /\ Over)
  <1>1. Init => ShutDown /\ Over
    BY ShutDownInit, OverInit
  <1>2. Local /\ DP!IInv /\ ShutDown /\ Over /\ [Next]_vars => (ShutDown /\ Over)'
    BY ShutDownStep, OverStep
  <1> QED
    BY <1>1, <1>2, TypeInvariance, PTL

-----------------------------------------------------------------------------
(* An end by exception. *)

(* Before start() has returned nothing happens. *)
Unstarted ==
  pc \in {"start", "terminated"} =>
    /\ frame_id = 0 /\ m_queue = <<>> /\ loop = "none"
    /\ wire = NoFrame /\ m_frames_sent = 0

(* Under a name that is not UTF-8 the first frame is the first to be       *)
(* taken, no frame is taken before it, and there the dispatch thread ends. *)
FirstComesFirst ==
  /\ wire = NoFrame /\ m_frames_sent = 0
  /\ loop \notin {"sent", "failed"}
  /\ IF loop \in {"send", "terminated"} THEN frame.frame_id = 0
     ELSE IF m_queue # <<>> THEN Head(m_queue).frame_id = 0
     ELSE frame_id = 0 \/ MaxQueueDepth = 0 \/ (pc = "enqueue" /\ tlm.frame_id = 0)

BadName == cfg.satellite_name \in NotUtf8

EarlyEnd ==
  /\ Unstarted
  /\ BadName => FirstComesFirst
  /\ loop = "terminated" => BadName

LEMMA EarlyEndInit == Init => EarlyEnd
  BY DEF Init, D!Init, EarlyEnd, Unstarted, FirstComesFirst

LEMMA FirstStaysFirst ==
  ASSUME NEW S, NEW q \in Seq(S), NEW x \in S
  PROVE  /\ q # <<>> => Head(Append(q, x)) = Head(q)
         /\ q = <<>> => Head(Append(q, x)) = x /\ Len(q) = 0
         /\ Append(q, x) # <<>>
         /\ Len(q) \in Nat
  <1>1. /\ Len(q) \in Nat
        /\ Append(q, x) \in Seq(S) /\ Len(Append(q, x)) = Len(q) + 1
        /\ Append(q, x)[Len(q) + 1] = x
        /\ \A i \in 1 .. Len(q) : Append(q, x)[i] = q[i]
    OBVIOUS
  <1>2. q = <<>> <=> Len(q) = 0
    OBVIOUS
  <1>3. Append(q, x) # <<>> /\ Head(Append(q, x)) = Append(q, x)[1]
    BY <1>1
  <1>4. q # <<>> => Head(q) = q[1] /\ 1 \in 1 .. Len(q)
    BY <1>1, <1>2
  <1> QED
    BY <1>1, <1>2, <1>3, <1>4

(* main hands over its first frame when the queue is still empty. *)
LEMMA EarlyEndEnqueue ==
  ASSUME Local, DP!IInv, Genuine, EarlyEnd, EnqueueFrame
  PROVE  EarlyEnd'
  <1>1. /\ pc = "enqueue" /\ pc' = "drain"
        /\ UNCHANGED <<cfg, frame_id, tlm, loop, frame, wire, m_frames_sent>>
    BY DEF EnqueueFrame, Running, D!Enqueue, D!countVars, D!threadVars, frameVars
  <1>2. \/ Len(m_queue) < MaxQueueDepth /\ m_queue' = Append(m_queue, tlm)
        \/ Len(m_queue) >= MaxQueueDepth /\ m_queue' = m_queue
    BY DEF EnqueueFrame, D!Enqueue
  <1>3. /\ m_queue \in Seq(TelemetryFrames) /\ tlm \in TelemetryFrames
        /\ MaxQueueDepth \in Nat
    BY <1>1, MainAssumption DEF DP!IInv, DP!TypeOK, Local, HandsOK
  <1>4. frame_id # 0
    <2>1. tlm.frame_id < frame_id
      BY <1>1 DEF Genuine, Carried, Made
    <2>2. tlm.frame_id \in 0 .. MaxFrames - 1 /\ MaxFrames \in Nat
      BY <1>3, MainAssumption DEF TelemetryFrames
    <2> QED
      BY <2>1, <2>2
  <1>5. ASSUME FirstComesFirst
        PROVE  FirstComesFirst'
    <2>1. CASE loop \in {"send", "terminated"}
      BY <1>1, <1>5, <2>1 DEF FirstComesFirst
    <2>2. CASE loop \notin {"send", "terminated"} /\ m_queue # <<>>
      <3>1. m_queue' # <<>> /\ Head(m_queue') = Head(m_queue)
        BY <1>2, <1>3, <2>2, FirstStaysFirst
      <3> QED
        BY <1>1, <1>5, <2>2, <3>1 DEF FirstComesFirst
    <2>3. CASE loop \notin {"send", "terminated"} /\ m_queue = <<>>
      <3>1. MaxQueueDepth = 0 \/ tlm.frame_id = 0
        BY <1>4, <1>5, <2>3 DEF FirstComesFirst
      <3>2. \/ MaxQueueDepth = 0 /\ m_queue' = <<>>
            \/ tlm.frame_id = 0 /\ m_queue' # <<>> /\ Head(m_queue') = tlm
        BY <1>2, <1>3, <2>3, <3>1, FirstStaysFirst
      <3> QED
        BY <1>1, <1>5, <2>3, <3>2 DEF FirstComesFirst
    <2> QED
      BY <2>1, <2>2, <2>3
  <1> QED
    BY <1>1, <1>5 DEF EarlyEnd, Unstarted, BadName

(* The dispatch thread gets no further than to the first frame. *)
LEMMA EarlyEndThread ==
  ASSUME DP!IInv, Genuine, EarlyEnd, DispatchThread
  PROVE  EarlyEnd'
  <1>1. UNCHANGED <<pc, cfg, frame_id, tlm>>
    BY DEF DispatchThread, mainVars, frameVars
  <1>2. loop # "none"
    BY DEF DispatchThread, D!DispatchLoop, D!LoopCheck, D!LoopWake, D!LoopPop, D!LoopSend,
           D!LoopTerminate, D!LoopCount
  <1>3. Unstarted'
    BY <1>1, <1>2 DEF EarlyEnd, Unstarted
  <1>4. ASSUME loop = "send"
        PROVE  /\ frame \in TelemetryFrames
               /\ frame.satellite_id \in NotUtf8 <=> BadName
    <2>1. frame \in Carried
      BY <1>4 DEF Carried, InThread
    <2> QED
      BY <2>1 DEF Genuine, BadName
  <1>5. CASE D!LoopCheck \/ D!LoopWake
    BY <1>1, <1>3, <1>5
    DEF D!LoopCheck, D!LoopWake, D!countVars, EarlyEnd, FirstComesFirst, BadName
  <1>6. CASE D!LoopPop
    BY <1>1, <1>3, <1>6 DEF D!LoopPop, D!countVars, EarlyEnd, FirstComesFirst, BadName
  <1>7. CASE D!LoopSend
    <2>1. ~BadName
      BY <1>4, <1>7 DEF D!LoopSend
    <2>2. loop' # "terminated"
      BY <1>7 DEF D!LoopSend, D!SendUdp
    <2> QED
      BY <1>1, <1>3, <2>1, <2>2 DEF EarlyEnd, BadName
  <1>8. CASE D!LoopTerminate
    <2>1. BadName
      BY <1>4, <1>8 DEF D!LoopTerminate
    <2> QED
      BY <1>1, <1>3, <1>8, <2>1
      DEF D!LoopTerminate, D!countVars, EarlyEnd, FirstComesFirst, BadName
  <1>9. CASE D!LoopCount
    <2>1. ~BadName /\ loop' # "terminated"
      BY <1>9 DEF D!LoopCount, EarlyEnd, FirstComesFirst
    <2> QED
      BY <1>1, <1>3, <2>1 DEF EarlyEnd, BadName
  <1> QED
    BY <1>5, <1>6, <1>7, <1>8, <1>9 DEF DispatchThread, D!DispatchLoop

LEMMA EarlyEndStep ==
  ASSUME Local, DP!IInv, Genuine, Over, EarlyEnd, [Next]_vars
  PROVE  EarlyEnd'
  <1> USE DEF Running, mainVars, frameVars, faultVars, commandVars
  <1>a. ASSUME UNCHANGED <<cfg, frame_id, m_queue, frame, wire, m_frames_sent>>,
               pc # "enqueue", pc' \in {"start", "terminated"} => pc' = pc /\ loop' = loop,
               loop' = loop \/ {loop, loop'} \cap {"send", "sent", "failed", "terminated"} = {}
        PROVE  EarlyEnd'
    BY <1>a DEF EarlyEnd, Unstarted, FirstComesFirst, BadName
  <1>1. CASE StartDispatcher
    <2>1. /\ pc = "start" /\ pc' \in {"inject", "terminated"}
          /\ pc' = "terminated" => loop' = loop
          /\ loop' \in {loop, "check"}
          /\ UNCHANGED <<cfg, frame_id, m_queue, frame, wire, m_frames_sent>>
      BY <1>1 DEF StartDispatcher, D!Start, D!StartWithoutSocket, D!countVars, D!threadVars
    <2> QED
      BY <2>1 DEF EarlyEnd, Unstarted, FirstComesFirst, BadName
  <1>2. CASE InjectCmd \/ EnterLoop \/ DrainCommands \/ Sleep \/ LeaveLoop
    BY <1>2, <1>a
    DEF InjectCmd, EnterLoop, DrainCommands, Sleep, LeaveLoop, dispatcherVars
  <1>3. CASE ProduceFrame
    <2>1. /\ pc = "check" /\ pc' = "enqueue" /\ tlm'.frame_id = frame_id
          /\ UNCHANGED <<cfg, m_queue, loop, frame, wire, m_frames_sent>>
      BY <1>3 DEF ProduceFrame, FrameOf, dispatcherVars
    <2> QED
      BY <2>1 DEF EarlyEnd, Unstarted, FirstComesFirst, BadName
  <1>4. CASE EnqueueFrame
    BY <1>4, EarlyEndEnqueue
  <1>5. CASE StopDispatcher
    BY <1>5, <1>a DEF StopDispatcher, D!Stop, D!BeginStop, D!countVars, D!threadVars
  <1>6. CASE JoinDispatcher
    <2>1. loop \in {"none", "exited"} /\ loop' = "none"
      BY <1>6 DEF JoinDispatcher, D!FinishStop, D!ThreadAlive, DP!IInv, DP!HandOK
    <2> QED
      BY <1>6, <1>a, <2>1 DEF JoinDispatcher, D!FinishStop, D!countVars
  <1>7. CASE Report
    BY <1>7, <1>a DEF Report, D!Retire, D!threadVars, D!countVars
  <1>8. CASE Return
    BY <1>8, <1>a DEF Return, D!Destroy, D!BeginStop, D!threadVars, D!countVars
  <1>9. CASE DispatchThread
    BY <1>9, EarlyEndThread
  <1>10. CASE Signal \/ UNCHANGED vars
    BY <1>10 DEF Signal, vars, dispatcherVars, EarlyEnd, Unstarted, FirstComesFirst, BadName
  <1> QED
    BY <1>1, <1>2, <1>3, <1>4, <1>5, <1>6, <1>7, <1>8, <1>9, <1>10 DEF Next, MainThread

(* No exception ends the program once the ground station has a frame, for  *)
(* all configurations, depths and numbers of frames: main() either fails   *)
(* to start, or the dispatch thread fails on the very first frame, and     *)
(* then the configured name is not UTF-8.                                  *)
THEOREM AbnormalEndCorrect == Spec => []AbnormalEndIsEarly
  <1>1. Over /\ EarlyEnd => AbnormalEndIsEarly
    BY DEF Over, EarlyEnd, Unstarted, FirstComesFirst, BadName, AbnormalEndIsEarly
  <1>2. Local /\ DP!IInv /\ Genuine /\ Over /\ EarlyEnd /\ [Next]_vars => EarlyEnd'
    BY EarlyEndStep
  <1> QED
    BY <1>1, <1>2, EarlyEndInit, CarriedInvariance, EndInvariance, PTL DEF Spec

-----------------------------------------------------------------------------
(* The way to the end. *)

LEMMA MainLeftIs ==
  /\ Ended => MainLeft = 0
  /\ ~Ended =>
       /\ pc = "return" => MainLeft = 1
       /\ pc = "report" => MainLeft = 2
       /\ pc = "join" => MainLeft = 3
       /\ pc = "stop" => MainLeft = 4
       /\ pc = "check" => MainLeft = 5
       /\ pc = "sleep" => MainLeft = 6
       /\ pc = "drain" => MainLeft = 7 + Len(cmd_queue)
       /\ pc = "enqueue" => MainLeft = 8 + Len(cmd_queue)
       /\ pc = "inject" => MainLeft = 6 + Len(Demo) - injected
       /\ pc = "start" => MainLeft = 7 + Len(Demo) - injected
  BY DEF MainLeft

LEMMA MainLeftWillBe ==
  /\ Ended' => MainLeft' = 0
  /\ ~Ended' =>
       /\ pc' = "return" => MainLeft' = 1
       /\ pc' = "report" => MainLeft' = 2
       /\ pc' = "join" => MainLeft' = 3
       /\ pc' = "stop" => MainLeft' = 4
       /\ pc' = "check" => MainLeft' = 5
       /\ pc' = "sleep" => MainLeft' = 6
       /\ pc' = "drain" => MainLeft' = 7 + Len(cmd_queue')
       /\ pc' = "inject" => MainLeft' = 6 + Len(Demo) - injected'
  BY DEF MainLeft

(* Far from the end is no farther than the commands that may be queued or  *)
(* injected.                                                               *)
LEMMA MainLeftType ==
  ASSUME Local
  PROVE  /\ MainLeft \in Nat
         /\ ~Ended => MainLeft > 0
         /\ \/ MainLeft <= 8 + MaxCommandDepth
            \/ MainLeft <= 7 + Len(Demo)
  <1>1. /\ Len(cmd_queue) \in 0 .. MaxCommandDepth /\ MaxCommandDepth \in Nat
        /\ injected \in 0 .. Len(Demo) /\ Len(Demo) \in Nat
    BY MainAssumption DEF Local, TypeOK, HandsOK
  <1>2. pc \in {"start", "inject", "check", "enqueue", "drain", "sleep", "stop", "join",
                "report", "return", "exited", "terminated"}
    BY DEF Local, TypeOK
  <1>3. CASE Ended
    BY <1>1, <1>3, MainLeftIs
  <1>4. CASE ~Ended
    <2>1. pc \notin {"exited", "terminated"}
      BY <1>4 DEF Ended
    <2> QED
      BY <1>1, <1>2, <1>4, <2>1, MainLeftIs
  <1> QED
    BY <1>3, <1>4

LEMMA MainAdvances ==
  ASSUME Local, Local', ~g_running, MainThread
  PROVE  MainLeft' < MainLeft
  <1>1. /\ Len(cmd_queue) \in Nat /\ Len(cmd_queue') \in Nat
        /\ injected \in 0 .. Len(Demo) /\ Len(Demo) \in Nat
    BY MainAssumption DEF Local, TypeOK, HandsOK
  <1> USE DEF Running
  <1>a. ASSUME pc # "exited", pc # "terminated", owner # "terminated"
        PROVE  ~Ended
    BY <1>a DEF Ended
  <1>b. ASSUME Ended', ~Ended
        PROVE  MainLeft' < MainLeft
    BY <1>b, MainLeftType, MainLeftWillBe
  <1>2. CASE StartDispatcher
    <2>1. pc = "start" /\ ~Ended /\ injected' = injected /\ pc' \in {"inject", "terminated"}
      BY <1>2 DEF StartDispatcher, Ended, commandVars
    <2>2. CASE Ended'
      BY <1>b, <2>1, <2>2
    <2>3. CASE ~Ended'
      <3>1. pc' = "inject"
        BY <2>1, <2>3 DEF Ended
      <3> QED
        BY <1>1, <2>1, <2>3, <3>1, MainLeftIs, MainLeftWillBe
    <2> QED
      BY <2>2, <2>3
  <1>3. CASE InjectCmd
    <2>1. pc = "inject" /\ pc' = pc /\ ~Ended /\ injected' = injected + 1
      BY <1>3 DEF InjectCmd, Ended
    <2>2. ~Ended'
      BY <1>3, <2>1 DEF InjectCmd, Ended, dispatcherVars
    <2> QED
      BY <1>1, <2>1, <2>2, MainLeftIs, MainLeftWillBe
  <1>4. CASE EnterLoop
    <2>1. pc = "inject" /\ pc' = "check" /\ ~Ended /\ ~Ended' /\ injected = Len(Demo)
      BY <1>4 DEF EnterLoop, Ended, dispatcherVars
    <2> QED
      BY <1>1, <2>1, MainLeftIs, MainLeftWillBe
  <1>5. CASE ProduceFrame
    BY <1>5 DEF ProduceFrame
  <1>6. CASE EnqueueFrame
    <2>1. /\ pc = "enqueue" /\ pc' = "drain" /\ ~Ended /\ ~Ended'
          /\ cmd_queue' = cmd_queue
      BY <1>6 DEF EnqueueFrame, Ended, D!Enqueue, D!ownerVars, commandVars
    <2> QED
      BY <1>1, <2>1, MainLeftIs, MainLeftWillBe
  <1>7. CASE DrainCommands
    <2>1. pc = "drain" /\ ~Ended /\ owner' = owner
      BY <1>7 DEF DrainCommands, Ended, dispatcherVars
    <2>2. CASE cmd_queue = <<>>
      <3>1. pc' = "sleep"
        BY <1>7, <2>2 DEF DrainCommands
      <3>2. ~Ended'
        BY <1>7, <2>1, <3>1 DEF DrainCommands, Ended
      <3> QED
        BY <1>1, <2>1, <3>1, <3>2, MainLeftIs, MainLeftWillBe
    <2>3. CASE cmd_queue # <<>>
      <3>1. pc' = "drain" /\ cmd_queue' = Tail(cmd_queue)
        BY <1>7, <2>1, <2>3 DEF DrainCommands, Q!TryPop, Q!PopFront
      <3>2. ~Ended'
        BY <1>7, <2>1, <3>1 DEF DrainCommands, Ended
      <3>3. Len(cmd_queue') = Len(cmd_queue) - 1
        BY <2>3, <3>1, QueueSteps DEF Local, HandsOK
      <3> QED
        BY <1>1, <2>1, <3>1, <3>2, <3>3, MainLeftIs, MainLeftWillBe
    <2> QED
      BY <2>2, <2>3
  <1>8. CASE Sleep \/ LeaveLoop
    <2>1. /\ \/ pc = "sleep" /\ pc' = "check"
             \/ pc = "check" /\ pc' = "stop"
          /\ ~Ended /\ ~Ended'
      BY <1>8 DEF Sleep, LeaveLoop, Ended, dispatcherVars
    <2> QED
      BY <2>1, MainLeftIs, MainLeftWillBe
  <1>9. CASE StopDispatcher
    <2>1. pc = "stop" /\ pc' = "join" /\ ~Ended /\ ~Ended'
      BY <1>9 DEF StopDispatcher, D!Stop, D!BeginStop, Ended
    <2> QED
      BY <2>1, MainLeftIs, MainLeftWillBe
  <1>10. CASE JoinDispatcher
    <2>1. pc = "join" /\ pc' = "report" /\ ~Ended /\ ~Ended'
      BY <1>10 DEF JoinDispatcher, D!FinishStop, Ended
    <2> QED
      BY <2>1, MainLeftIs, MainLeftWillBe
  <1>11. CASE Report
    <2>1. pc = "report" /\ pc' = "return" /\ ~Ended /\ ~Ended'
      BY <1>11 DEF Report, D!Retire, D!ownerVars, Ended
    <2> QED
      BY <2>1, MainLeftIs, MainLeftWillBe
  <1>12. CASE Return
    BY <1>12, <1>b DEF Return, Ended
  <1> QED
    BY <1>2, <1>3, <1>4, <1>5, <1>6, <1>7, <1>8, <1>9, <1>10, <1>11, <1>12 DEF MainThread

LEMMA SameStepsLeft ==
  /\ D!StepsLeft = DP!StepsLeft
  /\ D!StepsLeft' = DP!StepsLeft'
  /\ D!DispatchLoop <=> DP!DispatchLoop
  BY DEF D!StepsLeft, DP!StepsLeft,
         D!DispatchLoop, D!LoopCheck, D!LoopWake, D!LoopPop, D!LoopSend, D!SendUdp,
         D!LoopTerminate, D!LoopCount, D!countVars, D!ownerVars, D!Inc,
         DP!DispatchLoop, DP!LoopCheck, DP!LoopWake, DP!LoopPop, DP!LoopSend, DP!SendUdp,
         DP!LoopTerminate, DP!LoopCount, DP!countVars, DP!ownerVars, DP!Inc

(* Once the signal has come, every step of main() brings the program       *)
(* closer to its end, and while main() waits for the dispatch thread so    *)
(* does every step of that thread, wherever the signal found the two.      *)
THEOREM ShutdownComesCloser == Spec => ShutdownAdvances
  <1>1. /\ Local /\ DP!IInv /\ ShutDown
        /\ (Local /\ DP!IInv /\ ShutDown)'
        /\ [Next]_vars
        => [~g_running =>
              \/ MainLeft' < MainLeft
              \/ UNCHANGED mainVars /\ (pc = "join" => D!StepsLeft' < D!StepsLeft)]_vars
    <2> SUFFICES ASSUME Local, DP!IInv, ShutDown, Local', DP!IInv', Next, ~g_running,
                        vars' # vars
                 PROVE  \/ MainLeft' < MainLeft
                        \/ /\ UNCHANGED mainVars
                           /\ pc = "join" => D!StepsLeft' < D!StepsLeft
      OBVIOUS
    <2>1. CASE MainThread
      BY <2>1, MainAdvances
    <2>2. CASE DispatchThread
      <3>1. UNCHANGED mainVars
        BY <2>2 DEF DispatchThread
      <3>2. ASSUME pc = "join"
            PROVE  D!StepsLeft' < D!StepsLeft
        <4>1. ~m_running
          BY <3>2 DEF ShutDown
        <4>2. DP!TypeOK /\ DP!TypeOK' /\ DP!DispatchLoop
          BY <2>2, SameStepsLeft DEF DP!IInv, DispatchThread
        <4>3. DP!StepsLeft' < DP!StepsLeft
          BY <4>1, <4>2, DP!ThreadAdvances, MainAssumption
        <4> QED
          BY <4>3, SameStepsLeft
      <3> QED
        BY <3>1, <3>2
    <2>3. CASE Signal
      BY <2>3 DEF Signal
    <2> QED
      BY <2>1, <2>2, <2>3 DEF Next
  <1> QED
    BY <1>1, EndInvariance, PTL DEF Spec, ShutdownAdvances

(* How far from the end main() can be: a bound on its steps after the      *)
(* signal that no frame, and nothing the dispatch thread does, extends.    *)
THEOREM ShutdownIsBounded ==
  Spec => [](\/ MainLeft \in 0 .. 8 + MaxCommandDepth
             \/ MainLeft \in 0 .. 7 + Len(Demo))
  <1>1. Local => \/ MainLeft \in 0 .. 8 + MaxCommandDepth
                 \/ MainLeft \in 0 .. 7 + Len(Demo)
    BY MainLeftType, MainAssumption
  <1> QED
    BY <1>1, TypeInvariance, PTL DEF Spec

-----------------------------------------------------------------------------
(* The program as the ground station sees it. *)

Received == IF loop = "sent" THEN D!Inc(m_frames_sent, CounterMod) ELSE m_frames_sent
Printed  == IF pc \in {"return", "exited"} THEN {report.sent} ELSE {}

LEMMA SameInc == \A c, m : Ground!Inc(c, m) = D!Inc(c, m)
  BY DEF Ground!Inc, D!Inc

LEMMA GroundInit == Init => Ground!Init
  BY DEF Init, D!Init, Ground!Init, Ended

(* A step of which nothing is seen, and one that ends the program. *)
LEMMA GroundStutter ==
  ASSUME UNCHANGED <<Ended, wire, Received, Printed>>
  PROVE  UNCHANGED Ground!vars
  BY DEF Ground!vars, Received, Printed

LEMMA GroundEnd ==
  ASSUME UNCHANGED <<wire, Received, Printed>>, ~Ended, Ended'
  PROVE  Ground!End
  BY DEF Ground!End, Received, Printed

LEMMA GroundThread ==
  ASSUME Local, DP!IInv, Genuine, InOrder, ShutDown, Over, DispatchThread
  PROVE  [Ground!Next]_(Ground!vars)
  <1>1. /\ UNCHANGED <<pc, report>>
        /\ loop \notin {"none", "terminated"} /\ loop \in D!LoopStates
    BY DEF DispatchThread, mainVars, D!DispatchLoop, D!LoopCheck, D!LoopWake, D!LoopPop,
           D!LoopSend, D!LoopTerminate, D!LoopCount, D!LoopStates
  <1>2. owner # "terminated" /\ pc # "terminated"
    BY <1>1 DEF Over
  <1>3. pc \notin {"return", "exited"}
    BY <1>1, <1>2 DEF ShutDown, DP!IInv, DP!NothingLeaks
  <1>4. ~Ended /\ Printed = {} /\ Printed' = {}
    BY <1>1, <1>2, <1>3 DEF Ended, Printed
  <1>5. owner' = owner => Ended' = Ended
    BY <1>1 DEF Ended
  <1>6. CASE D!LoopCheck \/ D!LoopWake \/ D!LoopPop
    <2>1. UNCHANGED <<owner, wire, Received>>
      BY <1>6 DEF D!LoopCheck, D!LoopWake, D!LoopPop, D!ownerVars, D!countVars, Received
    <2> QED
      BY <1>4, <1>5, <2>1, GroundStutter
  <1>7. CASE D!LoopSend
    <2>1. UNCHANGED <<owner, m_frames_sent>> /\ loop = "send" /\ Received = m_frames_sent
      BY <1>7 DEF D!LoopSend, D!ownerVars, D!countVars, Received
    <2>2. CASE wire' = frame /\ loop' = "sent"
      <3>1. frame \in TelemetryFrames
        BY <2>1 DEF DP!IInv, DP!HandOK
      <3>2. wire # NoFrame => <<wire, frame>> \in Follows
        BY <2>1 DEF InOrder, AllBefore, AtGround, InThread
      <3>3. wire # NoFrame => Before(wire, frame)
        BY <3>2 DEF Follows
      <3>4. Received' = D!Inc(Received, CounterMod)
        BY <2>1, <2>2 DEF Received
      <3>5. Ground!Receive
        BY <1>4, <1>5, <2>1, <2>2, <3>1, <3>3, <3>4, SameInc
        DEF Ground!Receive, Ground!Later, Before, Received, Printed
      <3> QED
        BY <3>5 DEF Ground!Next
    <2>3. CASE wire' = wire /\ loop' = "failed"
      <3>1. Received' = Received
        BY <2>1, <2>3 DEF Received
      <3> QED
        BY <1>4, <1>5, <2>1, <2>3, <3>1, GroundStutter
    <2> QED
      BY <1>7, <2>2, <2>3 DEF D!LoopSend, D!SendUdp
  <1>8. CASE D!LoopTerminate
    <2>1. UNCHANGED <<wire, Received>> /\ Ended'
      BY <1>8 DEF D!LoopTerminate, D!countVars, Received, Ended
    <2>2. Ground!End
      BY <1>4, <2>1, GroundEnd
    <2> QED
      BY <2>2 DEF Ground!Next
  <1>9. CASE D!LoopCount
    <2>1. UNCHANGED <<owner, wire, Received>>
      BY <1>9 DEF D!LoopCount, D!ownerVars, Received
    <2> QED
      BY <1>4, <1>5, <2>1, GroundStutter
  <1> QED
    BY <1>6, <1>7, <1>8, <1>9 DEF DispatchThread, D!DispatchLoop

LEMMA GroundStep ==
  ASSUME Local, DP!IInv, Genuine, InOrder, ShutDown, Over, [Next]_vars
  PROVE  [Ground!Next]_(Ground!vars)
  <1>a. ASSUME UNCHANGED <<owner, wire, m_frames_sent>>,
               loop' = loop \/ {loop, loop'} \cap {"sent"} = {},
               {pc, pc'} \cap {"return", "exited", "terminated"} = {}
        PROVE  UNCHANGED Ground!vars
    BY <1>a, GroundStutter DEF Ended, Received, Printed
  <1> USE DEF Running, mainVars
  <1>1. CASE StartDispatcher
    <2>1. /\ owner = "idle" /\ ~m_running /\ pc = "start"
          /\ UNCHANGED <<owner, wire, m_frames_sent>>
          /\ loop' = loop \/ loop' = "check"
          /\ pc' \in {"inject", "terminated"}
      BY <1>1 DEF StartDispatcher, D!Start, D!StartWithoutSocket, D!threadVars, D!countVars
    <2>2. loop = "none"
      BY <2>1 DEF DP!IInv, DP!NothingLeaks
    <2>3. CASE pc' = "inject"
      BY <1>a, <2>1, <2>2, <2>3
    <2>4. CASE pc' = "terminated"
      <3>1. ~Ended /\ Ended' /\ UNCHANGED <<wire, Received, Printed>>
        BY <2>1, <2>2, <2>4 DEF Ended, Received, Printed
      <3> QED
        BY <3>1, GroundEnd DEF Ground!Next
    <2> QED
      BY <2>1, <2>3, <2>4
  <1>2. CASE InjectCmd \/ EnterLoop \/ DrainCommands \/ Sleep \/ LeaveLoop \/ ProduceFrame
    BY <1>2, <1>a
    DEF InjectCmd, EnterLoop, DrainCommands, Sleep, LeaveLoop, ProduceFrame, dispatcherVars
  <1>3. CASE EnqueueFrame
    BY <1>3, <1>a DEF EnqueueFrame, D!Enqueue, D!ownerVars, D!threadVars, D!countVars
  <1>4. CASE StopDispatcher
    <2>1. {owner, owner'} \cap {"terminated"} = {} /\ pc = "stop" /\ pc' = "join"
      BY <1>4 DEF StopDispatcher, D!Stop, D!BeginStop
    <2>2. Ended' = Ended
      BY <2>1 DEF Ended
    <2>3. UNCHANGED <<Ended, wire, Received, Printed>>
      BY <1>4, <2>1, <2>2
      DEF StopDispatcher, D!Stop, D!BeginStop, D!threadVars, D!countVars, Received, Printed
    <2> QED
      BY <2>3, GroundStutter
  <1>5. CASE JoinDispatcher
    <2>1. loop \in {"none", "exited"} /\ loop' = "none"
      BY <1>5 DEF JoinDispatcher, D!FinishStop, D!ThreadAlive, DP!IInv, DP!HandOK
    <2>2. {owner, owner'} \cap {"terminated"} = {} /\ pc = "join" /\ pc' = "report"
      BY <1>5 DEF JoinDispatcher, D!FinishStop
    <2>3. Ended' = Ended
      BY <2>2 DEF Ended
    <2>4. UNCHANGED <<Ended, wire, Received, Printed>>
      BY <1>5, <2>1, <2>2, <2>3
      DEF JoinDispatcher, D!FinishStop, D!countVars, Received, Printed
    <2> QED
      BY <2>4, GroundStutter
  <1>6. CASE Report
    <2>1. /\ pc = "report" /\ pc' = "return" /\ owner # "terminated"
          /\ report' = [sent |-> m_frames_sent, dropped |-> m_frames_dropped]
          /\ UNCHANGED <<owner, wire, loop, m_frames_sent>>
      BY <1>6 DEF Report, D!Retire, D!ownerVars, D!threadVars, D!countVars
    <2>2. loop = "none"
      BY <2>1 DEF ShutDown, DP!IInv, DP!NothingLeaks
    <2>3. Printed = {} /\ Printed' = {Received} /\ Received' = Received /\ ~Ended /\ ~Ended'
      BY <2>1, <2>2 DEF Printed, Received, Ended
    <2>4. Ground!Announce
      BY <2>1, <2>3 DEF Ground!Announce, Printed, Received
    <2> QED
      BY <2>4 DEF Ground!Next
  <1>7. CASE Return
    <2>1. ~Ended /\ Ended'
      BY <1>7 DEF Return, Ended
    <2>2. UNCHANGED <<wire, Received, Printed>>
      BY <1>7 DEF Return, D!Destroy, D!BeginStop, D!threadVars, D!countVars, Received, Printed
    <2> QED
      BY <2>1, <2>2, GroundEnd DEF Ground!Next
  <1>8. CASE DispatchThread
    BY <1>8, GroundThread
  <1>9. CASE Signal \/ UNCHANGED vars
    BY <1>9, GroundStutter DEF Signal, vars, dispatcherVars, Ended, Received, Printed
  <1> QED
    BY <1>1, <1>2, <1>3, <1>4, <1>5, <1>6, <1>7, <1>8, <1>9 DEF Next, MainThread

(* main(), the dispatch thread and the signal together are, seen from      *)
(* outside, a source of frames in order that prints how many it sent and   *)
(* is silent from then on, for every configuration, depth of the queue     *)
(* and width of the counters.                                              *)
THEOREM GroundViewImplemented == Spec => ImplementsGroundView
  <1>1. Init => Ground!Init
    BY GroundInit
  <1>2. /\ Local /\ DP!IInv /\ Genuine /\ InOrder
        /\ Local /\ DP!IInv /\ ShutDown /\ Over
        /\ [Next]_vars
        => [Ground!Next]_(Ground!vars)
    BY GroundStep
  <1> QED
    BY <1>1, <1>2, CarriedInvariance, EndInvariance, PTL
    DEF Spec, ImplementsGroundView, Ground!Spec

(* The dispatcher in the program is the bounded first-in-first-out channel *)
(* that TelemetryChannel describes.                                        *)
THEOREM ProgramHasChannel == Spec => D!Channel!Safety
  <1>1. Init => D!Channel!Init
    <2>1. DP!Channel!Init <=> D!Channel!Init
      BY DEF D!Channel!Init, DP!Channel!Init, D!ThreadAlive, DP!ThreadAlive, D!Inc, DP!Inc
    <2> QED
      BY <2>1, SameInit, DP!ChannelInit, MainAssumption DEF Init
  <1>2. DP!IInv /\ [D!Next]_(D!vars) => [D!Channel!Next]_(D!Channel!vars)
    <2>1. DP!Channel!vars = D!Channel!vars /\ DP!Channel!vars' = D!Channel!vars'
      BY DEF D!Channel!vars, DP!Channel!vars, D!ThreadAlive, DP!ThreadAlive, D!Inc, DP!Inc
    <2>2. DP!Channel!Next <=> D!Channel!Next
      BY DEF D!Channel!Next, D!Channel!Accept, D!Channel!Refuse, D!Channel!Settle,
             D!Channel!Transmit, D!Channel!Lose, D!Channel!Switch, D!Channel!Inc,
             D!ThreadAlive, D!Inc,
             DP!Channel!Next, DP!Channel!Accept, DP!Channel!Refuse, DP!Channel!Settle,
             DP!Channel!Transmit, DP!Channel!Lose, DP!Channel!Switch, DP!Channel!Inc,
             DP!ThreadAlive, DP!Inc
    <2> QED
      BY <2>1, <2>2, SameStep, DP!ChannelStep, MainAssumption
  <1>3. Local /\ [Next]_vars => [D!Next]_(D!vars)
    BY DispatcherStep DEF Local, HandsOK
  <1> QED
    BY <1>1, <1>2, <1>3, TypeInvariance, PTL DEF Spec, D!Channel!Safety

-----------------------------------------------------------------------------
(* The command queue in the program. *)

(* The queue of main() again, with its theorems. *)
QP == INSTANCE CommandQueueProofs WITH
  Threads  <- {"main"},
  Commands <- {Demo[i] : i \in DOMAIN Demo},
  MaxDepth <- MaxCommandDepth,
  m_queue  <- cmd_queue,
  pc       <- [t \in {"main"} |-> "idle"],
  ret      <- cmd_ret

LEMMA QueueUsable ==
  /\ QP!IsFiniteSet({"main"})
  /\ NoCommand \notin {Demo[i] : i \in DOMAIN Demo}
  /\ MaxCommandDepth \in Nat
  <1>1. IsFiniteSet({"main"})
    BY FS_Singleton
  <1> QED
    BY <1>1, MainAssumption DEF IsFiniteSet, QP!IsFiniteSet

LEMMA SameQueue ==
  /\ Q!Init <=> QP!Init
  /\ [Q!Next]_(Q!vars) <=> [QP!Next]_(QP!vars)
  BY DEF Q!Init, Q!Next, Q!vars, Q!Push, Q!TryPop, Q!PopWait, Q!SpuriousWakeup, Q!Expire,
         Q!ResumeWoken, Q!ResumeExpired, Q!PopFront, Q!HasRoom, Q!NotifyOne, Q!At, Q!Goto,
         Q!Return,
         QP!Init, QP!Next, QP!vars, QP!Push, QP!TryPop, QP!PopWait, QP!SpuriousWakeup,
         QP!Expire, QP!ResumeWoken, QP!ResumeExpired, QP!PopFront, QP!HasRoom,
         QP!NotifyOne, QP!At, QP!Goto, QP!Return

LEMMA QueueStep ==
  ASSUME Local, [Next]_vars
  PROVE  [Q!Next]_(Q!vars)
  <1>a. ASSUME UNCHANGED commandVars
        PROVE  UNCHANGED Q!vars
    BY <1>a DEF commandVars, Q!vars
  <1>1. CASE InjectCmd
    <2>1. /\ Len(Demo) \in Nat /\ DOMAIN Demo = 1 .. Len(Demo)
          /\ injected \in 0 .. Len(Demo) /\ injected < Len(Demo)
      BY <1>1, MainAssumption DEF InjectCmd, Local, TypeOK
    <2>2. Demo[injected + 1] \in {Demo[i] : i \in DOMAIN Demo}
      BY <2>1
    <2> QED
      BY <1>1, <2>2 DEF InjectCmd, Q!Next
  <1>2. CASE DrainCommands
    BY <1>2 DEF DrainCommands, Q!Next
  <1>3. CASE StartDispatcher \/ EnterLoop \/ ProduceFrame \/ Sleep \/ LeaveLoop
    BY <1>3, <1>a DEF StartDispatcher, EnterLoop, ProduceFrame, Sleep, LeaveLoop
  <1>4. CASE EnqueueFrame \/ StopDispatcher \/ JoinDispatcher \/ Report \/ Return
    BY <1>4, <1>a DEF EnqueueFrame, StopDispatcher, JoinDispatcher, Report, Return
  <1>5. CASE DispatchThread \/ Signal \/ UNCHANGED vars
    BY <1>5, <1>a DEF DispatchThread, Signal, vars, mainVars
  <1> QED
    BY <1>1, <1>2, <1>3, <1>4, <1>5 DEF Next, MainThread

(* injectCmd() and the drain loop are calls of the command queue that its  *)
(* callers may make, in a program that does much else between them: what   *)
(* is proved of the queue holds in the program, so that it is a bounded    *)
(* FIFO queue there whose refusals main() ignores.                         *)
THEOREM ProgramRunsQueue == Spec => Q!Safety /\ Q!ImplementsFifo
  <1>1. Init => Q!Init
    BY DEF Init
  <1>2. Local /\ [Next]_vars => [Q!Next]_(Q!vars)
    BY QueueStep
  <1>3. Init => Q!Fifo!Init
    <2>1. Q!Init => Q!Fifo!Init
      BY DEF Q!Init, Q!Fifo!Init
    <2> QED
      BY <2>1 DEF Init
  <1>4. [Q!Next]_(Q!vars) => [Q!Fifo!Next]_(Q!Fifo!vars)
    <2>1. QP!Fifo!vars = Q!Fifo!vars /\ QP!Fifo!vars' = Q!Fifo!vars'
      BY DEF Q!Fifo!vars, QP!Fifo!vars
    <2>2. QP!Fifo!Next <=> Q!Fifo!Next
      BY DEF Q!Fifo!Next, Q!Fifo!Accept, Q!Fifo!Refuse, Q!Fifo!Take, Q!Fifo!Miss,
             QP!Fifo!Next, QP!Fifo!Accept, QP!Fifo!Refuse, QP!Fifo!Take, QP!Fifo!Miss
    <2> QED
      BY <2>1, <2>2, SameQueue, QP!FifoStep, QueueUsable
  <1> QED
    BY <1>1, <1>2, <1>3, <1>4, TypeInvariance, PTL
    DEF Spec, Q!Safety, Q!ImplementsFifo, Q!Fifo!Spec

-----------------------------------------------------------------------------
(* The commands. *)

LEMMA SequenceFacts ==
  ASSUME NEW S
  PROVE  /\ \A s \in Seq(S) : s \o <<>> = s /\ <<>> \o s = s
         /\ \A s \in Seq(S), t \in Seq(S) : s \o t \in Seq(S)
         /\ \A x \in S : <<x>> \in Seq(S)
         /\ <<>> \in Seq(S)
  OBVIOUS

LEMMA PrefixGrows ==
  ASSUME NEW S, NEW s \in Seq(S), NEW n \in Nat, n < Len(s)
  PROVE  /\ Append(SubSeq(s, 1, n), s[n + 1]) = SubSeq(s, 1, n + 1)
         /\ Len(SubSeq(s, 1, n)) = n
         /\ s[n + 1] \in S
  OBVIOUS

LEMMA PrefixLength ==
  ASSUME NEW S, NEW s \in Seq(S), NEW n \in 0 .. Len(s)
  PROVE  Len(SubSeq(s, 1, n)) = n /\ SubSeq(s, 1, n) \in Seq(S)
  OBVIOUS

LEMMA EmptyPrefix ==
  ASSUME NEW S, NEW s \in Seq(S)
  PROVE  SubSeq(s, 1, 0) = <<>>
  OBVIOUS

LEMMA HeadMoves ==
  ASSUME NEW S, NEW s \in Seq(S), NEW t \in Seq(S), t # <<>>
  PROVE  /\ Head(t) \in S
         /\ Tail(t) \in Seq(S)
         /\ (s \o <<Head(t)>>) \o Tail(t) = s \o t
  OBVIOUS

HandledCommands == [sequence_number : Nat, opcode : Handled]

NumberAdmitted == IF injected < MaxCommandDepth THEN injected ELSE MaxCommandDepth
Admitted       == SubSeq(Demo, 1, NumberAdmitted)

CommandsOK ==
  /\ executed \in Seq(HandledCommands) /\ cmd_queue \in Seq(HandledCommands)
  /\ executed \o cmd_queue = Admitted
  /\ pc \in {"start", "inject"} => executed = <<>>
  /\ pc = "sleep" => cmd_queue = <<>>

LEMMA CommandsInit == Init => CommandsOK
  <1> SUFFICES ASSUME Init
               PROVE  CommandsOK
    OBVIOUS
  <1>1. executed = <<>> /\ cmd_queue = <<>> /\ pc = "start" /\ injected = 0
    BY DEF Init, Q!Init
  <1>2. Admitted = <<>>
    <2>1. NumberAdmitted = 0
      BY <1>1, MainAssumption DEF NumberAdmitted
    <2> QED
      BY <2>1, MainAssumption, EmptyPrefix DEF Admitted
  <1> QED
    BY <1>1, <1>2, SequenceFacts DEF CommandsOK

LEMMA CommandsStep ==
  ASSUME Demo \in Seq(HandledCommands), Local, CommandsOK, [Next]_vars
  PROVE  CommandsOK'
  <1>1. CASE InjectCmd
    <2>1. executed = <<>> /\ executed' = <<>> /\ pc' = "inject" /\ pc = "inject"
      BY <1>1 DEF InjectCmd, CommandsOK, Running
    <2>2. /\ injected \in Nat /\ injected < Len(Demo) /\ injected' = injected + 1
          /\ MaxCommandDepth \in Nat /\ Len(Demo) \in Nat
      BY <1>1, MainAssumption DEF InjectCmd, Local, TypeOK
    <2>3. cmd_queue = Admitted /\ cmd_queue \in Seq(HandledCommands)
      BY <2>1, SequenceFacts DEF CommandsOK
    <2>4. NumberAdmitted \in 0 .. Len(Demo) /\ Len(cmd_queue) = NumberAdmitted
      BY <2>2, <2>3, PrefixLength DEF NumberAdmitted, Admitted
    <2>5. CASE Len(cmd_queue) < MaxCommandDepth
      <3>1. cmd_queue' = Append(cmd_queue, Demo[injected + 1])
        BY <1>1, <2>5 DEF InjectCmd, Q!Push, Q!HasRoom
      <3>2. NumberAdmitted = injected /\ NumberAdmitted' = injected + 1
        BY <2>2, <2>4, <2>5 DEF NumberAdmitted
      <3>3. cmd_queue' = Admitted' /\ Demo[injected + 1] \in HandledCommands
        BY <2>2, <2>3, <3>1, <3>2, PrefixGrows DEF Admitted
      <3>4. cmd_queue' \in Seq(HandledCommands)
        BY <2>3, <3>1, <3>3, QueueSteps
      <3> QED
        BY <2>1, <3>3, <3>4, SequenceFacts DEF CommandsOK
    <2>6. CASE Len(cmd_queue) >= MaxCommandDepth
      <3>1. cmd_queue' = cmd_queue
        BY <1>1, <2>2, <2>4, <2>6 DEF InjectCmd, Q!Push, Q!HasRoom
      <3>2. NumberAdmitted' = NumberAdmitted
        BY <2>2, <2>4, <2>6 DEF NumberAdmitted
      <3>3. Admitted' = Admitted
        BY <3>2 DEF Admitted
      <3> QED
        BY <2>1, <2>3, <3>1, <3>3, SequenceFacts DEF CommandsOK
    <2> QED
      BY <2>2, <2>4, <2>5, <2>6
  <1>2. CASE DrainCommands
    <2>1. pc = "drain" /\ injected' = injected
      BY <1>2 DEF DrainCommands, Running
    <2>2. Admitted' = Admitted
      BY <2>1 DEF Admitted, NumberAdmitted
    <2>3. CASE cmd_queue = <<>>
      <3>1. cmd_queue' = <<>> /\ executed' = executed /\ pc' = "sleep"
        BY <1>2, <2>3 DEF DrainCommands, Q!TryPop, Q!PopFront
      <3> QED
        BY <2>2, <2>3, <3>1 DEF CommandsOK
    <2>4. CASE cmd_queue # <<>>
      <3>1. cmd_queue' = Tail(cmd_queue) /\ pc' = pc
            /\ executed' = executed \o Dispatch(Head(cmd_queue))
        BY <1>2, <2>4 DEF DrainCommands, Q!TryPop, Q!PopFront
      <3>2. executed \in Seq(HandledCommands) /\ cmd_queue \in Seq(HandledCommands)
        BY DEF CommandsOK
      <3>3. /\ Head(cmd_queue) \in HandledCommands
            /\ cmd_queue' \in Seq(HandledCommands)
            /\ (executed \o <<Head(cmd_queue)>>) \o cmd_queue' = executed \o cmd_queue
        BY <2>4, <3>1, <3>2, HeadMoves
      <3>4. Dispatch(Head(cmd_queue)) = <<Head(cmd_queue)>>
        BY <3>3 DEF Dispatch, Event, HandledCommands
      <3>5. executed' \in Seq(HandledCommands)
        BY <3>1, <3>2, <3>3, <3>4, SequenceFacts
      <3> QED
        BY <2>1, <2>2, <3>1, <3>3, <3>4, <3>5 DEF CommandsOK
    <2> QED
      BY <2>3, <2>4
  <1>3. ASSUME UNCHANGED commandVars,
               pc' \in {"start", "inject"} => pc \in {"start", "inject"},
               pc' = "sleep" => pc = "sleep"
        PROVE  CommandsOK'
    BY <1>3 DEF CommandsOK, commandVars, Admitted, NumberAdmitted
  <1>4. CASE StartDispatcher
    BY <1>3, <1>4 DEF StartDispatcher, Running
  <1>5. CASE EnterLoop \/ ProduceFrame \/ Sleep \/ LeaveLoop
    BY <1>3, <1>5 DEF EnterLoop, ProduceFrame, Sleep, LeaveLoop
  <1>6. CASE EnqueueFrame \/ StopDispatcher \/ JoinDispatcher \/ Report \/ Return
    BY <1>3, <1>6 DEF EnqueueFrame, StopDispatcher, JoinDispatcher, Report, Return
  <1>7. CASE Signal
    BY <1>3, <1>7 DEF Signal
  <1>8. CASE DispatchThread \/ UNCHANGED vars
    BY <1>3, <1>8 DEF DispatchThread, vars, mainVars
  <1> QED
    BY <1>1, <1>2, <1>4, <1>5, <1>6, <1>7, <1>8 DEF Next, MainThread

(* The commands the queue accepted are executed once and in order, for any *)
(* commands that have a handler and any depth of the queue; when main()    *)
(* goes to sleep none is left.                                             *)
THEOREM CommandsCorrect ==
  ASSUME Demo \in Seq(HandledCommands)
  PROVE  Spec => []CommandsExecuted
  <1>1. Init => CommandsOK
    BY CommandsInit
  <1>2. Local /\ DP!IInv /\ CommandsOK /\ [Next]_vars => CommandsOK'
    BY CommandsStep
  <1>3. CommandsOK => CommandsExecuted
    <2> SUFFICES ASSUME CommandsOK
                 PROVE  CommandsExecuted
      OBVIOUS
    <2>1. executed \o cmd_queue = Admitted
      BY DEF CommandsOK
    <2>2. pc = "sleep" => executed = Admitted
      BY SequenceFacts DEF CommandsOK
    <2> QED
      BY <2>1, <2>2 DEF CommandsExecuted, Admitted, NumberAdmitted
  <1> QED
    BY <1>1, <1>2, <1>3, TypeInvariance, PTL DEF Spec

=============================================================================
