------------------------ MODULE TelemetryDispatcher ------------------------
(***************************************************************************)
(* TelemetryDispatcher: a bounded queue of telemetry frames that any       *)
(* thread fills with enqueue() and one background thread drains over UDP.  *)
(*                                                                         *)
(* Three kinds of threads take steps here.  The producers call enqueue().  *)
(* The owner calls start(), stop() and the destructor, one at a time: the  *)
(* class promises thread safety to enqueue() alone.  The dispatch thread,  *)
(* when there is one, runs dispatchLoop().                                 *)
(*                                                                         *)
(* A critical section of m_queue_mutex is one step: what it reads and      *)
(* writes is protected by the mutex, or is an atomic counter that every    *)
(* thread only increments.  dispatchLoop() is split wherever another       *)
(* thread can see it between two steps: at its read of m_running, its      *)
(* sleep, its pop, its sendto() and its counting.                          *)
(***************************************************************************)
EXTENDS Counters, Sequences

CONSTANTS
  Producers,       (* the threads that call enqueue()                      *)
  Frames,          (* the frames they enqueue                              *)
  Unserializable,  (* those toJson() throws on: satellite_id is not UTF-8  *)
  NoFrame,
  MaxQueueDepth,   (* m_cfg.max_queue_depth                                *)
  Fds,             (* the descriptors socket() may return                  *)
  DestValid,       (* inet_pton() accepts m_cfg.dest_ip                    *)
  CounterMod       (* 2^64 in the code                                     *)

NoFd == -1

ASSUME DispatcherAssumption ==
  /\ NoFrame \notin Frames
  /\ Unserializable \subseteq Frames
  /\ MaxQueueDepth \in Nat
  /\ Fds \subseteq Nat
  /\ DestValid \in BOOLEAN
  /\ CounterMod \in Nat \ {0}

VARIABLES
  m_queue,           (* frames accepted and not yet taken, oldest first    *)
  m_running,
  m_sock_fd,
  m_frames_sent,
  m_frames_dropped,
  loop,              (* where dispatchLoop() is; "none": no thread         *)
  frame,             (* its local variable                                 *)
  owner,             (* what the owner is doing                            *)
  started,           (* how the last start() since the last stop() ended   *)
  active,            (* the producers that may still call enqueue()        *)
  openFds,           (* kernel: the open descriptors of this object        *)
  wire,              (* network: the last datagram sendto() took           *)
  offered            (* history: calls of enqueue(), modulo CounterMod     *)

threadVars == <<loop, frame>>
ownerVars  == <<owner, started, m_running, m_sock_fd, openFds>>
countVars  == <<m_frames_sent, m_frames_dropped>>
vars == <<m_queue, countVars, threadVars, ownerVars, active, wire, offered>>

LoopStates ==
  {"none", "check", "sleep", "lock", "send", "sent", "failed", "exited", "terminated"}

(* dispatchLoop() has a frame out of the queue and has not counted it. *)
FrameInHand == loop \in {"send", "sent", "failed", "terminated"}

ThreadAlive == loop \notin {"none", "exited", "terminated"}

Init ==
  /\ m_queue = <<>>
  /\ m_running = FALSE
  /\ m_sock_fd = NoFd
  /\ m_frames_sent = 0
  /\ m_frames_dropped = 0
  /\ loop = "none"
  /\ frame = NoFrame
  /\ owner = "idle"
  /\ started = "no"
  /\ active = Producers
  /\ openFds = {}
  /\ wire = NoFrame
  /\ offered = 0

-----------------------------------------------------------------------------
(* Mutants of enqueue(). *)

EnqueueOneTooMany(p, f) ==
  /\ p \in active
  /\ offered' = Inc(offered, CounterMod)
  /\ \/ /\ Len(m_queue) <= MaxQueueDepth
        /\ m_queue' = Append(m_queue, f)
        /\ UNCHANGED countVars
     \/ /\ Len(m_queue) > MaxQueueDepth
        /\ m_frames_dropped' = Inc(m_frames_dropped, CounterMod)
        /\ UNCHANGED <<m_queue, m_frames_sent>>
  /\ UNCHANGED <<threadVars, ownerVars, active, wire>>

EnqueueAtFront(p, f) ==
  /\ p \in active
  /\ offered' = Inc(offered, CounterMod)
  /\ \/ /\ Len(m_queue) < MaxQueueDepth
        /\ m_queue' = <<f>> \o m_queue
        /\ UNCHANGED countVars
     \/ /\ Len(m_queue) >= MaxQueueDepth
        /\ m_frames_dropped' = Inc(m_frames_dropped, CounterMod)
        /\ UNCHANGED <<m_queue, m_frames_sent>>
  /\ UNCHANGED <<threadVars, ownerVars, active, wire>>

-----------------------------------------------------------------------------
(* The producers. *)

(* enqueue(frame): under the lock, a full queue counts the frame as        *)
(* dropped, and otherwise the frame joins the queue.  Nothing here looks   *)
(* at m_running: a stopped dispatcher accepts frames.                      *)
Enqueue(p, f) ==
  /\ p \in active
  /\ offered' = Inc(offered, CounterMod)
  /\ \/ /\ Len(m_queue) < MaxQueueDepth
        /\ m_queue' = Append(m_queue, f)
        /\ UNCHANGED countVars
     \/ /\ Len(m_queue) >= MaxQueueDepth
        /\ m_frames_dropped' = Inc(m_frames_dropped, CounterMod)
        /\ UNCHANGED <<m_queue, m_frames_sent>>
  /\ UNCHANGED <<threadVars, ownerVars, active, wire>>

(* A thread that used the dispatcher calls enqueue() no more. *)
Retire(p) ==
  /\ p \in active
  /\ active' = active \ {p}
  /\ UNCHANGED <<m_queue, countVars, threadVars, ownerVars, wire, offered>>

-----------------------------------------------------------------------------
(* The owner: start(). *)

(* start() on a running dispatcher returns at once. *)
StartAgain ==
  /\ owner = "idle"
  /\ m_running
  /\ started' = "returned"
  /\ UNCHANGED <<owner, m_running, m_sock_fd, openFds>>
  /\ UNCHANGED <<m_queue, countVars, threadVars, active, wire, offered>>

(* socket() returns -1 and start() throws. *)
StartWithoutSocket ==
  /\ owner = "idle"
  /\ ~m_running
  /\ m_sock_fd' = NoFd
  /\ started' = "threw"
  /\ UNCHANGED <<owner, m_running, openFds>>
  /\ UNCHANGED <<m_queue, countVars, threadVars, active, wire, offered>>

(* socket() succeeds, m_running is set, and then std::thread's constructor *)
(* starts dispatchLoop() or throws std::system_error.                      *)
Start(fd) ==
  /\ owner = "idle"
  /\ ~m_running
  /\ fd \in Fds \ openFds
  /\ m_sock_fd' = fd
  /\ openFds' = openFds \cup {fd}
  /\ m_running' = TRUE
  /\ \/ started' = "returned" /\ loop' = "check"
     \/ started' = "threw" /\ loop' = loop
  /\ UNCHANGED <<owner, frame, m_queue, countVars, active, wire, offered>>

-----------------------------------------------------------------------------
(* Mutants of stop(). *)

FinishStopForgetsClose ==
  /\ owner \in {"stopping", "destroying"}
  /\ ~ThreadAlive
  /\ loop' = "none"
  /\ m_sock_fd' = NoFd
  /\ owner' = IF owner = "stopping" THEN "idle" ELSE "destroyed"
  /\ UNCHANGED <<openFds, started, m_running, frame, m_queue, countVars, active, wire, offered>>

BeginStopLeavesRunning(next) ==
  /\ owner = "idle"
  /\ m_running
  /\ owner' = next
  /\ started' = "no"
  /\ UNCHANGED <<m_running, m_sock_fd, openFds>>
  /\ UNCHANGED <<m_queue, countVars, threadVars, active, wire, offered>>

BeginStopClosesFirst(next) ==
  /\ owner = "idle"
  /\ m_running
  /\ m_running' = FALSE
  /\ openFds' = openFds \ {m_sock_fd}
  /\ owner' = next
  /\ started' = "no"
  /\ UNCHANGED <<m_sock_fd, m_queue, countVars, threadVars, active, wire, offered>>

-----------------------------------------------------------------------------
(* The owner: stop() and the destructor, which calls it. *)

(* stop() on a running dispatcher clears m_running and goes to join the    *)
(* thread.  On a stopped one it returns at once, which is no step.         *)
BeginStop(next) ==
  /\ owner = "idle"
  /\ m_running
  /\ m_running' = FALSE
  /\ owner' = next
  /\ started' = "no"
  /\ UNCHANGED <<m_sock_fd, openFds>>
  /\ UNCHANGED <<m_queue, countVars, threadVars, active, wire, offered>>

Stop == BeginStop("stopping")

(* The object is destroyed once no thread uses it. *)
Destroy ==
  /\ active = {}
  /\ \/ BeginStop("destroying")
     \/ /\ owner = "idle"
        /\ ~m_running
        /\ owner' = "destroyed"
        /\ UNCHANGED <<started, m_running, m_sock_fd, openFds>>
        /\ UNCHANGED <<m_queue, countVars, threadVars, active, wire, offered>>

(* join() returns when dispatchLoop() has, at once if there is no thread;  *)
(* then the socket is closed.                                              *)
FinishStop ==
  /\ owner \in {"stopping", "destroying"}
  /\ ~ThreadAlive
  /\ loop' = "none"
  /\ openFds' = openFds \ {m_sock_fd}
  /\ m_sock_fd' = NoFd
  /\ owner' = IF owner = "stopping" THEN "idle" ELSE "destroyed"
  /\ UNCHANGED <<started, m_running, frame, m_queue, countVars, active, wire, offered>>

-----------------------------------------------------------------------------
(* Mutants of the dispatch thread. *)

LoopCheckForever ==
  /\ loop = "check"
  /\ loop' = "sleep"
  /\ UNCHANGED <<frame, ownerVars, m_queue, countVars, active, wire, offered>>

LoopCountOnlySuccess ==
  /\ loop \in {"sent", "failed"}
  /\ m_frames_sent' = IF loop = "sent" THEN Inc(m_frames_sent, CounterMod) ELSE m_frames_sent
  /\ frame' = NoFrame
  /\ loop' = "lock"
  /\ UNCHANGED <<m_frames_dropped, ownerVars, m_queue, active, wire, offered>>

(* sendUdp() throws where it returns false. *)
TerminateOnFailedSend ==
  /\ loop = "send"
  /\ loop' = "terminated"
  /\ owner' = "terminated"
  /\ active' = {}
  /\ UNCHANGED <<frame, started, m_running, m_sock_fd, openFds, m_queue, countVars,
                 wire, offered>>

-----------------------------------------------------------------------------
(* The dispatch thread. *)

(* while (m_running.load()) *)
LoopCheck ==
  /\ loop = "check"
  /\ loop' = IF m_running THEN "sleep" ELSE "exited"
  /\ UNCHANGED <<frame, ownerVars, m_queue, countVars, active, wire, offered>>

(* sleep_for(dispatch_interval_ms) returns. *)
LoopWake ==
  /\ loop = "sleep"
  /\ loop' = "lock"
  /\ UNCHANGED <<frame, ownerVars, m_queue, countVars, active, wire, offered>>

(* One turn of the inner loop up to the unlock: an empty queue ends the    *)
(* turn, and otherwise the oldest frame is taken.  The inner loop does not *)
(* look at m_running.                                                      *)
LoopPop ==
  /\ loop = "lock"
  /\ \/ /\ m_queue = <<>>
        /\ loop' = "check"
        /\ UNCHANGED <<m_queue, frame>>
     \/ /\ m_queue # <<>>
        /\ frame' = Head(m_queue)
        /\ m_queue' = Tail(m_queue)
        /\ loop' = "send"
  /\ UNCHANGED <<ownerVars, countVars, active, wire, offered>>

(* sendUdp(): an invalid address fails before the socket is used; sendto() *)
(* on a socket that is open takes the whole datagram or fails.             *)
SendUdp(f) ==
  \/ /\ DestValid
     /\ m_sock_fd \in openFds
     /\ wire' = f
     /\ loop' = "sent"
  \/ /\ wire' = wire
     /\ loop' = "failed"

(* The frame is serialized and sent. *)
LoopSend ==
  /\ loop = "send"
  /\ frame \notin Unserializable
  /\ SendUdp(frame)
  /\ UNCHANGED <<frame, ownerVars, m_queue, countVars, active, offered>>

(* toJson() throws on a string that is not UTF-8.  Nothing catches it in   *)
(* this thread: std::terminate() ends the process with all its threads.    *)
LoopTerminate ==
  /\ loop = "send"
  /\ frame \in Unserializable
  /\ loop' = "terminated"
  /\ owner' = "terminated"
  /\ active' = {}
  /\ UNCHANGED <<frame, started, m_running, m_sock_fd, openFds, m_queue, countVars,
                 wire, offered>>

(* The outcome of sendUdp() is counted. *)
LoopCount ==
  /\ \/ /\ loop = "sent"
        /\ m_frames_sent' = Inc(m_frames_sent, CounterMod)
        /\ UNCHANGED m_frames_dropped
     \/ /\ loop = "failed"
        /\ m_frames_dropped' = Inc(m_frames_dropped, CounterMod)
        /\ UNCHANGED m_frames_sent
  /\ frame' = NoFrame
  /\ loop' = "lock"
  /\ UNCHANGED <<ownerVars, m_queue, active, wire, offered>>

DispatchLoop ==
  \/ LoopCheck
  \/ LoopWake
  \/ LoopPop
  \/ LoopSend
  \/ LoopTerminate
  \/ LoopCount

-----------------------------------------------------------------------------
(* The process has ended, or the object has. *)
Terminated ==
  /\ owner \in {"destroyed", "terminated"}
  /\ UNCHANGED vars

Next ==
  \/ \E p \in Producers, f \in Frames : Enqueue(p, f)
  \/ \E p \in Producers : Retire(p)
  \/ StartAgain
  \/ StartWithoutSocket
  \/ \E fd \in Fds : Start(fd)
  \/ Stop
  \/ Destroy
  \/ FinishStop
  \/ DispatchLoop
  \/ Terminated

(* The operating system runs the dispatch thread and lets it have the      *)
(* mutex, its sleep ends, and join() returns once the thread has.  Callers *)
(* are under no obligation to call.                                        *)
Fairness ==
  /\ WF_vars(DispatchLoop)
  /\ WF_vars(FinishStop)

Safety == Init /\ [][Next]_vars

Spec == Safety /\ Fairness

-----------------------------------------------------------------------------
(* Properties. *)

InHand == IF FrameInHand THEN 1 ELSE 0

(* The type invariant; the queue never holds more than max_queue_depth     *)
(* frames (enqueue()'s test and the pops in dispatchLoop()).               *)
TypeOK ==
  /\ m_queue \in Seq(Frames)
  /\ Len(m_queue) <= MaxQueueDepth
  /\ m_running \in BOOLEAN
  /\ m_sock_fd \in Fds \cup {NoFd}
  /\ m_frames_sent \in 0 .. CounterMod - 1
  /\ m_frames_dropped \in 0 .. CounterMod - 1
  /\ loop \in LoopStates
  /\ frame \in Frames \cup {NoFrame}
  /\ owner \in {"idle", "stopping", "destroying", "destroyed", "terminated"}
  /\ started \in {"no", "returned", "threw"}
  /\ active \subseteq Producers
  /\ openFds \subseteq Fds
  /\ wire \in Frames \cup {NoFrame}
  /\ offered \in 0 .. CounterMod - 1

(* Every frame a caller ever offered is sent, dropped, queued or in the    *)
(* hands of the dispatch thread, and is counted once: framesSent() and     *)
(* framesDropped() add up whatever the threads do, across restarts and     *)
(* when the counters wrap.                                                 *)
Accounting ==
  (m_frames_sent + m_frames_dropped + Len(m_queue) + InHand) % CounterMod = offered

(* The dispatch thread never runs without its socket: it is open from      *)
(* before the thread starts until after it has been joined (start() and    *)
(* stop()), so that sendUdp() never uses a descriptor that was closed and  *)
(* may belong to somebody else.                                            *)
SocketLive == ThreadAlive => m_sock_fd \in openFds

(* Nothing leaks: the descriptor the object remembers is the only one it   *)
(* has open, and when the owner is outside stop() and m_running is clear,  *)
(* there is no thread left to join and no descriptor left to close,        *)
(* however start() failed before.                                          *)
NothingLeaks ==
  /\ openFds = {m_sock_fd} \ {NoFd}
  /\ owner \in {"idle", "destroyed"} /\ ~m_running => loop = "none" /\ openFds = {}

(* How many steps dispatchLoop() is from its end once m_running is clear:  *)
(* three for each queued frame and those it takes from where it is.        *)
StepsLeft ==
  CASE loop \in {"none", "exited", "terminated"} -> 0
    [] loop = "check"              -> 1
    [] loop = "lock"               -> 3 * Len(m_queue) + 2
    [] loop = "sleep"              -> 3 * Len(m_queue) + 3
    [] loop \in {"sent", "failed"} -> 3 * Len(m_queue) + 3
    [] loop = "send"               -> 3 * Len(m_queue) + 4

(* What stop() and the destructor wait for in join() comes closer with     *)
(* every step of the dispatch thread, and the one thing that sets it back  *)
(* is a call of enqueue(), by the three steps its frame costs: stop()      *)
(* hangs only while callers offer a frame for every three steps.           *)
StopAdvances ==
  [][ThreadAlive /\ owner \in {"stopping", "destroying"} =>
       /\ loop' # loop => StepsLeft' < StepsLeft
       /\ loop' = loop => StepsLeft' <= StepsLeft + 3]_vars

(* What the dispatcher implements.  A frame is pending until sendUdp() has *)
(* returned; the counter of its outcome counts it a little later.          *)
Channel == INSTANCE TelemetryChannel WITH
  Depth   <- MaxQueueDepth,
  pending <- (IF loop \in {"send", "terminated"} THEN <<frame>> ELSE <<>>) \o m_queue,
  on      <- ThreadAlive,
  sent    <- IF loop = "sent" THEN Inc(m_frames_sent, CounterMod) ELSE m_frames_sent,
  dropped <- IF loop = "failed" THEN Inc(m_frames_dropped, CounterMod) ELSE m_frames_dropped

(* start(), stop(), enqueue() and dispatchLoop() together are a bounded    *)
(* first-in-first-out channel: no accepted frame is lost, duplicated or    *)
(* overtaken, and a running dispatcher settles every frame it accepted.    *)
ImplementsChannel == Channel!Spec

(* stop() returns, and so does the destructor, when no thread offers       *)
(* frames any more: dispatchLoop() empties the queue and then sees that    *)
(* m_running is clear.                                                     *)
QuietStopReturns ==
  (owner \in {"stopping", "destroying"} /\ active = {})
    ~> owner \notin {"stopping", "destroying"}

(* stop() returns.  "Stop the thread gracefully and close the socket."     *)
(* (TelemetryDispatcher.h:42)                                              *)
StopReturns == owner = "stopping" ~> owner # "stopping"

(* After a start() that returned and before the next stop() there is a     *)
(* dispatch thread and a socket.  "Start the background dispatch thread    *)
(* and open the UDP socket." (TelemetryDispatcher.h:39)                    *)
StartedMeansDispatching ==
  started = "returned" /\ owner = "idle" => loop # "none" /\ m_sock_fd # NoFd

=============================================================================
