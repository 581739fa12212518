---------------------- MODULE TelemetryDispatcherProofs ----------------------
(***************************************************************************)
(* The safety properties of TelemetryDispatcher hold for every number of   *)
(* producers, every queue depth, every counter width, and every set of     *)
(* frames and descriptors, and the dispatcher implements the safety part   *)
(* of TelemetryChannel.                                                    *)
(***************************************************************************)
EXTENDS TelemetryDispatcher, ModularCounting

USE DispatcherAssumption

(* The frame in the hands of the thread is a frame, a process that has     *)
(* ended has no owner left, and who waits in join() has cleared m_running. *)
HandOK ==
  /\ loop \in {"send", "terminated"} => frame \in Frames
  /\ loop = "terminated" => owner = "terminated"
  /\ owner \in {"stopping", "destroying"} => ~m_running

IInv == TypeOK /\ Accounting /\ SocketLive /\ NothingLeaks /\ HandOK

-----------------------------------------------------------------------------
LEMMA TypeInit == Init => TypeOK
  <1> SUFFICES ASSUME Init
               PROVE  TypeOK
    OBVIOUS
  <1>1. m_queue \in Seq(Frames) /\ Len(m_queue) <= MaxQueueDepth
    BY DEF Init
  <1>2. /\ m_frames_sent \in 0 .. CounterMod - 1
        /\ m_frames_dropped \in 0 .. CounterMod - 1
        /\ offered \in 0 .. CounterMod - 1
    BY DEF Init
  <1> QED
    BY <1>1, <1>2 DEF Init, TypeOK, LoopStates

LEMMA TypeStep == TypeOK /\ HandOK /\ [Next]_vars => TypeOK'
  <1> SUFFICES ASSUME TypeOK, HandOK, [Next]_vars
               PROVE  TypeOK'
    OBVIOUS
  <1> USE DEF TypeOK, threadVars, ownerVars, countVars, NoFd, LoopStates
  <1>1. ASSUME NEW p \in Producers, NEW f \in Frames, Enqueue(p, f)
        PROVE  TypeOK'
    <2>1. /\ Inc(offered, CounterMod) \in 0 .. CounterMod - 1
          /\ Inc(m_frames_dropped, CounterMod) \in 0 .. CounterMod - 1
      BY IncType
    <2>2. m_queue' \in Seq(Frames) /\ Len(m_queue') <= MaxQueueDepth
      BY <1>1 DEF Enqueue
    <2> QED
      BY <1>1, <2>1, <2>2 DEF Enqueue
  <1>2. ASSUME NEW p \in Producers, Retire(p)
        PROVE  TypeOK'
    BY <1>2 DEF Retire
  <1>3. CASE StartAgain
    BY <1>3 DEF StartAgain
  <1>4. CASE StartWithoutSocket
    BY <1>4 DEF StartWithoutSocket
  <1>5. ASSUME NEW fd \in Fds, Start(fd)
        PROVE  TypeOK'
    BY <1>5 DEF Start
  <1>6. CASE Stop
    BY <1>6 DEF Stop, BeginStop
  <1>7. CASE Destroy
    BY <1>7 DEF Destroy, BeginStop
  <1>8. CASE FinishStop
    BY <1>8 DEF FinishStop
  <1>9. CASE LoopCheck
    BY <1>9 DEF LoopCheck
  <1>10. CASE LoopWake
    BY <1>10 DEF LoopWake
  <1>11. CASE LoopPop
    <2>1. m_queue' \in Seq(Frames) /\ Len(m_queue') <= MaxQueueDepth
      BY <1>11 DEF LoopPop
    <2>2. frame' \in Frames \cup {NoFrame}
      BY <1>11 DEF LoopPop
    <2> QED
      BY <1>11, <2>1, <2>2 DEF LoopPop
  <1>12. CASE LoopSend
    BY <1>12 DEF LoopSend, SendUdp
  <1>13. CASE LoopTerminate
    BY <1>13 DEF LoopTerminate
  <1>14. CASE LoopCount
    <2>1. /\ Inc(m_frames_sent, CounterMod) \in 0 .. CounterMod - 1
          /\ Inc(m_frames_dropped, CounterMod) \in 0 .. CounterMod - 1
      BY IncType
    <2>2. m_frames_sent' \in 0 .. CounterMod - 1 /\ m_frames_dropped' \in 0 .. CounterMod - 1
      BY <1>14, <2>1 DEF LoopCount
    <2> QED
      BY <1>14, <2>2 DEF LoopCount
  <1>15. CASE UNCHANGED vars
    BY <1>15 DEF vars
  <1> QED
    BY <1>1, <1>2, <1>3, <1>4, <1>5, <1>6, <1>7, <1>8, <1>9, <1>10, <1>11, <1>12,
       <1>13, <1>14, <1>15
    DEF Next, DispatchLoop, Terminated

-----------------------------------------------------------------------------
(* Accounting.  Settled is the sum it is about. *)

Settled == m_frames_sent + m_frames_dropped + Len(m_queue) + InHand

LEMMA AccountingInit == Init => Accounting
  BY DEF Init, Accounting, InHand, FrameInHand

(* A step that leaves the sum alone keeps Accounting, and so does one that *)
(* counts an offered frame.                                                *)
LEMMA SettledUnchanged ==
  ASSUME Accounting, Settled' = Settled, offered' = offered
  PROVE  Accounting'
  BY DEF Accounting, Settled

LEMMA SettledOneMore ==
  ASSUME TypeOK, Accounting, Settled' = Settled + 1, offered' = Inc(offered, CounterMod)
  PROVE  Accounting'
  <1>1. Settled \in Int
    BY DEF TypeOK, Settled, InHand
  <1>2. (Settled + 1) % CounterMod = Inc(Settled % CounterMod, CounterMod)
    BY <1>1, IncOfRemainder
  <1> QED
    BY <1>2 DEF Accounting, Settled

LEMMA AccountingEnqueue ==
  ASSUME TypeOK, Accounting, NEW p \in Producers, NEW f \in Frames, Enqueue(p, f)
  PROVE  Accounting'
  <1>1. InHand' = InHand /\ InHand \in Int
    BY DEF Enqueue, threadVars, InHand, FrameInHand
  <1>2. /\ m_frames_sent \in Int
        /\ m_frames_dropped \in 0 .. CounterMod - 1
        /\ Len(m_queue) \in Int
    BY DEF TypeOK
  <1>3. offered' = Inc(offered, CounterMod)
    BY DEF Enqueue
  <1>4. CASE Len(m_queue) < MaxQueueDepth
    <2>1. m_queue' = Append(m_queue, f) /\ UNCHANGED countVars
      BY <1>4, <1>2 DEF Enqueue
    <2>2. Len(m_queue') = Len(m_queue) + 1
      BY <2>1 DEF TypeOK
    <2>3. Settled' = Settled + 1
      BY <1>1, <1>2, <2>1, <2>2 DEF Settled, countVars
    <2> QED
      BY <2>3, <1>3, SettledOneMore
  <1>5. CASE Len(m_queue) >= MaxQueueDepth
    <2> DEFINE rest == m_frames_sent + Len(m_queue) + InHand
               counted == Inc(m_frames_dropped, CounterMod)
    <2>1. m_frames_dropped' = counted /\ UNCHANGED <<m_queue, m_frames_sent>>
      BY <1>5, <1>2 DEF Enqueue
    <2>2. counted \in Int /\ rest \in Int
      <3>1. counted \in 0 .. CounterMod - 1
        BY <1>2, IncType
      <3> HIDE DEF counted
      <3> QED
        BY <1>1, <1>2, <3>1
    <2>3. (counted + rest) % CounterMod = (m_frames_dropped + rest + 1) % CounterMod
      <3> HIDE DEF rest
      <3> QED
        BY <1>2, <2>2, IncInSum
    <2>4. Settled' = counted + rest
      <3> HIDE DEF counted
      <3> QED
        BY <1>1, <1>2, <2>1, <2>2 DEF Settled
    <2>5. Settled + 1 = m_frames_dropped + rest + 1 /\ Settled \in Int
      <3> HIDE DEF counted
      <3> QED
        BY <1>1, <1>2 DEF Settled
    <2>6. (Settled + 1) % CounterMod = Inc(Settled % CounterMod, CounterMod)
      <3> HIDE DEF counted, rest
      <3> QED
        BY <2>5, IncOfRemainder
    <2>7. Settled' % CounterMod = Inc(Settled % CounterMod, CounterMod)
      BY <2>3, <2>4, <2>5, <2>6
    <2> QED
      BY <2>7, <1>3 DEF Accounting, Settled
  <1> QED
    BY <1>2, <1>4, <1>5

LEMMA AccountingCount ==
  ASSUME TypeOK, Accounting, LoopCount
  PROVE  Accounting'
  <1> USE DEF TypeOK, LoopCount, Settled
  <1>1. InHand = 1 /\ InHand' = 0
    BY DEF InHand, FrameInHand
  <1>2. CASE loop = "sent"
    <2> DEFINE rest == m_frames_dropped + Len(m_queue)
    <2>1. (Inc(m_frames_sent, CounterMod) + rest) % CounterMod
            = (m_frames_sent + rest + 1) % CounterMod
      BY IncInSum
    <2>2. Settled' = Inc(m_frames_sent, CounterMod) + rest
      BY <1>1, <1>2, IncType
    <2>3. Settled = m_frames_sent + rest + 1
      BY <1>1
    <2> QED
      BY <2>1, <2>2, <2>3 DEF Accounting
  <1>3. CASE loop = "failed"
    <2> DEFINE rest == m_frames_sent + Len(m_queue)
    <2>1. (Inc(m_frames_dropped, CounterMod) + rest) % CounterMod
            = (m_frames_dropped + rest + 1) % CounterMod
      BY IncInSum
    <2>2. Settled' = Inc(m_frames_dropped, CounterMod) + rest
      BY <1>1, <1>3, IncType
    <2>3. Settled = m_frames_dropped + rest + 1
      BY <1>1
    <2> QED
      BY <2>1, <2>2, <2>3 DEF Accounting
  <1> QED
    BY <1>2, <1>3

LEMMA AccountingStep == IInv /\ [Next]_vars => Accounting'
  <1> SUFFICES ASSUME TypeOK, Accounting, SocketLive, NothingLeaks, HandOK, [Next]_vars
               PROVE  Accounting'
    BY DEF IInv
  <1>a. ASSUME UNCHANGED <<countVars, m_queue, offered>>, FrameInHand' = FrameInHand
        PROVE  Accounting'
    BY <1>a, SettledUnchanged DEF Settled, InHand, countVars
  <1> USE DEF threadVars, ownerVars, FrameInHand
  <1>1. ASSUME NEW p \in Producers, NEW f \in Frames, Enqueue(p, f)
        PROVE  Accounting'
    BY <1>1, AccountingEnqueue
  <1>2. ASSUME NEW p \in Producers, Retire(p)
        PROVE  Accounting'
    BY <1>2, <1>a DEF Retire
  <1>3. CASE StartAgain
    BY <1>3, <1>a DEF StartAgain
  <1>4. CASE StartWithoutSocket
    BY <1>4, <1>a DEF StartWithoutSocket
  <1>5. ASSUME NEW fd \in Fds, Start(fd)
        PROVE  Accounting'
    <2>1. loop = "none"
      BY <1>5 DEF Start, NothingLeaks
    <2> QED
      BY <1>5, <2>1, <1>a DEF Start
  <1>6. CASE Stop
    BY <1>6, <1>a DEF Stop, BeginStop
  <1>7. CASE Destroy
    BY <1>7, <1>a DEF Destroy, BeginStop
  <1>8. CASE FinishStop
    <2>1. loop \in {"none", "exited"}
      BY <1>8 DEF FinishStop, ThreadAlive, HandOK
    <2> QED
      BY <1>8, <2>1, <1>a DEF FinishStop
  <1>9. CASE LoopCheck
    BY <1>9, <1>a DEF LoopCheck
  <1>10. CASE LoopWake
    BY <1>10, <1>a DEF LoopWake
  <1>11. CASE LoopPop
    <2>1. CASE m_queue = <<>>
      BY <1>11, <2>1, <1>a DEF LoopPop
    <2>2. CASE m_queue # <<>>
      <3>1. Len(m_queue') = Len(m_queue) - 1
        BY <1>11, <2>2 DEF LoopPop, TypeOK
      <3>2. InHand = 0 /\ InHand' = 1
        BY <1>11, <2>2 DEF LoopPop, InHand
      <3>3. Settled' = Settled /\ offered' = offered
        BY <1>11, <3>1, <3>2 DEF LoopPop, Settled, TypeOK, countVars
      <3> QED
        BY <3>3, SettledUnchanged
    <2> QED
      BY <2>1, <2>2
  <1>12. CASE LoopSend
    BY <1>12, <1>a DEF LoopSend, SendUdp
  <1>13. CASE LoopTerminate
    BY <1>13, <1>a DEF LoopTerminate
  <1>14. CASE LoopCount
    BY <1>14, AccountingCount
  <1>15. CASE UNCHANGED vars
    BY <1>15, <1>a DEF vars
  <1> QED
    BY <1>1, <1>2, <1>3, <1>4, <1>5, <1>6, <1>7, <1>8, <1>9, <1>10, <1>11, <1>12,
       <1>13, <1>14, <1>15
    DEF Next, DispatchLoop, Terminated

-----------------------------------------------------------------------------
(* The descriptor and the thread. *)

Ownership == SocketLive /\ NothingLeaks /\ HandOK

LEMMA OwnershipInit == Init => Ownership
  BY DEF Init, Ownership, SocketLive, NothingLeaks, HandOK, ThreadAlive

LEMMA OwnershipStep == TypeOK /\ Ownership /\ [Next]_vars => Ownership'
  <1> SUFFICES ASSUME TypeOK, Ownership, [Next]_vars
               PROVE  Ownership'
    OBVIOUS
  <1> USE DEF Ownership, SocketLive, NothingLeaks, HandOK, ThreadAlive,
              threadVars, ownerVars
  <1>1. ASSUME NEW p \in Producers, NEW f \in Frames, Enqueue(p, f)
        PROVE  Ownership'
    BY <1>1 DEF Enqueue
  <1>2. ASSUME NEW p \in Producers, Retire(p)
        PROVE  Ownership'
    BY <1>2 DEF Retire
  <1>3. CASE StartAgain
    BY <1>3 DEF StartAgain
  <1>4. CASE StartWithoutSocket
    BY <1>4 DEF StartWithoutSocket
  <1>5. ASSUME NEW fd \in Fds, Start(fd)
        PROVE  Ownership'
    <2>1. loop = "none" /\ openFds = {} /\ fd # NoFd
      BY <1>5 DEF Start, NoFd
    <2> QED
      BY <1>5, <2>1 DEF Start
  <1>6. CASE Stop
    BY <1>6 DEF Stop, BeginStop
  <1>7. CASE Destroy
    BY <1>7 DEF Destroy, BeginStop
  <1>8. CASE FinishStop
    BY <1>8 DEF FinishStop
  <1>9. CASE LoopCheck
    BY <1>9 DEF LoopCheck
  <1>10. CASE LoopWake
    BY <1>10 DEF LoopWake
  <1>11. CASE LoopPop
    <2>1. m_queue # <<>> => Head(m_queue) \in Frames
      BY DEF TypeOK
    <2> QED
      BY <1>11, <2>1 DEF LoopPop
  <1>12. CASE LoopSend
    BY <1>12 DEF LoopSend, SendUdp
  <1>13. CASE LoopTerminate
    BY <1>13 DEF LoopTerminate
  <1>14. CASE LoopCount
    BY <1>14 DEF LoopCount
  <1>15. CASE UNCHANGED vars
    BY <1>15 DEF vars
  <1> QED
    BY <1>1, <1>2, <1>3, <1>4, <1>5, <1>6, <1>7, <1>8, <1>9, <1>10, <1>11, <1>12,
       <1>13, <1>14, <1>15
    DEF Next, DispatchLoop, Terminated

-----------------------------------------------------------------------------
(* The inductive invariant and what follows from it. *)

LEMMA Invariance == Safety => []IInv
  <1>1. Init => IInv
    BY TypeInit, AccountingInit, OwnershipInit DEF IInv, Ownership
  <1>2. IInv /\ [Next]_vars => IInv'
    BY TypeStep, AccountingStep, OwnershipStep DEF IInv, Ownership
  <1> QED
    BY <1>1, <1>2, PTL DEF Safety

(* Every variable keeps its type and the queue stays within                *)
(* max_queue_depth, for any number of producers.                           *)
THEOREM TypeCorrect == Safety => []TypeOK
  <1>1. IInv => TypeOK
    BY DEF IInv
  <1> QED
    BY <1>1, Invariance, PTL

(* Every offered frame is sent, dropped, queued or in hand and is counted  *)
(* once, for counters of any width: enqueue() and dispatchLoop() agree on  *)
(* framesSent() and framesDropped().                                       *)
THEOREM AccountingCorrect == Safety => []Accounting
  <1>1. IInv => Accounting
    BY DEF IInv
  <1> QED
    BY <1>1, Invariance, PTL

(* sendUdp() never runs on a descriptor that stop() has closed. *)
THEOREM SocketOutlivesThread == Safety => []SocketLive
  <1>1. IInv => SocketLive
    BY DEF IInv
  <1> QED
    BY <1>1, Invariance, PTL

(* However start() failed and however often it was retried, stop() leaves  *)
(* neither a thread nor a descriptor behind.                               *)
THEOREM StopReleasesEverything == Safety => []NothingLeaks
  <1>1. IInv => NothingLeaks
    BY DEF IInv
  <1> QED
    BY <1>1, Invariance, PTL

-----------------------------------------------------------------------------
(* What stop() waits for. *)

LEMMA StepsLeftIs ==
  TypeOK =>
    /\ StepsLeft \in 0 .. 3 * MaxQueueDepth + 4
    /\ loop \in {"none", "exited", "terminated"} => StepsLeft = 0
    /\ loop = "check" => StepsLeft = 1
    /\ loop = "lock" => StepsLeft = 3 * Len(m_queue) + 2
    /\ loop \in {"sleep", "sent", "failed"} => StepsLeft = 3 * Len(m_queue) + 3
    /\ loop = "send" => StepsLeft = 3 * Len(m_queue) + 4
  BY DEF TypeOK, StepsLeft, LoopStates

LEMMA StepsLeftWillBe ==
  TypeOK' =>
    /\ loop' \in {"none", "exited", "terminated"} => StepsLeft' = 0
    /\ loop' = "check" => StepsLeft' = 1
    /\ loop' = "lock" => StepsLeft' = 3 * Len(m_queue') + 2
    /\ loop' \in {"sleep", "sent", "failed"} => StepsLeft' = 3 * Len(m_queue') + 3
    /\ loop' = "send" => StepsLeft' = 3 * Len(m_queue') + 4
  BY DEF TypeOK, StepsLeft, LoopStates

LEMMA ThreadAdvances ==
  ASSUME TypeOK, TypeOK', ~m_running, DispatchLoop
  PROVE  loop' # loop /\ StepsLeft' < StepsLeft
  <1>a. Len(m_queue) \in Nat /\ Len(m_queue') \in Nat
    BY DEF TypeOK
  <1>1. CASE LoopCheck
    <2>1. loop = "check" /\ loop' = "exited"
      BY <1>1 DEF LoopCheck
    <2> QED
      BY <2>1, StepsLeftIs, StepsLeftWillBe
  <1>2. CASE LoopWake
    <2>1. loop = "sleep" /\ loop' = "lock" /\ m_queue' = m_queue
      BY <1>2 DEF LoopWake
    <2> QED
      BY <1>a, <2>1, StepsLeftIs, StepsLeftWillBe
  <1>3. CASE LoopPop
    <2>1. CASE m_queue = <<>>
      <3>1. loop = "lock" /\ loop' = "check"
        BY <1>3, <2>1 DEF LoopPop
      <3> QED
        BY <1>a, <3>1, StepsLeftIs, StepsLeftWillBe
    <2>2. CASE m_queue # <<>>
      <3>1. loop = "lock" /\ loop' = "send" /\ Len(m_queue') = Len(m_queue) - 1
        BY <1>3, <2>2 DEF LoopPop, TypeOK
      <3> QED
        BY <1>a, <3>1, StepsLeftIs, StepsLeftWillBe
    <2> QED
      BY <2>1, <2>2
  <1>4. CASE LoopSend
    <2>1. loop = "send" /\ loop' \in {"sent", "failed"} /\ m_queue' = m_queue
      BY <1>4 DEF LoopSend, SendUdp
    <2> QED
      BY <1>a, <2>1, StepsLeftIs, StepsLeftWillBe
  <1>5. CASE LoopTerminate
    <2>1. loop = "send" /\ loop' = "terminated"
      BY <1>5 DEF LoopTerminate
    <2> QED
      BY <1>a, <2>1, StepsLeftIs, StepsLeftWillBe
  <1>6. CASE LoopCount
    <2>1. loop \in {"sent", "failed"} /\ loop' = "lock" /\ m_queue' = m_queue
      BY <1>6 DEF LoopCount
    <2> QED
      BY <1>a, <2>1, StepsLeftIs, StepsLeftWillBe
  <1> QED
    BY <1>1, <1>2, <1>3, <1>4, <1>5, <1>6 DEF DispatchLoop

(* Nothing but enqueue() makes the queue longer. *)
LEMMA OthersDoNotPush ==
  ASSUME TypeOK, ThreadAlive, owner \in {"stopping", "destroying"}, [Next]_vars
  PROVE  \/ \E p \in Producers, f \in Frames : Enqueue(p, f)
         \/ UNCHANGED <<loop, m_queue>>
         \/ DispatchLoop
  BY DEF Next, vars, threadVars, ownerVars, Retire, StartAgain, StartWithoutSocket, Start,
         Stop, Destroy, BeginStop, FinishStop, Terminated

LEMMA EnqueueCosts ==
  ASSUME TypeOK, TypeOK', NEW p \in Producers, NEW f \in Frames, Enqueue(p, f)
  PROVE  loop' = loop /\ StepsLeft' <= StepsLeft + 3
  <1>1. loop' = loop
    BY DEF Enqueue, threadVars
  <1>2. Len(m_queue) \in Nat /\ Len(m_queue') \in {Len(m_queue), Len(m_queue) + 1}
    BY DEF Enqueue, TypeOK
  <1> QED
    BY <1>1, <1>2, StepsLeftIs, StepsLeftWillBe DEF TypeOK, LoopStates

(* While stop() or the destructor waits, every step of dispatchLoop()      *)
(* brings the end of the thread closer and every enqueue() delays it by    *)
(* three steps at most, for any number of producers and any depth.         *)
THEOREM StopComesCloser == Safety => StopAdvances
  <1>1. IInv /\ IInv' /\ [Next]_vars =>
          [ThreadAlive /\ owner \in {"stopping", "destroying"} =>
             /\ loop' # loop => StepsLeft' < StepsLeft
             /\ loop' = loop => StepsLeft' <= StepsLeft + 3]_vars
    <2> SUFFICES ASSUME IInv, IInv', [Next]_vars,
                        ThreadAlive, owner \in {"stopping", "destroying"}
                 PROVE  /\ loop' # loop => StepsLeft' < StepsLeft
                        /\ loop' = loop => StepsLeft' <= StepsLeft + 3
      OBVIOUS
    <2>1. TypeOK /\ TypeOK' /\ ~m_running
      BY DEF IInv, HandOK
    <2>2. ASSUME NEW p \in Producers, NEW f \in Frames, Enqueue(p, f)
          PROVE  loop' = loop /\ StepsLeft' <= StepsLeft + 3
      BY <2>1, <2>2, EnqueueCosts
    <2>3. CASE UNCHANGED <<loop, m_queue>>
      <3>1. StepsLeft' = StepsLeft
        BY <2>3 DEF StepsLeft
      <3>2. StepsLeft \in Int
        BY <2>1, StepsLeftIs
      <3> QED
        BY <2>3, <3>1, <3>2
    <2>4. CASE DispatchLoop
      BY <2>1, <2>4, ThreadAdvances
    <2> QED
      BY <2>1, <2>2, <2>3, <2>4, OthersDoNotPush
  <1> QED
    BY <1>1, Invariance, PTL DEF Safety, StopAdvances

(* The thread that stop() waits for is never more than three steps per     *)
(* place in the queue and four from its end.                               *)
THEOREM StopIsBounded == Safety => [](StepsLeft \in 0 .. 3 * MaxQueueDepth + 4)
  <1>1. IInv => StepsLeft \in 0 .. 3 * MaxQueueDepth + 4
    BY StepsLeftIs DEF IInv
  <1> QED
    BY <1>1, Invariance, PTL

-----------------------------------------------------------------------------
(* The dispatcher implements the safety part of TelemetryChannel. *)

(* What the abstract buffer holds: the frame being sent, if there is one,  *)
(* and the queue behind it.                                                *)
LEMMA PendingOf ==
  ASSUME NEW S, NEW q \in Seq(S), NEW x \in S
  PROVE  /\ <<>> \o q = q
         /\ <<x>> \o q # <<>>
         /\ Head(<<x>> \o q) = x
         /\ Tail(<<x>> \o q) = q
         /\ Len(<<x>> \o q) = Len(q) + 1
         /\ q # <<>> => <<Head(q)>> \o Tail(q) = q
         /\ <<>> \o Append(q, x) = Append(<<>> \o q, x)
  OBVIOUS

LEMMA AppendBehind ==
  ASSUME NEW S, NEW q \in Seq(S), NEW x \in S, NEW y \in S
  PROVE  <<x>> \o Append(q, y) = Append(<<x>> \o q, y)
  OBVIOUS

Sending == loop \in {"send", "terminated"}
Pending == (IF Sending THEN <<frame>> ELSE <<>>) \o m_queue
Sent    == IF loop = "sent" THEN Inc(m_frames_sent, CounterMod) ELSE m_frames_sent
Dropped == IF loop = "failed" THEN Inc(m_frames_dropped, CounterMod) ELSE m_frames_dropped

LEMMA PendingType ==
  ASSUME TypeOK, HandOK
  PROVE  /\ Len(Pending) = Len(m_queue) + IF Sending THEN 1 ELSE 0
         /\ Sending => Pending # <<>> /\ Head(Pending) = frame /\ Tail(Pending) = m_queue
         /\ ~Sending => Pending = m_queue
  <1>1. CASE Sending
    <2>1. frame \in Frames /\ Pending = <<frame>> \o m_queue /\ m_queue \in Seq(Frames)
      BY <1>1 DEF Sending, HandOK, Pending, TypeOK
    <2> QED
      BY <1>1, <2>1, PendingOf
  <1>2. CASE ~Sending
    BY <1>2, PendingOf DEF Pending, TypeOK
  <1> QED
    BY <1>1, <1>2

LEMMA SameInc == \A c, m : Channel!Inc(c, m) = Inc(c, m)
  BY DEF Channel!Inc, Inc

LEMMA ChannelInit == Init => Channel!Init
  <1> SUFFICES ASSUME Init
               PROVE  Channel!Init
    OBVIOUS
  <1>1. <<>> \o m_queue = <<>>
    BY DEF Init
  <1> QED
    BY <1>1 DEF Init, Channel!Init, ThreadAlive

(* A step that changes nothing the channel can see. *)
LEMMA ChannelStutter ==
  ASSUME UNCHANGED <<Pending, ThreadAlive, wire, Sent, Dropped>>
  PROVE  UNCHANGED Channel!vars
  BY DEF Channel!vars, Pending, Sending, Sent, Dropped

(* A step that starts or ends the dispatch thread. *)
LEMMA ChannelSwitch ==
  ASSUME UNCHANGED <<Pending, wire, Sent, Dropped>>, ThreadAlive' = ~ThreadAlive
  PROVE  Channel!Switch
  BY DEF Channel!Switch, Pending, Sending, Sent, Dropped

LEMMA ChannelEnqueue ==
  ASSUME TypeOK, HandOK, NEW p \in Producers, NEW f \in Frames, Enqueue(p, f)
  PROVE  Channel!Next
  <1>1. /\ UNCHANGED <<loop, frame, wire, m_frames_sent>>
        /\ Sending' = Sending /\ ThreadAlive' = ThreadAlive /\ Sent' = Sent
    BY DEF Enqueue, countVars, threadVars, Sending, ThreadAlive, Sent
  <1>2. Len(Pending) = Len(m_queue) + (IF Sending THEN 1 ELSE 0) /\ Len(m_queue) \in Nat
    BY PendingType DEF TypeOK
  <1>3. CASE Len(m_queue) < MaxQueueDepth
    <2>1. m_queue' = Append(m_queue, f) /\ m_frames_dropped' = m_frames_dropped
      BY <1>2, <1>3 DEF Enqueue, countVars
    <2>2. Pending' = Append(Pending, f)
      <3>1. CASE Sending
        <4>1. frame \in Frames /\ m_queue \in Seq(Frames)
          BY <3>1 DEF Sending, HandOK, TypeOK
        <4> QED
          BY <1>1, <2>1, <3>1, <4>1, AppendBehind DEF Pending
      <3>2. CASE ~Sending
        BY <1>1, <2>1, <3>2, PendingOf DEF Pending, TypeOK
      <3> QED
        BY <3>1, <3>2
    <2>3. Dropped' = Dropped
      BY <1>1, <2>1 DEF Dropped
    <2>4. Len(Pending) <= MaxQueueDepth
      BY <1>2, <1>3
    <2>5. Channel!Accept(f)
      BY <1>1, <2>2, <2>3, <2>4 DEF Channel!Accept, Pending, Sending, Sent, Dropped
    <2> QED
      BY <2>5 DEF Channel!Next
  <1>4. CASE Len(m_queue) >= MaxQueueDepth
    <2>1. m_queue' = m_queue /\ m_frames_dropped' = Inc(m_frames_dropped, CounterMod)
      BY <1>2, <1>4 DEF Enqueue
    <2>2. Pending' = Pending
      BY <1>1, <2>1 DEF Pending
    <2>3. Dropped' = Inc(Dropped, CounterMod)
      BY <1>1, <2>1 DEF Dropped
    <2>4. Len(Pending) >= MaxQueueDepth
      BY <1>2, <1>4
    <2>5. Channel!Refuse
      BY <1>1, <2>2, <2>3, <2>4, SameInc
      DEF Channel!Refuse, Pending, Sending, Sent, Dropped
    <2> QED
      BY <2>5 DEF Channel!Next
  <1> QED
    BY <1>2, <1>3, <1>4

LEMMA ChannelSend ==
  ASSUME TypeOK, HandOK, LoopSend
  PROVE  Channel!Next
  <1>1. /\ Sending /\ ~Sending' /\ ThreadAlive /\ ThreadAlive'
        /\ UNCHANGED <<frame, m_queue, m_frames_sent, m_frames_dropped>>
    BY DEF LoopSend, SendUdp, Sending, ThreadAlive, countVars
  <1>2. Pending # <<>> /\ Head(Pending) = frame /\ Tail(Pending) = m_queue
    BY <1>1, PendingType
  <1>3. Pending' = Tail(Pending)
    BY <1>1, <1>2, PendingOf DEF Pending, TypeOK
  <1>4. CASE wire' = frame /\ loop' = "sent"
    <2>1. Sent' = Inc(Sent, CounterMod) /\ Dropped' = Dropped
      BY <1>1, <1>4 DEF LoopSend, Sent, Dropped
    <2>2. Channel!Transmit
      BY <1>1, <1>2, <1>3, <1>4, <2>1, SameInc
      DEF Channel!Transmit, Pending, Sending, Sent, Dropped
    <2> QED
      BY <2>2 DEF Channel!Next, Channel!Settle
  <1>5. CASE wire' = wire /\ loop' = "failed"
    <2>1. Sent' = Sent /\ Dropped' = Inc(Dropped, CounterMod)
      BY <1>1, <1>5 DEF LoopSend, Sent, Dropped
    <2>2. Channel!Lose
      BY <1>1, <1>2, <1>3, <1>5, <2>1, SameInc
      DEF Channel!Lose, Pending, Sending, Sent, Dropped
    <2> QED
      BY <2>2 DEF Channel!Next, Channel!Settle
  <1> QED
    BY <1>4, <1>5 DEF LoopSend, SendUdp

LEMMA ChannelStep == IInv /\ [Next]_vars => [Channel!Next]_(Channel!vars)
  <1> SUFFICES ASSUME TypeOK, SocketLive, NothingLeaks, HandOK, [Next]_vars
               PROVE  [Channel!Next]_(Channel!vars)
    BY DEF IInv
  <1>a. ASSUME UNCHANGED <<loop, frame, m_queue, wire, countVars>>
        PROVE  UNCHANGED Channel!vars
    BY <1>a, ChannelStutter DEF countVars, Pending, Sending, Sent, Dropped, ThreadAlive
  <1>b. ASSUME UNCHANGED <<frame, m_queue, wire, countVars>>,
               {loop, loop'} \cap {"send", "terminated", "sent", "failed"} = {}
        PROVE  UNCHANGED <<Pending, wire, Sent, Dropped>>
    BY <1>b DEF countVars, Pending, Sending, Sent, Dropped
  <1> USE DEF threadVars, ownerVars
  <1>1. ASSUME NEW p \in Producers, NEW f \in Frames, Enqueue(p, f)
        PROVE  Channel!Next
    BY <1>1, ChannelEnqueue
  <1>2. ASSUME NEW p \in Producers, Retire(p)
        PROVE  UNCHANGED Channel!vars
    BY <1>2, <1>a DEF Retire
  <1>3. CASE StartAgain
    BY <1>3, <1>a DEF StartAgain
  <1>4. CASE StartWithoutSocket
    BY <1>4, <1>a DEF StartWithoutSocket
  <1>5. ASSUME NEW fd \in Fds, Start(fd)
        PROVE  [Channel!Next]_(Channel!vars)
    <2>1. loop = "none"
      BY <1>5 DEF Start, NothingLeaks
    <2>2. CASE loop' = "check"
      <3>1. ThreadAlive' = ~ThreadAlive
        BY <2>1, <2>2 DEF ThreadAlive
      <3> QED
        BY <1>5, <1>b, <2>1, <2>2, <3>1, ChannelSwitch DEF Start, Channel!Next
    <2>3. CASE loop' = loop
      BY <1>5, <1>a, <2>3 DEF Start
    <2> QED
      BY <1>5, <2>2, <2>3 DEF Start
  <1>6. CASE Stop
    BY <1>6, <1>a DEF Stop, BeginStop
  <1>7. CASE Destroy
    BY <1>7, <1>a DEF Destroy, BeginStop
  <1>8. CASE FinishStop
    <2>1. loop \in {"none", "exited"} /\ loop' = "none"
      BY <1>8 DEF FinishStop, ThreadAlive, HandOK
    <2>2. ThreadAlive' = ThreadAlive
      BY <2>1 DEF ThreadAlive
    <2> QED
      BY <1>8, <1>b, <2>1, <2>2, ChannelStutter DEF FinishStop
  <1>9. CASE LoopCheck
    <2>1. CASE loop' = "sleep"
      <3>1. ThreadAlive' = ThreadAlive
        BY <1>9, <2>1 DEF LoopCheck, ThreadAlive
      <3> QED
        BY <1>9, <1>b, <2>1, <3>1, ChannelStutter DEF LoopCheck
    <2>2. CASE loop' = "exited"
      <3>1. ThreadAlive' = ~ThreadAlive
        BY <1>9, <2>2 DEF LoopCheck, ThreadAlive
      <3> QED
        BY <1>9, <1>b, <2>2, <3>1, ChannelSwitch DEF LoopCheck, Channel!Next
    <2> QED
      BY <1>9, <2>1, <2>2 DEF LoopCheck
  <1>10. CASE LoopWake
    <2>1. ThreadAlive' = ThreadAlive
      BY <1>10 DEF LoopWake, ThreadAlive
    <2> QED
      BY <1>10, <1>b, <2>1, ChannelStutter DEF LoopWake
  <1>11. CASE LoopPop
    <2>1. ThreadAlive' = ThreadAlive /\ Sent' = Sent /\ Dropped' = Dropped /\ wire' = wire
      BY <1>11 DEF LoopPop, ThreadAlive, Sent, Dropped, countVars
    <2>2. CASE m_queue = <<>>
      BY <1>11, <1>b, <2>1, <2>2, ChannelStutter DEF LoopPop
    <2>3. CASE m_queue # <<>>
      <3>1. /\ ~Sending /\ Sending'
            /\ frame' = Head(m_queue) /\ m_queue' = Tail(m_queue)
        BY <1>11, <2>3 DEF LoopPop, Sending
      <3>2. Pending = m_queue
        BY <3>1, PendingType
      <3>3. Head(m_queue) \in Frames /\ <<Head(m_queue)>> \o Tail(m_queue) = m_queue
        <4>1. m_queue \in Seq(Frames) /\ Head(m_queue) \in Frames
          BY <2>3 DEF TypeOK
        <4> QED
          BY <2>3, <4>1, PendingOf
      <3>4. Pending' = Pending
        BY <3>1, <3>2, <3>3 DEF Pending
      <3> QED
        BY <2>1, <3>4, ChannelStutter
    <2> QED
      BY <2>2, <2>3
  <1>12. CASE LoopSend
    BY <1>12, ChannelSend
  <1>13. CASE LoopTerminate
    <2>1. ThreadAlive' = ~ThreadAlive
      BY <1>13 DEF LoopTerminate, ThreadAlive
    <2>2. UNCHANGED <<Pending, wire, Sent, Dropped>>
      BY <1>13 DEF LoopTerminate, countVars, Pending, Sending, Sent, Dropped
    <2> QED
      BY <2>1, <2>2, ChannelSwitch DEF Channel!Next
  <1>14. CASE LoopCount
    <2>1. ThreadAlive' = ThreadAlive /\ wire' = wire
      BY <1>14 DEF LoopCount, ThreadAlive
    <2>2. UNCHANGED <<Sent, Dropped>>
      BY <1>14 DEF LoopCount, Sent, Dropped
    <2>3. Pending' = Pending
      BY <1>14 DEF LoopCount, Pending, Sending
    <2> QED
      BY <2>1, <2>2, <2>3, ChannelStutter
  <1>15. CASE UNCHANGED vars
    BY <1>15, <1>a DEF vars
  <1> QED
    BY <1>1, <1>2, <1>3, <1>4, <1>5, <1>6, <1>7, <1>8, <1>9, <1>10, <1>11, <1>12,
       <1>13, <1>14, <1>15
    DEF Next, DispatchLoop, Terminated

(* start(), stop(), enqueue() and dispatchLoop() together are a bounded    *)
(* first-in-first-out channel that loses, duplicates and reorders nothing, *)
(* for any number of producers and any depth.                              *)
THEOREM ImplementsChannelSafety == Safety => Channel!Safety
  <1>1. Init => Channel!Init
    BY ChannelInit
  <1>2. IInv /\ [Next]_vars => [Channel!Next]_(Channel!vars)
    BY ChannelStep
  <1> QED
    BY <1>1, <1>2, Invariance, PTL DEF Safety, Channel!Safety

=============================================================================
