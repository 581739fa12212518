------------------------- MODULE CommandQueueProofs -------------------------
(***************************************************************************)
(* CommandQueue loses no wake-up and implements BoundedFifo, for any       *)
(* finite set of callers and any depth.                                    *)
(***************************************************************************)
EXTENDS CommandQueue, FiniteSetTheorems, TLAPS

USE QueueAssumption

States == {"idle", "waiting", "woken", "expired"}

IInv == TypeOK /\ NoLostWakeup

-----------------------------------------------------------------------------
LEMMA TypeInit == Init => TypeOK
  BY DEF Init, TypeOK

LEMMA TypeStep == TypeOK /\ [Next]_vars => TypeOK'
  <1> SUFFICES ASSUME TypeOK, [Next]_vars
               PROVE  TypeOK'
    OBVIOUS
  <1> USE DEF TypeOK, Goto, Return, At
  <1>1. ASSUME NEW t \in Threads, PopFront(t)
        PROVE  /\ m_queue' \in Seq(Commands) /\ Len(m_queue') <= MaxDepth
               /\ ret' \in [Threads -> Commands \cup {NoCommand, "accepted", "refused"}]
    BY <1>1 DEF PopFront
  <1>2. ASSUME NEW t \in Threads, NEW c \in Commands, Push(t, c)
        PROVE  TypeOK'
    <2>1. m_queue' \in Seq(Commands) /\ Len(m_queue') <= MaxDepth
      BY <1>2 DEF Push, HasRoom
    <2>2. pc' \in [Threads -> States]
      BY <1>2 DEF Push, NotifyOne, States
    <2> QED
      BY <1>2, <2>1, <2>2 DEF Push, States
  <1>3. ASSUME NEW t \in Threads, TryPop(t)
        PROVE  TypeOK'
    BY <1>1, <1>3 DEF TryPop
  <1>4. ASSUME NEW t \in Threads, PopWait(t)
        PROVE  TypeOK'
    BY <1>1, <1>4 DEF PopWait
  <1>5. ASSUME NEW t \in Threads, SpuriousWakeup(t)
        PROVE  TypeOK'
    BY <1>5 DEF SpuriousWakeup
  <1>6. ASSUME NEW t \in Threads, Expire(t)
        PROVE  TypeOK'
    BY <1>6 DEF Expire
  <1>7. ASSUME NEW t \in Threads, ResumeWoken(t)
        PROVE  TypeOK'
    BY <1>1, <1>7 DEF ResumeWoken
  <1>8. ASSUME NEW t \in Threads, ResumeExpired(t)
        PROVE  TypeOK'
    BY <1>1, <1>8 DEF ResumeExpired
  <1>9. CASE UNCHANGED vars
    BY <1>9 DEF vars
  <1> QED
    BY <1>2, <1>3, <1>4, <1>5, <1>6, <1>7, <1>8, <1>9 DEF Next

-----------------------------------------------------------------------------
(* What a step of one thread does to the wait set and to the threads on    *)
(* their way out of it.                                                    *)
LEMMA GotoSets ==
  ASSUME TypeOK, NEW t \in Threads, NEW s \in States, Goto(t, s)
  PROVE  /\ At("waiting")' = IF s = "waiting" THEN At("waiting") \cup {t}
                                              ELSE At("waiting") \ {t}
         /\ Awake' = IF s \in {"woken", "expired"} THEN Awake \cup {t} ELSE Awake \ {t}
  BY DEF TypeOK, Goto, At, Awake, States

LEMMA AwakeFinite ==
  /\ IsFiniteSet(Awake)
  /\ Cardinality(Awake) \in Nat
  /\ \A t : /\ Cardinality(Awake \cup {t})
                 = IF t \in Awake THEN Cardinality(Awake) ELSE Cardinality(Awake) + 1
            /\ Cardinality(Awake \ {t})
                 = IF t \in Awake THEN Cardinality(Awake) - 1 ELSE Cardinality(Awake)
  <1>1. IsFiniteSet(Awake)
    <2>1. Awake \subseteq Threads
      BY DEF Awake, At
    <2> QED
      BY <2>1, FS_Subset
  <1> QED
    BY <1>1, FS_AddElement, FS_RemoveElement, FS_CardinalityType

LEMMA PopFrontShortens ==
  ASSUME TypeOK, NEW t \in Threads, PopFront(t)
  PROVE  Len(m_queue') = Len(m_queue) - 1 /\ Len(m_queue) \in Nat
  BY DEF TypeOK, PopFront

(* A wait for nothing loses no wake-up: the queue is empty. *)
LEMMA EmptyQueueLosesNothing ==
  ASSUME m_queue' = <<>>
  PROVE  NoLostWakeup'
  <1>1. (Cardinality(Awake) \in Nat)'
    BY AwakeFinite, PTL
  <1> QED
    BY <1>1 DEF NoLostWakeup

LEMMA NoLostWakeupStep == IInv /\ [Next]_vars => NoLostWakeup'
  <1> SUFFICES ASSUME TypeOK, NoLostWakeup, [Next]_vars
               PROVE  NoLostWakeup'
    BY DEF IInv
  <1>a. Len(m_queue) \in Nat
    BY DEF TypeOK
  <1>b. ASSUME UNCHANGED pc
        PROVE  At("waiting")' = At("waiting") /\ Awake' = Awake
    BY <1>b DEF At, Awake
  <1>1. ASSUME NEW t \in Threads, NEW c \in Commands, Push(t, c)
        PROVE  NoLostWakeup'
    <2>1. CASE HasRoom
      <3>1. Len(m_queue') = Len(m_queue) + 1 /\ NotifyOne
        BY <1>1, <2>1 DEF Push, TypeOK
      <3>2. CASE At("waiting") = {} /\ UNCHANGED pc
        BY <1>b, <3>2 DEF NoLostWakeup
      <3>3. ASSUME NEW w \in At("waiting"), Goto(w, "woken")
            PROVE  NoLostWakeup'
        <4>1. w \in Threads /\ w \notin Awake
          BY <3>3 DEF At, Awake
        <4>2. Awake' = Awake \cup {w} /\ Cardinality(Awake') = Cardinality(Awake) + 1
          BY <3>3, <4>1, GotoSets, AwakeFinite DEF States
        <4>3. Len(m_queue) <= Cardinality(Awake)
          BY <3>3 DEF NoLostWakeup
        <4> QED
          BY <3>1, <4>2, <4>3, <1>a, AwakeFinite DEF NoLostWakeup
      <3> QED
        BY <3>1, <3>2, <3>3 DEF NotifyOne
    <2>2. CASE ~HasRoom
      <3>1. UNCHANGED <<m_queue, pc>>
        BY <1>1, <2>2 DEF Push
      <3> QED
        BY <1>b, <3>1 DEF NoLostWakeup
    <2> QED
      BY <2>1, <2>2
  <1>c. ASSUME NEW t \in Threads, PopFront(t), UNCHANGED pc
        PROVE  NoLostWakeup'
    BY <1>c, <1>a, <1>b, PopFrontShortens, AwakeFinite DEF NoLostWakeup
  <1>d. ASSUME NEW t \in Threads, pc[t] \in {"woken", "expired"}, PopFront(t), Goto(t, "idle")
        PROVE  NoLostWakeup'
    <2>1. t \in Awake /\ t \notin At("waiting")
      BY <1>d DEF Awake, At
    <2>2. At("waiting")' = At("waiting") /\ Awake' = Awake \ {t}
      BY <1>d, <2>1, GotoSets DEF States
    <2>3. Cardinality(Awake') = Cardinality(Awake) - 1
      BY <2>1, <2>2, AwakeFinite
    <2> QED
      BY <1>d, <2>2, <2>3, PopFrontShortens, AwakeFinite DEF NoLostWakeup
  <1>e. ASSUME NEW t \in Threads, NEW s \in {"woken", "expired"}, Goto(t, s), UNCHANGED m_queue
        PROVE  NoLostWakeup'
    <2>1. At("waiting")' = At("waiting") \ {t} /\ Awake' = Awake \cup {t}
      BY <1>e, GotoSets DEF States
    <2>2. Cardinality(Awake') >= Cardinality(Awake) /\ Cardinality(Awake') \in Nat
      BY <2>1, AwakeFinite
    <2> QED
      BY <1>e, <1>a, <2>1, <2>2, AwakeFinite DEF NoLostWakeup
  <1>2. ASSUME NEW t \in Threads, TryPop(t)
        PROVE  NoLostWakeup'
    BY <1>2, <1>c, EmptyQueueLosesNothing DEF TryPop
  <1>3. ASSUME NEW t \in Threads, PopWait(t)
        PROVE  NoLostWakeup'
    BY <1>3, <1>c, EmptyQueueLosesNothing DEF PopWait
  <1>4. ASSUME NEW t \in Threads, SpuriousWakeup(t)
        PROVE  NoLostWakeup'
    BY <1>4, <1>e DEF SpuriousWakeup
  <1>5. ASSUME NEW t \in Threads, Expire(t)
        PROVE  NoLostWakeup'
    BY <1>5, <1>e DEF Expire
  <1>6. ASSUME NEW t \in Threads, ResumeWoken(t)
        PROVE  NoLostWakeup'
    BY <1>6, <1>d, EmptyQueueLosesNothing DEF ResumeWoken
  <1>7. ASSUME NEW t \in Threads, ResumeExpired(t)
        PROVE  NoLostWakeup'
    BY <1>7, <1>d, EmptyQueueLosesNothing DEF ResumeExpired
  <1>8. CASE UNCHANGED vars
    BY <1>8, <1>b DEF vars, NoLostWakeup
  <1> QED
    BY <1>1, <1>2, <1>3, <1>4, <1>5, <1>6, <1>7, <1>8 DEF Next

LEMMA Invariance == Safety => []IInv
  <1>1. Init => IInv
    <2>1. Init => NoLostWakeup
      BY DEF Init, NoLostWakeup, At
    <2> QED
      BY <2>1, TypeInit DEF IInv
  <1>2. IInv /\ [Next]_vars => IInv'
    BY TypeStep, NoLostWakeupStep DEF IInv
  <1> QED
    BY <1>1, <1>2, PTL DEF Safety

(* Every variable keeps its type and push() never exceeds m_max_depth. *)
THEOREM TypeCorrect == Safety => []TypeOK
  <1>1. IInv => TypeOK
    BY DEF IInv
  <1> QED
    BY <1>1, Invariance, PTL

(* push()'s notify_one() is enough: for any number of consumers, none of   *)
(* them sleeps in popWait() beside a command that no other thread is on    *)
(* its way to take.                                                        *)
THEOREM NoWakeupLost == Safety => []NoLostWakeup
  <1>1. IInv => NoLostWakeup
    BY DEF IInv
  <1> QED
    BY <1>1, Invariance, PTL

-----------------------------------------------------------------------------
(* The queue implements BoundedFifo. *)

LEMMA FifoStep == [Next]_vars => [Fifo!Next]_(Fifo!vars)
  <1> SUFFICES ASSUME [Next]_vars
               PROVE  [Fifo!Next]_(Fifo!vars)
    OBVIOUS
  <1> USE DEF Return
  <1>1. ASSUME NEW t \in Threads, PopFront(t)
        PROVE  Fifo!Take(t)
    BY <1>1 DEF PopFront, Fifo!Take
  <1>2. ASSUME NEW t \in Threads, m_queue = <<>>, Return(t, NoCommand), UNCHANGED m_queue
        PROVE  Fifo!Miss(t)
    BY <1>2 DEF Fifo!Miss
  <1>3. ASSUME NEW t \in Threads, NEW c \in Commands, Push(t, c)
        PROVE  Fifo!Accept(t, c) \/ Fifo!Refuse(t)
    <2>1. CASE HasRoom
      BY <1>3, <2>1 DEF Push, HasRoom, Fifo!Accept
    <2>2. CASE ~HasRoom
      <3>1. m_queue' = m_queue /\ Return(t, "refused")
        BY <1>3, <2>2 DEF Push
      <3> QED
        BY <2>2, <3>1 DEF HasRoom, Fifo!Refuse
    <2> QED
      BY <2>1, <2>2
  <1>4. ASSUME NEW t \in Threads, TryPop(t)
        PROVE  Fifo!Take(t) \/ Fifo!Miss(t)
    BY <1>1, <1>2, <1>4 DEF TryPop
  <1>5. ASSUME NEW t \in Threads, PopWait(t)
        PROVE  Fifo!Take(t) \/ UNCHANGED Fifo!vars
    BY <1>1, <1>5 DEF PopWait, Fifo!vars
  <1>6. ASSUME NEW t \in Threads, SpuriousWakeup(t) \/ Expire(t)
        PROVE  UNCHANGED Fifo!vars
    BY <1>6 DEF SpuriousWakeup, Expire, Fifo!vars
  <1>7. ASSUME NEW t \in Threads, ResumeWoken(t)
        PROVE  Fifo!Take(t) \/ UNCHANGED Fifo!vars
    BY <1>1, <1>7 DEF ResumeWoken, Fifo!vars
  <1>8. ASSUME NEW t \in Threads, ResumeExpired(t)
        PROVE  Fifo!Take(t) \/ Fifo!Miss(t)
    BY <1>1, <1>2, <1>8 DEF ResumeExpired
  <1>9. CASE UNCHANGED vars
    BY <1>9 DEF vars, Fifo!vars
  <1> QED
    BY <1>3, <1>4, <1>5, <1>6, <1>7, <1>8, <1>9 DEF Next, Fifo!Next

(* push(), tryPop() and popWait() are calls of a bounded FIFO queue that   *)
(* take effect one at a time, for any callers and any depth.               *)
THEOREM FifoImplemented == Safety => ImplementsFifo
  <1>1. Init => Fifo!Init
    BY DEF Init, Fifo!Init
  <1> QED
    BY <1>1, FifoStep, PTL DEF Safety, ImplementsFifo, Fifo!Spec

=============================================================================
