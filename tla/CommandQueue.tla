---------------------------- MODULE CommandQueue ----------------------------
(***************************************************************************)
(* CommandQueue: the bounded queue of uplink commands, one mutex and one   *)
(* condition variable.  Any thread may call push(), popWait() and tryPop().*)
(*                                                                         *)
(* A critical section of m_mutex is one step.  A thread that waits in      *)
(* popWait() has released the mutex; it leaves the wait because it was     *)
(* notified, because its time is up, or for no reason, and its next        *)
(* critical section begins where wait_for() evaluates the predicate again. *)
(* empty() and size() change nothing and have no action.                   *)
(***************************************************************************)
EXTENDS Naturals, Sequences, FiniteSets

CONSTANTS
  Threads,      (* the callers                                             *)
  Commands,     (* what they push                                          *)
  NoCommand,    (* std::nullopt                                            *)
  MaxDepth      (* m_max_depth                                             *)

ASSUME QueueAssumption ==
  /\ IsFiniteSet(Threads)
  /\ NoCommand \notin Commands
  /\ MaxDepth \in Nat

VARIABLES
  m_queue,      (* the commands, oldest first                              *)
  pc,           (* pc[t]: where t is.                                      *)
                (*   "idle"     in no call                                 *)
                (*   "waiting"  in popWait(), in m_cv's wait set           *)
                (*   "woken"    out of the wait set before the deadline    *)
                (*   "expired"  out of the wait set, the deadline passed   *)
  ret           (* ret[t]: what the last finished call of t returned       *)

vars == <<m_queue, pc, ret>>

At(state) == {t \in Threads : pc[t] = state}

(* The threads that will evaluate the predicate without being notified. *)
Awake == At("woken") \cup At("expired")

Init ==
  /\ m_queue = <<>>
  /\ pc = [t \in Threads |-> "idle"]
  /\ ret = [t \in Threads |-> NoCommand]

Goto(t, state) == pc' = [pc EXCEPT ![t] = state]
Return(t, value) == ret' = [ret EXCEPT ![t] = value]

-----------------------------------------------------------------------------
(* Mutants. *)

NoNotify == UNCHANGED pc

RoomForOneMore == Len(m_queue) <= MaxDepth

(* The timeout decides what is returned, not the queue. *)
ResumeExpiredUnchecked(t) ==
  /\ pc[t] = "expired"
  /\ Return(t, NoCommand)
  /\ Goto(t, "idle")
  /\ UNCHANGED m_queue

(* Every unsuccessful wait starts a full timeout again. *)
ResumeExpiredWaitsAgain(t) ==
  /\ pc[t] = "expired"
  /\ \/ /\ m_queue # <<>>
        /\ m_queue' = Tail(m_queue)
        /\ Return(t, Head(m_queue))
        /\ Goto(t, "idle")
     \/ /\ m_queue = <<>>
        /\ Goto(t, "waiting")
        /\ UNCHANGED <<m_queue, ret>>

-----------------------------------------------------------------------------
(* m_cv.notify_one(): one of the waiting threads, if there is one, leaves  *)
(* the wait set.                                                           *)
NotifyOne ==
  \/ At("waiting") = {} /\ UNCHANGED pc
  \/ \E w \in At("waiting") : Goto(w, "woken")

HasRoom == Len(m_queue) < MaxDepth

(* push(cmd) *)
Push(t, c) ==
  /\ pc[t] = "idle"
  /\ \/ /\ HasRoom
        /\ m_queue' = Append(m_queue, c)
        /\ NotifyOne
        /\ Return(t, "accepted")
     \/ /\ ~HasRoom
        /\ Return(t, "refused")
        /\ UNCHANGED <<m_queue, pc>>

(* The front command is moved out, popped and returned. *)
PopFront(t) ==
  /\ m_queue # <<>>
  /\ m_queue' = Tail(m_queue)
  /\ Return(t, Head(m_queue))

(* tryPop() *)
TryPop(t) ==
  /\ pc[t] = "idle"
  /\ \/ PopFront(t)
     \/ /\ m_queue = <<>>
        /\ Return(t, NoCommand)
        /\ UNCHANGED m_queue
  /\ UNCHANGED pc

(* popWait(timeout_ms) up to where it returns or waits: the predicate is   *)
(* evaluated before the first wait.                                        *)
PopWait(t) ==
  /\ pc[t] = "idle"
  /\ \/ /\ PopFront(t)
        /\ UNCHANGED pc
     \/ /\ m_queue = <<>>
        /\ Goto(t, "waiting")
        /\ UNCHANGED <<m_queue, ret>>

(* A wait ends that nobody notified. *)
SpuriousWakeup(t) ==
  /\ pc[t] = "waiting"
  /\ Goto(t, "woken")
  /\ UNCHANGED <<m_queue, ret>>

(* The deadline passes, before the thread was woken or between its wake-up *)
(* and its return from wait_until().                                       *)
Expire(t) ==
  /\ pc[t] \in {"waiting", "woken"}
  /\ Goto(t, "expired")
  /\ UNCHANGED <<m_queue, ret>>

(* The thread has the mutex again before its deadline: it pops if the      *)
(* predicate holds and goes on waiting if it does not.                     *)
ResumeWoken(t) ==
  /\ pc[t] = "woken"
  /\ \/ /\ PopFront(t)
        /\ Goto(t, "idle")
     \/ /\ m_queue = <<>>
        /\ Goto(t, "waiting")
        /\ UNCHANGED <<m_queue, ret>>

(* After the deadline wait_for() returns what the predicate says, not that *)
(* the time is up: a command that came in meanwhile is popped.             *)
ResumeExpired(t) ==
  /\ pc[t] = "expired"
  /\ \/ PopFront(t)
     \/ /\ m_queue = <<>>
        /\ Return(t, NoCommand)
        /\ UNCHANGED m_queue
  /\ Goto(t, "idle")

Next ==
  \E t \in Threads :
    \/ \E c \in Commands : Push(t, c)
    \/ TryPop(t)
    \/ PopWait(t)
    \/ SpuriousWakeup(t)
    \/ Expire(t)
    \/ ResumeWoken(t)
    \/ ResumeExpired(t)

(* Deadlines pass, and a thread out of the wait set gets the mutex. *)
Fairness ==
  \A t \in Threads : WF_vars(Expire(t)) /\ WF_vars(ResumeExpired(t))

Safety == Init /\ [][Next]_vars

Spec == Safety /\ Fairness

-----------------------------------------------------------------------------
(* Properties. *)

(* The type invariant; the queue never exceeds m_max_depth (push()'s test).*)
TypeOK ==
  /\ m_queue \in Seq(Commands)
  /\ Len(m_queue) <= MaxDepth
  /\ pc \in [Threads -> {"idle", "waiting", "woken", "expired"}]
  /\ ret \in [Threads -> Commands \cup {NoCommand, "accepted", "refused"}]

(* No wake-up is lost: while a thread sleeps in popWait(), there are at    *)
(* most as many commands as threads on their way to take one, so that no   *)
(* consumer sleeps out its timeout beside a command nobody else is coming  *)
(* for.  push() notifies one thread per command and never all.             *)
NoLostWakeup == At("waiting") # {} => Len(m_queue) <= Cardinality(Awake)

(* What the queue implements; a popWait() takes effect where it returns.   *)
Fifo == INSTANCE BoundedFifo WITH items <- m_queue, Depth <- MaxDepth

(* push(), tryPop() and popWait() behave as calls of a bounded FIFO queue  *)
(* that happen one at a time: in particular a popWait() whose time is up   *)
(* does not come back empty-handed when there is a command.                *)
ImplementsFifo == Fifo!Spec

(* popWait() returns, however often its thread is woken for nothing. *)
PopWaitReturns == \A t \in Threads : (pc[t] # "idle") ~> (pc[t] = "idle")

=============================================================================
