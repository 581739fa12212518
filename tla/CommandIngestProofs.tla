------------------------- MODULE CommandIngestProofs -------------------------
(***************************************************************************)
(* From the text of a command to its handler, for every text, every set of *)
(* handlers, any depth of the queue and any width of the sequence number.  *)
(***************************************************************************)
EXTENDS CommandIngest, ModularCounting, FiniteSetTheorems

(* A number of the text as an unsigned integer. *)
LEMMA Converted ==
  ASSUME NEW v, v.value \in Int, NEW mod \in Nat \ {0}
  PROVE  /\ ToUnsigned(v, mod) \subseteq 0 .. mod - 1
         /\ v.value \in 0 .. mod - 1 => ToUnsigned(v, mod) = {v.value}
  BY Remainder DEF ToUnsigned

Good == [sequence_number : 0 .. SequenceMod - 1, opcode : Allowlist]

LEMMA GoodIsCommand == Good \subseteq Commands
  BY DEF Good, Commands

(* What comes out of fromJson(). *)
LEMMA Deserialized ==
  ASSUME NEW text \in Texts, NEW r \in FromJson(text)
  PROVE  /\ r.kind \in {"command"} \cup Exceptions
         /\ r.kind = "command" => r.command \in Good /\ Says(text, r.command)
         /\ WellFormed(text) => r.kind = "command"
  <1> DEFINE complete ==
               {Complete(text, seq, opcode) :
                   seq \in ToUnsigned(text.fields["sequence_number"], SequenceMod),
                   opcode \in {ResolveOpcode(raw) :
                                 raw \in ToUnsigned(text.fields["opcode"], OpcodeMod)}}
             legible ==
               /\ text.syntax = "object"
               /\ ~Missing(text)
               /\ ~Mistyped(text, "sequence_number", Arithmetic)
               /\ ~Mistyped(text, "opcode", Arithmetic)
  <1>1. CASE ~legible
    <2>1. /\ r \in {Throws("runtime_error"), Throws("json_exception")}
          /\ \/ text.syntax # "object"
             \/ Missing(text)
             \/ Mistyped(text, "sequence_number", Arithmetic)
             \/ Mistyped(text, "opcode", Arithmetic)
      BY <1>1, IngestAssumption DEF FromJson
    <2>2. r.kind \in Exceptions
      BY <2>1 DEF Throws, Exceptions
    <2>3. ~WellFormed(text)
      BY <2>1 DEF WellFormed, Exact, Missing, Mistyped, Arithmetic
    <2> QED
      BY <2>2, <2>3 DEF Exceptions
  <1>2. CASE legible
    <2>1. /\ "opcode" \in DOMAIN text.fields /\ "sequence_number" \in DOMAIN text.fields
          /\ text.fields["opcode"].type \in Arithmetic
          /\ text.fields["sequence_number"].type \in Arithmetic
      BY <1>2 DEF Missing, Mistyped
    <2>10. r \in complete
      <3>1. FromJson(text) = complete
        BY <1>2 DEF FromJson
      <3> QED
        BY <3>1
    <2>2. PICK seq \in ToUnsigned(text.fields["sequence_number"], SequenceMod),
               raw \in ToUnsigned(text.fields["opcode"], OpcodeMod) :
                 r = Complete(text, seq, ResolveOpcode(raw))
      BY <2>10
    <2>3. /\ text.fields["opcode"].value \in Int
          /\ text.fields["sequence_number"].value \in Int
          /\ SequenceMod \in Nat \ {0} /\ OpcodeMod \in Nat \ {0}
      BY <2>1, IngestAssumption DEF OpcodeMod
    <2>4. /\ seq \in 0 .. SequenceMod - 1
          /\ Exact(text, "sequence_number", SequenceMod) =>
               seq = text.fields["sequence_number"].value
          /\ Exact(text, "opcode", OpcodeMod) => raw = text.fields["opcode"].value
      BY <2>2, <2>3, Converted DEF Exact
    <2>5. /\ ResolveOpcode(raw) # UNKNOWN => ResolveOpcode(raw) = raw /\ raw \in Allowlist
          /\ raw \in Allowlist => ResolveOpcode(raw) = raw /\ raw # UNKNOWN
      BY DEF ResolveOpcode, Allowlist, UNKNOWN, NOOP, SET_MODE, RESET_SUBSYSTEM, PAYLOAD_ON,
             PAYLOAD_OFF, DOWNLINK_TELEMETRY
    <2>6. \/ r.kind = "invalid_argument" /\ ResolveOpcode(raw) = UNKNOWN
          \/ /\ r.kind = "json_exception"
             /\ \/ Mistyped(text, "subsystem", {"string"})
                \/ Mistyped(text, "timestamp_ms", {"integer", "float"})
          \/ /\ r.kind = "command" /\ ResolveOpcode(raw) # UNKNOWN
             /\ r.command = [sequence_number |-> seq, opcode |-> ResolveOpcode(raw)]
      BY <2>2 DEF Complete, Throws, Result
    <2>7. r.kind \in {"command"} \cup Exceptions
      BY <2>6 DEF Exceptions
    <2>8. r.kind = "command" => r.command \in Good /\ Says(text, r.command)
      BY <2>4, <2>5, <2>6 DEF Good, Says
    <2>9. WellFormed(text) => r.kind = "command"
      <3> SUFFICES ASSUME WellFormed(text)
                   PROVE  r.kind = "command"
        OBVIOUS
      <3>1. ResolveOpcode(raw) # UNKNOWN
        BY <2>4, <2>5 DEF WellFormed
      <3>2. /\ ~Mistyped(text, "subsystem", {"string"})
            /\ ~Mistyped(text, "timestamp_ms", {"integer", "float"})
        BY DEF WellFormed, Mistyped
      <3> QED
        BY <2>6, <3>1, <3>2
    <2> QED
      BY <2>7, <2>8, <2>9
  <1> QED
    BY <1>1, <1>2

-----------------------------------------------------------------------------
(* The queue, command by command. *)

(* A queued command and the text it comes from. *)
Fits(text, c) == c.opcode \in Allowlist /\ Says(text, c)

QueueOK ==
  /\ cmd_queue \in Seq(Commands) /\ sources \in Seq(Texts)
  /\ Len(sources) = Len(cmd_queue)
  /\ Len(cmd_queue) <= MaxDepth
  /\ \A i \in 1 .. Len(cmd_queue) : Fits(sources[i], cmd_queue[i])

HandlersOK ==
  /\ DOMAIN m_handlers \subseteq Registrable
  /\ \A o \in DOMAIN m_handlers : m_handlers[o] \in Callbacks

(* A dispatch ran a handler with a command of the allowlist that its text  *)
(* says, and did run one if the text is well-formed and there is one.      *)
CallOK ==
  /\ call.text \in Texts \cup {NoText}
  /\ call.outcome \in {"none", "injected", "handled", "REJECTED", "exception"}
  /\ call.ran # <<>> => call.ran[2].opcode \in Allowlist /\ Says(call.text, call.ran[2])
  /\ WellFormedRuns

IInv == QueueOK /\ HandlersOK /\ CallOK

LEMMA Appended ==
  ASSUME NEW S, NEW T, NEW s \in Seq(S), NEW t \in Seq(T), Len(s) = Len(t),
         NEW x \in S, NEW y \in T
  PROVE  /\ Append(s, x) \in Seq(S) /\ Append(t, y) \in Seq(T)
         /\ Len(Append(s, x)) = Len(s) + 1 /\ Len(Append(t, y)) = Len(s) + 1
         /\ Len(s) \in Nat
         /\ Append(s, x)[Len(s) + 1] = x /\ Append(t, y)[Len(s) + 1] = y
         /\ \A i \in 1 .. Len(s) : Append(s, x)[i] = s[i] /\ Append(t, y)[i] = t[i]
  OBVIOUS

LEMMA Removed ==
  ASSUME NEW S, NEW s \in Seq(S), s # <<>>
  PROVE  /\ Tail(s) \in Seq(S) /\ Head(s) = s[1] /\ Head(s) \in S
         /\ Len(s) \in Nat /\ Len(s) > 0 /\ Len(Tail(s)) = Len(s) - 1
         /\ \A i \in 1 .. Len(s) - 1 : Tail(s)[i] = s[i + 1]
  OBVIOUS

LEMMA NoTextIsNotWellFormed == ~WellFormed(NoText)
  BY DEF WellFormed, NoText

LEMMA InvInit == Init => IInv
  <1> SUFFICES ASSUME Init
               PROVE  IInv
    OBVIOUS
  <1>1. QueueOK
    <2>1. cmd_queue = <<>> /\ sources = <<>>
      BY DEF Init, Q!Init
    <2> QED
      BY <2>1, IngestAssumption DEF QueueOK
  <1>2. HandlersOK
    BY DEF Init, HandlersOK
  <1>3. CallOK
    <2>1. call.text = NoText /\ call.outcome = "none" /\ call.ran = <<>>
      BY DEF Init, Called
    <2> QED
      BY <2>1, NoTextIsNotWellFormed DEF CallOK, WellFormedRuns
  <1> QED
    BY <1>1, <1>2, <1>3 DEF IInv

-----------------------------------------------------------------------------
(* The steps. *)

LEMMA CallForgotten ==
  ASSUME NEW outcome \in {"none", "injected"}, call' = Called(NoText, outcome, <<>>)
  PROVE  CallOK'
  <1>1. call'.text = NoText /\ call'.outcome = outcome /\ call'.ran = <<>>
    BY DEF Called
  <1> QED
    BY <1>1, NoTextIsNotWellFormed DEF CallOK, WellFormedRuns, WellFormed, NoText

(* dispatch() of a command of the allowlist that its text says. *)
LEMMA Dispatched ==
  ASSUME UNCHANGED m_handlers, NEW text \in Texts, NEW cmd,
         cmd.opcode \in Allowlist, Says(text, cmd), Dispatch(text, cmd)
  PROVE  CallOK'
  <1>1. CASE cmd.opcode \notin DOMAIN m_handlers
    <2>1. call'.text = text /\ call'.outcome = "REJECTED" /\ call'.ran = <<>>
      BY <1>1 DEF Dispatch, Called
    <2>2. WellFormed(text) => text.fields["opcode"].value \notin DOMAIN m_handlers
      BY <1>1 DEF WellFormed, Says
    <2> QED
      BY <2>1, <2>2 DEF CallOK, WellFormedRuns
  <1>2. CASE cmd.opcode \in DOMAIN m_handlers
    <2>1. /\ call'.text = text /\ call'.outcome = "handled"
          /\ call'.ran = <<m_handlers[cmd.opcode], cmd>>
      BY <1>2 DEF Dispatch, Called
    <2>2. call'.ran # <<>> /\ call'.ran[2] = cmd
      BY <2>1
    <2> QED
      BY <2>1, <2>2 DEF CallOK, WellFormedRuns, Says
  <1> QED
    BY <1>1, <1>2

LEMMA StepDispatchRaw ==
  ASSUME IInv, NEW text \in Texts, DispatchRaw(text)
  PROVE  IInv'
  <1>1. UNCHANGED <<m_handlers, cmd_queue, cmd_ret, sources>>
    BY DEF DispatchRaw
  <1>2. PICK r \in FromJson(text) :
          \/ r.kind = "command" /\ Dispatch(text, r.command)
          \/ /\ r.kind \in {"invalid_argument", "runtime_error"}
             /\ call' = Called(text, "REJECTED", <<>>)
          \/ r.kind = "json_exception" /\ call' = Called(text, "exception", <<>>)
    BY DEF DispatchRaw
  <1>3. CASE r.kind = "command"
    <2>1. r.command.opcode \in Allowlist /\ Says(text, r.command)
      BY <1>3, Deserialized DEF Good
    <2>2. Dispatch(text, r.command)
      BY <1>2, <1>3
    <2> QED
      BY <1>1, <2>1, <2>2, Dispatched DEF IInv, QueueOK, HandlersOK, Fits
  <1>4. CASE r.kind # "command"
    <2>1. ~WellFormed(text)
      BY <1>4, Deserialized
    <2>2. /\ call'.text = text /\ call'.outcome \in {"REJECTED", "exception"}
          /\ call'.ran = <<>>
      BY <1>2, <1>4 DEF Called
    <2>3. CallOK'
      BY <2>1, <2>2 DEF CallOK, WellFormedRuns
    <2> QED
      BY <1>1, <2>3 DEF IInv, QueueOK, HandlersOK, Fits
  <1> QED
    BY <1>3, <1>4

LEMMA StepRegister ==
  ASSUME IInv, NEW o \in Registrable, NEW f \in Callbacks, RegisterHandler(o, f)
  PROVE  IInv'
  <1>1. HandlersOK'
    BY DEF RegisterHandler, IInv, HandlersOK
  <1>2. QueueOK'
    BY DEF RegisterHandler, IInv, QueueOK
  <1>3. CallOK'
    BY CallForgotten DEF RegisterHandler
  <1> QED
    BY <1>1, <1>2, <1>3 DEF IInv

LEMMA StepInject ==
  ASSUME IInv, NEW text \in Texts, InjectCmd(text)
  PROVE  IInv'
  <1>1. m_handlers' = m_handlers /\ CallOK'
    BY CallForgotten DEF InjectCmd
  <1>2. PICK r \in FromJson(text) :
          \/ /\ r.kind = "command"
             /\ Q!Push("main", r.command)
             /\ sources' =
                  IF cmd_queue' = cmd_queue THEN sources ELSE Append(sources, text)
          \/ UNCHANGED <<cmd_queue, cmd_ret, sources>>
    BY DEF InjectCmd
  <1>3. CASE UNCHANGED <<cmd_queue, sources>>
    BY <1>1, <1>3 DEF IInv, QueueOK, HandlersOK, Fits
  <1>4. CASE ~UNCHANGED <<cmd_queue, sources>>
    <2>1. /\ r.kind = "command"
          /\ cmd_queue' = Append(cmd_queue, r.command) /\ Len(cmd_queue) < MaxDepth
          /\ sources' = Append(sources, text)
      BY <1>2, <1>4 DEF Q!Push, Q!HasRoom
    <2>2. r.command \in Commands
      BY <2>1, Deserialized, GoodIsCommand
    <2>3. Fits(text, r.command)
      BY <2>1, Deserialized DEF Fits, Good
    <2>4. /\ cmd_queue \in Seq(Commands) /\ sources \in Seq(Texts)
          /\ Len(sources) = Len(cmd_queue)
          /\ \A i \in 1 .. Len(cmd_queue) : Fits(sources[i], cmd_queue[i])
      BY DEF IInv, QueueOK
    <2>5. \A i \in 1 .. Len(cmd_queue') : Fits(sources'[i], cmd_queue'[i])
      BY <2>1, <2>2, <2>3, <2>4, Appended
    <2>6. \A i \in 1 .. Len(cmd_queue') : Fits(sources[i], cmd_queue[i])'
      BY <1>1, <2>5 DEF Fits
    <2>7. /\ cmd_queue' \in Seq(Commands) /\ sources' \in Seq(Texts)
          /\ Len(sources') = Len(cmd_queue')
          /\ Len(cmd_queue') <= MaxDepth
      BY <2>1, <2>2, <2>4, Appended, IngestAssumption
    <2>8. QueueOK'
      BY <2>6, <2>7 DEF QueueOK
    <2> QED
      BY <1>1, <2>8 DEF IInv, HandlersOK
  <1> QED
    BY <1>3, <1>4

LEMMA StepDispatchNext ==
  ASSUME IInv, DispatchNext
  PROVE  IInv'
  <1>1. /\ cmd_queue # <<>> /\ cmd_queue' = Tail(cmd_queue) /\ sources' = Tail(sources)
        /\ Dispatch(Head(sources), Head(cmd_queue))
        /\ m_handlers' = m_handlers
    BY DEF DispatchNext, Q!TryPop, Q!PopFront
  <1>2. /\ cmd_queue \in Seq(Commands) /\ sources \in Seq(Texts)
        /\ Len(sources) = Len(cmd_queue) /\ Len(cmd_queue) <= MaxDepth
        /\ \A i \in 1 .. Len(cmd_queue) : Fits(sources[i], cmd_queue[i])
    BY DEF IInv, QueueOK
  <1>3. /\ cmd_queue' \in Seq(Commands) /\ Head(cmd_queue) = cmd_queue[1]
        /\ Len(cmd_queue) \in Nat /\ Len(cmd_queue) > 0
        /\ Len(cmd_queue') = Len(cmd_queue) - 1
        /\ \A i \in 1 .. Len(cmd_queue) - 1 : cmd_queue'[i] = cmd_queue[i + 1]
    BY <1>1, <1>2, Removed
  <1>4. /\ sources' \in Seq(Texts) /\ Head(sources) = sources[1]
        /\ Head(sources) \in Texts
        /\ Len(sources') = Len(sources) - 1
        /\ \A i \in 1 .. Len(sources) - 1 : sources'[i] = sources[i + 1]
    <2>1. sources # <<>>
      BY <1>2, <1>3
    <2> QED
      BY <1>1, <1>2, <2>1, Removed
  <1>5. \A i \in 1 .. Len(cmd_queue') : Fits(sources'[i], cmd_queue'[i])
    <2> SUFFICES ASSUME NEW i \in 1 .. Len(cmd_queue')
                 PROVE  Fits(sources'[i], cmd_queue'[i])
      OBVIOUS
    <2>1. i \in 1 .. Len(cmd_queue) - 1 /\ i + 1 \in 1 .. Len(cmd_queue)
      BY <1>3
    <2>2. sources'[i] = sources[i + 1] /\ cmd_queue'[i] = cmd_queue[i + 1]
      BY <1>2, <1>3, <1>4, <2>1
    <2> QED
      BY <1>2, <2>1, <2>2
  <1>6. \A i \in 1 .. Len(cmd_queue') : Fits(sources[i], cmd_queue[i])'
    BY <1>1, <1>5 DEF Fits
  <1>7. QueueOK'
    BY <1>2, <1>3, <1>4, <1>6, IngestAssumption DEF QueueOK
  <1>8. CallOK'
    <2>1. Fits(Head(sources), Head(cmd_queue))
      BY <1>2, <1>3, <1>4
    <2> QED
      BY <1>1, <1>4, <2>1, Dispatched DEF Fits
  <1> QED
    BY <1>1, <1>7, <1>8 DEF IInv, HandlersOK

LEMMA Invariance == Spec => []IInv
  <1>1. IInv /\ [Next]_vars => IInv'
    <2>1. ASSUME IInv, UNCHANGED vars
          PROVE  IInv'
      BY <2>1 DEF vars, IInv, QueueOK, HandlersOK, CallOK, Fits, WellFormedRuns
    <2> QED
      BY <2>1, StepRegister, StepDispatchRaw, StepInject, StepDispatchNext DEF Next
  <1> QED
    BY <1>1, InvInit, PTL DEF Spec

-----------------------------------------------------------------------------
(* The queue holds commands, no more than command_max_queue_depth, and the *)
(* table holds handlers.                                                   *)
THEOREM TypeCorrect == Spec => []TypeOK
  <1>1. IInv => TypeOK
    BY DEF IInv, QueueOK, HandlersOK, CallOK, TypeOK
  <1> QED
    BY <1>1, Invariance, PTL

(* No text whatever brings a command outside the allowlist into the queue  *)
(* or into a handler.                                                      *)
THEOREM AllowlistHolds == Spec => []AllowedOnly
  <1>1. IInv => AllowedOnly
    BY DEF IInv, QueueOK, CallOK, Fits, AllowedOnly
  <1> QED
    BY <1>1, Invariance, PTL

(* A handler runs with what its text says, at once or after any wait.      *)
THEOREM CommandsAreFaithful == Spec => []CommandsFaithful
  <1>1. IInv => CommandsFaithful
    BY DEF IInv, QueueOK, CallOK, Fits, CommandsFaithful
  <1> QED
    BY <1>1, Invariance, PTL

(* A well-formed command that has a handler is run.                        *)
THEOREM WellFormedCommandsRun == Spec => []WellFormedRuns
  <1>1. IInv => WellFormedRuns
    BY DEF IInv, CallOK
  <1> QED
    BY <1>1, Invariance, PTL

-----------------------------------------------------------------------------
(* The command queue between injectCmd() and the drain loop. *)

(* The queue again, with its theorems. *)
QP == INSTANCE CommandQueueProofs WITH
  Threads <- {"main"},
  m_queue <- cmd_queue,
  pc      <- [t \in {"main"} |-> "idle"],
  ret     <- cmd_ret

LEMMA QueueUsable ==
  QP!IsFiniteSet({"main"}) /\ NoCommand \notin Commands /\ MaxDepth \in Nat
  <1>1. IsFiniteSet({"main"})
    BY FS_Singleton
  <1> QED
    BY <1>1, IngestAssumption DEF IsFiniteSet, QP!IsFiniteSet

LEMMA QueueStep ==
  ASSUME [Next]_vars
  PROVE  [Q!Next]_(Q!vars)
  <1>1. ASSUME NEW text \in Texts, InjectCmd(text)
        PROVE  [Q!Next]_(Q!vars)
    <2>1. PICK r \in FromJson(text) :
            \/ r.kind = "command" /\ Q!Push("main", r.command)
            \/ UNCHANGED <<cmd_queue, cmd_ret>>
      BY <1>1 DEF InjectCmd
    <2>2. r.kind = "command" => r.command \in Commands
      BY Deserialized, GoodIsCommand
    <2> QED
      BY <2>1, <2>2 DEF Q!Next, Q!vars
  <1>2. CASE DispatchNext
    BY <1>2 DEF DispatchNext, Q!Next
  <1>3. ASSUME UNCHANGED <<cmd_queue, cmd_ret>>
        PROVE  [Q!Next]_(Q!vars)
    BY <1>3 DEF Q!vars
  <1>4. ASSUME NEW o \in Registrable, NEW f \in Callbacks, RegisterHandler(o, f)
        PROVE  [Q!Next]_(Q!vars)
    BY <1>3, <1>4 DEF RegisterHandler
  <1>5. ASSUME NEW text \in Texts, DispatchRaw(text)
        PROVE  [Q!Next]_(Q!vars)
    BY <1>3, <1>5 DEF DispatchRaw
  <1>6. CASE UNCHANGED vars
    BY <1>3, <1>6 DEF vars
  <1> QED
    BY <1>1, <1>2, <1>4, <1>5, <1>6 DEF Next

(* What injectCmd() does with the text of a command and the drain loop     *)
(* with the command are calls of the command queue that callers may make:  *)
(* whatever texts arrive, only commands are pushed, and what is proved of  *)
(* the queue, that it is a bounded FIFO queue above all, holds here.       *)
THEOREM IngestRunsQueue == Spec => Q!Safety /\ Q!ImplementsFifo
  <1>1. Init => Q!Init
    BY DEF Init
  <1>2. Q!Init => Q!Fifo!Init
    BY DEF Q!Init, Q!Fifo!Init
  <1>3. [Q!Next]_(Q!vars) => [Q!Fifo!Next]_(Q!Fifo!vars)
    <2>1. [Q!Next]_(Q!vars) => [QP!Next]_(QP!vars)
      BY DEF Q!Next, Q!vars, Q!Push, Q!TryPop, Q!PopWait, Q!SpuriousWakeup, Q!Expire,
             Q!ResumeWoken, Q!ResumeExpired, Q!PopFront, Q!HasRoom, Q!NotifyOne, Q!At,
             Q!Goto, Q!Return,
             QP!Next, QP!vars, QP!Push, QP!TryPop, QP!PopWait, QP!SpuriousWakeup,
             QP!Expire, QP!ResumeWoken, QP!ResumeExpired, QP!PopFront, QP!HasRoom,
             QP!NotifyOne, QP!At, QP!Goto, QP!Return
    <2>2. QP!Fifo!vars = Q!Fifo!vars /\ QP!Fifo!vars' = Q!Fifo!vars'
      BY DEF Q!Fifo!vars, QP!Fifo!vars
    <2>3. QP!Fifo!Next <=> Q!Fifo!Next
      BY DEF Q!Fifo!Next, Q!Fifo!Accept, Q!Fifo!Refuse, Q!Fifo!Take, Q!Fifo!Miss,
             QP!Fifo!Next, QP!Fifo!Accept, QP!Fifo!Refuse, QP!Fifo!Take, QP!Fifo!Miss
    <2> QED
      BY <2>1, <2>2, <2>3, QP!FifoStep, QueueUsable
  <1> QED
    BY <1>1, <1>2, <1>3, QueueStep, PTL
    DEF Spec, Q!Safety, Q!ImplementsFifo, Q!Fifo!Spec

=============================================================================
