---------------------------- MODULE CommandIngest ----------------------------
(***************************************************************************)
(* The way of a command from JSON text to its handler:                     *)
(* CommandDeserializer::fromJson(), the CommandQueue between injectCmd()   *)
(* and the drain loop of main(), and CommandHandler with registerHandler(),*)
(* dispatch() and dispatchRaw().  One thread uses all of them.             *)
(*                                                                         *)
(* A text is what json::parse() makes of it: an object with some of the    *)
(* fields fromJson() looks at, or a failure.  A text that is valid JSON    *)
(* and no object contains no field.  A JSON value is its type and, for a   *)
(* number or a boolean, its value; of a float only the integral part       *)
(* matters.  The parameters are passed on whatever they are.               *)
(***************************************************************************)
EXTENDS Integers, Sequences, FiniteSets

CONSTANTS
  Texts,         (* the texts that arrive                                  *)
  Callbacks,     (* the functions callers register                         *)
  Registrable,   (* the opcodes they register them for                     *)
  SequenceMod,   (* number of values of sequence_number, 2^32 in the code  *)
  MaxDepth,      (* cfg.command_max_queue_depth                            *)
  NoCommand

OpcodeMod == 256

(* enum class Opcode *)
NOOP               == 1
SET_MODE           == 16
RESET_SUBSYSTEM    == 17
PAYLOAD_ON         == 32
PAYLOAD_OFF        == 33
DOWNLINK_TELEMETRY == 48
UNKNOWN            == 255

Allowlist ==
  {NOOP, SET_MODE, RESET_SUBSYSTEM, PAYLOAD_ON, PAYLOAD_OFF, DOWNLINK_TELEMETRY}

Commands ==
  [sequence_number : 0 .. SequenceMod - 1, opcode : Allowlist \cup {UNKNOWN}]

Arithmetic == {"integer", "float", "boolean"}
JsonTypes  == Arithmetic \cup {"string", "other"}

ASSUME IngestAssumption ==
  /\ \A t \in Texts :
       /\ t.syntax \in {"object", "parse_error", "out_of_range"}
       /\ DOMAIN t.fields \subseteq
            {"sequence_number", "opcode", "subsystem", "timestamp_ms"}
       /\ \A f \in DOMAIN t.fields :
            /\ t.fields[f].type \in JsonTypes
            /\ t.fields[f].type \in Arithmetic => t.fields[f].value \in Int
  /\ Registrable \subseteq Allowlist \cup {UNKNOWN}
  /\ SequenceMod \in Nat \ {0}
  /\ MaxDepth \in Nat
  /\ NoCommand \notin Commands

VARIABLES
  m_handlers,    (* m_handlers of CommandHandler                           *)
  cmd_queue,     (* the content of main's CommandQueue                     *)
  cmd_ret,       (* what its last call returned                            *)
  sources,       (* history: for each queued command, the text it was made *)
                 (* from                                                   *)
  call           (* the last dispatch: the text it worked on, its outcome  *)
                 (* and the handler it ran with its argument, if any       *)

vars == <<m_handlers, cmd_queue, cmd_ret, sources, call>>

Q == INSTANCE CommandQueue WITH
  Threads <- {"main"},
  m_queue <- cmd_queue,
  pc      <- [t \in {"main"} |-> "idle"],
  ret     <- cmd_ret

Called(text, outcome, ran) == [text |-> text, outcome |-> outcome, ran |-> ran]
NoText == [syntax |-> "parse_error", fields |-> <<>>]

Init ==
  /\ m_handlers = <<>>
  /\ Q!Init
  /\ sources = <<>>
  /\ call = Called(NoText, "none", <<>>)

-----------------------------------------------------------------------------
(* Mutants. *)

(* static_cast<Opcode>(raw) *)
ResolveAnything(raw) == raw

(* The switch forgets a case. *)
ResolveForgetsPayloadOff(raw) ==
  IF raw \in Allowlist \ {PAYLOAD_OFF} THEN raw ELSE UNKNOWN

(* Saturates instead of reducing, and is off by one. *)
ToUnsignedClamped(v, mod) ==
  {IF v.value < 0 THEN 0 ELSE IF v.value >= mod - 1 THEN mod - 2 ELSE v.value}

-----------------------------------------------------------------------------
(* Deserialization. *)

(* A value as an unsigned integer below mod.  An integer is reduced; a     *)
(* float that does not fit is undefined behaviour, any value may result.   *)
ToUnsigned(v, mod) ==
  IF v.type = "float" /\ v.value \notin 0 .. mod - 1
    THEN 0 .. mod - 1
    ELSE {v.value % mod}

ResolveOpcode(raw) == IF raw \in Allowlist THEN raw ELSE UNKNOWN

Result(command) == [kind |-> "command", command |-> command]
Throws(exception) == [kind |-> exception, command |-> NoCommand]
Exceptions == {"runtime_error", "invalid_argument", "json_exception"}

-----------------------------------------------------------------------------
(* What fromJson() can do with a text, in the order it looks at things.    *)
(* The exceptions nlohmann/json throws for a number that overflows in the  *)
(* text, or a value of the wrong type, are neither std::runtime_error nor  *)
(* std::invalid_argument.                                                  *)
Missing(text) == ~ {"opcode", "sequence_number"} \subseteq DOMAIN text.fields

Mistyped(text, field, types) ==
  field \in DOMAIN text.fields /\ text.fields[field].type \notin types

Complete(text, seq, opcode) ==
  IF opcode = UNKNOWN
    THEN Throws("invalid_argument")
  ELSE IF \/ Mistyped(text, "subsystem", {"string"})
          \/ Mistyped(text, "timestamp_ms", {"integer", "float"})
    THEN Throws("json_exception")
    ELSE Result([sequence_number |-> seq, opcode |-> opcode])

FromJson(text) ==
  CASE text.syntax = "parse_error"  -> {Throws("runtime_error")}
    [] text.syntax = "out_of_range" -> {Throws("json_exception")}
    [] text.syntax = "object" /\ Missing(text) -> {Throws("runtime_error")}
    [] OTHER ->
         IF \/ Mistyped(text, "sequence_number", Arithmetic)
            \/ Mistyped(text, "opcode", Arithmetic)
           THEN {Throws("json_exception")}
           ELSE {Complete(text, seq, opcode) :
                   seq \in ToUnsigned(text.fields["sequence_number"], SequenceMod),
                   opcode \in {ResolveOpcode(raw) :
                                 raw \in ToUnsigned(text.fields["opcode"], OpcodeMod)}}

-----------------------------------------------------------------------------
(* CommandHandler. *)

RegisterHandler(opcode, callback) ==
  /\ m_handlers' = [o \in DOMAIN m_handlers \cup {opcode} |->
                      IF o = opcode THEN callback ELSE m_handlers[o]]
  /\ call' = Called(NoText, "none", <<>>)
  /\ UNCHANGED <<cmd_queue, cmd_ret, sources>>

(* dispatch() of a command that was made from text.  What a handler        *)
(* returns is its own business.                                            *)
Dispatch(text, cmd) ==
  \/ /\ cmd.opcode \notin DOMAIN m_handlers
     /\ call' = Called(text, "REJECTED", <<>>)
  \/ /\ cmd.opcode \in DOMAIN m_handlers
     /\ call' = Called(text, "handled", <<m_handlers[cmd.opcode], cmd>>)

(* dispatchRaw() catches the two exceptions fromJson() documents.          *)
DispatchRaw(text) ==
  /\ \E r \in FromJson(text) :
       \/ /\ r.kind = "command"
          /\ Dispatch(text, r.command)
       \/ /\ r.kind \in {"invalid_argument", "runtime_error"}
          /\ call' = Called(text, "REJECTED", <<>>)
       \/ /\ r.kind = "json_exception"
          /\ call' = Called(text, "exception", <<>>)
  /\ UNCHANGED <<m_handlers, cmd_queue, cmd_ret, sources>>

-----------------------------------------------------------------------------
(* main() *)

(* injectCmd() catches every exception and ignores what push() returns.    *)
InjectCmd(text) ==
  /\ \E r \in FromJson(text) :
       \/ /\ r.kind = "command"
          /\ Q!Push("main", r.command)
          /\ sources' =
               IF cmd_queue' = cmd_queue THEN sources ELSE Append(sources, text)
       \/ /\ r.kind \in Exceptions
          /\ UNCHANGED <<cmd_queue, cmd_ret, sources>>
  /\ call' = Called(NoText, "injected", <<>>)
  /\ UNCHANGED m_handlers

(* One turn of while (auto cmd = cmd_queue.tryPop()) that finds a command. *)
DispatchNext ==
  /\ cmd_queue # <<>>
  /\ Q!TryPop("main")
  /\ Dispatch(Head(sources), Head(cmd_queue))
  /\ sources' = Tail(sources)
  /\ UNCHANGED m_handlers

Next ==
  \/ \E o \in Registrable, f \in Callbacks : RegisterHandler(o, f)
  \/ \E t \in Texts : DispatchRaw(t)
  \/ \E t \in Texts : InjectCmd(t)
  \/ DispatchNext

Spec == Init /\ [][Next]_vars

-----------------------------------------------------------------------------
(* Properties. *)

TypeOK ==
  /\ DOMAIN m_handlers \subseteq Registrable
  /\ \A o \in DOMAIN m_handlers : m_handlers[o] \in Callbacks
  /\ cmd_queue \in Seq(Commands)
  /\ Len(cmd_queue) <= MaxDepth
  /\ Len(sources) = Len(cmd_queue)
  /\ call.text \in Texts \cup {NoText}
  /\ call.outcome \in {"none", "injected", "handled", "REJECTED", "exception"}

(* Whatever the text, no command gets past the deserializer with an opcode *)
(* outside the allowlist, not even by way of a handler that was registered *)
(* for UNKNOWN: neither into the queue nor into a handler.                 *)
AllowedOnly ==
  /\ \A i \in DOMAIN cmd_queue : cmd_queue[i].opcode \in Allowlist
  /\ call.ran # <<>> => call.ran[2].opcode \in Allowlist

(* The field holds an integer that needs no conversion. *)
Exact(text, field, mod) ==
  /\ field \in DOMAIN text.fields
  /\ text.fields[field].type = "integer"
  /\ text.fields[field].value \in 0 .. mod - 1

(* cmd is the command its text says. *)
Says(text, cmd) ==
  /\ Exact(text, "sequence_number", SequenceMod) =>
       cmd.sequence_number = text.fields["sequence_number"].value
  /\ Exact(text, "opcode", OpcodeMod) => cmd.opcode = text.fields["opcode"].value

(* A handler is run, now or after any wait in the queue and among any      *)
(* other commands, with the sequence number and the opcode of the text it  *)
(* is run for, whenever the text gives them as integers in range.          *)
CommandsFaithful ==
  /\ \A i \in DOMAIN cmd_queue : Says(sources[i], cmd_queue[i])
  /\ call.ran # <<>> => Says(call.text, call.ran[2])

(* A text that follows the format, with an opcode of the allowlist that    *)
(* has a handler, is never turned down: deserializer, allowlist and        *)
(* handlers agree on what a command is.                                    *)
WellFormed(text) ==
  /\ text.syntax = "object"
  /\ Exact(text, "sequence_number", SequenceMod)
  /\ Exact(text, "opcode", OpcodeMod)
  /\ text.fields["opcode"].value \in Allowlist
  /\ "subsystem" \in DOMAIN text.fields => text.fields["subsystem"].type = "string"
  /\ "timestamp_ms" \in DOMAIN text.fields => text.fields["timestamp_ms"].type = "integer"

WellFormedRuns ==
  /\ WellFormed(call.text)
  /\ call.text.fields["opcode"].value \in DOMAIN m_handlers
  => call.ran # <<>>

(* "Returns REJECTED on deserialization failure." (CommandHandler.h:39)    *)
FailureIsRejected == call.outcome # "exception"

(* "Validates opcode allowlist; throws on unknown opcodes or malformed     *)
(* JSON." (CommandDeserializer.h:34)  An opcode is unknown when the number *)
(* in the text is none of the allowlist.                                   *)
UnknownOpcodeThrows ==
  call.ran # <<>> /\ call.text.fields["opcode"].type = "integer" =>
    call.text.fields["opcode"].value \in Allowlist

=============================================================================
