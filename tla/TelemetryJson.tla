---------------------------- MODULE TelemetryJson ----------------------------
(***************************************************************************)
(* TelemetrySerializer: toJson(), fromJson() and batchToJson().            *)
(*                                                                         *)
(* A caller holds a frame, writes it, alone or in a batch with others,     *)
(* reads what was written back, or reads texts from elsewhere, and goes on *)
(* with the frame it got.  All three functions are static and keep         *)
(* nothing, so that a call is one step.                                    *)
(*                                                                         *)
(* A frame maps the members of TelemetryFrame to their values: numbers,    *)
(* names, 0 or 1 for a boolean.  A text is what json::parse() makes of it: *)
(* a document, an array of documents, or a failure.  A document maps the   *)
(* places it has to JSON values; a place is the keys on the way to it.     *)
(* Whether a key is missing, or the object around it, or that is no        *)
(* object, at() throws alike.                                              *)
(***************************************************************************)
EXTENDS Integers, Sequences, Functions

CONSTANTS
  Frames,      (* the frames a caller comes with                           *)
  Companions,  (* those that go into a batch with the one it holds         *)
  Texts,       (* the texts that come from elsewhere                       *)
  Names,       (* the strings that are UTF-8, ...                          *)
  NotUtf8,     (* ... and those that are not                               *)
  NonFinite,   (* the doubles that are no number: NaN, infinities          *)
  Width,       (* number of values of the unsigned types: 2^8, 2^32, 2^64  *)
  Exact,       (* integers up to here are doubles, 2^53                    *)
  MaxBatch     (* bound: a batch has at most this many frames              *)

(* struct TelemetryFrame *)
Members ==
  [ frame_id |-> "uint64", timestamp_ms |-> "uint64", satellite_id |-> "string",
    battery_voltage_v |-> "double", battery_current_ma |-> "double",
    solar_input_w |-> "double", charge_pct |-> "uint8",
    obc_temp_c |-> "double", battery_temp_c |-> "double", payload_temp_c |-> "double",
    cpu_usage_pct |-> "uint8", memory_usage_pct |-> "uint8", uptime_s |-> "uint64",
    fault_active |-> "bool", safe_mode |-> "bool", last_fault_code |-> "uint32" ]

Unsigned == {"uint8", "uint32", "uint64"}

Values(type) ==
  CASE type \in Unsigned -> 0 .. Width[type] - 1
    [] type = "double"   -> Int \cup NonFinite
    [] type = "bool"     -> {0, 1}
    [] type = "string"   -> Names \cup NotUtf8

IsFrame(f) ==
  /\ f = [m \in DOMAIN Members |-> f[m]]
  /\ \A m \in DOMAIN Members : f[m] \in Values(Members[m])

Json(type, value) == [type |-> type, value |-> value]

Document(d) == [syntax |-> "document", content |-> d]
Array(ds)   == [syntax |-> "array", content |-> ds]
NoText      == [syntax |-> "none", content |-> <<>>]
Syntaxes    == {"document", "array", "parse_error", "out_of_range"}

ASSUME JsonAssumption ==
  /\ \A f \in Frames : IsFrame(f)
  /\ Companions \subseteq Frames
  /\ \A t \in Texts :
       /\ t.syntax \in Syntaxes
       /\ t.syntax = "document" =>
            \A p \in DOMAIN t.content :
              LET v == t.content[p] IN
              /\ v.type \in {"integer", "float", "boolean"} => v.value \in Int
              /\ v.type = "boolean" => v.value \in {0, 1}
              /\ v.type = "string" => v.value \in Names
  /\ \A type \in Unsigned : Width[type] \in Nat \ {0, 1}
  /\ \A x \in NonFinite : x \notin Int \cup Names \cup NotUtf8
  /\ Names \cap NotUtf8 = {}
  /\ Exact \in Nat
  /\ MaxBatch \in Nat

VARIABLES
  frame,       (* the frame the caller holds                               *)
  genuine,     (* history: fromJson() returned it                          *)
  text,        (* the last text written                                    *)
  written,     (* history: the frames it was made of                       *)
  call         (* the last call: its operation, its argument, its outcome  *)

vars == <<frame, genuine, text, written, call>>

Called(op, arg, outcome) == [op |-> op, arg |-> arg, outcome |-> outcome]

Init ==
  /\ frame \in Frames
  /\ genuine = FALSE
  /\ text = NoText
  /\ written = <<>>
  /\ call = Called("none", NoText, "none")

-----------------------------------------------------------------------------
(* Writing. *)

(* An integer as a double.  Past 2^53 only some are, and the nearest is    *)
(* taken.                                                                  *)
Rounded(n) == IF n \in -Exact .. Exact THEN n ELSE 2 * (n \div 2)

Null == Json("null", 0)

(* The value of a member as dump() writes it and parse() reads it. *)
Encode(type, v) ==
  CASE type \in Unsigned -> Json("integer", v)
    [] type = "double"   -> IF v \in NonFinite THEN Null ELSE Json("float", v)
    [] type = "bool"     -> Json("boolean", v)
    [] type = "string"   -> Json("string", v)

(* Mutant: two lines are mixed up. *)
WrittenToSwapped ==
  [ frame_id |-> "frame_id", timestamp_ms |-> "timestamp_ms",
    satellite_id |-> "satellite_id",
    battery_voltage_v |-> "power.battery_voltage_v",
    battery_current_ma |-> "power.battery_current_ma",
    solar_input_w |-> "power.solar_input_w", charge_pct |-> "power.charge_pct",
    obc_temp_c |-> "thermal.battery_temp_c", battery_temp_c |-> "thermal.obc_temp_c",
    payload_temp_c |-> "thermal.payload_temp_c",
    cpu_usage_pct |-> "obc.cpu_usage_pct", memory_usage_pct |-> "obc.memory_usage_pct",
    uptime_s |-> "obc.uptime_s",
    fault_active |-> "health_flags.fault_active", safe_mode |-> "health_flags.safe_mode",
    last_fault_code |-> "health_flags.last_fault_code" ]

(* Where toJson() puts each member; power, thermal and obc are objects of  *)
(* the object subsystems.                                                  *)
WrittenTo ==
  [ frame_id |-> "frame_id", timestamp_ms |-> "timestamp_ms",
    satellite_id |-> "satellite_id",
    battery_voltage_v |-> "power.battery_voltage_v",
    battery_current_ma |-> "power.battery_current_ma",
    solar_input_w |-> "power.solar_input_w", charge_pct |-> "power.charge_pct",
    obc_temp_c |-> "thermal.obc_temp_c", battery_temp_c |-> "thermal.battery_temp_c",
    payload_temp_c |-> "thermal.payload_temp_c",
    cpu_usage_pct |-> "obc.cpu_usage_pct", memory_usage_pct |-> "obc.memory_usage_pct",
    uptime_s |-> "obc.uptime_s",
    fault_active |-> "health_flags.fault_active", safe_mode |-> "health_flags.safe_mode",
    last_fault_code |-> "health_flags.last_fault_code" ]

MemberAt == AntiFunction(WrittenTo)

(* dump() throws on a string that is not UTF-8, and on nothing else. *)
Writable(f) == f.satellite_id \notin NotUtf8

Throws(exception) == [syntax |-> exception, content |-> <<>>]

ToJson(f) ==
  IF Writable(f)
    THEN Document([p \in Range(WrittenTo) |-> Encode(Members[MemberAt[p]], f[MemberAt[p]])])
    ELSE Throws("json_exception")

(* Mutant: frames that cannot be written are skipped. *)
BatchOfTheWritable(fs) ==
  LET good == SelectSeq(fs, Writable) IN
  Array([i \in DOMAIN good |-> ToJson(good[i]).content])

BatchToJson(fs) ==
  IF \A i \in DOMAIN fs : Writable(fs[i])
    THEN Array([i \in DOMAIN fs |-> ToJson(fs[i]).content])
    ELSE Throws("json_exception")

-----------------------------------------------------------------------------
(* Reading. *)

(* Where fromJson() looks for each member ... *)
ReadFrom ==
  [ frame_id |-> "frame_id", timestamp_ms |-> "timestamp_ms",
    satellite_id |-> "satellite_id",
    battery_voltage_v |-> "power.battery_voltage_v",
    battery_current_ma |-> "power.battery_current_ma",
    solar_input_w |-> "power.solar_input_w", charge_pct |-> "power.charge_pct",
    obc_temp_c |-> "thermal.obc_temp_c", battery_temp_c |-> "thermal.battery_temp_c",
    payload_temp_c |-> "thermal.payload_temp_c",
    cpu_usage_pct |-> "obc.cpu_usage_pct", memory_usage_pct |-> "obc.memory_usage_pct",
    uptime_s |-> "obc.uptime_s",
    fault_active |-> "health_flags.fault_active", safe_mode |-> "health_flags.safe_mode",
    last_fault_code |-> "health_flags.last_fault_code" ]

(* Mutant: seconds in 32 bits. *)
ReadAsNarrower == [Members EXCEPT !.uptime_s = "uint32"]

(* ... and the T of the get<T>() it reads it with. *)
ReadAs ==
  [ frame_id |-> "uint64", timestamp_ms |-> "uint64", satellite_id |-> "string",
    battery_voltage_v |-> "double", battery_current_ma |-> "double",
    solar_input_w |-> "double", charge_pct |-> "uint8",
    obc_temp_c |-> "double", battery_temp_c |-> "double", payload_temp_c |-> "double",
    cpu_usage_pct |-> "uint8", memory_usage_pct |-> "uint8", uptime_s |-> "uint64",
    fault_active |-> "bool", safe_mode |-> "bool", last_fault_code |-> "uint32" ]

Entry(d, m) == d[ReadFrom[m]]

(* What get<T>() takes for a T. *)
Accepts(type) ==
  CASE type \in {"uint64", "double"} -> {"integer", "float"}
    [] type \in {"uint8", "uint32"}  -> {"integer", "float", "boolean"}
    [] type = "bool"                 -> {"boolean"}
    [] type = "string"               -> {"string"}

(* Mutant: the members are ints. *)
DecodeUnreduced(type, v) == v.value

(* What get<T>() makes of it.  Integers are reduced. *)
Decode(type, v) ==
  IF type \in Unsigned THEN v.value % Width[type]
  ELSE IF type = "double" /\ v.type = "integer" THEN Rounded(v.value)
  ELSE v.value

(* A float that does not fit into an unsigned type is undefined behaviour: *)
(* any value may result.                                                   *)
Undefined(d) ==
  { m \in DOMAIN Members :
      /\ ReadAs[m] \in Unsigned
      /\ Entry(d, m).type = "float"
      /\ Entry(d, m).value \notin Values(ReadAs[m]) }

Complete(d) ==
  \A m \in DOMAIN Members :
    ReadFrom[m] \in DOMAIN d /\ Entry(d, m).type \in Accepts(ReadAs[m])

Result(f) == [kind |-> "frame", frame |-> f]
Fails(exception) == [kind |-> exception, frame |-> <<>>]

(* A syntax error is turned into a std::runtime_error.  What else at(),    *)
(* get() and parse() throw is an exception of the JSON library.            *)
FromJson(t) ==
  CASE t.syntax = "parse_error" -> {Fails("runtime_error")}
    [] t.syntax = "document" /\ Complete(t.content) ->
         { Result([m \in DOMAIN Members |->
                     IF m \in DOMAIN wild THEN wild[m] % Width[ReadAs[m]]
                     ELSE Decode(ReadAs[m], Entry(t.content, m))]) :
             wild \in [Undefined(t.content) -> Values("uint64")] }
    [] OTHER -> {Fails("json_exception")}

-----------------------------------------------------------------------------
(* The calls.  One that throws leaves the caller what it had. *)

Write(op, fs, result) ==
  /\ call' = Called(op, fs, result.syntax)
  /\ IF result.syntax = "json_exception" THEN UNCHANGED <<text, written>>
     ELSE text' = result /\ written' = fs
  /\ UNCHANGED <<frame, genuine>>

CallToJson == Write("toJson", <<frame>>, ToJson(frame))

CallBatchToJson ==
  \E n \in 0 .. MaxBatch : \E fs \in [1 .. n -> Companions \cup {frame}] :
    Write("batchToJson", fs, BatchToJson(fs))

Read(op, arg, t) ==
  \E r \in FromJson(t) :
    /\ call' = Called(op, arg, r.kind)
    /\ IF r.kind = "frame" THEN frame' = r.frame /\ genuine' = TRUE
       ELSE UNCHANGED <<frame, genuine>>

(* What was written, or one entry of it. *)
ReadBack ==
  /\ \/ /\ text.syntax = "document"
        /\ Read("readBack", written[1], text)
     \/ /\ text.syntax = "array"
        /\ \E i \in DOMAIN text.content :
             Read("readBack", written[i], Document(text.content[i]))
  /\ UNCHANGED <<text, written>>

(* What comes from elsewhere.  It is read first: as nothing is kept, what  *)
(* a caller did before does not matter.                                    *)
ReadText ==
  /\ call.op = "none"
  /\ \E t \in Texts : Read("readText", t, t)
  /\ UNCHANGED <<text, written>>

Next ==
  \/ CallToJson
  \/ CallBatchToJson
  \/ ReadBack
  \/ ReadText

Spec == Init /\ [][Next]_vars

-----------------------------------------------------------------------------
(* Properties. *)

TypeOK ==
  /\ IsFrame(frame)
  /\ genuine \in BOOLEAN
  /\ text.syntax \in {"none", "document", "array"}
  /\ \A i \in DOMAIN written : IsFrame(written[i])
  /\ call.op \in {"none", "toJson", "batchToJson", "readBack", "readText"}

Finite(f) == \A m \in DOMAIN Members : f[m] \notin NonFinite

(* What is read back is what was written, in every member and for every    *)
(* value, or nothing: the one thing that does not survive is a double that *)
(* is no number, and that is refused and not replaced.  toJson() and       *)
(* fromJson() spell out the places and the types each for itself.          *)
RoundTrip ==
  call.op = "readBack" =>
    IF Finite(call.arg) THEN call.outcome = "frame" /\ frame = call.arg
                        ELSE call.outcome = "json_exception"

(* A frame that fromJson() returned can be passed on: whatever text it was *)
(* read from, it can be written, and the next reader gets the same frame.  *)
PassedOn ==
  genuine /\ call.op = "toJson" =>
    /\ call.outcome = "document"
    /\ FromJson(text) = {Result(frame)}

(* A batch has all of its frames, each where it was put, or it is refused  *)
(* because one of them cannot be written; its entries are as good as texts *)
(* of their own.                                                           *)
BatchIsComplete ==
  /\ call.op = "batchToJson" =>
       (call.outcome = "array" <=> \A i \in DOMAIN call.arg : Writable(call.arg[i]))
  /\ text.syntax = "array" =>
       /\ DOMAIN text.content = DOMAIN written
       /\ \A i \in DOMAIN written :
            FromJson(Document(text.content[i])) =
              {IF Finite(written[i]) THEN Result(written[i]) ELSE Fails("json_exception")}

=============================================================================
