--------------------------- MODULE MC_TelemetryJson ---------------------------
(* TelemetryJson for TLC: unsigned types of two, three and four bits, a    *)
(* frame in which no two members of a type agree where the type has enough *)
(* values, and frames and texts that differ from it in one or two places.  *)
EXTENDS TelemetryJson, TLC

CONSTANTS loft, accent, nan, inf    (* names, and doubles that are no number *)

MCWidth == [uint8 |-> 4, uint32 |-> 8, uint64 |-> 16]

Base ==
  [ frame_id |-> 1, timestamp_ms |-> 2, satellite_id |-> loft,
    battery_voltage_v |-> 1, battery_current_ma |-> 2, solar_input_w |-> 3, charge_pct |-> 1,
    obc_temp_c |-> 4, battery_temp_c |-> 5, payload_temp_c |-> -1,
    cpu_usage_pct |-> 2, memory_usage_pct |-> 3, uptime_s |-> 3,
    fault_active |-> 1, safe_mode |-> 0, last_fault_code |-> 5 ]

Extremes(type) ==
  CASE type \in Unsigned -> {0, MCWidth[type] - 1}
    [] type = "double"   -> {-7, 15, nan, inf}
    [] type = "bool"     -> {0, 1}
    [] type = "string"   -> {loft, accent}

Changed(m) == {[Base EXCEPT ![m] = v] : v \in Extremes(Members[m])}

MCFrames == {Base, [Base EXCEPT !.obc_temp_c = nan, !.satellite_id = accent]}
              \cup UNION {Changed(m) : m \in DOMAIN Members}

MCCompanions == {[Base EXCEPT !.frame_id = 15], [Base EXCEPT !.payload_temp_c = inf],
                 [Base EXCEPT !.satellite_id = accent]}

BaseDocument == ToJson(Base).content

(* On both sides of what fits, and of every type. *)
JsonValues ==
  {Json("integer", n) : n \in {-1, 3, 4, 8, 15, 16, 21}} \cup
  {Json("float", n) : n \in {-2, 3, 6, 17}} \cup
  {Json("boolean", 1), Json("string", loft), Json("null", 0), Json("object", 0)}

(* A place has another value, or is missing. *)
Edited(d) == UNION {{(p :> v) @@ d : v \in JsonValues} : p \in DOMAIN d}
Cut(d)    == {[p \in DOMAIN d \ {q} |-> d[p]] : q \in DOMAIN d}

MCTexts ==
  {Document(d) : d \in Edited(BaseDocument) \cup Cut(BaseDocument)} \cup
  {Document(<<>>), Array(<<>>), Array(<<BaseDocument>>)} \cup
  {[syntax |-> s, content |-> <<>>] : s \in {"parse_error", "out_of_range"}}

===============================================================================
