--------------------------- MODULE MC_ConfigLoading ---------------------------
(* ConfigLoading for TLC: every arrangement of sections, with up to two    *)
(* keys whose values differ from the defaults.                             *)
EXTENDS ConfigLoading

(* Values below, at and above the ones they are compared with. *)
Alternatives ==
  [k \in Keys |->
    CASE k \in {"satellite_name", "mission_id", "software_version"} -> {"x"}
      [] k = "ground_station_ip" -> {"10.0.0.1", "", Unconvertible}
      [] k = "battery_voltage_min_v" -> {60, 84, 90, NotANumber, Unconvertible}
      [] k = "battery_voltage_max_v" -> {60, 65, 90, NotANumber, Unconvertible}
      [] k \in {"temperature_min_c", "temperature_max_c"} -> {0, NotANumber, Unconvertible}
      [] OTHER -> {0, Unconvertible}]

Entries == UNION {{<<k, v>> : v \in Alternatives[k]} : k \in Keys}

(* At most two keys. *)
Contents ==
  {[k \in {e[1] : e \in es} |-> CHOOSE v \in Alternatives[k] : <<k, v>> \in es] :
     es \in {{}} \cup {{e[1], e[2]} : e \in Entries \X Entries}}

Arrangements ==
  { a \in [sections : SUBSET Sections, scalars : SUBSET Sections] :
      /\ a.scalars \subseteq a.sections
      /\ Cardinality(a.scalars) <= 1
      /\ \A s \in a.sections \cap DOMAIN Parent : Parent[s] \in a.sections \ a.scalars }

KeysOf(a) == UNION {SectionKeys[s] : s \in a.sections \ a.scalars}

MCFiles ==
  {[readable |-> FALSE, sections |-> {}, scalars |-> {}, values |-> <<>>]} \cup
  UNION {{[readable |-> TRUE, sections |-> a.sections, scalars |-> a.scalars, values |-> c] :
            c \in {d \in Contents : DOMAIN d \subseteq KeysOf(a)}} : a \in Arrangements}

===============================================================================
