---------------------------- MODULE ConfigLoading ----------------------------
(***************************************************************************)
(* ConfigLoader::load() and the way main() uses it: the YAML file is read  *)
(* section by section into a local configuration, which is validated and   *)
(* returned; if anything throws, main() goes on with the default member    *)
(* initializers of SatelliteConfig.                                        *)
(*                                                                         *)
(* A file cannot be read, or it has sections and in them keys.  A section  *)
(* that is empty or a sequence is a section without keys; one that is a    *)
(* scalar makes yaml-cpp throw when a key is looked up.  A value is what   *)
(* yaml-cpp converts it to, or Unconvertible.                              *)
(***************************************************************************)
EXTENDS SatelliteConfig, FiniteSets

CONSTANTS
  Files,            (* the files that may be given to the program          *)
  Unconvertible     (* a value the key's type does not accept              *)

SectionKeys ==
  [ satellite        |-> {"satellite_name", "mission_id", "software_version"},
    telemetry        |-> {"telemetry_dispatch_interval_ms",
                          "telemetry_max_frame_queue_depth"},
    udp              |-> {"ground_station_ip", "ground_station_port", "bind_port"},
    command          |-> {"command_max_queue_depth", "command_timeout_ms"},
    health           |-> {"watchdog_interval_ms"},
    fault_thresholds |-> {"battery_voltage_min_v", "battery_voltage_max_v",
                          "temperature_min_c", "temperature_max_c",
                          "cpu_usage_max_pct", "memory_usage_max_pct"} ]

Sections == DOMAIN SectionKeys
Keys     == UNION {SectionKeys[s] : s \in Sections}

(* The section a section is looked for in. *)
Parent == [udp |-> "telemetry", fault_thresholds |-> "health"]

ASSUME FilesAssumption ==
  \A f \in Files :
    /\ f.readable \in BOOLEAN
    /\ f.sections \subseteq Sections
    /\ f.scalars \subseteq f.sections
    /\ \A s \in f.sections \cap DOMAIN Parent : Parent[s] \in f.sections \ f.scalars
    /\ DOMAIN f.values \subseteq UNION {SectionKeys[s] : s \in f.sections \ f.scalars}
    /\ \A k \in {"battery_voltage_min_v", "battery_voltage_max_v"} \cap DOMAIN f.values :
         f.values[k] \in Int \cup {NotANumber, Unconvertible}

(* Mutant: the defaults are changed in one of the two places. *)
FallbacksOfAnotherVersion == [Defaults EXCEPT !.temperature_min_c = -40]

(* The defaults again, as the fallbacks load() gives to as<T>().           *)
Fallbacks ==
  [ satellite_name |-> "UNKNOWN", mission_id |-> "UNKNOWN", software_version |-> "0.0.0",
    telemetry_dispatch_interval_ms |-> 1000, telemetry_max_frame_queue_depth |-> 64,
    ground_station_ip |-> "127.0.0.1", ground_station_port |-> 5005, bind_port |-> 5004,
    command_max_queue_depth |-> 32, command_timeout_ms |-> 5000,
    watchdog_interval_ms |-> 2000,
    battery_voltage_min_v |-> 65, battery_voltage_max_v |-> 84,
    temperature_min_c |-> -20, temperature_max_c |-> 85,
    cpu_usage_max_pct |-> 90, memory_usage_max_pct |-> 85 ]

VARIABLES
  file,             (* the file                                            *)
  pc,               (* the section load() reads next, or where main() is   *)
  local,            (* the local variable cfg of load()                    *)
  cfg               (* the variable cfg of main()                          *)

vars == <<file, pc, local, cfg>>

Init ==
  /\ file \in Files
  /\ pc = "open"
  /\ local = Defaults
  /\ cfg = Defaults

-----------------------------------------------------------------------------
(* as<T>(fallback) *)
As(key, fallback) ==
  IF key \in DOMAIN file.values /\ file.values[key] # Unconvertible
    THEN file.values[key]
    ELSE fallback

(* Mutant: load() fills in the caller's configuration. *)
ThrowKeepsWhatWasRead ==
  /\ pc' = "running"
  /\ cfg' = local
  /\ UNCHANGED <<file, local>>

(* main() logs the exception and keeps the defaults. *)
Throw ==
  /\ pc' = "running"
  /\ UNCHANGED <<file, local, cfg>>

(* The keys of the sections ss, those that are there. *)
Fill(ss) ==
  LET read == UNION {SectionKeys[s] : s \in ss \cap file.sections} IN
  [k \in Keys |-> IF k \in read THEN As(k, Fallbacks[k]) ELSE local[k]]

Read(at, ss, next) ==
  /\ pc = at
  /\ \/ /\ ss \cap file.scalars # {}
        /\ Throw
     \/ /\ ss \cap file.scalars = {}
        /\ local' = Fill(ss)
        /\ pc' = next
        /\ UNCHANGED <<file, cfg>>

-----------------------------------------------------------------------------
(* Mutant: [health] is required. *)
HealthRequired ==
  \/ /\ pc = "health"
     /\ "health" \notin file.sections
     /\ Throw
  \/ /\ "health" \in file.sections
     /\ Read("health", {"health", "fault_thresholds"}, "validate")

-----------------------------------------------------------------------------
(* YAML::LoadFile() *)
LoadFile ==
  /\ pc = "open"
  /\ \/ /\ ~file.readable
        /\ Throw
     \/ /\ file.readable
        /\ pc' = "satellite"
        /\ UNCHANGED <<file, local, cfg>>

(* The one section that is required. *)
ReadSatellite ==
  \/ /\ pc = "satellite"
     /\ "satellite" \notin file.sections
     /\ Throw
  \/ /\ "satellite" \in file.sections
     /\ Read("satellite", {"satellite"}, "telemetry")

ReadTelemetry == Read("telemetry", {"telemetry", "udp"}, "command")
ReadCommand   == Read("command", {"command"}, "health")
ReadHealth    == Read("health", {"health", "fault_thresholds"}, "validate")

Invalid(c) ==
  \/ c.ground_station_ip = ""
  \/ GreaterOrEqual(c.battery_voltage_min_v, c.battery_voltage_max_v)

(* The validation, and the assignment in main(). *)
Validate ==
  /\ pc = "validate"
  /\ \/ /\ Invalid(local)
        /\ Throw
     \/ /\ ~Invalid(local)
        /\ cfg' = local
        /\ pc' = "running"
        /\ UNCHANGED <<file, local>>

Next ==
  \/ LoadFile
  \/ ReadSatellite
  \/ ReadTelemetry
  \/ ReadCommand
  \/ ReadHealth
  \/ Validate
  \/ pc = "running" /\ UNCHANGED vars

Spec == Init /\ [][Next]_vars

-----------------------------------------------------------------------------
(* Properties. *)

(* What the file says, with the documented default for everything it does  *)
(* not say or does not say in a form the key accepts.                      *)
Meant == [k \in Keys |-> As(k, Defaults[k])]

(* The program runs on one configuration: all of what the file says, or    *)
(* all of the defaults if the file is refused.  A key that is left out has *)
(* the same value whether its section is left out, the key is, the value   *)
(* cannot be converted, or the whole file is refused, though the defaults  *)
(* are written in two places.                                              *)
OneConfiguration == pc = "running" => cfg \in {Meant, Defaults}

(* The program never runs with an empty address or with battery thresholds *)
(* in the wrong order, whichever of the two the file gives, in whichever   *)
(* section, and whatever else is wrong with it.                            *)
NeverInvalid == pc = "running" => Sound(cfg)

(* "All fields have safe defaults so a minimal YAML can omit anything that *)
(* isn't mission-critical." (ConfigLoader.h)  A readable file with a       *)
(* [satellite] section and nothing malformed or contradictory in it is     *)
(* used, whatever it omits.                                                *)
MinimalFileIsUsed ==
  /\ pc = "running"
  /\ file.readable
  /\ "satellite" \in file.sections
  /\ file.scalars = {}
  /\ Meant.ground_station_ip # ""
  /\ Less(Meant.battery_voltage_min_v, Meant.battery_voltage_max_v)
  => cfg = Meant

(* "ConfigLoader: battery_voltage_min_v must be < max_v"                   *)
(* (ConfigLoader.cpp:61)                                                   *)
BatteryThresholdsOrdered ==
  pc = "running" => Less(cfg.battery_voltage_min_v, cfg.battery_voltage_max_v)

=============================================================================
