--------------------------- MODULE SatelliteConfig ---------------------------
(***************************************************************************)
(* SatelliteConfig: its members with their default initializers, and what  *)
(* the readers of a configuration may count on.  Voltages are in tenths of *)
(* a volt.  A double is an integer here, whose order alone matters, or     *)
(* NotANumber.                                                             *)
(***************************************************************************)
EXTENDS Integers

CONSTANT NotANumber

Defaults ==
  [ satellite_name |-> "UNKNOWN", mission_id |-> "UNKNOWN", software_version |-> "0.0.0",
    telemetry_dispatch_interval_ms |-> 1000, telemetry_max_frame_queue_depth |-> 64,
    ground_station_ip |-> "127.0.0.1", ground_station_port |-> 5005, bind_port |-> 5004,
    command_max_queue_depth |-> 32, command_timeout_ms |-> 5000,
    watchdog_interval_ms |-> 2000,
    battery_voltage_min_v |-> 65, battery_voltage_max_v |-> 84,
    temperature_min_c |-> -20, temperature_max_c |-> 85,
    cpu_usage_max_pct |-> 90, memory_usage_max_pct |-> 85 ]

(* Comparisons of doubles: none holds of a NaN. *)
Less(a, b) == a # NotANumber /\ b # NotANumber /\ a < b
GreaterOrEqual(a, b) == a # NotANumber /\ b # NotANumber /\ a >= b

(* What every configuration the program runs on satisfies: ConfigLoading   *)
(* shows it, ObcMain assumes it.  Nothing else is checked: a threshold may *)
(* be a NaN, and the temperatures may be in the wrong order.               *)
Sound(c) ==
  /\ c.ground_station_ip # ""
  /\ ~GreaterOrEqual(c.battery_voltage_min_v, c.battery_voltage_max_v)

=============================================================================
