----------------------------- MODULE MC_ObcMain -----------------------------
(* ObcMain for TLC: configurations with thresholds on both sides of what   *)
(* main() simulates, and the three commands it injects.                    *)
EXTENDS ObcMain

Configured(c) ==
  [c EXCEPT !.command_max_queue_depth = MaxCommandDepth,
            !.telemetry_max_frame_queue_depth = MaxQueueDepth]

(* A CPU overload in the third frame that is over in the fourth, and       *)
(* voltages and temperatures on both sides.                                *)
Narrow ==
  [Configured(Defaults) EXCEPT
     !.battery_voltage_min_v = 70, !.battery_voltage_max_v = 80,
     !.temperature_min_c = 15, !.temperature_max_c = 35, !.cpu_usage_max_pct = 31]

(* What load() lets through though it makes little sense, with a memory    *)
(* overload in every other frame.                                          *)
Contradictory ==
  [Configured(Defaults) EXCEPT
     !.battery_voltage_min_v = 70, !.battery_voltage_max_v = NotANumber,
     !.temperature_min_c = 30, !.temperature_max_c = 20, !.memory_usage_max_pct = 40]

(* What toJson() throws on. *)
Accented == [Narrow EXCEPT !.satellite_name = "latin-1"]

(* Only the payload is ever out of bounds. *)
Calm == [Configured(Defaults) EXCEPT !.temperature_max_c = 45]

MCConfigurations == {Narrow, Contradictory, Accented}
MCCalm           == {Calm}

MCNotUtf8 == {"latin-1"}

At(battery, obc, payload) ==
  [battery_voltage_v |-> battery, obc_temp_c |-> obc, payload_temp_c |-> payload]

MCOrbit == {At(74, 25, 47), At(66, 25, 47), At(82, 25, 47), At(81, 40, 41), At(74, 10, 19)}

MCDemo ==
  << [sequence_number |-> 1, opcode |-> 1],
     [sequence_number |-> 2, opcode |-> 16],
     [sequence_number |-> 3, opcode |-> 32] >>

=============================================================================
