---------------------------- MODULE FaultDetector ----------------------------
(***************************************************************************)
(* FaultDetector: evaluate() compares the readings r of one frame with the *)
(* thresholds of a configuration c and calls the fault callback once for   *)
(* each violation it finds, in a fixed order.  It keeps no state, so it is *)
(* the sequence of codes the callback receives.  A threshold that is a NaN *)
(* is never violated.  Without a callback every check returns at once:     *)
(* main() sets one before it calls evaluate(), so there always is one.     *)
(***************************************************************************)
EXTENDS SatelliteConfig, Sequences

(* enum class FaultCode *)
NONE              == 0
LOW_BATTERY       == 1
OVER_TEMPERATURE  == 2
UNDER_TEMPERATURE == 3
CPU_OVERLOAD      == 4
MEMORY_OVERLOAD   == 5

FaultCodes == NONE .. MEMORY_OVERLOAD

Event(condition, code) == IF condition THEN <<code>> ELSE <<>>

(* Over-voltage is reported as LOW_BATTERY too. *)
CheckBattery(c, r) ==
  Event(\/ Less(r.battery_voltage_v, c.battery_voltage_min_v)
        \/ Less(c.battery_voltage_max_v, r.battery_voltage_v), LOW_BATTERY)

(* Only the temperature of the on-board computer is looked at. *)
CheckTemperature(c, r) ==
  IF Less(c.temperature_max_c, r.obc_temp_c)
    THEN <<OVER_TEMPERATURE>>
    ELSE Event(Less(r.obc_temp_c, c.temperature_min_c), UNDER_TEMPERATURE)

CheckResources(c, r) ==
  Event(r.cpu_usage_pct > c.cpu_usage_max_pct, CPU_OVERLOAD)
    \o Event(r.memory_usage_pct > c.memory_usage_max_pct, MEMORY_OVERLOAD)

Evaluate(c, r) == CheckBattery(c, r) \o CheckTemperature(c, r) \o CheckResources(c, r)

=============================================================================
