------------------------- MODULE FaultDetectorProofs -------------------------
(***************************************************************************)
(* What evaluate() passes to the callback, for every configuration and     *)
(* every frame: an event for each kind of violation, none without one, in  *)
(* the order of their codes and therefore no kind twice.                   *)
(***************************************************************************)
EXTENDS FaultDetector, TLAPS

(* The elements of s are related as they follow one another. *)
Sorted(R, s) == \A i, j \in DOMAIN s : i < j => <<s[i], s[j]>> \in R

LEMMA ConcatElements ==
  ASSUME NEW S, NEW s \in Seq(S), NEW t \in Seq(S)
  PROVE  /\ s \o t \in Seq(S)
         /\ Len(s \o t) = Len(s) + Len(t)
         /\ DOMAIN (s \o t) = 1 .. Len(s) + Len(t)
         /\ \A i \in 1 .. Len(s) + Len(t) :
              (s \o t)[i] = IF i <= Len(s) THEN s[i] ELSE t[i - Len(s)]
  OBVIOUS

Elements(s) == {s[i] : i \in DOMAIN s}

LEMMA ConcatMembers ==
  ASSUME NEW S, NEW s \in Seq(S), NEW t \in Seq(S)
  PROVE  /\ s \o t \in Seq(S)
         /\ Elements(s \o t) = Elements(s) \cup Elements(t)
  <1>1. /\ s \o t \in Seq(S)
        /\ DOMAIN (s \o t) = 1 .. Len(s) + Len(t)
        /\ \A i \in 1 .. Len(s) + Len(t) :
             (s \o t)[i] = IF i <= Len(s) THEN s[i] ELSE t[i - Len(s)]
    BY ConcatElements
  <1>2. /\ DOMAIN s = 1 .. Len(s) /\ Len(s) \in Nat
        /\ DOMAIN t = 1 .. Len(t) /\ Len(t) \in Nat
    OBVIOUS
  <1>3. Elements(s \o t) \subseteq Elements(s) \cup Elements(t)
    BY <1>1, <1>2 DEF Elements
  <1>4. Elements(s) \subseteq Elements(s \o t)
    BY <1>1, <1>2 DEF Elements
  <1>5. ASSUME NEW j \in DOMAIN t
        PROVE  t[j] \in Elements(s \o t)
    <2>1. Len(s) + j \in DOMAIN (s \o t) /\ (s \o t)[Len(s) + j] = t[j]
      BY <1>1, <1>2
    <2> QED
      BY <2>1 DEF Elements
  <1> QED
    BY <1>1, <1>3, <1>4, <1>5 DEF Elements

(* Two sorted sequences, one after the other. *)
LEMMA ConcatSorted ==
  ASSUME NEW S, NEW R, NEW s \in Seq(S), NEW t \in Seq(S),
         Sorted(R, s), Sorted(R, t),
         \A i \in DOMAIN s, j \in DOMAIN t : <<s[i], t[j]>> \in R
  PROVE  Sorted(R, s \o t)
  <1> DEFINE u == s \o t
  <1>1. /\ DOMAIN u = 1 .. Len(s) + Len(t)
        /\ \A i \in 1 .. Len(s) + Len(t) : u[i] = IF i <= Len(s) THEN s[i] ELSE t[i - Len(s)]
    BY ConcatElements
  <1>2. /\ DOMAIN s = 1 .. Len(s) /\ Len(s) \in Nat
        /\ DOMAIN t = 1 .. Len(t) /\ Len(t) \in Nat
    OBVIOUS
  <1> HIDE DEF u
  <1>3. ASSUME NEW i \in DOMAIN u, NEW j \in DOMAIN u, i < j
        PROVE  <<u[i], u[j]>> \in R
    <2>1. CASE j <= Len(s)
      BY <1>1, <1>2, <1>3, <2>1 DEF Sorted
    <2>2. CASE i > Len(s)
      <3>1. i - Len(s) \in DOMAIN t /\ j - Len(s) \in DOMAIN t /\ i - Len(s) < j - Len(s)
        BY <1>1, <1>2, <1>3, <2>2
      <3>2. u[i] = t[i - Len(s)] /\ u[j] = t[j - Len(s)]
        BY <1>1, <1>2, <1>3, <2>2
      <3> QED
        BY <3>1, <3>2 DEF Sorted
    <2>3. CASE i <= Len(s) /\ j > Len(s)
      <3>1. i \in DOMAIN s /\ j - Len(s) \in DOMAIN t
        BY <1>1, <1>2, <1>3, <2>3
      <3>2. u[i] = s[i] /\ u[j] = t[j - Len(s)]
        BY <1>1, <1>2, <1>3, <2>3
      <3> QED
        BY <3>1, <3>2
    <2> QED
      BY <1>1, <1>2, <2>1, <2>2, <2>3
  <1> QED
    BY <1>3 DEF Sorted, u

-----------------------------------------------------------------------------
Ascending == {p \in FaultCodes \X FaultCodes : p[1] < p[2]}

LEMMA EventFacts ==
  ASSUME NEW c, NEW k \in FaultCodes
  PROVE  /\ Event(c, k) \in Seq(FaultCodes)
         /\ Elements(Event(c, k)) = IF c THEN {k} ELSE {}
         /\ Sorted(Ascending, Event(c, k))
  BY DEF Event, Elements, Sorted

LEMMA ConcatEvents ==
  ASSUME NEW s \in Seq(FaultCodes), NEW t \in Seq(FaultCodes),
         Sorted(Ascending, s), Sorted(Ascending, t),
         \A a \in Elements(s), b \in Elements(t) : a < b
  PROVE  /\ s \o t \in Seq(FaultCodes)
         /\ Elements(s \o t) = Elements(s) \cup Elements(t)
         /\ Sorted(Ascending, s \o t)
  <1>1. \A i \in DOMAIN s, j \in DOMAIN t : <<s[i], t[j]>> \in Ascending
    BY DEF Elements, Ascending
  <1>2. Sorted(Ascending, s \o t)
    BY <1>1, ConcatSorted
  <1> QED
    BY <1>2, ConcatMembers

-----------------------------------------------------------------------------
LowBattery(c, r) ==
  \/ Less(r.battery_voltage_v, c.battery_voltage_min_v)
  \/ Less(c.battery_voltage_max_v, r.battery_voltage_v)

TooHot(c, r)         == Less(c.temperature_max_c, r.obc_temp_c)
TooCold(c, r)        == Less(r.obc_temp_c, c.temperature_min_c)
CpuOverload(c, r)    == r.cpu_usage_pct > c.cpu_usage_max_pct
MemoryOverload(c, r) == r.memory_usage_pct > c.memory_usage_max_pct

LEMMA BatteryEvents ==
  ASSUME NEW c, NEW r
  PROVE  /\ CheckBattery(c, r) \in Seq(FaultCodes)
         /\ Sorted(Ascending, CheckBattery(c, r))
         /\ Elements(CheckBattery(c, r)) = IF LowBattery(c, r) THEN {LOW_BATTERY} ELSE {}
  <1>1. LOW_BATTERY \in FaultCodes
    BY DEF LOW_BATTERY, FaultCodes, NONE, MEMORY_OVERLOAD
  <1> QED
    BY <1>1, EventFacts DEF CheckBattery, LowBattery

LEMMA TemperatureEvents ==
  ASSUME NEW c, NEW r
  PROVE  /\ CheckTemperature(c, r) \in Seq(FaultCodes)
         /\ Sorted(Ascending, CheckTemperature(c, r))
         /\ Elements(CheckTemperature(c, r)) =
              IF TooHot(c, r) THEN {OVER_TEMPERATURE}
              ELSE IF TooCold(c, r) THEN {UNDER_TEMPERATURE} ELSE {}
  <1>1. OVER_TEMPERATURE \in FaultCodes /\ UNDER_TEMPERATURE \in FaultCodes
    BY DEF OVER_TEMPERATURE, UNDER_TEMPERATURE, FaultCodes, NONE, MEMORY_OVERLOAD
  <1>2. CASE TooHot(c, r)
    <2>1. CheckTemperature(c, r) = Event(TRUE, OVER_TEMPERATURE)
      BY <1>2 DEF CheckTemperature, TooHot, Event
    <2> QED
      BY <1>1, <1>2, <2>1, EventFacts
  <1>3. CASE ~TooHot(c, r)
    <2>1. CheckTemperature(c, r) = Event(TooCold(c, r), UNDER_TEMPERATURE)
      BY <1>3 DEF CheckTemperature, TooHot, TooCold
    <2> QED
      BY <1>1, <1>3, <2>1, EventFacts
  <1> QED
    BY <1>2, <1>3

LEMMA ResourceEvents ==
  ASSUME NEW c, NEW r
  PROVE  /\ CheckResources(c, r) \in Seq(FaultCodes)
         /\ Sorted(Ascending, CheckResources(c, r))
         /\ Elements(CheckResources(c, r)) =
              (IF CpuOverload(c, r) THEN {CPU_OVERLOAD} ELSE {})
                \cup (IF MemoryOverload(c, r) THEN {MEMORY_OVERLOAD} ELSE {})
  <1> DEFINE s == Event(CpuOverload(c, r), CPU_OVERLOAD)
             t == Event(MemoryOverload(c, r), MEMORY_OVERLOAD)
  <1>1. CPU_OVERLOAD \in FaultCodes /\ MEMORY_OVERLOAD \in FaultCodes
    BY DEF CPU_OVERLOAD, MEMORY_OVERLOAD, FaultCodes, NONE
  <1>2. /\ s \in Seq(FaultCodes) /\ Sorted(Ascending, s)
        /\ Elements(s) = IF CpuOverload(c, r) THEN {CPU_OVERLOAD} ELSE {}
    BY <1>1, EventFacts
  <1>3. /\ t \in Seq(FaultCodes) /\ Sorted(Ascending, t)
        /\ Elements(t) = IF MemoryOverload(c, r) THEN {MEMORY_OVERLOAD} ELSE {}
    BY <1>1, EventFacts
  <1>4. CheckResources(c, r) = s \o t
    BY DEF CheckResources, CpuOverload, MemoryOverload
  <1> HIDE DEF s, t
  <1>5. \A a \in Elements(s), b \in Elements(t) : a < b
    BY <1>2, <1>3 DEF CPU_OVERLOAD, MEMORY_OVERLOAD
  <1> QED
    BY <1>2, <1>3, <1>4, <1>5, ConcatEvents

(* For every configuration, sound or not, and all readings, evaluate()     *)
(* calls the callback for exactly the violations there are, in the order   *)
(* of their codes, hence once for each kind.  A frame cannot be too hot    *)
(* and too cold; if the thresholds say so, too hot is reported.            *)
THEOREM EvaluateExact ==
  ASSUME NEW c, NEW r
  PROVE  /\ Evaluate(c, r) \in Seq(FaultCodes)
         /\ Sorted(Ascending, Evaluate(c, r))
         /\ Elements(Evaluate(c, r)) =
              { k \in FaultCodes :
                  \/ k = LOW_BATTERY /\ LowBattery(c, r)
                  \/ k = OVER_TEMPERATURE /\ TooHot(c, r)
                  \/ k = UNDER_TEMPERATURE /\ TooCold(c, r) /\ ~TooHot(c, r)
                  \/ k = CPU_OVERLOAD /\ CpuOverload(c, r)
                  \/ k = MEMORY_OVERLOAD /\ MemoryOverload(c, r) }
  <1> DEFINE b == CheckBattery(c, r)
             t == CheckTemperature(c, r)
             u == CheckResources(c, r)
  <1>1. /\ b \in Seq(FaultCodes) /\ Sorted(Ascending, b)
        /\ Elements(b) = IF LowBattery(c, r) THEN {LOW_BATTERY} ELSE {}
    BY BatteryEvents
  <1>2. /\ t \in Seq(FaultCodes) /\ Sorted(Ascending, t)
        /\ Elements(t) = IF TooHot(c, r) THEN {OVER_TEMPERATURE}
                      ELSE IF TooCold(c, r) THEN {UNDER_TEMPERATURE} ELSE {}
    BY TemperatureEvents
  <1>3. /\ u \in Seq(FaultCodes) /\ Sorted(Ascending, u)
        /\ Elements(u) = (IF CpuOverload(c, r) THEN {CPU_OVERLOAD} ELSE {})
                        \cup (IF MemoryOverload(c, r) THEN {MEMORY_OVERLOAD} ELSE {})
    BY ResourceEvents
  <1>4. Evaluate(c, r) = (b \o t) \o u
    BY DEF Evaluate
  <1> HIDE DEF b, t, u
  <1> USE DEF NONE, LOW_BATTERY, OVER_TEMPERATURE, UNDER_TEMPERATURE, CPU_OVERLOAD,
              MEMORY_OVERLOAD
  <1>5. \A x \in Elements(b), y \in Elements(t) : x < y
    BY <1>1, <1>2
  <1>6. /\ b \o t \in Seq(FaultCodes) /\ Sorted(Ascending, b \o t)
        /\ Elements(b \o t) = Elements(b) \cup Elements(t)
    BY <1>1, <1>2, <1>5, ConcatEvents
  <1>7. \A x \in Elements(b \o t), y \in Elements(u) : x < y
    BY <1>1, <1>2, <1>3, <1>6
  <1>8. /\ (b \o t) \o u \in Seq(FaultCodes) /\ Sorted(Ascending, (b \o t) \o u)
        /\ Elements((b \o t) \o u) = Elements(b) \cup Elements(t) \cup Elements(u)
    BY <1>3, <1>6, <1>7, ConcatEvents
  <1> QED
    BY <1>1, <1>2, <1>3, <1>4, <1>8 DEF FaultCodes

=============================================================================
