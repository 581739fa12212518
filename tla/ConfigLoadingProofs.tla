------------------------- MODULE ConfigLoadingProofs -------------------------
(***************************************************************************)
(* load() and main(), for every YAML file: whatever sections and keys it   *)
(* has and whatever their values are.                                      *)
(***************************************************************************)
EXTENDS ConfigLoading, TLAPS

(* The defaults are the same in both places they are written. *)
LEMMA DefaultsAgree == Fallbacks = Defaults
  BY DEF Fallbacks, Defaults

LEMMA DefaultsSound == Sound(Defaults)
  BY DEF Defaults, Sound, GreaterOrEqual

LEMMA DefaultThresholds ==
  /\ Defaults["battery_voltage_min_v"] \in Int
  /\ Defaults["battery_voltage_max_v"] \in Int
  <1>1. /\ Defaults.battery_voltage_min_v = 65
        /\ Defaults.battery_voltage_max_v = 84
    BY DEF Defaults
  <1>2. 65 \in Int /\ 84 \in Int
    OBVIOUS
  <1> QED
    BY <1>1, <1>2, Zenon

LEMMA NotBoth ==
  ASSUME NEW a \in Int, NEW b \in Int, a < b
  PROVE  ~(a >= b)
  OBVIOUS

(* No key is in two sections. *)
LEMMA SectionsDisjoint ==
  ASSUME NEW s \in Sections, NEW u \in Sections,
         NEW k \in SectionKeys[s], k \in SectionKeys[u]
  PROVE  s = u
  BY DEF Sections, SectionKeys

LEMMA BatteryKeys ==
  {"ground_station_ip", "battery_voltage_min_v", "battery_voltage_max_v"} \subseteq Keys
  <1>1. "udp" \in Sections /\ "fault_thresholds" \in Sections
    BY DEF Sections, SectionKeys
  <1>2. "ground_station_ip" \in SectionKeys["udp"]
    BY DEF SectionKeys
  <1>3. {"battery_voltage_min_v", "battery_voltage_max_v"} \subseteq SectionKeys["fault_thresholds"]
    BY DEF SectionKeys
  <1> QED
    BY <1>1, <1>2, <1>3 DEF Keys

-----------------------------------------------------------------------------
(* The local configuration has the file's word on the keys of the sections *)
(* that have been read, and the defaults of the others.                    *)

KeysOf(ss) == UNION {SectionKeys[s] : s \in ss}

Has(ss) == \A k \in Keys : local[k] = IF k \in KeysOf(ss) THEN Meant[k] ELSE Defaults[k]

LocalOK ==
  /\ pc \in {"open", "satellite", "telemetry", "command", "health", "validate", "running"}
  /\ pc \in {"open", "satellite"} => Has({})
  /\ pc = "telemetry" => Has({"satellite"})
  /\ pc = "command" => Has({"satellite", "telemetry", "udp"})
  /\ pc = "health" => Has({"satellite", "telemetry", "udp", "command"})
  /\ pc = "validate" => Has(Sections) /\ local = [k \in Keys |-> local[k]]

(* Why a file is refused. *)
Refusable ==
  \/ ~file.readable
  \/ "satellite" \notin file.sections
  \/ file.scalars # {}
  \/ Invalid(Meant)

CfgOK ==
  /\ pc # "running" => cfg = Defaults
  /\ pc = "running" => \/ cfg = Defaults /\ Refusable
                       \/ cfg = Meant /\ ~Invalid(Meant)

IInv == file \in Files /\ LocalOK /\ CfgOK

LEMMA InvInit == Init => IInv
  BY DEF Init, IInv, LocalOK, CfgOK, Has, KeysOf

(* A key whose section is not in the file has its default. *)
LEMMA NotInFile ==
  ASSUME file \in Files, NEW s \in Sections, s \notin file.sections, NEW k \in SectionKeys[s]
  PROVE  Meant[k] = Defaults[k]
  <1>1. k \notin DOMAIN file.values
    <2> SUFFICES ASSUME k \in DOMAIN file.values
                 PROVE  FALSE
      OBVIOUS
    <2>1. PICK u \in file.sections : k \in SectionKeys[u]
      BY FilesAssumption
    <2>2. u \in Sections
      BY <2>1, FilesAssumption
    <2> QED
      BY <2>1, <2>2, SectionsDisjoint
  <1>2. k \in Keys
    BY DEF Keys
  <1> QED
    BY <1>1, <1>2 DEF Meant, As

(* Reading the sections ss. *)
LEMMA Filled ==
  ASSUME file \in Files, UNCHANGED file, NEW done, Has(done),
         NEW ss \in SUBSET Sections, local' = Fill(ss)
  PROVE  Has(done \cup ss)' /\ local' = [k \in Keys |-> local'[k]]
  <1>1. Meant' = Meant
    BY DEF Meant, As
  <1> DEFINE read == KeysOf(ss \cap file.sections)
  <1>2. local' = [k \in Keys |-> IF k \in read THEN As(k, Fallbacks[k]) ELSE local[k]]
    BY DEF Fill, KeysOf
  <1>3. ASSUME NEW k \in Keys
        PROVE  local'[k] = IF k \in KeysOf(done \cup ss) THEN Meant[k] ELSE Defaults[k]
    <2>1. CASE k \in read
      <3>1. local'[k] = Meant[k]
        BY <1>2, <2>1, DefaultsAgree DEF Meant
      <3>2. k \in KeysOf(done \cup ss)
        BY <2>1 DEF KeysOf
      <3> QED
        BY <3>1, <3>2
    <2>2. CASE k \notin read /\ k \in KeysOf(ss)
      <3>1. PICK s \in ss : k \in SectionKeys[s]
        BY <2>2 DEF KeysOf
      <3>2. s \notin file.sections
        BY <2>2, <3>1 DEF KeysOf
      <3>3. Meant[k] = Defaults[k]
        BY <3>1, <3>2, NotInFile
      <3>4. local'[k] = local[k] /\ local[k] \in {Meant[k], Defaults[k]}
        BY <1>2, <2>2 DEF Has
      <3> QED
        BY <3>3, <3>4
    <2>3. CASE k \notin KeysOf(ss)
      <3>1. k \notin read /\ (k \in KeysOf(done \cup ss) <=> k \in KeysOf(done))
        BY <2>3 DEF KeysOf
      <3> QED
        BY <1>2, <3>1 DEF Has
    <2> QED
      BY <2>1, <2>2, <2>3
  <1> QED
    BY <1>1, <1>2, <1>3 DEF Has

LEMMA Thrown ==
  ASSUME IInv, Throw, pc # "running", Refusable
  PROVE  IInv'
  BY DEF IInv, LocalOK, CfgOK, Throw, Refusable, Invalid, Meant, As

(* What Read() leaves to show. *)
LEMMA ReadStep ==
  ASSUME IInv, NEW at, at # "running", NEW next, next # "running",
         NEW done, Has(done), NEW ss \in SUBSET Sections, Read(at, ss, next)
  PROVE  \/ IInv'
         \/ /\ pc' = next /\ UNCHANGED <<file, cfg>>
            /\ CfgOK'
            /\ Has(done \cup ss)'
            /\ local' = [k \in Keys |-> local'[k]]
  <1>1. CASE ss \cap file.scalars # {}
    <2>1. Throw /\ pc # "running" /\ Refusable
      BY <1>1 DEF Read, Refusable
    <2> QED
      BY <2>1, Thrown
  <1>2. CASE ss \cap file.scalars = {}
    <2>1. pc = at /\ pc' = next /\ local' = Fill(ss) /\ UNCHANGED <<file, cfg>>
      BY <1>2 DEF Read
    <2>2. Has(done \cup ss)' /\ local' = [k \in Keys |-> local'[k]]
      BY <2>1, Filled DEF IInv
    <2>3. CfgOK'
      BY <2>1 DEF IInv, CfgOK
    <2> QED
      BY <2>1, <2>2, <2>3
  <1> QED
    BY <1>1, <1>2

LEMMA SectionNames ==
  Sections = {"satellite", "telemetry", "udp", "command", "health", "fault_thresholds"}
  BY DEF Sections, SectionKeys

LEMMA InvStep == IInv /\ [Next]_vars => IInv'
  <1> SUFFICES ASSUME IInv, [Next]_vars
               PROVE  IInv'
    OBVIOUS
  <1>1. CASE LoadFile
    <2>1. CASE ~file.readable
      BY <1>1, <2>1, Thrown DEF LoadFile, Refusable
    <2>2. CASE file.readable
      BY <1>1, <2>2 DEF LoadFile, IInv, LocalOK, CfgOK, Has, KeysOf
    <2> QED
      BY <2>1, <2>2
  <1>2. CASE ReadSatellite
    <2>1. CASE "satellite" \notin file.sections
      BY <1>2, <2>1, Thrown DEF ReadSatellite, Refusable
    <2>2. CASE "satellite" \in file.sections
      <3>1. Read("satellite", {"satellite"}, "telemetry") /\ pc = "satellite"
        BY <1>2, <2>2 DEF ReadSatellite, Read
      <3>2. Has({})
        BY <3>1 DEF IInv, LocalOK
      <3>3. IInv' \/ (pc' = "telemetry" /\ file' = file /\ CfgOK' /\ Has({} \cup {"satellite"})')
        BY <3>1, <3>2, SectionNames, ReadStep
      <3> QED
        BY <3>3 DEF IInv, LocalOK
    <2> QED
      BY <2>1, <2>2
  <1>3. CASE ReadTelemetry
    <2>1. Read("telemetry", {"telemetry", "udp"}, "command") /\ pc = "telemetry"
      BY <1>3 DEF ReadTelemetry, Read
    <2>2. Has({"satellite"})
      BY <2>1 DEF IInv, LocalOK
    <2>3. \/ IInv'
          \/ /\ pc' = "command" /\ file' = file /\ CfgOK'
             /\ Has({"satellite"} \cup {"telemetry", "udp"})'
      BY <2>1, <2>2, SectionNames, ReadStep
    <2>4. {"satellite"} \cup {"telemetry", "udp"} = {"satellite", "telemetry", "udp"}
      OBVIOUS
    <2> QED
      BY <2>3, <2>4 DEF IInv, LocalOK
  <1>4. CASE ReadCommand
    <2> DEFINE done == {"satellite", "telemetry", "udp"}
    <2>1. Read("command", {"command"}, "health") /\ pc = "command"
      BY <1>4 DEF ReadCommand, Read
    <2>2. Has(done)
      BY <2>1 DEF IInv, LocalOK
    <2>3. \/ IInv'
          \/ /\ pc' = "health" /\ file' = file /\ CfgOK'
             /\ Has(done \cup {"command"})'
      BY <2>1, <2>2, SectionNames, ReadStep
    <2>4. done \cup {"command"} = {"satellite", "telemetry", "udp", "command"}
      OBVIOUS
    <2> QED
      BY <2>3, <2>4 DEF IInv, LocalOK
  <1>5. CASE ReadHealth
    <2> DEFINE done == {"satellite", "telemetry", "udp", "command"}
    <2>1. Read("health", {"health", "fault_thresholds"}, "validate") /\ pc = "health"
      BY <1>5 DEF ReadHealth, Read
    <2>2. Has(done)
      BY <2>1 DEF IInv, LocalOK
    <2>3. \/ IInv'
          \/ /\ pc' = "validate" /\ file' = file /\ CfgOK'
             /\ Has(done \cup {"health", "fault_thresholds"})'
             /\ local' = [k \in Keys |-> local'[k]]
      BY <2>1, <2>2, SectionNames, ReadStep
    <2>4. done \cup {"health", "fault_thresholds"} = Sections
      BY SectionNames
    <2> QED
      BY <2>3, <2>4 DEF IInv, LocalOK
  <1>6. CASE Validate
    <2>1. local = Meant
      <3>1. \A k \in Keys : local[k] = Meant[k]
        BY <1>6 DEF Validate, IInv, LocalOK, Has, KeysOf, Keys
      <3> QED
        BY <1>6, <3>1 DEF Validate, IInv, LocalOK, Meant
    <2>2. CASE Invalid(local)
      <3>1. Throw /\ pc # "running" /\ Refusable
        BY <1>6, <2>1, <2>2 DEF Validate, Refusable
      <3> QED
        BY <3>1, Thrown
    <2>3. CASE ~Invalid(local)
      <3>1. cfg' = Meant /\ pc' = "running" /\ UNCHANGED <<file, local>>
        BY <1>6, <2>1, <2>3 DEF Validate
      <3>2. Meant' = Meant /\ ~Invalid(Meant)
        BY <2>1, <2>3, <3>1 DEF Meant, As
      <3>3. ~Invalid(Meant)'
        BY <3>2 DEF Invalid
      <3> QED
        BY <3>1, <3>2, <3>3 DEF IInv, LocalOK, CfgOK
    <2> QED
      BY <2>2, <2>3
  <1>7. CASE UNCHANGED vars
    BY <1>7 DEF vars, IInv, LocalOK, CfgOK, Refusable, Has, Meant, As, Invalid
  <1> QED
    BY <1>1, <1>2, <1>3, <1>4, <1>5, <1>6, <1>7 DEF Next

LEMMA Invariance == Spec => []IInv
  BY InvInit, InvStep, PTL DEF Spec

-----------------------------------------------------------------------------
(* The program runs on all of what the file says or on all of the          *)
(* defaults, for every file.                                               *)
THEOREM ConfigurationIsOne == Spec => []OneConfiguration
  <1>1. IInv => OneConfiguration
    BY DEF IInv, CfgOK, OneConfiguration
  <1> QED
    BY <1>1, Invariance, PTL

(* No file makes the program run without an address or with battery        *)
(* thresholds in the wrong order.                                          *)
THEOREM ConfigurationIsSound == Spec => []NeverInvalid
  <1>1. IInv => NeverInvalid
    BY DefaultsSound DEF IInv, CfgOK, NeverInvalid, Sound, Invalid
  <1> QED
    BY <1>1, Invariance, PTL

(* A readable file that has the one section it needs, and nothing in it    *)
(* that is malformed or contradictory, is used, whatever else it leaves    *)
(* out.                                                                    *)
THEOREM MinimalFileWorks == Spec => []MinimalFileIsUsed
  <1>1. IInv => MinimalFileIsUsed
    <2> SUFFICES ASSUME IInv, pc = "running", Refusable,
                        file.readable, "satellite" \in file.sections, file.scalars = {},
                        Meant.ground_station_ip # "",
                        Less(Meant.battery_voltage_min_v, Meant.battery_voltage_max_v)
                 PROVE  FALSE
      BY DEF IInv, CfgOK, MinimalFileIsUsed
    <2> DEFINE a == Meant["battery_voltage_min_v"]
               b == Meant["battery_voltage_max_v"]
    <2>1. GreaterOrEqual(a, b) /\ Less(a, b)
      BY DEF Refusable, Invalid
    <2>2. a \in Int \cup {NotANumber} /\ b \in Int \cup {NotANumber}
      <3>1. /\ Defaults["battery_voltage_min_v"] \in Int
            /\ Defaults["battery_voltage_max_v"] \in Int
        BY DefaultThresholds
      <3>2. ASSUME NEW k \in {"battery_voltage_min_v", "battery_voltage_max_v"}
            PROVE  Meant[k] \in Int \cup {NotANumber}
        <4>1. Meant[k] = As(k, Defaults[k])
          BY BatteryKeys DEF Meant
        <4>2. CASE k \in DOMAIN file.values /\ file.values[k] # Unconvertible
          BY <4>1, <4>2, FilesAssumption DEF As, IInv
        <4>3. CASE ~(k \in DOMAIN file.values /\ file.values[k] # Unconvertible)
          BY <3>1, <4>1, <4>3 DEF As
        <4> QED
          BY <4>2, <4>3
      <3> QED
        BY <3>2
    <2> HIDE DEF a, b
    <2>3. a \in Int /\ b \in Int /\ a < b /\ a >= b
      BY <2>1, <2>2 DEF Less, GreaterOrEqual
    <2> QED
      BY <2>3, NotBoth
  <1> QED
    BY <1>1, Invariance, PTL

=============================================================================
