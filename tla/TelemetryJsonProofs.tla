------------------------- MODULE TelemetryJsonProofs -------------------------
(***************************************************************************)
(* Telemetry survives its way through JSON, for unsigned types of any      *)
(* width, all doubles, all names and batches of any length.                *)
(***************************************************************************)
EXTENDS TelemetryJson, ModularCounting

Types == Unsigned \cup {"double", "bool", "string"}

LEMMA MemberTypes ==
  /\ \A m \in DOMAIN Members : Members[m] \in Types
  /\ "satellite_id" \in DOMAIN Members
  /\ Members["satellite_id"] = "string"
  BY DEF Members, Types, Unsigned

(* toJson() and fromJson() agree on the places and the types. *)
LEMMA TablesAgree == ReadFrom = WrittenTo /\ ReadAs = Members
  BY DEF ReadFrom, WrittenTo, ReadAs, Members

(* No two members share a place, so that a place tells its member. *)
LEMMA PlacesDistinct ==
  ASSUME NEW m \in DOMAIN Members
  PROVE  WrittenTo[m] \in Range(WrittenTo) /\ MemberAt[WrittenTo[m]] = m
  <1>1. DOMAIN WrittenTo = DOMAIN Members
    BY DEF WrittenTo, Members
  <1>2. \A n \in DOMAIN WrittenTo : WrittenTo[n] = WrittenTo[m] => n = m
    BY DEF WrittenTo, Members
  <1>3. WrittenTo[m] \in Range(WrittenTo)
    BY <1>1 DEF Range
  <1>4. MemberAt[WrittenTo[m]] =
          CHOOSE n \in DOMAIN WrittenTo :
            WrittenTo[m] \in Range(WrittenTo) => WrittenTo[n] = WrittenTo[m]
    BY <1>3 DEF MemberAt, AntiFunction, Inverse
  <1>5. MemberAt[WrittenTo[m]] \in DOMAIN WrittenTo
        /\ WrittenTo[MemberAt[WrittenTo[m]]] = WrittenTo[m]
    BY <1>1, <1>3, <1>4
  <1> QED
    BY <1>2, <1>3, <1>5

LEMMA TypeValues ==
  /\ \A type \in Unsigned : /\ Values(type) = 0 .. Width[type] - 1
                            /\ Width[type] \in Nat \ {0}
  /\ Values("double") = Int \cup NonFinite
  /\ Values("bool") = {0, 1}
  /\ Values("string") = Names \cup NotUtf8
  BY JsonAssumption DEF Values, Unsigned

(* Only a double can be no number. *)
LEMMA NonFiniteIsDouble ==
  ASSUME NEW type \in Types, NEW v \in Values(type), v \in NonFinite
  PROVE  type = "double"
  BY TypeValues, JsonAssumption DEF Types

(* One value, written and read. *)
LEMMA ValueSurvives ==
  ASSUME NEW type \in Types, NEW v \in Values(type), v \notin NonFinite
  PROVE  /\ Encode(type, v).type \in Accepts(type)
         /\ Decode(type, Encode(type, v)) = v
         /\ type \in Unsigned => Encode(type, v).type = "integer"
  <1>1. CASE type \in Unsigned
    <2>1. Encode(type, v) = [type |-> "integer", value |-> v]
      BY <1>1 DEF Encode, Json, Unsigned
    <2>2. v % Width[type] = v
      BY <1>1, TypeValues, Remainder
    <2> QED
      BY <1>1, <2>1, <2>2 DEF Accepts, Decode, Unsigned
  <1>2. CASE type = "double"
    <2>1. Encode(type, v) = [type |-> "float", value |-> v]
      BY <1>2 DEF Encode, Json, Unsigned
    <2> QED
      BY <1>2, <2>1 DEF Accepts, Decode, Unsigned
  <1>3. CASE type = "bool"
    <2>1. Encode(type, v) = [type |-> "boolean", value |-> v]
      BY <1>3 DEF Encode, Json, Unsigned
    <2> QED
      BY <1>3, <2>1 DEF Accepts, Decode, Unsigned
  <1>4. CASE type = "string"
    <2>1. Encode(type, v) = [type |-> "string", value |-> v]
      BY <1>4 DEF Encode, Json, Unsigned
    <2> QED
      BY <1>4, <2>1 DEF Accepts, Decode, Unsigned
  <1> QED
    BY <1>1, <1>2, <1>3, <1>4 DEF Types

(* toJson() and then fromJson(): the same frame, or an exception if a      *)
(* double in it is no number.                                              *)
LEMMA FrameSurvives ==
  ASSUME NEW f, IsFrame(f), Writable(f)
  PROVE  /\ ToJson(f).syntax = "document"
         /\ FromJson(Document(ToJson(f).content)) =
              {IF Finite(f) THEN Result(f) ELSE Fails("json_exception")}
  <1> DEFINE d == [p \in Range(WrittenTo) |-> Encode(Members[MemberAt[p]], f[MemberAt[p]])]
             t == Document(d)
  <1>1. ToJson(f) = t /\ t.syntax = "document" /\ t.content = d
    BY DEF ToJson, Document
  <1>2. \A m \in DOMAIN Members :
          /\ Members[m] \in Types
          /\ f[m] \in Values(Members[m])
          /\ WrittenTo[m] \in DOMAIN d
          /\ Entry(d, m) = Encode(Members[m], f[m])
    BY MemberTypes, PlacesDistinct, TablesAgree DEF IsFrame, Entry
  <1> HIDE DEF d
  <1>3. CASE Finite(f)
    <2>1. \A m \in DOMAIN Members :
            /\ Entry(d, m).type \in Accepts(Members[m])
            /\ Decode(Members[m], Entry(d, m)) = f[m]
            /\ Members[m] \in Unsigned => Entry(d, m).type = "integer"
      BY <1>2, <1>3, ValueSurvives DEF Finite
    <2>2. Complete(d)
      BY <1>2, <2>1, TablesAgree DEF Complete
    <2>3. Undefined(d) = {}
      BY <2>1, TablesAgree DEF Undefined
    <2> DEFINE Rd(wild) == [m \in DOMAIN Members |->
                                IF m \in DOMAIN wild THEN wild[m] % Width[Members[m]]
                                ELSE Decode(Members[m], Entry(d, m))]
    <2>4. FromJson(t) = {Result(Rd(wild)) : wild \in [Undefined(d) -> Values("uint64")]}
      BY <1>1, <2>2, TablesAgree DEF FromJson
    <2>5. \A wild \in [{} -> Values("uint64")] : Rd(wild) = f
      BY <2>1 DEF IsFrame
    <2> HIDE DEF Rd
    <2>6. [x \in {} |-> 0] \in [{} -> Values("uint64")]
      OBVIOUS
    <2>7. FromJson(t) = {Result(f)}
      BY <2>3, <2>4, <2>5, <2>6
    <2> QED
      BY <1>1, <1>3, <2>7
  <1>4. CASE ~Finite(f)
    <2>1. PICK m \in DOMAIN Members : f[m] \in NonFinite
      BY <1>4 DEF Finite
    <2>2. Members[m] = "double"
      BY <1>2, <2>1, NonFiniteIsDouble
    <2>3. Entry(d, m) = [type |-> "null", value |-> 0]
      BY <1>2, <2>1, <2>2 DEF Encode, Null, Json, Unsigned
    <2>4. ~Complete(d)
      BY <2>2, <2>3, TablesAgree DEF Complete, Accepts
    <2> QED
      BY <1>1, <1>4, <2>4 DEF FromJson
  <1> QED
    BY <1>3, <1>4

-----------------------------------------------------------------------------
(* What fromJson() returns for a text from elsewhere is a frame that can   *)
(* be written and read again.                                              *)
LEMMA ValueFits ==
  ASSUME NEW t \in Texts, t.syntax = "document",
         NEW p \in DOMAIN t.content, NEW type \in Types,
         t.content[p].type \in Accepts(type)
  PROVE  /\ Decode(type, t.content[p]) \in Values(type) \ NonFinite
         /\ type = "string" => Decode(type, t.content[p]) \in Names
  <1> DEFINE v == t.content[p]
  <1>1. /\ v.type \in {"integer", "float", "boolean"} => v.value \in Int
        /\ v.type = "boolean" => v.value \in {0, 1}
        /\ v.type = "string" => v.value \in Names
    BY JsonAssumption
  <1>2. t.content[p] = v /\ v.type \in Accepts(type)
    OBVIOUS
  <1> HIDE DEF v
  <1>a. \A n \in Int : n \notin NonFinite
    BY JsonAssumption
  <1>3. CASE type \in Unsigned
    <2>1. v.value \in Int
      BY <1>1, <1>2, <1>3 DEF Accepts, Unsigned
    <2>2. Decode(type, v) = v.value % Width[type]
      BY <1>3 DEF Decode
    <2>3. v.value % Width[type] \in 0 .. Width[type] - 1
      BY <1>3, <2>1, TypeValues, Remainder
    <2>4. Decode(type, v) \in Values(type) /\ Decode(type, v) \in Int
      BY <1>3, <2>2, <2>3, TypeValues
    <2> QED
      BY <1>2, <1>3, <1>a, <2>4 DEF Unsigned
  <1>4. CASE type = "double"
    <2>1. v.value \in Int /\ Rounded(v.value) \in Int
      BY <1>1, <1>2, <1>4 DEF Accepts, Rounded
    <2>2. Decode(type, v) \in Int
      BY <1>4, <2>1 DEF Decode, Unsigned
    <2> QED
      BY <1>2, <1>4, <1>a, <2>2, TypeValues
  <1>5. CASE type = "bool"
    <2>1. v.value \in {0, 1} /\ Decode(type, v) = v.value
      BY <1>1, <1>2, <1>5 DEF Accepts, Decode, Unsigned
    <2> QED
      BY <1>2, <1>5, <1>a, <2>1, TypeValues
  <1>6. CASE type = "string"
    <2>1. v.value \in Names /\ Decode(type, v) = v.value
      BY <1>1, <1>2, <1>6 DEF Accepts, Decode, Unsigned
    <2> QED
      BY <1>2, <1>6, <2>1, TypeValues, JsonAssumption
  <1> QED
    BY <1>3, <1>4, <1>5, <1>6 DEF Types

Portable(f) == IsFrame(f) /\ Writable(f) /\ Finite(f)

LEMMA TextGivesPortable ==
  ASSUME NEW t \in Texts, NEW r \in FromJson(t), r.kind = "frame"
  PROVE  Portable(r.frame)
  <1> DEFINE d == t.content
             Rd(wild) == [m \in DOMAIN Members |->
                            IF m \in DOMAIN wild THEN wild[m] % Width[Members[m]]
                            ELSE Decode(Members[m], Entry(d, m))]
  <1>1. t.syntax = "document" /\ Complete(d)
    BY DEF FromJson, Fails
  <1>2. PICK wild \in [Undefined(d) -> Values("uint64")] : r = Result(Rd(wild))
    BY <1>1, TablesAgree DEF FromJson
  <1>3. ASSUME NEW m \in DOMAIN Members
        PROVE  /\ Rd(wild)[m] \in Values(Members[m]) \ NonFinite
               /\ Members[m] = "string" => Rd(wild)[m] \in Names
    <2>1. CASE m \in DOMAIN wild
      <3>1. Members[m] \in Unsigned /\ wild[m] \in Values("uint64")
        BY <1>2, <2>1, TablesAgree DEF Undefined
      <3>2. wild[m] \in Int
        BY <3>1, TypeValues DEF Unsigned
      <3>3. Rd(wild)[m] = wild[m] % Width[Members[m]]
        BY <2>1
      <3>4. Rd(wild)[m] \in 0 .. Width[Members[m]] - 1
        BY <3>1, <3>2, <3>3, TypeValues, Remainder
      <3>5. Rd(wild)[m] \in Values(Members[m]) /\ Rd(wild)[m] \in Int
        BY <3>1, <3>4, TypeValues
      <3> QED
        BY <3>1, <3>5, JsonAssumption DEF Unsigned
    <2>2. CASE m \notin DOMAIN wild
      <3>1. /\ ReadFrom[m] \in DOMAIN d /\ Entry(d, m) = d[ReadFrom[m]]
            /\ Entry(d, m).type \in Accepts(Members[m])
        BY <1>1, TablesAgree DEF Complete, Entry
      <3>2. Rd(wild)[m] = Decode(Members[m], Entry(d, m))
        BY <2>2
      <3> QED
        BY <1>1, <3>1, <3>2, MemberTypes, ValueFits
    <2> QED
      BY <2>1, <2>2
  <1>4. r.frame = Rd(wild) /\ Rd(wild) = [m \in DOMAIN Members |-> Rd(wild)[m]]
    BY <1>2 DEF Result
  <1> HIDE DEF Rd
  <1>5. IsFrame(r.frame) /\ Finite(r.frame)
    BY <1>3, <1>4 DEF IsFrame, Finite
  <1>6. Writable(r.frame)
    <2>1. r.frame["satellite_id"] \in Names
      BY <1>3, <1>4, MemberTypes
    <2> QED
      BY <2>1, JsonAssumption DEF Writable
  <1> QED
    BY <1>5, <1>6 DEF Portable

-----------------------------------------------------------------------------
(* The text is what toJson() or batchToJson() made of the frames written,  *)
(* and the last call did what the properties say.                          *)

WrittenAlone ==
  /\ text.syntax = "document"
  /\ DOMAIN written = {1} /\ IsFrame(written[1]) /\ Writable(written[1])
  /\ text = ToJson(written[1])

WrittenInBatch ==
  /\ text.syntax = "array"
  /\ \A i \in DOMAIN written : IsFrame(written[i]) /\ Writable(written[i])
  /\ text.content = [i \in DOMAIN written |-> ToJson(written[i]).content]

TextOK == (text = NoText /\ written = <<>>) \/ WrittenAlone \/ WrittenInBatch

CallOK ==
  /\ call.op \in {"none", "toJson", "batchToJson", "readBack", "readText"}
  /\ call.op = "toJson" =>
       /\ Writable(frame) => call.outcome = "document"
       /\ call.outcome = "document" => text = ToJson(frame)
  /\ call.op = "batchToJson" =>
       (call.outcome = "array" <=> \A i \in DOMAIN call.arg : Writable(call.arg[i]))
  /\ RoundTrip

FrameOK == IsFrame(frame) /\ genuine \in BOOLEAN /\ (genuine => Portable(frame))

IInv == FrameOK /\ TextOK /\ CallOK

LEMMA InvInit == Init => IInv
  <1> SUFFICES ASSUME Init
               PROVE  IInv
    OBVIOUS
  <1>1. FrameOK
    <2>1. IsFrame(frame)
      BY JsonAssumption DEF Init
    <2> QED
      BY <2>1 DEF Init, FrameOK
  <1>2. TextOK
    BY DEF Init, TextOK
  <1>3. CallOK
    <2>1. call.op = "none"
      BY DEF Init, Called
    <2> QED
      BY <2>1 DEF CallOK, RoundTrip
  <1> QED
    BY <1>1, <1>2, <1>3 DEF IInv

LEMMA WriteOne ==
  ASSUME IInv, CallToJson
  PROVE  IInv'
  <1> DEFINE result == ToJson(frame)
  <1>1. /\ call'.op = "toJson" /\ call'.outcome = result.syntax
        /\ UNCHANGED <<frame, genuine>>
        /\ IF result.syntax = "json_exception" THEN UNCHANGED <<text, written>>
           ELSE text' = result /\ written' = <<frame>>
    BY DEF CallToJson, Write, Called
  <1>2. Writable(frame) => result.syntax = "document"
    BY FrameSurvives DEF IInv, FrameOK
  <1>3. ~Writable(frame) => result.syntax = "json_exception"
    BY DEF ToJson, Throws
  <1>4. FrameOK'
    BY <1>1 DEF IInv, FrameOK, Portable, IsFrame, Writable, Finite
  <1>5. TextOK'
    <2>1. CASE Writable(frame)
      <3>1. text' = result /\ written' = <<frame>> /\ result.syntax = "document"
        BY <1>1, <1>2, <2>1
      <3>2. WrittenAlone'
        BY <2>1, <3>1 DEF WrittenAlone, IInv, FrameOK, IsFrame, Writable, ToJson
      <3> QED
        BY <3>2 DEF TextOK
    <2>2. CASE ~Writable(frame)
      <3>1. UNCHANGED <<text, written>>
        BY <1>1, <1>3, <2>2
      <3> QED
        BY <3>1 DEF IInv, TextOK, WrittenAlone, WrittenInBatch, IsFrame, Writable, ToJson
    <2> QED
      BY <2>1, <2>2
  <1>6. CallOK'
    BY <1>1, <1>2, <1>3 DEF CallOK, RoundTrip, Writable, ToJson
  <1> QED
    BY <1>4, <1>5, <1>6 DEF IInv

LEMMA WriteMany ==
  ASSUME IInv, CallBatchToJson
  PROVE  IInv'
  <1>0. PICK n \in 0 .. MaxBatch :
               \E fs \in [1 .. n -> Companions \cup {frame}] :
                 Write("batchToJson", fs, BatchToJson(fs))
    BY DEF CallBatchToJson
  <1>1. PICK fs \in [1 .. n -> Companions \cup {frame}] :
               Write("batchToJson", fs, BatchToJson(fs))
    BY <1>0
  <1> DEFINE result == BatchToJson(fs)
             all == \A i \in DOMAIN fs : Writable(fs[i])
  <1>2. /\ call'.op = "batchToJson" /\ call'.arg = fs /\ call'.outcome = result.syntax
        /\ UNCHANGED <<frame, genuine>>
        /\ IF result.syntax = "json_exception" THEN UNCHANGED <<text, written>>
           ELSE text' = result /\ written' = fs
    BY <1>1 DEF Write, Called
  <1>3. all => result = Array([i \in DOMAIN fs |-> ToJson(fs[i]).content])
    BY DEF BatchToJson
  <1>4. ~all => result.syntax = "json_exception"
    BY DEF BatchToJson, Throws
  <1>5. FrameOK'
    BY <1>2 DEF IInv, FrameOK, Portable, IsFrame, Writable, Finite
  <1>6. TextOK'
    <2>1. CASE all
      <3>1. /\ result.syntax = "array"
            /\ result.content = [i \in DOMAIN fs |-> ToJson(fs[i]).content]
        BY <1>3, <2>1 DEF Array
      <3>2. text' = result /\ written' = fs
        BY <1>2, <3>1
      <3>3. \A i \in DOMAIN fs : IsFrame(fs[i])
        BY JsonAssumption DEF IInv, FrameOK
      <3>4. WrittenInBatch'
        BY <2>1, <3>1, <3>2, <3>3 DEF WrittenInBatch, IsFrame, Writable, ToJson
      <3> QED
        BY <3>4 DEF TextOK
    <2>2. CASE ~all
      <3>1. UNCHANGED <<text, written>>
        BY <1>2, <1>4, <2>2
      <3> QED
        BY <3>1 DEF IInv, TextOK, WrittenAlone, WrittenInBatch, IsFrame, Writable, ToJson
    <2> QED
      BY <2>1, <2>2
  <1>7. CallOK'
    <2>1. result.syntax = "array" <=> all
      BY <1>3, <1>4 DEF Array
    <2> QED
      BY <1>2, <2>1 DEF CallOK, RoundTrip, Writable
  <1> QED
    BY <1>5, <1>6, <1>7 DEF IInv

(* Reading a text made of the frame f. *)
LEMMA ReadOne ==
  ASSUME IInv, NEW f, IsFrame(f), Writable(f),
         Read("readBack", f, Document(ToJson(f).content)), UNCHANGED <<text, written>>
  PROVE  IInv'
  <1>1. PICK r \in FromJson(Document(ToJson(f).content)) :
               /\ call' = Called("readBack", f, r.kind)
               /\ IF r.kind = "frame" THEN frame' = r.frame /\ genuine' = TRUE
                  ELSE UNCHANGED <<frame, genuine>>
    BY DEF Read
  <1>2. r = IF Finite(f) THEN Result(f) ELSE Fails("json_exception")
    BY <1>1, FrameSurvives
  <1>3. call'.op = "readBack" /\ call'.arg = f /\ call'.outcome = r.kind
    BY <1>1 DEF Called
  <1>4. CASE Finite(f)
    <2>1. r.kind = "frame" /\ frame' = f /\ genuine' = TRUE
      BY <1>1, <1>2, <1>4 DEF Result
    <2> QED
      BY <1>3, <1>4, <2>1 DEF IInv, FrameOK, Portable, TextOK, WrittenAlone, WrittenInBatch,
                              CallOK, RoundTrip, IsFrame, Writable, Finite, ToJson
  <1>5. CASE ~Finite(f)
    <2>1. r.kind = "json_exception" /\ UNCHANGED <<frame, genuine>>
      BY <1>1, <1>2, <1>5 DEF Fails
    <2> QED
      BY <1>3, <1>5, <2>1 DEF IInv, FrameOK, Portable, TextOK, WrittenAlone, WrittenInBatch,
                              CallOK, RoundTrip, IsFrame, Writable, Finite, ToJson
  <1> QED
    BY <1>4, <1>5

LEMMA ReadWritten ==
  ASSUME IInv, ReadBack
  PROVE  IInv'
  <1>1. CASE /\ text.syntax = "document"
             /\ Read("readBack", written[1], text)
    <2>1. WrittenAlone
      BY <1>1 DEF IInv, TextOK, WrittenInBatch, NoText
    <2>2. text = Document(ToJson(written[1]).content)
      BY <2>1 DEF WrittenAlone, ToJson, Document
    <2> QED
      BY <1>1, <2>1, <2>2, ReadOne DEF WrittenAlone, ReadBack
  <1>2. ASSUME text.syntax = "array",
               NEW i \in DOMAIN text.content,
               Read("readBack", written[i], Document(text.content[i]))
        PROVE  IInv'
    <2>1. WrittenInBatch
      BY <1>2 DEF IInv, TextOK, WrittenAlone, NoText
    <2>2. i \in DOMAIN written /\ text.content[i] = ToJson(written[i]).content
      BY <2>1 DEF WrittenInBatch
    <2> QED
      BY <1>2, <2>1, <2>2, ReadOne DEF WrittenInBatch, ReadBack
  <1> QED
    BY <1>1, <1>2 DEF ReadBack

LEMMA ReadForeign ==
  ASSUME IInv, ReadText
  PROVE  IInv'
  <1>1. PICK t \in Texts : Read("readText", t, t)
    BY DEF ReadText
  <1>2. PICK r \in FromJson(t) :
               /\ call' = Called("readText", t, r.kind)
               /\ IF r.kind = "frame" THEN frame' = r.frame /\ genuine' = TRUE
                  ELSE UNCHANGED <<frame, genuine>>
    BY <1>1 DEF Read
  <1>3. call'.op = "readText" /\ UNCHANGED <<text, written>>
    BY <1>2 DEF Called, ReadText
  <1>4. FrameOK'
    <2>1. CASE r.kind = "frame"
      <3>1. Portable(r.frame)
        BY <2>1, TextGivesPortable
      <3> QED
        BY <1>2, <2>1, <3>1 DEF FrameOK, Portable, IsFrame, Writable, Finite
    <2>2. CASE r.kind # "frame"
      BY <1>2, <2>2 DEF IInv, FrameOK, Portable, IsFrame, Writable, Finite
    <2> QED
      BY <2>1, <2>2
  <1>5. TextOK'
    BY <1>3 DEF IInv, TextOK, WrittenAlone, WrittenInBatch, IsFrame, Writable, ToJson
  <1>6. CallOK'
    BY <1>3 DEF CallOK, RoundTrip
  <1> QED
    BY <1>4, <1>5, <1>6 DEF IInv

LEMMA Invariance == Spec => []IInv
  <1>1. IInv /\ [Next]_vars => IInv'
    <2>1. ASSUME IInv, UNCHANGED vars
          PROVE  IInv'
      BY <2>1 DEF vars, IInv, FrameOK, Portable, TextOK, WrittenAlone, WrittenInBatch, CallOK,
                  RoundTrip, IsFrame, Writable, Finite, ToJson
    <2> QED
      BY <2>1, WriteOne, WriteMany, ReadWritten, ReadForeign DEF Next
  <1> QED
    BY <1>1, InvInit, PTL DEF Spec

(* The caller's frame, and every frame a text was made of, has the types   *)
(* of TelemetryFrame.                                                      *)
THEOREM TypeCorrect == Spec => []TypeOK
  <1>1. IInv => TypeOK
    <2> SUFFICES ASSUME IInv
                 PROVE  TypeOK
      OBVIOUS
    <2>1. \A i \in DOMAIN written : IsFrame(written[i])
      BY DEF IInv, TextOK, WrittenAlone, WrittenInBatch
    <2>2. text.syntax \in {"none", "document", "array"}
      BY DEF IInv, TextOK, WrittenAlone, WrittenInBatch, NoText
    <2> QED
      BY <2>1, <2>2 DEF IInv, FrameOK, CallOK, TypeOK
  <1> QED
    BY <1>1, Invariance, PTL

(* What toJson() or batchToJson() wrote, fromJson() reads as the same      *)
(* frame, in every member and for every value, or refuses because one of   *)
(* its doubles is no number.                                               *)
THEOREM RoundTripCorrect == Spec => []RoundTrip
  <1>1. IInv => RoundTrip
    BY DEF IInv, CallOK
  <1> QED
    BY <1>1, Invariance, PTL

(* A frame that fromJson() returned for any text can be written, and the   *)
(* next reader gets the same frame.                                        *)
THEOREM PassingOnCorrect == Spec => []PassedOn
  <1>1. IInv => PassedOn
    <2> SUFFICES ASSUME IInv, genuine, call.op = "toJson"
                 PROVE  call.outcome = "document" /\ FromJson(text) = {Result(frame)}
      BY DEF PassedOn
    <2>1. IsFrame(frame) /\ Writable(frame) /\ Finite(frame)
      BY DEF IInv, FrameOK, Portable
    <2>2. call.outcome = "document" /\ text = ToJson(frame)
      BY <2>1 DEF IInv, CallOK
    <2>3. text = Document(ToJson(frame).content)
      BY <2>1, <2>2 DEF ToJson, Document
    <2> QED
      BY <2>1, <2>2, <2>3, FrameSurvives
  <1> QED
    BY <1>1, Invariance, PTL

(* A batch has all of its frames, each where it was put, or is refused     *)
(* because one of them cannot be written.                                  *)
THEOREM BatchCorrect == Spec => []BatchIsComplete
  <1>1. IInv => BatchIsComplete
    <2> SUFFICES ASSUME IInv
                 PROVE  BatchIsComplete
      OBVIOUS
    <2>1. call.op = "batchToJson" =>
            (call.outcome = "array" <=> \A i \in DOMAIN call.arg : Writable(call.arg[i]))
      BY DEF IInv, CallOK
    <2>2. ASSUME text.syntax = "array"
          PROVE  /\ DOMAIN text.content = DOMAIN written
                 /\ \A i \in DOMAIN written :
                      FromJson(Document(text.content[i])) =
                        {IF Finite(written[i]) THEN Result(written[i])
                                               ELSE Fails("json_exception")}
      <3>1. WrittenInBatch
        BY <2>2 DEF IInv, TextOK, WrittenAlone, NoText
      <3> QED
        BY <3>1, FrameSurvives DEF WrittenInBatch
    <2> QED
      BY <2>1, <2>2 DEF BatchIsComplete
  <1> QED
    BY <1>1, Invariance, PTL

=============================================================================
