--------------------------- MODULE MC_CommandIngest ---------------------------
(* CommandIngest for TLC: texts on both sides of every test fromJson()     *)
(* makes, and numbers on both sides of every width.                        *)
EXTENDS CommandIngest, TLC

Json(type, value) == [type |-> type, value |-> value]
Object(fields) == [syntax |-> "object", fields |-> fields]
Invalid(syntax) == [syntax |-> syntax, fields |-> <<>>]

Pair(seq, opcode) == Object([sequence_number |-> seq, opcode |-> opcode])
WithField(text, field, v) == Object(text.fields @@ (field :> v))

Noop == Pair(Json("integer", 1), Json("integer", NOOP))
PayloadOff == Pair(Json("integer", SequenceMod - 1), Json("integer", PAYLOAD_OFF))

MCTexts ==
  { Invalid("parse_error"),
    Invalid("out_of_range"),
    Object(<<>>),
    Object([opcode |-> Json("integer", NOOP)]),
    Noop,
    PayloadOff,
    Pair(Json("integer", SequenceMod + 1), Json("integer", PAYLOAD_OFF + OpcodeMod)),
    Pair(Json("integer", -1), Json("integer", 2)),
    Pair(Json("integer", 2), Json("integer", UNKNOWN)),
    Pair(Json("boolean", 1), Json("float", PAYLOAD_OFF)),
    Pair(Json("float", SequenceMod), Json("integer", NOOP)),
    Pair(Json("integer", 0), Json("float", OpcodeMod)),
    Pair(Json("string", 0), Json("integer", NOOP)),
    Pair(Json("integer", 2), Json("other", 0)),
    WithField(Noop, "subsystem", Json("string", 0)),
    WithField(Noop, "subsystem", Json("integer", 0)),
    WithField(Noop, "timestamp_ms", Json("integer", 5)),
    WithField(PayloadOff, "timestamp_ms", Json("boolean", 1)) }

MCRegistrable == {PAYLOAD_OFF, UNKNOWN}

===============================================================================
