SPECIFICATION Spec
CONSTANTS
  Texts <- MCTexts
  Callbacks = {f}
  Registrable <- MCRegistrable
  SequenceMod = 3
  MaxDepth = 2
  NoCommand = none
INVARIANTS
  UnknownOpcodeThrows
