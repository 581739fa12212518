SPECIFICATION Spec
CONSTANTS
  Frames <- MCFrames
  Companions <- MCCompanions
  Texts <- MCTexts
  Names = {loft}
  NotUtf8 = {accent}
  NonFinite = {nan, inf}
  Width <- MCWidth
  Exact = 8
  MaxBatch = 2
  loft = loft
  accent = accent
  nan = nan
  inf = inf
INVARIANTS
  TypeOK
  RoundTrip
  PassedOn
  BatchIsComplete
