SPECIFICATION Spec
CONSTANTS
  Files <- MCFiles
  NotANumber = nan
  Unconvertible = unconvertible
INVARIANTS
  OneConfiguration
  NeverInvalid
  MinimalFileIsUsed
