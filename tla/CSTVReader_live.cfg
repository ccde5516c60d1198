SPECIFICATION Spec
CONSTANTS
  Opening <- OpeningBytes
  Deltas <- DeltaBytes
  Timeout = 160
  Sizes = {0, 2, 3}
INVARIANTS
  Contiguous
PROPERTIES
  Progress
  ReadReturns
