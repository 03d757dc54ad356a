\* A request that is filled in two pieces: expected to be violated.
CONSTANTS
  Reads = {r1}
  Writes = {w1}
  Sizes = {2}
  Suggested = 4
  MaxBytes = 3
  None = None
SPECIFICATION Spec
INVARIANTS
  TotalFits
