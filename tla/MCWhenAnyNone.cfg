\* size_t(-1) while a future of the range is valid: expected to be violated.
CONSTANTS
  Calls = {"when_any"}
  Futures = {f1, f2}
  N = 2
  Invalid = Invalid
  NoneValid = NoneValid
  None = None
SPECIFICATION Spec
INVARIANT NoneValidMeansNone
