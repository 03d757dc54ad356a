\* An exception of the outer future: expected to be violated.
CONSTANTS
  Calls = {"unwrap"}
  Futures = {f1, f2}
  N = 2
  Invalid = Invalid
  NoneValid = NoneValid
  None = None
SPECIFICATION FairSpec
PROPERTY ExceptionsArrive
