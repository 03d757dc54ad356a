\* Two reads and two writes in any order, with close and the end of the stream
\* anywhere; a read of three bytes takes two buffers.
CONSTANTS
  Reads = {r1, r2}
  Writes = {w1, w2}
  Sizes = {1, 3}
  Suggested = 2
  MaxBytes = 3
  None = None
SPECIFICATION Spec
INVARIANTS
  
  
  HandleHasOwner

  
