\* Two readers, two writers and a thread that is both.
CONSTANTS
  Readers = {r1, r2, x}
  Writers = {w1, w2, x}
SPECIFICATION Spec
INVARIANTS
  PendingCounted
  NobodyStranded
  WritersExclude
