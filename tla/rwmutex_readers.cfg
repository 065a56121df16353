\* A reader and its unlock.
CONSTANTS
  Readers = {r1}
  Writers = {w1}
SPECIFICATION Spec
INVARIANT UnlockFindsLock
