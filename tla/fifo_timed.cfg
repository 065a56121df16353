\* Three consumers, one of which uses a timeout too.
CONSTANTS
  t1 = t1
  Threads = {t1, t2, t3}
  None = None
  Word = 64
  Uses <- MixedUses
  MaxLength = 2
SPECIFICATION Spec
INVARIANT NobodyStranded
CHECK_DEADLOCK FALSE
