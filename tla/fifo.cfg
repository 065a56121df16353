\* Four threads that add, wait and clear, two messages.
CONSTANTS
  t1 = t1
  Threads = {t1, t2, t3, t4}
  None = None
  Word = 8
  Uses <- SafeUses
  MaxLength = 2
SPECIFICATION FairSpec
INVARIANTS
  NobodyStranded
PROPERTIES
  WaitingServed
CHECK_DEADLOCK FALSE
