\* Three threads with timeouts; ULONG_MAX is 5, so that m_gone is normalised at 2.
CONSTANTS
  Threads = {t1, t2, t3}
  None = None
  Word = 6
SPECIFICATION UseSpec
SYMMETRY Symmetry
INVARIANTS
  ConditionTypeOK
  GateOpensAgain
  WakeUpsCounted
  SettledExactly
PROPERTIES
  ImplementsWaitSet
CHECK_DEADLOCK FALSE
