\* Two threads, two requests that may share a key, four calls in all
CONSTANTS
  Requests = {r1, r2}
  Keys = {1, 2}
  NoRequest = NoRequest
  Clients = {m, c}
  Main = m
  mMaxRunning = 2
  MaxCalls <- FewCalls
  DirectUse = TRUE
SPECIFICATION Spec
SYMMETRY RequestSymmetry
INVARIANTS TypeOK CountIsMapSize HandlesOwned OutcomeReadable ExitedClean
PROPERTIES SilentAfterUnInitialize StopIsFinal LifecycleSpec
CHECK_DEADLOCK FALSE
