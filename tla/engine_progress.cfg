CONSTANTS
  Requests = {r1}
  Keys = {1}
  NoRequest = NoRequest
  Clients = {m, c}
  Main = m
  mMaxRunning = 2
  MaxCalls <- FewCalls
  DirectUse = FALSE
SPECIFICATION Spec
INVARIANT ProgressIsOfTransfer
CHECK_DEADLOCK FALSE
