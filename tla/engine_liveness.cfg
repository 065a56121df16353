\* The same clients, without the commands the engine never posts
CONSTANTS
  Requests = {r1, r2}
  Keys = {1, 2}
  NoRequest = NoRequest
  Clients = {m, c}
  Main = m
  mMaxRunning = 2
  MaxCalls <- FewCalls
  DirectUse = FALSE
SPECIFICATION FairSpec
PROPERTIES PostedIsServed StopCatches FinishedIsReleased UnInitializeReturns
CHECK_DEADLOCK FALSE
