\* Two application threads and the thread, which runs twice; three functors.
CONSTANTS
  app = app
  other = other
  worker = worker
  f = f
  g = g
  h = h
  None = None
  Threads = {app, other, worker}
  Functors = {f, g, h}
  Types <- TypeChoices
  MaxNodes = 5
  MaxRuns = 2
  App = app
  Worker = worker
  owner <- Owners
  Uses <- CommonUses
SPECIFICATION FairSpec
INVARIANTS
  NoNodeFreed
  SilentOnceRemoved
  JoinedForGood
PROPERTIES
  HeardOnce
  JoinReturns
CHECK_DEADLOCK FALSE
