\* Two machines and an action machine, two events at most.
CONSTANTS
  m1 = m1
  m2 = m2
  a1 = a1
  Machines = {m1, m2, a1}
  ActionMachines = {a1}
  actionKinds = {"end"}
  States = {"ready", "busy", "meta"}
  NoState = NoState
  Kinds = {"call", "end", "reset", "timeout"}
  TimeoutKind = "timeout"
  mTransitions <- PhoneTransitions
  hasTimeout = {"busy"}
  mMetaState = "meta"
  Start = "ready"
  Uses <- PhoneUses
  Targets <- AllOrTwo
  Added <- BothMachines
  MaxPosts = 2
SPECIFICATION FairSpec
INVARIANTS
  ListMatchesSet
  CurrentWasEntered
  DeadlineOfCurrent
  LeftIsUnderWay
PROPERTIES
  RemovedIsIdle
  TraversalUndisturbed
  DeadlineActedOn
CHECK_DEADLOCK FALSE
