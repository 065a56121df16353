\* Three options set by any mix of callers.
CONSTANTS
  MaxOptions = 3
SPECIFICATION Spec
INVARIANTS
  TransferKeepsLists
  OptionsInTime
  OptionsSent
  NothingLeaked
CHECK_DEADLOCK FALSE
