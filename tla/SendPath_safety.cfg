SPECIFICATION Spec
CONSTANTS
  Id = {1, 2}
  Thread = {t1, t2}
  NoThread = NoThread
  Hazards = {"exit_mid_wake", "db_fault"}
  MaxClicks <- FirstIsRetried
  MaxFaults = 2
SYMMETRY Slots
INVARIANT SendInv
PROPERTY ImplementsFence
CHECK_DEADLOCK FALSE
