\* Windows with omissions and rows that are incomplete at first.
CONSTANTS
  MaxRow = 2
  MaxGen = 1
  Reconciler = {r1}
  Syncer = {}
  Window = 1
  MaxWindows = 1
  TailSpan = 1
  InitialTop = 1
  Servers = {"rowid"}
  Hazards = {"omit", "sparse", "delete", "late_update"}
  MaxFaults = 1
SPECIFICATION FairSpec
PROPERTY NoPermanentHole
CHECK_DEADLOCK FALSE
