\* A first start with calls that fail and cycles without ROWIDs, and a Mac's
\* database that is restored from a backup.
CONSTANTS
  MaxRow = 1
  MaxGen = 2
  Reconciler = {r1}
  Syncer = {s1}
  Window = 1
  MaxWindows = 1
  TailSpan = 1
  InitialTop = 0
  Servers = {"rowid", "old"}
  Hazards = {"refuse", "restore"}
  MaxFaults = 1
SPECIFICATION FairSpec
PROPERTY FloorIsHonoured NoPermanentHole
CHECK_DEADLOCK FALSE
