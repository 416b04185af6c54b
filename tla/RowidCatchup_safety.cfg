\* Two reconcilers, so that a retired one meets its successor, on a first start.
CONSTANTS
  MaxRow = 2
  MaxGen = 1
  Reconciler = {r1, r2}
  Syncer = {}
  Window = 1
  MaxWindows = 1
  TailSpan = 1
  InitialTop = 1
  Servers = {"rowid", "old"}
  Hazards = {"omit"}
  MaxFaults = 2
SPECIFICATION Spec
SYMMETRY WorkerSymmetry
INVARIANTS CursorCovers HistoryStaysQuiet BaselineIsComplete
CHECK_DEADLOCK FALSE
