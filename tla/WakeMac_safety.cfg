SPECIFICATION Spec
CONSTANTS
  MaxWakes = 2
  MaxAsks = 1
  MaxFaults = 1
  MaxInbox = 1
  Hazards = {"slow_workers", "mute_keyring"}
INVARIANT WakeInv RefreshWakesOnce
PROPERTY LeaseCoversRelaunch
CHECK_DEADLOCK FALSE
