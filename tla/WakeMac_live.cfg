SPECIFICATION FairSpec
CONSTANTS
  MaxWakes = 1
  MaxAsks = 0
  MaxFaults = 2
  MaxInbox = 1
  Hazards = {}
INVARIANT RecoveryIsGenuine
PROPERTY LeaseIsReturned WorkersAreReplaced
CHECK_DEADLOCK FALSE
