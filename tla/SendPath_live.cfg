\* One bubble, retried once, with faults of every other kind than the database's.
SPECIFICATION FairSpec
CONSTANTS
  Id = {1}
  Thread = {t1, t2}
  NoThread = NoThread
  Hazards = {"stale_view"}
  MaxClicks <- FirstIsRetried
  MaxFaults = 3
INVARIANT NoOrphanedSending
PROPERTY SendingIsResolved QueuedIsClaimed
\* The environment's budget runs out: all sent or given up, all idle.
CHECK_DEADLOCK FALSE
