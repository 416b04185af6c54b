SPECIFICATION FairSpec
CONSTANTS
  Agent = {a1, a2}
  NoAgent = NoAgent
  MaxForced = 2
  MaxFaults = 1
  MaxStops = 1
  Hazards = {"old_folder", "broken_lock"}
INVARIANT LifetimeInv
PROPERTY LetsGoOnRequest RivalsRetire WindowIsServed
CHECK_DEADLOCK FALSE
