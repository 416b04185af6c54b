SPECIFICATION FairSpec
CONSTANTS
  m1 = m1
  m2 = m2
  m3 = m3
  c1 = c1
  c2 = c2
  Message = {m1, m2}
  Chat = {c1}
  ChatOf <- TwoInOne
  OwnText = {}
  Codes = {}
  Modes = {"popup", "system"}
  PageSize = 1
  MaxIndividual = 1
  MaxCards = 1
  MaxWaiting = 1
  BreakerCards = 1
  MaxFaults = 1
  MaxActs = 2
  Hazards = {}
INVARIANT NoAlertStranded QueueHasAWaker
PROPERTY OneCardPerRun EveryEventIsTold
CHECK_DEADLOCK FALSE
