SPECIFICATION Spec
CONSTANTS
  m1 = m1
  m2 = m2
  m3 = m3
  c1 = c1
  c2 = c2
  Message = {m1, m2}
  Chat = {c1}
  ChatOf <- TwoInOne
  OwnText = {m1}
  Codes = {m1}
  Modes = {"popup", "off"}
  PageSize = 1
  MaxIndividual = 1
  MaxCards = 1
  MaxWaiting = 1
  BreakerCards = 1
  MaxFaults = 2
  MaxActs = 2
  Hazards = {"ages"}
INVARIANT AlertsInv
PROPERTY RecordedOnce
CHECK_DEADLOCK FALSE
