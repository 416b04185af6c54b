SPECIFICATION MCSpec
CONSTANTS
  Note = {n1, n2}
  Muted = {}
  NoNote = NoNote
  MaxPending = 1
  Entry = {e1, e2}
  Beacon = {b1}
  NoAddress = NoAddress
  Thread = {t1, t2}
  NoThread = NoThread
  MaxActs = 2
  MaxMail = 1
  Hazards = {}
INVARIANT PhoneInv
PROPERTY NotPairedIsTrue StartIsHonoured LinkIsFound QueueIsServed
CHECK_DEADLOCK FALSE
