SPECIFICATION FairSpec
CONSTANTS
  c1 = c1
  c2 = c2
  t1 = t1
  t2 = t2
  Message = {1, 2}
  Picture = {2}
  Unreadable = {}
  Chat = {c1, c2}
  Subject = c1
  NoChat = NoChat
  Text = {t1}
  NoText = NoText
  PageSize = 1
  Radius = 1
  MaxFaults = 1
  MaxActs = 3
INVARIANTS ThreadInv NoBubbleForgotten
PROPERTY ShowsWhatIsStored PicturesLoad
CHECK_DEADLOCK FALSE
