CONSTANTS
  w = w
  r1 = r1
  StorageSize = 4
  IdMod = 8
  NumMod = 16
  SessionWriter = w
  Readers = {r1}
  Logs <- FullRing
  Asked = {0}
  Wanted = {0}
  BlocksAsked = {0}
  MaxSid = 8
  MaxNew = 0
  MaxRestarts = 0
  EmptySessions = FALSE
SPECIFICATION StorageSpec
PROPERTY PreviousIsOlder
CHECK_DEADLOCK FALSE
