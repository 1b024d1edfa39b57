CONSTANTS
  w = w
  r = r
  r1 = r1
  addr = addr
  Bytes = {0, 1}
  Size = 3
  HighWM = 2
  LowWM = 1
  Zero = 0
  Reader = r
  Writer = w
  Reads = {0, 2}
  Writes = {}
  Arriving = {0, 1}
  Limits = {"never", "immediately", "ticks"}
  StorageSize = 4
  IdMod = 8
  NumMod = 16
  SessionWriter = w
  Readers = {r1}
  Logs <- SomeLogs
  Asked = {0}
  Wanted = {2, 8}
  BlocksAsked = {1}
  MaxSid = 8
  MaxNew = 2
  MaxRestarts = 1
  EmptySessions = FALSE
  Addresses = {addr}
  Others = {"z"}
  Commands = {"M", "C", "bad"}
  MaxAwake = 2
  MaxCount = 4
  MaxPage = 2
SPECIFICATION DevicesSpec
INVARIANTS
  PartsTypeOK NoMissedByte
  DiskIsLogTail SearchFindsNewest ForwardRefsPoint CacheIsFresh NoMissedNotification
  DataIsComplete AwakeWhileListening HearsBreak
PROPERTIES BuffersAreQueues OpenedIsReal PagesFollow
CHECK_DEADLOCK FALSE
