CONSTANTS
  idle = idle
  a = a
  b = b
  c = c
  mutex = mutex
  Idle = idle
  NoEvent = NoEvent
  NoThread = NoThread
  Isr = Isr
  MaxThreads = 4
  RoundRobinNotify = FALSE
  Threads = {idle, a, b}
  Initial <- Two
  Prio0 <- EqualPrio
  Events = {mutex}
  MutexEvent = mutex
  Interruptible = {a}
  Lists <- EveryKind
SPECIFICATION FairSpec
INVARIANT TypeOK
PROPERTY WaitEnds
