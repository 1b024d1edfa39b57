CONSTANTS
  idle = idle
  a = a
  b = b
  x = x
  ef = ef
  Idle = idle
  NoEvent = NoEvent
  NoThread = NoThread
  Isr = Isr
  MaxThreads = 4
  RoundRobinNotify = FALSE
  Threads = {idle, a, b}
  Initial <- Two
  Prio0 <- EqualPrio
  Events = {ef}
  FlagsEvent = ef
  Interruptible = {b}
  Bits = {x}
  Waits <- EitherWait
  Receivers = {NoThread, b}
  IsrNotifies = TRUE
  Timeouts = TRUE
SPECIFICATION FairSpec
INVARIANT NoMissedFlag
PROPERTIES WaitEndsForAReason FlagEndsWait
