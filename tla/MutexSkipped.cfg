CONSTANTS
  idle = idle
  a = a
  b = b
  c = c
  mutex = mutex
  Idle = idle
  NoEvent = NoEvent
  NoThread = NoThread
  Isr = Isr
  MaxThreads = 4
  RoundRobinNotify = FALSE
  Threads = {idle, a, b, c}
  Initial <- Three
  Prio0 <- EqualPrio
  Events = {mutex}
  MutexEvent = mutex
  Interruptible = {a}
  Lists <- ListOfThree
SPECIFICATION Spec
INVARIANT NoStrandedWaiter
