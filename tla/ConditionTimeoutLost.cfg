CONSTANTS
  idle = idle
  a = a
  b = b
  cond = cond
  Idle = idle
  NoEvent = NoEvent
  NoThread = NoThread
  Isr = Isr
  MaxThreads = 4
  RoundRobinNotify = FALSE
  Threads = {idle, a, b}
  Initial <- Two
  Prio0 <- EqualPrio
  Events = {cond}
  CondEvent = cond
  Interruptible = {}
  Classes = {FALSE}
  Waiters = {a}
  IsrProvides = FALSE
  Cancellable = FALSE
  Timeouts = TRUE
SPECIFICATION Spec
PROPERTY ReasonIsKept
