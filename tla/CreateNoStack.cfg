CONSTANTS
  idle = idle
  a = a
  b = b
  c = c
  e = e
  Idle = idle
  Threads = {idle, a, b, c}
  Initial <- IdleFirst
  Events = {e}
  NoEvent = NoEvent
  NoThread = NoThread
  Isr = Isr
  Prio0 <- EqualPrio
  MaxThreads = 4
  RoundRobinNotify = FALSE
  Ops = {"create"}
  NotifyRets = {"OS_VOID"}
  MaxNesting = 2
SPECIFICATION Spec
INVARIANT RunningHasStack
