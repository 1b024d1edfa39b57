CONSTANTS
  idle = idle
  a = a
  b = b
  ev = ev
  ticks = ticks
  NoEvent = NoEvent
  NoThread = NoThread
  Isr = Isr
  CustomTimer = CustomTimer
  Idle = idle
  Threads = {idle, a, b}
  Events = {ev}
  Prio0 <- EqualPrio
  MaxThreads = 4
  RoundRobinNotify = FALSE
  Initial <- Order
  Interruptible = {a}
  Receiver = a
  RtEvent = ev
SPECIFICATION LiveSpec
INVARIANT NoArrivalMissed
PROPERTIES InterruptedWaiterWakes ReadyThreadRuns SleepEnds ArrivalIsTaken
