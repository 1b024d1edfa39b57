CONSTANTS
  idle = idle
  a = a
  b = b
  c = c
  e = e
  Idle = idle
  Threads = {idle, a, b}
  Initial <- BestSecond
  Events = {e}
  NoEvent = NoEvent
  NoThread = NoThread
  Isr = Isr
  Prio0 <- TwoLevels
  MaxThreads = 3
  RoundRobinNotify = FALSE
  Ops = {"wait", "notify", "interrupt", "lock", "yield"}
  NotifyRets = {"OS_VOID"}
  MaxNesting = 2
  ControlOps = {"wait", "suspend", "preempt", "create", "priority"}
  ControlInitial <- IdleAndOne
SPECIFICATION ApplicationsSpec
INVARIANTS TypeOK ReadyListSound NoLostThread LockBelongsToRunning EventsNoSpuriousWake
PROPERTIES EventsBestRuns EventsNoOvertaking
