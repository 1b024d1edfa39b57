CONSTANTS
  idle = idle
  a = a
  b = b
  cond = cond
  Idle = idle
  NoEvent = NoEvent
  NoThread = NoThread
  Isr = Isr
  MaxThreads = 4
  RoundRobinNotify = FALSE
  Threads = {idle, a, b}
  Initial <- Two
  Prio0 <- EqualPrio
  Events = {cond}
  CondEvent = cond
  Interruptible = {a}
  Classes = {TRUE, FALSE}
  Waiters = {a}
  IsrProvides = TRUE
  Cancellable = TRUE
  Timeouts = TRUE
SPECIFICATION FairSpec
INVARIANTS NoMissedCondition SectionExcludes
PROPERTIES RealTimeReasonIsKept ConditionEndsWait
