CONSTANTS
  idle = idle
  a = a
  b = b
  ticks = ticks
  tm = tm
  tn = tn
  ev = ev
  Idle = idle
  NoEvent = NoEvent
  NoThread = NoThread
  Isr = Isr
  MaxThreads = 4
  RoundRobinNotify = FALSE
  Threads = {idle, a, b}
  Initial <- Two
  Prio0 <- EqualPrio
  Events = {idle, a, b, ev}
  Interruptible = {a}
  Clocks = {ticks}
  Ticks = ticks
  Size = 2
  Durations = {1, 2}
  Sleepers = {a}
  Timers = {tm, tn}
  TimerEvent <- TimersNotifyEv
  CustomTimer = CustomTimer
  TickMod = 1
  IntWraps = TRUE
SPECIFICATION Spec
INVARIANTS SleepIsTimed StartedTimerGoesOff
PROPERTY KeepsDeadlines
SYMMETRY TimersAlike
