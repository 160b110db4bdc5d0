SPECIFICATION FairSpec
CONSTANTS
  p = p
  q = q
  timeout = timeout
  period = period
  NULL = NULL
  TimerProcess = TimerProcess
  Timer = {timeout, period}
  Proc = {p, q}
  Program <- PeriodicProgram
  Signalled = {p}
  Interval = {2}
  ClockMod = 4
  QueueSize = 2
  MaxOps = 2
  Tickless = TRUE
  TickSkips = TRUE
INVARIANTS TypeOK SleepSound ScanComplete
PROPERTIES NeverEarly DueFires WaitEnds
