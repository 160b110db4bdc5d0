SPECIFICATION FairSpec
CONSTANTS
  p = p
  q = q
  timeout = timeout
  period = period
  NULL = NULL
  TimerProcess = TimerProcess
  Timer = {timeout}
  Proc = {p, q}
  Program <- StartProgram
  Signalled = {p}
  Interval = {1}
  ClockMod = 4
  QueueSize = 2
  MaxOps = 2
  Tickless = FALSE
  TickSkips = FALSE
PROPERTIES WaitEnds
