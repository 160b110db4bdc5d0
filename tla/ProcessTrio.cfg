SPECIFICATION Spec
CONSTANTS
  sh = sh
  a = a
  b = b
  NULL = NULL
  Proc = {sh, a, b}
  Shell = sh
  Autostart <- TrioBoot
  Culprit = NULL
  Program <- TrioProgram
  StartParked = FALSE
  QueueSize = 2
  Reserve = 1
  ProcessMax = 1
  MaxGen = 2
  MaxBurst = 1
  MaxOps = 1
  MaxDepth = 5
INVARIANTS TypeOK BroadcastComplete BroadcastOnce ListSound
