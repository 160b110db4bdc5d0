SPECIFICATION Spec
CONSTANTS
  sh = sh
  a = a
  b = b
  NULL = NULL
  Proc = {sh, a}
  Shell = sh
  Autostart <- ShellBoot
  Culprit = NULL
  Program <- ReopenProgram
  StartParked = TRUE
  QueueSize = 2
  Reserve = 1
  ProcessMax = 1
  MaxGen = 2
  MaxBurst = 1
  MaxOps = 1
  MaxDepth = 4
INVARIANT ListSound
