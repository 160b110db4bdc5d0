SPECIFICATION Spec
CONSTANTS
  sh = sh
  a = a
  b = b
  NULL = NULL
  Proc = {sh, a}
  Shell = sh
  Autostart <- PairBoot
  Culprit = NULL
  Program <- MailProgram
  StartParked = FALSE
  QueueSize = 3
  Reserve = 1
  ProcessMax = 1
  MaxGen = 2
  MaxBurst = 1
  MaxOps = 2
  MaxDepth = 2
INVARIANT PollHeard
