SPECIFICATION FairSpec
CONSTANTS
  sh = sh
  a = a
  b = b
  NULL = NULL
  Proc = {sh, a}
  Shell = sh
  Autostart <- PairBoot
  Culprit = NULL
  Program <- PairProgram
  StartParked = FALSE
  QueueSize = 2
  Reserve = 1
  ProcessMax = 1
  MaxGen = 2
  MaxBurst = 1
  MaxOps = 1
  MaxDepth = 4
INVARIANTS ReserveKept OnePoll NoStaleDelivery Supervised NoReentry
PROPERTIES InitArrives PollTaken
