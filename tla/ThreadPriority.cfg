SPECIFICATION Spec
CONSTANTS
  a = a
  b = b
  NULL = NULL
  Kernel = Kernel
  Worker = {a, b}
  ThreadsMax = 2
  QueueSize = 1
  Timeout <- OneTimed
  Budgeted = {a}
  MaxGrant = 1
  MaxTenure = 1
  MaxTokens = 1
INVARIANT KernelFirst
