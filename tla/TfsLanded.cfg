SPECIFICATION Spec
CONSTANTS
  n1 = n1
  n2 = n2
  n3 = n3
  x = x
  y = y
  h1 = h1
  h2 = h2
  None = None
  Junk = Junk
  Name = {n1, n2, n3}
  Val = {x, y}
  Writer = {h1, h2}
  NFiles = 2
  SpanMax = 2
  LandsOnFailure = TRUE
  SectorErase = FALSE
INVARIANT StagedUnseen
