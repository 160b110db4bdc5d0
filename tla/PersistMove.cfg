SPECIFICATION Spec
CONSTANTS
  x = x
  y = y
  A = A
  z = z
  B = B
  v0 = v0
  v1 = v1
  Unset = Unset
  Torn = Torn
  Mixed = Mixed
  Zero = Zero
  Magic = Magic
  Cell = {x, y, z}
  Image = {A, B}
  Value = {v0, v1}
  Default = v0
  MaxAddress = 9
  Table <- Tables
  GateAt <- Gates
  DataAt <- Data
  ManifestAt <- Records
  U32 <- Words32
  Calls <- Program
  SnapWords = 3
INVARIANTS TypeOK OneRecord
PROPERTIES AtomicSpec CarryComplete
