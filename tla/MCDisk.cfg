SPECIFICATION Spec
CONSTANTS
  Thread = {a, b, c}
  NoThread = none
  Sector = {0, 1}
  Data = {z, x}
  Zero = z
  MaxCalls = 2
INVARIANTS IInv
PROPERTIES ImplementsAtomicDisk CallsReturn
CHECK_DEADLOCK FALSE
