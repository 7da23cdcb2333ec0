SPECIFICATION Spec
CONSTANTS
  Program = {"p", "q"}
  Files <- MCFiles
  PageSize = 4
  NumPhysPages = 3
  UserStackSize = 3
  Gap = 1
  ZeroByte = ZeroByte
  SectorsPerTrack = 3
  NumTracks = 3
  RotationTime = 3
  SeekTime = 4
  MaxTicks = 30
  None = None
  Closed = Closed
INVARIANTS MachineInv SpaceInv ListInv TableInv HeadInv
PROPERTIES ArithmeticExact FaultsContained ImplementsList ChangesOne ImplementsSet
CHECK_DEADLOCK FALSE
