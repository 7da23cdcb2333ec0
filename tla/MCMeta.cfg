SPECIFICATION Spec
CONSTANTS
  Main = main
  Program = {p}
  Name = {a, b, c}
  NumSectors = 9
  SectorSize = 2
  NumDirect = 2
  NumDirEntries = 3
  Straddle = 1
  Size <- MetaSizes
  Length = {}
  TransferSize = 2
  Byte = {0}
  Handle = {h1, h2}
  Calls = {"Remove", "Copy", "Load", "Create", "Print"}
  Exclusive = {"Create"}
  Careful = TRUE
  Garbage = Garbage
  Stale = Stale
  Null = Null
  Wild = Wild
  NoName = NoName
  NoFile = NoFile
  NotOpen = NotOpen
SYMMETRY Symmetric
INVARIANTS TypeOK NoSharedSector BystandersMarked NoLeak TornDirectorySafe OpenHeaderOwned AssertionsHold
PROPERTY ImplementsStore
