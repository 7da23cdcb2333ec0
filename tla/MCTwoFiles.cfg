SPECIFICATION Spec
CONSTANTS
  Main = main
  Program = {p, q}
  Name = {a, b}
  NumSectors = 9
  SectorSize = 1
  NumDirect = 2
  NumDirEntries = 2
  Straddle = 1
  Size = {1}
  Length = {1}
  TransferSize = 1
  Byte = {0}
  Handle = {h1, h2, h3}
  Calls = {"Copy", "Load", "Create", "Open", "Write"}
  Exclusive = {"Load", "Create", "Open", "Read", "Write"}
  Careful = TRUE
  Garbage = Garbage
  Stale = Stale
  Null = Null
  Wild = Wild
  NoName = NoName
  NoFile = NoFile
  NotOpen = NotOpen
SYMMETRY Symmetric
CHECK_DEADLOCK FALSE
INVARIANT IdDenotesFile
