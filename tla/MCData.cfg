SPECIFICATION Spec
CONSTANTS
  Main = main
  Program = {p}
  Name = {a, b}
  NumSectors = 9
  SectorSize = 2
  NumDirect = 2
  NumDirEntries = 2
  Straddle = 1
  Size = {1, 3}
  Length = {1, 3}
  TransferSize = 2
  Byte = {0, 1}
  Handle = {h1, h2}
  Calls = {"Copy", "Load", "Create", "Open", "Read", "Write", "Close"}
  Exclusive = {"Create"}
  Careful = TRUE
  Garbage = Garbage
  Stale = Stale
  Null = Null
  Wild = Wild
  NoName = NoName
  NoFile = NoFile
  NotOpen = NotOpen
SYMMETRY Symmetric
PROPERTY ImplementsStore
