SPECIFICATION Spec
CONSTANTS
  Main = main
  Program = {p}
  Name = {a, b}
  NumSectors = 9
  SectorSize = 1
  NumDirect = 1
  NumDirEntries = 2
  Straddle = 1
  Size = {0, 2}
  Length = {1}
  TransferSize = 1
  Byte = {0}
  Handle = {h1, h2, h3}
  Calls = {"Copy", "Load", "Create"}
  Exclusive = {"Create"}
  Careful = TRUE
  Garbage = Garbage
  Stale = Stale
  Null = Null
  Wild = Wild
  NoName = NoName
  NoFile = NoFile
  NotOpen = NotOpen
SYMMETRY Symmetric
CHECK_DEADLOCK FALSE
INVARIANT NoOverrun
