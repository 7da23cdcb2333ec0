-------------------------- MODULE FileSystemRefines --------------------------
(***************************************************************************)
(* The file system, entered by one caller at a time, implements the        *)
(* abstract store of FileStore.                                            *)
(***************************************************************************)
EXTENDS FileSystemInv

CONSTANTS NoFile, NotOpen

\* What is no file, and what is not open, can be told from what is.
ASSUME NoFileNotOpen ==
  /\ \A n \in Size : NoFile \notin [length: {n}, bytes: [0 .. n - 1 -> AnyByte]]
  /\ NotOpen \notin [name: Name \cup {NoName}, pos: Nat]

\* A Create or Remove takes effect when the first sector of the directory is
\* written.
Table ==
  IF \E t \in Thread : pc[t] = "writeDir2"
  THEN loc[CHOOSE t \in Thread : pc[t] = "writeDir2"].dir
  ELSE directory

\* The byte of a file at an offset, and a file, through its header.
ByteAt(h, o) == disk[ByteToSector(h, o)].data[o % SectorSize]
FileOf(h) == [length |-> h.numBytes,
              bytes |-> [o \in 0 .. h.numBytes - 1 |-> ByteAt(h, o)]]
Content(n) ==
  IF Found(Table, n)
  THEN FileOf(disk[Table[CHOOSE i \in Slot : Match(Table, i, n)].sector].hdr)
  ELSE NoFile

Done(t) ==
  \/ call[t].op = "Create" /\ pc[t] \in {"writeDir2", "writeMap"}
  \/ call[t].op = "Remove" /\ pc[t] = "writeDir2"
  \/ call[t].op = "Load" /\ pc[t] = "load"

Lengths == Length \cup 1 .. TransferSize
CallSet ==
  [op: {"Create"}, name: Name, size: Size, buf: {<<>>}] \cup
  [op: {"Remove", "Open", "Load"}, name: Name, size: {0}, buf: {<<>>}] \cup
  [op: {"Read"}, name: {NoName}, size: Lengths, buf: {<<>>}] \cup
  UNION {[op: {"Write"}, name: {NoName}, size: {len}, buf: [0 .. len - 1 -> Byte]] :
           len \in Lengths}

stored == [n \in Name |-> Content(n)]
opened == IF Live(opfile)
          THEN [name |-> file[opfile].of, pos |-> file[opfile].seekPosition]
          ELSE NotOpen
effected == [t \in Thread |-> Done(t)]

Store == INSTANCE FileStore WITH
  Byte <- AnyByte,
  Length <- Lengths,
  Idle <- NoCall,
  store <- stored,
  open <- opened,
  done <- effected

\* FileSystem and OpenFile give their callers the store of FileStore: a
\* created file appears at once and with the length asked for, a Read returns
\* what was last written at the position it reaches, a Write changes the
\* bytes it was asked to change and no others, of that file and of no other,
\* however the files share and reuse the sectors of the disk.
ImplementsStore == Store!Spec

-----------------------------------------------------------------------------
(* What the refinement rests on, beyond Inv, NameInv and CopyInv.          *)

\* Callers enter the file system one at a time: they all wait for each other,
\* or there is one program.
OneCaller ==
  \/ {"Load", "Create", "Open", "Read", "Write", "Close"} \subseteq Exclusive
  \/ \A p, q \in Program : p = q

Turns ==
  /\ \A t \in Thread : call[t].op = "none" => call[t] = NoCall
  /\ \A t, u \in Thread : call[t].op # "none" /\ call[u].op # "none" => t = u

\* The names that calls are about, and what the locals of a lookup, of an Open
\* and of an update of the directory say of the disk.
Looking(t) ==
  LET l == loc[t]
      n == call[t].name
  IN
  /\ call[t].op \in {"Create", "Remove", "Open", "Load"} => n \in Name
  /\ pc[t] = "fetchDir2" => Join(l.dir, directory) = directory
  /\ pc[t] = "fetchHdr" =>
       \E i \in Slot : Match(directory, i, n) /\ l.sector = directory[i].sector
  /\ pc[t] = "load" => io[t].h = opfile
  /\ Writing(t) /\ call[t].op = "Create" => l.hdr.numBytes = call[t].size
  /\ Writing(t) /\ call[t].op = "Remove" =>
       ~Found(l.dir, n) /\ (pc[t] # "writeDir2" => Found(directory, n))

\* The open file is in the directory under its name.
OpenNamed ==
  Live(opfile) =>
    /\ file[opfile].of \in Name
    /\ \E i \in Slot : /\ Match(Table, i, file[opfile].of)
                       /\ disk[Table[i].sector].hdr = file[opfile].hdr

\* What ReadAt has read so far, and what WriteAt has filled in of a sector, are
\* bytes of the file.
Window(l) == l.pos .. l.pos + l.n - 1
HasRead(l, h) ==
  \A o \in 0 .. l.n - 1 :
    SectorOf(l.pos + o) < l.i => l.buf[o] = ByteAt(h, l.pos + o)
Filled(l, h, i) ==
  \A o \in DOMAIN l.buf : SectorOf(o) = i /\ o < h.numBytes => l.buf[o] = ByteAt(h, o)

\* So is what WriteAt will write next to the bytes asked for; those of the
\* sectors before are in place.
Around(l, h) ==
  \A o \in DOMAIN l.buf \ Window(l) :
    l.i <= SectorOf(o) /\ o < h.numBytes => l.buf[o] = ByteAt(h, o)
InPlace(l, h, from) ==
  \A o \in Window(l) : SectorOf(o) < l.i => ByteAt(h, o) = from[o - l.pos]

\* A transfer goes to the open file, from its seek position.
Moving(t) ==
  LET l == io[t]
      h == file[l.h].hdr
  IN
  /\ pc[t] \in {"read", "writeFirst", "writeLast", "write"} =>
       /\ l.h = opfile /\ Live(opfile) /\ call[t].size \in Lengths
       /\ l.pos = file[opfile].seekPosition
       /\ l.n = Clip(h.numBytes, l.pos, call[t].size)
  /\ pc[t] = "read" => HasRead(l, h)
  /\ pc[t] \in {"writeFirst", "writeLast"} => l.i = SectorOf(l.pos)
  /\ pc[t] = "writeLast" => FirstAligned(l.pos) \/ Filled(l, h, l.i)
  /\ pc[t] = "write" => Around(l, h) /\ InPlace(l, h, call[t].buf)

StoreInv ==
  /\ Turns /\ NamesInOrder(Table) /\ OpenNamed
  /\ pc[Main] = "copyOpen" => fd[Main] \in Name
  /\ \A t \in Thread : Looking(t) /\ Moving(t)
=============================================================================
