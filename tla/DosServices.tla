---------------------------- MODULE DosServices ----------------------------
(***************************************************************************)
(* How nativetest starts a guest - LoadDosExe, a BIOS image, the boot      *)
(* sector of the floppy, or nothing - and HLECall21, its DOS.  With the    *)
(* services of BiosServices this is all a guest can ask for by INT, but    *)
(* for the keyboard.                                                       *)
(***************************************************************************)
EXTENDS BiosServices

CONSTANTS
  BlockSize,    \* RME_BLOCK_SIZE (0x1000)
  SegSpan,      \* offsets of a segment (0x10000)
  FileHandles,  \* entries of sDosFileTable (256)
  Names,        \* files of the host that fopen can open
  Guests,       \* bound: how a guest is started (kind and file), which calls it
                \* may make (menu), and how many of them (n)
  Calls         \* the calls by menu

Words == {w \in Nat : w < 65536}
Registers == [ax : Words, bx : Words, cx : Words, dx : Words, si : Words, di : Words,
              ds : Words, es : Words, cf : BOOLEAN]
IsCall(c) ==
  c.int \in 0..255 /\ c.r \in Registers /\ \A a \in DOMAIN c.mem : a \in Nat /\ c.mem[a] \in 0..255

ASSUME DosAssumption ==
  /\ BlockSize \in Nat /\ 256 <= BlockSize /\ BlockSize <= 4096
  /\ SegSpan \in Nat /\ 0 < SegSpan /\ SegSpan <= 65536
  /\ FileHandles \in Nat /\ FileHandles > 3
  /\ Names \subseteq Seq(1..255) \ {<<>>}
ASSUME GuestAssumption ==
  /\ \A g \in Guests : g.menu \in DOMAIN Calls /\ g.file \in Seq(0..255)
  /\ \A menu \in DOMAIN Calls : \A c \in Calls[menu] : IsCall(c)

VARIABLES
  guest,    \* the guest, from Guests
  calls,    \* how many calls it has made
  cpu,      \* CS, IP, SS, SP as the loader leaves them
  files,    \* sDosFileTable: by handle, the name of the open file, or Closed
  held      \* history: the handles the guest has been given and not given back

vars == <<biosVars, guest, calls, cpu, files, held>>

Closed == <<>>
DestinationSeg == 4080   \* DESTINATION_SEG, 0x0FF0
SegEnviron == 256        \* SEG_ENVIRON, 0x0100
File == guest.file

Init ==
  /\ guest \in Guests /\ calls = 0
  /\ state = "off"
  /\ r = [ax |-> 0, bx |-> 0, cx |-> 0, dx |-> 0, si |-> 0, di |-> 0,
          ds |-> 0, es |-> 0, cf |-> FALSE]
  /\ cpu = [cs |-> 0, ip |-> 0, ss |-> 0, sp |-> 0]
  /\ attr = 15 /\ floppy \in Floppies
  /\ \E text \in {<<>>, Greeting} :
       LET s == Bios_PutString([x |-> 0, y |-> 0, mem |-> <<>>], text, 15) IN
       cursor = [x |-> s.x, y |-> s.y] /\ mem = s.mem
  /\ call = [int |-> 0, mem |-> <<>>, r |-> r]
  /\ files = [h \in 0..FileHandles - 1 |-> Closed] /\ held = {}

-----------------------------------------------------------------------------
(* LoadDosExe.                                                             *)

\* A word of the file, and those of tExeHeader.
FileWord(k) == File[k + 1] + 256 * File[k + 2]
HeaderSize == 28
BytesInLastBlock == FileWord(2)
BlocksInFile == FileWord(4)
NumRelocs == FileWord(6)
DataStart == FileWord(8) * 16
MinExtra == FileWord(10)
RelocStart == FileWord(24)

\* The remainder of a division of int, which has the sign of the dividend.
Remainder(a, b) == IF a >= 0 THEN a % b ELSE -((-a) % b)
DataSize == BlocksInFile * 512 - Remainder(512 - BytesInLastBlock, 512) - DataStart

\* The relocations the file has room for, up to the number it declares, and the
\* places in the data they are for.
Relocs == 1 .. Min({NumRelocs} \cup {(Len(File) - RelocStart) \div 4})
Place(i) == FileWord(RelocStart + 4 * i - 2) * 16 + FileWord(RelocStart + 4 * i - 4)

AddedAt(d, k, v) ==
  LET w == (d[k + 1] + 256 * d[k + 2] + v) % 65536 IN
  [d EXCEPT ![k + 1] = w % 256, ![k + 2] = w \div 256]
Relocated(d) ==
  FoldLeft(LAMBDA e, i : AddedAt(e, Place(i), DestinationSeg), d, [i \in Relocs |-> i])

DestAddr == DestinationSeg * 16 + 256
HeadSize == IF DestAddr % BlockSize = 0 THEN 0 ELSE BlockSize - (DestAddr % BlockSize)

\* Mutant: block_idx stays where it is in the loop of whole blocks.
LandingFirstBlock(j) ==
  IF j < HeadSize THEN DestAddr + j
  ELSE DestAddr + HeadSize + ((j - HeadSize) % BlockSize)

\* Where byte j of the data is copied to: a first piece up to the end of a block,
\* then block after block.
Landing(j) ==
  IF j < HeadSize THEN DestAddr + j
  ELSE LET block == (DestAddr + HeadSize) \div BlockSize + (j - HeadSize) \div BlockSize
       IN  block * BlockSize + ((j - HeadSize) % BlockSize)

\* The prefix, of which only as many bytes as a pointer has are cleared, and the
\* environment, "PATH=C:" and two NULs.
Prefix ==
  LET psp == DestinationSeg * 16
      free == DestinationSeg + 16 + BlocksInFile * 32 + MinExtra
  IN  Bytes(psp, <<205, 32>> \o WordBytes(free)) ++ Bytes(psp, <<0, 0, 0, 0, 0, 0, 0, 0>>)
      ++ Bytes(psp + 44, WordBytes(SegEnviron))
      ++ Bytes(SegEnviron * 16, <<80, 65, 84, 72, 61, 67, 58, 0, 0>>)

Stays == UNCHANGED <<r, mem, cpu>>

Unreadable ==
  Len(File) < HeaderSize \/ FileWord(0) # 23117 \/ DataSize < 0 \/ DataStart + DataSize > Len(File)
HeapOverrun == \E i \in Relocs : Place(i) + 2 > DataSize
RelocsMissing == Cardinality(Relocs) < NumRelocs

LoadDosExe ==
  LET data == SubSeq(File, DataStart + 1, DataStart + DataSize)
      image == Relocated(data)
      places == {Landing(j) : j \in 0..DataSize - 1}
      outcome == IF Unreadable THEN "exited" ELSE IF HeapOverrun THEN "wild"
                 ELSE IF RelocsMissing THEN "exited"
                 ELSE IF DestAddr + DataSize > MemTop THEN "wild" ELSE "running" IN
  /\ guest.kind = "exe" /\ state' = outcome
  /\ IF outcome # "running" THEN Stays
     ELSE
       /\ mem' = Prefix ++ [a \in places |->
                   image[1 + Max({j \in 0..DataSize - 1 : Landing(j) = a})]] ++ mem
       /\ r' = [r EXCEPT !.ax = 0, !.bx = DataSize \div 65536, !.cx = DataSize % 65536,
                         !.dx = 0, !.ds = DestinationSeg, !.es = DestinationSeg]
       /\ cpu' = [cs |-> (DestinationSeg + 16 + FileWord(22)) % 65536, ip |-> FileWord(20),
                  ss |-> (DestinationSeg + 16 + FileWord(14)) % 65536, sp |-> FileWord(16)]

-----------------------------------------------------------------------------
(* The other ways to start.                                                *)

\* The stack with its return address of -1.
BootStack == Bytes(655358, <<255, 255>>)

\* A BIOS image of 16 bytes or more is refused, and so is any length that is not
\* a multiple of 16: only the empty one is run.
BootBinary ==
  /\ guest.kind = "binary"
  /\ IF Len(File) > 0 THEN state' = "exited" /\ Stays
     ELSE /\ state' = "running"
          /\ cpu' = [cs |-> 61440, ip |-> 65520, ss |-> 40960, sp |-> 65534]
          /\ mem' = BootStack ++ [a \in 0..1023 |-> 0] ++ mem
          /\ UNCHANGED r

BootFloppy ==
  LET loaded == Bytes(31744, SubSeq(floppy, 1, Min({SectorSize, Len(floppy)}))) ++ mem
      bootable == /\ Len(floppy) >= SectorSize
                  /\ SubSeq(floppy, SectorSize - 1, SectorSize) = <<85, 170>> IN
  /\ guest.kind = "floppy" /\ floppy # NoFloppy
  /\ \/ ~bootable /\ state' = "exited" /\ mem' = loaded /\ UNCHANGED <<r, cpu>>
     \/ /\ bootable /\ state' = "running"
        /\ mem' = BootStack ++ loaded
        /\ r' = [r EXCEPT !.dx = 0]
        /\ cpu' = [cs |-> 1984, ip |-> 0, ss |-> 40960, sp |-> 65534]

BootNoMedia ==
  /\ guest.kind = "floppy" /\ floppy = NoFloppy
  /\ state' = "running" /\ Stays

Boot ==
  /\ state = "off"
  /\ LoadDosExe \/ BootBinary \/ BootFloppy \/ BootNoMedia
  /\ UNCHANGED <<cursor, attr, floppy, call, guest, calls, files, held>>

-----------------------------------------------------------------------------
(* INT 21h.                                                                *)

IsDos(c, ah) == Is(c, 33, ah)
FilesKept == UNCHANGED <<files, held>>
Fails(c, error) == Answers(c, [c.r EXCEPT !.cf = TRUE, !.ax = error])

\* get_ascii_z: the offsets from ofs on that hold a NUL, and the length with the
\* first of them, in 16 bits.  Nothing stops the string at a block's end but
\* RME_GetPtr, which asserts a length of 1 to RME_BLOCK_SIZE.
HasNul(m, seg, ofs) == \E o \in ofs .. SegSpan - 1 : Byte(m, seg * 16 + o) = 0
FirstNul(m, seg, ofs) ==
  CHOOSE o \in ofs .. SegSpan - 1 :
    Byte(m, seg * 16 + o) = 0 /\ \A p \in ofs .. o - 1 : Byte(m, seg * 16 + p) # 0
get_ascii_z(m, seg, ofs) ==
  LET len == (1 + FirstNul(m, seg, ofs) - ofs) % SegSpan
      at == seg * 16 + ofs IN
  IF ~HasNul(m, seg, ofs) THEN [how |-> "stopped"]
  ELSE IF len \notin 1..BlockSize THEN [how |-> "aborted"]
  ELSE IF (at % BlockSize) + len > BlockSize THEN [how |-> "exited"]
  ELSE [how |-> "found", path |-> [k \in 1..len - 1 |-> Byte(m, at + k - 1)]]

VectorAt(c) == 4 * Lo(c.r.ax)

SetVector(c) ==
  /\ IsDos(c, 37) /\ FilesKept
  /\ mem' = Bytes(VectorAt(c), WordBytes(c.r.bx) \o WordBytes(c.r.es)) ++ Given(c)
  /\ Returns(c.r) /\ UNCHANGED <<cursor, attr>>

GetVector(c) ==
  /\ IsDos(c, 53) /\ FilesKept
  /\ Answers(c, [c.r EXCEPT !.bx = Word(Given(c), VectorAt(c)),
                            !.es = Word(Given(c), VectorAt(c) + 2)])

GetVersion(c) ==
  IsDos(c, 48) /\ FilesKept /\ Answers(c, [c.r EXCEPT !.ax = HiLo(5, 0), !.bx = Lo(@)])

\* Mutant: the search for a free entry starts with the ones in use.
FreeAnywhere == 3 .. FileHandles - 1

Free == {h \in 3 .. FileHandles - 1 : files[h] = Closed}

OpenFile(c) ==
  LET z == get_ascii_z(Given(c), c.r.ds, c.r.dx) IN
  /\ IsDos(c, 61)
  /\ \/ z.how # "found" /\ Ends(c, z.how) /\ FilesKept
     \/ z.how = "found" /\ Lo(c.r.ax) # 0 /\ Ends(c, "exited") /\ FilesKept
     \/ z.how = "found" /\ Lo(c.r.ax) = 0 /\ Free = {} /\ Fails(c, 4) /\ FilesKept
     \/ /\ z.how = "found" /\ Lo(c.r.ax) = 0 /\ Free # {}
        /\ IF z.path \notin Names THEN Fails(c, 2) /\ FilesKept
           ELSE /\ files' = [files EXCEPT ![Min(Free)] = z.path]
                /\ Answers(c, [c.r EXCEPT !.cf = FALSE, !.ax = Min(Free)])
                /\ held' = held \cup {Min(Free)}

CloseFile(c) ==
  LET h == c.r.bx IN
  /\ IsDos(c, 62)
  /\ IF h \in DOMAIN files /\ files[h] # Closed
     THEN /\ files' = [files EXCEPT ![h] = Closed]
          /\ Answers(c, [c.r EXCEPT !.cf = FALSE, !.ax = 0])
          /\ held' = held \ {h}
     ELSE Fails(c, 2) /\ FilesKept

\* The bytes are printed to the log, and the emulator ends: RME_GetPtr has
\* asserted their number, but not that they lie in memory.
WriteFile(c) ==
  LET len == c.r.cx IN
  /\ IsDos(c, 64) /\ FilesKept
  /\ Ends(c, IF len \notin 1..BlockSize THEN "aborted"
             ELSE IF c.r.ds * 16 + c.r.dx + len > MemTop THEN "wild" ELSE "exited")

\* Only the guest's own block, which may have all memory up to the screen.
ResizeBlock(c) ==
  /\ IsDos(c, 74) /\ FilesKept
  /\ IF c.r.es = DestinationSeg
     THEN Answers(c, [c.r EXCEPT !.cf = FALSE, !.ax = 0, !.bx = 40960 - DestinationSeg])
     ELSE Ends(c, "exited")

\* The standard input and output are devices; another open handle is a file.
DeviceInformation(c) ==
  LET h == c.r.bx
      info(dx) == Answers(c, [c.r EXCEPT !.cf = FALSE, !.ax = 0, !.dx = dx]) IN
  /\ IsDos(c, 68) /\ FilesKept
  /\ IF Lo(c.r.ax) # 0 THEN Ends(c, "exited")
     ELSE IF h \in {0, 1} THEN info(129 + h)
     ELSE IF h \in DOMAIN files /\ files[h] # Closed THEN info(0)
     ELSE Ends(c, "exited")

RenameFile(c) ==
  LET src == get_ascii_z(Given(c), c.r.ds, c.r.dx)
      dst == get_ascii_z(Given(c), c.r.es, c.r.di) IN
  /\ IsDos(c, 86) /\ FilesKept
  /\ Ends(c, IF src.how # "found" THEN src.how
             ELSE IF dst.how # "found" THEN dst.how ELSE "exited")

DosUnknown(c) ==
  /\ c.int = 33 /\ Hi(c.r.ax) \notin {37, 48, 53, 61, 62, 64, 68, 74, 86}
  /\ Ends(c, "exited") /\ FilesKept

\* INT 2Fh: there is no XMS, and nothing else is known.
DriverCall(c) ==
  /\ c.int = 47 /\ FilesKept
  /\ IF c.r.ax = 17152 THEN Answers(c, c.r) ELSE Ends(c, "exited")

DosCall(c) ==
  \/ SetVector(c) \/ GetVector(c) \/ GetVersion(c) \/ OpenFile(c) \/ CloseFile(c)
  \/ WriteFile(c) \/ ResizeBlock(c) \/ DeviceInformation(c) \/ RenameFile(c)
  \/ DosUnknown(c) \/ DriverCall(c)

\* The guest runs up to its next call, and makes it.
GuestCalls ==
  /\ state = "running" /\ calls < guest.n
  /\ \E c \in Calls[guest.menu] :
       /\ (BiosCall(c) /\ FilesKept) \/ DosCall(c)
       /\ call' = c
  /\ calls' = calls + 1
  /\ UNCHANGED <<guest, floppy, cpu>>

Next == Boot \/ GuestCalls
Spec == Init /\ [][Next]_vars

-----------------------------------------------------------------------------
(* Properties.                                                             *)

Serves(int) == calls' # calls /\ call'.int = int /\ state' = "running"
AH == Hi(call'.r.ax)
AL == Lo(call'.r.ax)
Now(a) == Byte(mem', a)
Was(a) == Byte(Given(call'), a)
Stored == DOMAIN mem' \cup DOMAIN Given(call')

\* The cells a call of INT 10h is about, and whether it asks for places on the
\* screen only.  AH=09 is kept off the columns where it misses the end of a row.
OnScreen(x, y) == x \in 0..Cols - 1 /\ y \in 0..Rows - 1
Asked ==
  LET c == call'.r IN
  CASE AH = 6 -> (Lo(c.cx)..Lo(c.dx)) \X (Hi(c.cx)..Hi(c.dx))
    [] AH = 9 -> (cursor.x..Cols - 1) \X {cursor.y}
    [] AH = 14 -> {<<cursor.x, cursor.y>>}
    [] OTHER -> {}
Proper ==
  LET c == call'.r IN
  CASE AH \in {2, 6} -> OnScreen(Lo(c.dx), Hi(c.dx))
    [] AH = 9 -> cursor.x < Rows \/ cursor.x + c.cx < Cols
    [] OTHER -> TRUE

\* The screen services move the cursor only to places on the screen, and change
\* the cells they were asked about and nothing else, however clears, cells,
\* lines and backspaces follow each other.
ScreenContained ==
  [][Serves(16) /\ OnScreen(cursor.x, cursor.y) /\ Proper =>
       /\ OnScreen(cursor'.x, cursor'.y)
       /\ \A a \in Stored : Now(a) # Was(a) =>
            \E p \in Asked : a - CellAt(p[1], p[2]) \in {0, 1}]_vars

\* The sectors of a disk in the order of cylinder, head, sector.
CHS == (0..NCyl - 1) \X (0..NHead - 1) \X (1..SPT)
Precedes(s, t) ==
  \/ s[1] < t[1]
  \/ s[1] = t[1] /\ (s[2] < t[2] \/ (s[2] = t[2] /\ s[3] < t[3]))
NumberOf(s) == Cardinality({t \in CHS : Precedes(t, s)})

Available(first, count) ==
  Cardinality({k \in first .. first + count - 1 : (k + 1) * SectorSize <= Len(floppy)})

\* Memory has the available ones of count sectors at `at'; of the others' place
\* nothing is said, and everything else is as it was.
Delivered(first, count, at) ==
  LET there == Available(first, count) * SectorSize IN
  \A a \in Stored :
    IF a - at \in 0 .. there - 1
    THEN Now(a) = floppy[first * SectorSize + (a - at) + 1]
    ELSE a - at \in there .. count * SectorSize - 1 \/ Now(a) = Was(a)
Untouched == \A a \in Stored : Now(a) = Was(a)

\* Nothing but the bytes the caller has asked for has changed.
Kept(bytes, at) == \A a \in Stored : a - at \in 0 .. bytes - 1 \/ Now(a) = Was(a)

\* A read of sectors delivers the sectors asked for in disk order.  AH=02 tells
\* in AL how many there were, and sets CF exactly if some were missing; off the
\* disk, or of nothing, it changes nothing and sets CF.  AH=42 past the end of
\* memory changes nothing and sets CF; else it stores in its buffer only, and
\* exactly the blocks from the 64-bit number on if an int can count their bytes.
\* (Left out: sector 0, which there is not; whether AH=42 reports missing
\* blocks, which it never does; which blocks a number too large comes to.)
ReadsReported ==
  [][Serves(19) =>
       LET c == call'.r
           s == <<Cylinder(call'), Hi(c.dx), Sector(call')>>
           first == NumberOf(s)
           at == c.es * 16 + c.bx
           packet == c.ds * 16 + c.si
           word(k) == Word(Given(call'), packet + k)
           buffer == word(6) * 16 + word(4)
           block == word(8) + 65536 * word(10)
           counted == word(14) = 0 /\ word(12) = 0 /\ word(10) < 32768 /\ block < IntSectors IN
       /\ AH = 2 /\ AL % 64 = 0 => r'.cf /\ r'.ax = c.ax /\ Untouched
       /\ AH = 2 /\ AL % 64 # 0 /\ s[3] # 0 =>
            IF Lo(c.dx) = 0 /\ s \in CHS
            THEN /\ Lo(r'.ax) = Available(first, AL)
                 /\ r'.cf <=> Lo(r'.ax) < AL
                 /\ ~r'.cf => Hi(r'.ax) = 0
                 /\ Delivered(first, AL, at)
            ELSE r'.cf /\ r'.ax = HiLo(1, AL) /\ Untouched
       /\ AH = 66 =>
            IF buffer + word(2) * SectorSize > MemTop
            THEN r'.cf /\ Hi(r'.ax) = 187 /\ Untouched
            ELSE /\ Lo(c.dx) = 0 /\ counted => Delivered(block, word(2), buffer)
                 /\ Kept(word(2) * SectorSize, buffer)
                 /\ Lo(c.dx) # 0 => Untouched]_vars

\* Does the string at DS:DX of the call name this file?
NamedAt(name) ==
  LET at == call'.r.ds * 16 + call'.r.dx IN
  /\ \A k \in 1..Len(name) : Was(at + k - 1) = name[k]
  /\ Was(at + Len(name)) = 0

\* The guest's handles are the open files, through any sequence of calls: an open
\* gives out a handle not in use, for the file named; it fails with "too many
\* files" exactly if all are in use, and with "not found" if there is no such
\* file; a close succeeds exactly for a handle that was given out, and no call
\* disturbs another's file.
HandlesExact ==
  [][Serves(33) =>
       LET new == r'.ax IN
       /\ held' = {h \in DOMAIN files : files'[h] # Closed}
       /\ AH = 61 =>
            IF ~r'.cf THEN new \notin held \cup {0, 1, 2} /\ NamedAt(files'[new])
            ELSE /\ new = 4 <=> Cardinality(held) = FileHandles - 3
                 /\ new = 2 <=> /\ Cardinality(held) < FileHandles - 3
                                /\ \A name \in Names : ~NamedAt(name)
       /\ AH = 62 => (~r'.cf <=> call'.r.bx \in held)
       /\ \A h \in held : ~(AH = 62 /\ h = call'.r.bx) => files'[h] = files[h]]_vars

\* The words the file lists for relocation, and what they are in the file.
Places == {Place(i) : i \in Relocs}
Apart(p) == \A q \in Places : q = p \/ q - p \notin {-1, 1}
Listed(p) == Cardinality({i \in Relocs : Place(i) = p})
Loaded == state = "running" /\ calls = 0 /\ guest.kind = "exe"

\* A program that has been loaded lies, whatever blocks it spans, byte for byte
\* where CS and SS count from; its listed words are increased once for each time
\* they are listed; the prefix says that memory is free only behind it, if the
\* last block has no more bytes than a block; and nothing else has been written
\* but the prefix, the environment and the screen.
LoadExact ==
  Loaded =>
    LET base == 16 * ((cpu.cs - FileWord(22)) % 65536)
        psp == base - 256
        file(j) == File[DataStart + j + 1] IN
    /\ \A j \in 0..DataSize - 1 : Places \cap {j - 1, j} = {} => Byte(mem, base + j) = file(j)
    /\ \A p \in Places : Apart(p) =>
         Word(mem, base + p) = (file(p) + 256 * file(p + 1) + Listed(p) * DestinationSeg) % 65536
    /\ r.ds * 16 = psp /\ (cpu.ss - FileWord(14)) % 65536 = base \div 16
    /\ r.bx * 65536 + r.cx = DataSize
    /\ BytesInLastBlock <= 512 /\ BlocksInFile * 32 + MinExtra < 32768 =>
         Word(mem, psp + 2) * 16 >= base + DataSize
    /\ \A a \in DOMAIN mem :
         a \in base .. base + DataSize - 1 \/ a \in psp .. psp + 7 \/ a \in psp + 44 .. psp + 45
           \/ a \in 4096..4104 \/ a \in Video .. CellAt(Cols, Rows - 1)

\* "Segment for the PSP, code is loaded 256 bytes above": the words listed for
\* relocation hold segments of the program, counted from where its code is.
RelocsFollowImage ==
  Loaded => \A p \in Places : Apart(p) =>
    Word(mem, DestAddr + p) =
      (File[DataStart + p + 1] + 256 * File[DataStart + p + 2]
         + Listed(p) * (DestAddr \div 16)) % 65536
=============================================================================
