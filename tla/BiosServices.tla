---------------------------- MODULE BiosServices ----------------------------
(***************************************************************************)
(* The machine nativetest gives a guest, and the services of its BIOS:     *)
(* HLECall10 (screen), HLECall11 and 12, HLECall13 (floppy), HLECall18 and *)
(* 19, and HLECall1A (clock) of hle_bios.c.  The keyboard's, INT 16h, is   *)
(* in KeyBuffer.                                                           *)
(*                                                                         *)
(* A call c is what the guest has done since the last one: the bytes it    *)
(* has stored (c.mem), the registers it has loaded (c.r) and the interrupt *)
(* it executes (c.int).  A service is one step, as the callback is: the    *)
(* guest's flags have been popped before, so CF reaches the guest.         *)
(*                                                                         *)
(* Of gaMemory, `mem' has the bytes written since main began; the others   *)
(* are what main fills memory with.                                        *)
(***************************************************************************)
EXTENDS Integers, Sequences, FiniteSets, TLC, SequencesExt

CONSTANTS
  Cols, Rows,         \* VIDEO_COLS and VIDEO_ROWS (80, 25)
  SectorSize,         \* bytes of a sector (512)
  NCyl, NHead, SPT,   \* GetDiskParams(0): 80, 2, 18
  Floppies,           \* what gaFDDs[0] may be: a sequence of bytes or NoFloppy
  Greeting, BootError, \* the texts main and INT 18h write
  Clocks              \* what localtime may return

NoFloppy == <<-1>>

ASSUME BiosAssumption ==
  /\ Cols \in Nat \ {0} /\ Rows \in 1..Cols /\ SectorSize \in Nat \ {0}
  /\ NCyl \in Nat \ {0} /\ NCyl <= 1024 /\ NHead \in Nat \ {0} /\ NHead <= 256 /\ SPT \in 1..63
  /\ Floppies \subseteq Seq(0..255) \cup {NoFloppy}
  /\ Greeting \in Seq(0..255) /\ BootError \in Seq(0..255)

VARIABLES
  state,    \* "off", "running", "stopped" (RME_RunOne returned an error),
            \* "exited", "aborted" (a failed assertion), or "wild": the host
            \* has used memory that is not the guest's, or not there
  r,        \* the general and segment registers, and CF, after the last service
  mem, cursor, attr, \* giCursorX and giCursorY, gCurAttributes
  floppy,   \* gaFDDs[0]
  call      \* history: the last call

biosVars == <<state, r, mem, cursor, attr, floppy, call>>

MemTop == 1114112     \* 0x110000
Video == 753664       \* 0xB8000
Entrypoint == 983040  \* 0xF0000
DiskTable == 987136    \* 0xF1000

Hi(w) == (w \div 256) % 256
Lo(w) == w % 256
HiLo(h, l) == (h % 256) * 256 + (l % 256)

\* Bytes stored over a memory.
m ++ n == [a \in DOMAIN m \cup DOMAIN n |-> IF a \in DOMAIN m THEN m[a] ELSE n[a]]
Bytes(at, s) == [a \in at .. at + Len(s) - 1 |-> s[a - at + 1]]
WordBytes(w) == <<w % 256, (w \div 256) % 256>>

\* DiskInfo, of which main fills in one entry and the geometry of the next.
DiskInfo ==
  LET long(v) == WordBytes(v) \o <<0, 0>>
  IN  Bytes(0, <<26, 0, 1, 0>>) ++ Bytes(16, <<64, 11, 0, 0, 0, 0, 0, 0, 0, 2>>)
      ++ Bytes(30, long(NCyl) \o long(NHead) \o long(SPT))

\* What main puts into memory before anything runs: the vectors, an empty screen,
\* the instruction at the BIOS entrypoint, and the table.
VectorByte(a) == <<a \div 4, 0, 0, 184>>[(a % 4) + 1]
EntryByte(k) == <<103, 201>>[k + 1]
Filler(a) ==
  CASE a < 1024 -> VectorByte(a)
    [] a \in Video .. Video + 2 * Rows * Cols - 1 -> 0
    [] a - Entrypoint \in 0..1 -> EntryByte(a - Entrypoint)
    [] a - DiskTable \in DOMAIN DiskInfo -> DiskInfo[a - DiskTable]
    [] OTHER -> 241

Byte(m, a) == IF a \in DOMAIN m THEN m[a] ELSE Filler(a)
Word(m, a) == Byte(m, a) + 256 * Byte(m, a + 1)
Given(c) == c.mem ++ mem

-----------------------------------------------------------------------------
(* The screen, a record of the cursor and memory.                          *)

CellAt(x, y) == Video + 2 * (y * Cols + x)
Shown(s, ch, at) ==
  [s EXCEPT !.mem = Bytes(CellAt(s.x, s.y), <<ch, at>>) ++ s.mem]

\* Mutant: the row advances one column late.
AdvancedLate(s) ==
  IF s.x <= Cols THEN [s EXCEPT !.x = @ + 1]
  ELSE [s EXCEPT !.x = 0, !.y = IF @ = Rows - 1 THEN @ ELSE @ + 1]

\* One column on; Video_ScrollUp does nothing, and the last row stays.
Advanced(s) ==
  IF s.x + 1 # Cols THEN [s EXCEPT !.x = @ + 1]
  ELSE [s EXCEPT !.x = 0, !.y = IF @ + 1 = Rows THEN @ ELSE @ + 1]

PutChar(s, ch, at) ==
  CASE ch = 10 -> [s EXCEPT !.y = IF @ + 1 = Rows THEN 0 ELSE @ + 1]
    [] ch = 13 -> [s EXCEPT !.x = 0]
    [] ch = 8 -> [s EXCEPT !.x = IF @ > 0 THEN @ - 1 ELSE @]
    [] OTHER -> Advanced(Shown(s, ch, at))

Bios_PutString(s, text, at) == FoldLeft(LAMBDA t, ch : PutChar(t, ch, at), s, text)

Screen(m) == [x |-> cursor.x, y |-> cursor.y, mem |-> m]
ScreenBecomes(s) == cursor' = [x |-> s.x, y |-> s.y] /\ mem' = s.mem

-----------------------------------------------------------------------------
(* How a service ends.                                                     *)

Returns(regs) == state' = "running" /\ r' = regs
Ends(c, how) == state' = how /\ r' = c.r /\ mem' = Given(c) /\ UNCHANGED <<cursor, attr>>
Answers(c, regs) == Returns(regs) /\ mem' = Given(c) /\ UNCHANGED <<cursor, attr>>
Is(c, int, ah) == c.int = int /\ Hi(c.r.ax) = ah

-----------------------------------------------------------------------------
(* INT 10h.                                                                *)

SetVideoMode(c) ==
  /\ Is(c, 16, 0)
  /\ IF Lo(c.r.ax) = 3 THEN Answers(c, [c.r EXCEPT !.ax = HiLo(0, 48)])
                       ELSE Ends(c, "exited")

\* Cursor shape, page, border, and the characters' shapes.
VideoIgnored(c) ==
  /\ Is(c, 16, 1) \/ Is(c, 16, 5) \/ (c.int = 16 /\ c.r.ax \in {4097, 4356})
  /\ Answers(c, c.r)

SetCursor(c) ==
  /\ Is(c, 16, 2)
  /\ cursor' = [x |-> Lo(c.r.dx), y |-> Hi(c.r.dx)]
  /\ Returns(c.r) /\ mem' = Given(c) /\ UNCHANGED attr

GetCursor(c) ==
  LET shape == cursor.y * 16 + 14 IN
  /\ Is(c, 16, 3)
  /\ Answers(c, [c.r EXCEPT !.ax = 0, !.cx = HiLo(shape, Lo(shape) + 2),
                            !.dx = HiLo(cursor.y, cursor.x)])

\* Only a clear does anything; its limits are one past the screen's, and the
\* attribute has been shifted out of its byte.
ScrollUp(c) ==
  LET cut(v, limit) == IF v > limit THEN limit ELSE v
      tx == Lo(c.r.cx)  bx == cut(Lo(c.r.dx), Cols)
      ty == Hi(c.r.cx)  by == cut(Hi(c.r.dx), Rows)
      page == [a \in Video .. CellAt(bx, by) + 1 |-> IF a % 2 = 0 THEN 32 ELSE 0]
      cells == {CellAt(x, y) : x \in tx..bx, y \in ty..by} IN
  /\ Is(c, 16, 6)
  /\ \/ (tx > bx \/ ty > by) /\ Ends(c, "exited")
     \/ /\ tx <= bx /\ ty <= by
        /\ mem' = IF Lo(c.r.ax) = 0
                  THEN [a \in cells \cup {k + 1 : k \in cells} |-> page[a]] ++ Given(c)
                  ELSE Given(c)
        /\ Returns(c.r) /\ UNCHANGED <<cursor, attr>>

ReadCell(c) ==
  /\ Is(c, 16, 8)
  /\ Answers(c, [c.r EXCEPT !.ax = Word(Given(c), CellAt(cursor.x, cursor.y))])

\* The cursor moves along, and is compared with the number of rows.
WriteCells(c) ==
  LET count == c.r.cx
      room == IF cursor.x < Rows THEN Rows - cursor.x ELSE count + 1
      n == IF count < room THEN count ELSE room
      cell(k) == CellAt(cursor.x, cursor.y) + k IN
  /\ Is(c, 16, 9)
  /\ mem' = [a \in cell(0) .. cell(2 * n - 1) |->
               IF a % 2 = 0 THEN Lo(c.r.ax) ELSE Lo(c.r.bx)] ++ Given(c)
  /\ cursor' = [cursor EXCEPT !.x = IF n = room THEN Rows - 1 ELSE @ + n]
  /\ Returns(c.r) /\ UNCHANGED attr

Teletype(c) ==
  /\ Is(c, 16, 14)
  /\ ScreenBecomes(PutChar(Screen(Given(c)), Lo(c.r.ax), attr))
  /\ Returns(c.r) /\ UNCHANGED attr

GetVideoMode(c) ==
  /\ Is(c, 16, 15)
  /\ Answers(c, [c.r EXCEPT !.ax = HiLo(Cols, 3), !.bx = HiLo(Hi(@), 0)])

ToggleBlink(c) ==
  /\ c.int = 16 /\ c.r.ax = 4099
  /\ attr' = (attr + 128) % 256
  /\ Returns(c.r) /\ mem' = Given(c) /\ UNCHANGED cursor

GetBlanking(c) == Is(c, 16, 18) /\ Answers(c, [c.r EXCEPT !.bx = Lo(@)])

VideoUnknown(c) ==
  /\ c.int = 16
  /\ \/ Hi(c.r.ax) \notin {0, 1, 2, 3, 5, 6, 8, 9, 14, 15, 16, 17, 18}
     \/ Hi(c.r.ax) \in {16, 17} /\ c.r.ax \notin {4097, 4099, 4356}
  /\ Ends(c, "stopped")

Int10(c) ==
  \/ SetVideoMode(c) \/ VideoIgnored(c) \/ SetCursor(c) \/ GetCursor(c) \/ ScrollUp(c)
  \/ ReadCell(c) \/ WriteCells(c) \/ Teletype(c) \/ GetVideoMode(c) \/ ToggleBlink(c)
  \/ GetBlanking(c) \/ VideoUnknown(c)

-----------------------------------------------------------------------------
(* INT 13h.                                                                *)

HasDisk(disk) == disk = 0

\* What fseek and fread leave in memory and return, for count sectors from lba.
\* Before the start fseek fails, and the buffer is cleared; behind the end there
\* is nothing; the bytes of an incomplete last sector are stored and not counted.
\* A floppy that could not be opened ends the host.
ReadDiskLBA(m, disk, lba, count, at) ==
  LET have == Len(floppy) - lba * SectorSize
      wanted == count * SectorSize
      n == IF have < wanted THEN have ELSE wanted
      got == IF ~HasDisk(disk) THEN <<>>
             ELSE IF lba < 0 THEN [k \in 1..wanted |-> 0]
             ELSE IF lba > Len(floppy) \div SectorSize THEN <<>>
             ELSE SubSeq(floppy, lba * SectorSize + 1, lba * SectorSize + n)
  IN  [ret |-> IF lba < 0 THEN 0 ELSE Len(got) \div SectorSize,
       wild |-> HasDisk(disk) /\ (floppy = NoFloppy \/ at + Len(got) > MemTop),
       mem |-> Bytes(at, got) ++ m]

\* Mutant: the heads of a cylinder are taken for its sectors.
LbaHeadsForSectors(cyl, head, sect) == cyl * SPT * SPT + head * SPT + sect - 1

Lba(cyl, head, sect) == cyl * NHead * SPT + head * SPT + sect - 1

Reads(c, out, regs) ==
  IF out.wild THEN Ends(c, "wild")
  ELSE Returns(regs) /\ mem' = out.mem /\ UNCHANGED <<cursor, attr>>

ResetDisk(c) ==
  Is(c, 19, 0) /\ Answers(c, [c.r EXCEPT !.cf = FALSE, !.ax = Lo(@)])

ReadsNothing(c) == (c.r.ax % 64) = 0
Cylinder(c) == Hi(c.r.cx) + 256 * (Lo(c.r.cx) \div 64)
Sector(c) == Lo(c.r.cx) % 64
OffDisk(c) ==
  ~HasDisk(Lo(c.r.dx)) \/ Cylinder(c) >= NCyl \/ Hi(c.r.dx) >= NHead \/ Sector(c) > SPT

ReadSectors(c) ==
  LET count == Lo(c.r.ax)
      out == ReadDiskLBA(Given(c), 0, Lba(Cylinder(c), Hi(c.r.dx), Sector(c)), count,
                         c.r.es * 16 + c.r.bx) IN
  /\ Is(c, 19, 2)
  /\ \/ ReadsNothing(c) /\ Answers(c, [c.r EXCEPT !.cf = TRUE])
     \/ ~ReadsNothing(c) /\ OffDisk(c)
        /\ Answers(c, [c.r EXCEPT !.cf = TRUE, !.ax = HiLo(1, @)])
     \/ ~ReadsNothing(c) /\ ~OffDisk(c)
        /\ Reads(c, out, IF out.ret = count THEN [c.r EXCEPT !.cf = FALSE, !.ax = Lo(@)]
                         ELSE [c.r EXCEPT !.cf = TRUE, !.ax = HiLo(Hi(@), out.ret)])

DriveParameters(c) ==
  /\ Is(c, 19, 8)
  /\ Answers(c, IF ~HasDisk(Lo(c.r.dx)) THEN [c.r EXCEPT !.cf = TRUE]
                ELSE [c.r EXCEPT !.cf = FALSE, !.ax = 0, !.bx = HiLo(Hi(@), 4),
                        !.cx = HiLo(NCyl - 1, SPT + 64 * ((NCyl - 1) \div 256)),
                        !.dx = HiLo(NHead - 1, 1), !.es = 61696, !.di = 0])

DiskType(c) ==
  /\ Is(c, 19, 21)
  /\ Answers(c, IF ~HasDisk(Lo(c.r.dx))
                THEN [c.r EXCEPT !.cf = FALSE, !.ax = Lo(@), !.cx = 0, !.dx = 0]
                ELSE [c.r EXCEPT !.cf = FALSE, !.ax = HiLo(2, @),
                                 !.cx = SPT * NHead * NCyl, !.dx = 0])

DiskChanged(c) == Is(c, 19, 22) /\ Answers(c, [c.r EXCEPT !.cf = FALSE, !.ax = Lo(@)])

\* LBAStart, eight bytes, cut to an int.
CutToInt(m, at) ==
  LET high == Word(m, at + 2) IN
  Word(m, at) + 65536 * (IF high < 32768 THEN high ELSE high - 65536)

\* The blocks whose bytes an int can count.  For another block the product
\* LBAAddr * 512 overflows: it is wide enough, or comes round.
IntSectors == 2147483647 \div SectorSize + 1
Seeks(lba) ==
  LET w == lba % (2 * IntSectors) IN
  IF lba \in -IntSectors .. IntSectors - 1 THEN {lba}
  ELSE {lba, IF w < IntSectors THEN w ELSE w - 2 * IntSectors}

\* The packet at DS:SI: Size, Rsvd, Count, Buffer, LBAStart.
ExtendedRead(c) ==
  LET at == c.r.ds * 16 + c.r.si
      m == Given(c)
      count == Word(m, at + 2)
      laddr == Word(m, at + 6) * 16 + Word(m, at + 4)
      out(lba) == ReadDiskLBA(m, Lo(c.r.dx), lba, count, laddr) IN
  /\ Is(c, 19, 66)
  /\ IF laddr + count * SectorSize > MemTop
     THEN Answers(c, [c.r EXCEPT !.cf = TRUE, !.ax = HiLo(187, @)])
     ELSE \E lba \in Seeks(CutToInt(m, at + 8)) :
            Reads(c, out(lba), [c.r EXCEPT !.cf = FALSE, !.ax = Lo(@)])

DiskUnknown(c) ==
  /\ c.int = 19 /\ Hi(c.r.ax) \notin {0, 2, 8, 21, 22, 66}
  /\ Ends(c, "stopped")

Int13(c) ==
  \/ ResetDisk(c) \/ ReadSectors(c) \/ DriveParameters(c) \/ DiskType(c)
  \/ DiskChanged(c) \/ ExtendedRead(c) \/ DiskUnknown(c)

-----------------------------------------------------------------------------
(* The other interrupts.                                                   *)

DebugException(c) == c.int = 3 /\ Ends(c, "exited")
Equipment(c) == c.int = 17 /\ Answers(c, [c.r EXCEPT !.ax = 81])
MemorySize(c) == c.int = 18 /\ Answers(c, [c.r EXCEPT !.ax = 639])

\* No disk to boot from, or a reboot.
Reboot(c) ==
  /\ c.int \in {24, 25}
  /\ ScreenBecomes(Bios_PutString(Screen(Given(c)), BootError, 4))
  /\ state' = "stopped" /\ r' = c.r /\ UNCHANGED attr

bcd_byte(v) == (v % 10) + 16 * ((v \div 10) % 10)

\* The time since midnight in ticks, the time, or the date.
TimeAt(t, regs) ==
  LET ticks == ((t.hour * 3600 + t.min * 60 + t.sec) * 182) \div 10 IN
  CASE Hi(regs.ax) = 0 -> [regs EXCEPT !.ax = HiLo(0, 0), !.cx = ticks \div 65536,
                                       !.dx = ticks % 65536]
    [] Hi(regs.ax) = 2 -> [regs EXCEPT !.cf = FALSE, !.dx = HiLo(bcd_byte(t.sec), t.isdst),
                                       !.cx = HiLo(bcd_byte(t.hour), bcd_byte(t.min))]
    [] Hi(regs.ax) = 4 -> [regs EXCEPT !.cf = FALSE,
                             !.cx = HiLo(bcd_byte(t.year \div 100 + 19), bcd_byte(t.year % 100)),
                             !.dx = HiLo(bcd_byte(t.mon + 1), bcd_byte(t.mday))]

\* Nothing sets the clock.
Clock(c) ==
  LET ah == Hi(c.r.ax) IN
  /\ c.int = 26
  /\ \/ ah \in {1, 3, 5} /\ Answers(c, c.r)
     \/ ah \in {0, 2, 4} /\ \E t \in Clocks : Answers(c, TimeAt(t, c.r))
     \/ ah > 5 /\ Ends(c, "stopped")

BiosCall(c) ==
  \/ Int10(c) \/ Int13(c)
  \/ DebugException(c) \/ Equipment(c) \/ MemorySize(c) \/ Reboot(c) \/ Clock(c)
=============================================================================
