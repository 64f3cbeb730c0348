----------------------------- MODULE MCServices -----------------------------
(***************************************************************************)
(* A screen of four columns and three rows, a disk of two cylinders, two   *)
(* heads and three sectors of four bytes, blocks of 256 bytes, and five    *)
(* entries of the file table.  Each guest uses one service over and over;  *)
(* `odd' makes any single call, the ones that end the emulator too.        *)
(***************************************************************************)
EXTENDS DosServices

Regs == [ax |-> 0, bx |-> 0, cx |-> 0, dx |-> 0, si |-> 0, di |-> 0, ds |-> 8192,
         es |-> 12288, cf |-> TRUE]
Does(n, regs) == [int |-> n, mem |-> <<>>, r |-> regs @@ Regs]
DoesWith(n, at, bytes, regs) == [Does(n, regs) EXCEPT !.mem = Bytes(at, bytes)]
Ax(h, l) == [ax |-> HiLo(h, l)]

\* INT 10h.
Tty(ch) == Does(16, Ax(14, ch))
CursorTo(x, y) == Does(16, [ax |-> 512, dx |-> HiLo(y, x)])
Clear(tx, ty, bx, by) == Does(16, [ax |-> 1536, bx |-> 1792, cx |-> HiLo(ty, tx), dx |-> HiLo(by, bx)])
Cells(n) == Does(16, [ax |-> HiLo(9, 67), bx |-> 7, cx |-> n])

TtyCalls == {Tty(65), Tty(10), Tty(13), Tty(8)}
ScreenCalls ==
  TtyCalls \cup {CursorTo(0, 0), CursorTo(3, 2), CursorTo(2, 1), CursorTo(6, 1),
                Clear(1, 0, 2, 1), Clear(0, 0, 79, 24), Clear(2, 0, 1, 1), Cells(1), Cells(4),
                Does(16, Ax(16, 3)), Does(16, Ax(8, 0)), Does(16, Ax(3, 0)), Does(24, Ax(0, 0))}

\* INT 13h.  The packet is at 2000:0010.
Sectors(al, cyl, head, sect, disk, es, bx) ==
  Does(19, [ax |-> HiLo(2, al), cx |-> HiLo(cyl, sect), dx |-> HiLo(head, disk), es |-> es, bx |-> bx])
Packet(count, ofs, seg, lba, disk) ==
  DoesWith(19, 131088, <<16, 0>> \o WordBytes(count) \o WordBytes(ofs) \o WordBytes(seg)
                      \o FoldLeft(LAMBDA s, w : s \o WordBytes(w), <<>>, lba), [ax |-> 16897, si |-> 16, dx |-> disk])
\* Numbers of blocks in four words: behind the disk, of more than 32 bits, the
\* last one that is counted, negative as an int, and three that overflow.
Blocks ==
  {<<1, 1, 0, 0>>, <<3, 0, 1, 0>>, <<3, 0, 0, 32768>>, <<65533, 8191, 0, 0>>,
   <<65533, 65535, 65535, 65535>>, <<0, 8192, 0, 0>>, <<1, 16384, 0, 0>>, <<2, 49152, 0, 0>>}
DiskCalls ==
  {Sectors(al, cyl, head, sect, 0, 12288, 2 * al) :
     al \in {1, 3}, cyl \in 0..2, head \in 0..2, sect \in 0..4}
  \cup {Sectors(al, 0, 0, 1, disk, 12288, 0) : al \in {0, 64, 200}, disk \in {0, 1}}
  \cup {Sectors(5, 0, 0, 1, 0, 65535, ofs) : ofs \in {65512, 65535}}
  \cup {Sectors(1, 0, 0, 65, 0, 12288, 0)}
  \cup {Packet(count, ofs, 12288, lba, disk) :
          count \in {0, 1, 2}, ofs \in {0, 6}, lba \in {<<k, 0, 0, 0>> : k \in {0, 3, 11, 12}},
          disk \in {0, 1}}
  \cup {Packet(2, 6, 12288, lba, 0) : lba \in Blocks}
  \cup {Packet(6, ofs, 65535, <<1, 0, 0, 0>>, 0) : ofs \in {65512, 65535}}
  \cup {Does(19, [dx |-> disk] @@ Ax(ah, 1)) : ah \in {0, 8, 21, 22}, disk \in {0, 1}}

\* INT 21h.  Names lie at 2000:0000 or, across two blocks, at 2000:00FE.
Open(at, name) == DoesWith(33, 131072 + at, Append(name, 0), [ax |-> 15616, dx |-> at])
Close(h) == Does(33, [ax |-> 15872, bx |-> h])
A == <<97>>
BC == <<98, 99>>
FileCalls ==
  {Open(at, name) : at \in {0, 3}, name \in {A, BC, <<98>>, <<>>}}
  \cup {Close(h) : h \in {1, 3, 4, 5}} \cup {Does(33, [ax |-> 17408, bx |-> 4])}

OddCalls ==
  {Does(n, Ax(ah, al)) : n \in {3, 16, 17, 18, 19, 24, 25, 26, 47}, ah \in 0..24 \cup {66, 67},
                        al \in {0, 1, 3, 4}}
  \cup {Does(33, Ax(ah, al) @@ [cx |-> cx, es |-> es]) :
          ah \in {37, 48, 53, 64, 68, 74, 76, 86}, al \in {0, 1}, cx \in {0, 4}, es \in {4080, 12288}}
  \cup {Does(33, [ax |-> 17408, bx |-> h]) : h \in {0, 1, 2, 3, 6, 300}}
  \cup {Does(33, [ax |-> 16384, cx |-> 40, ds |-> 65535, dx |-> 65530]), Does(47, [ax |-> 17152])}
  \cup {Open(254, BC), Open(0, A), [Open(0, A) EXCEPT !.r.ax = 15617]}
  \cup {DoesWith(33, 131072, [k \in 1..1024 |-> IF k = z THEN 0 ELSE 1], [ax |-> ax]) :
          z \in {0, 200, 300, 1024}, ax \in {15616, 22016}}
VectorCalls ==
  {Does(33, [ax |-> HiLo(37, n), bx |-> 770, es |-> 8224]) : n \in {16, 17}}
  \cup {Does(33, Ax(53, n)) : n \in {16, 17, 18}}

\* Files to start from: the header, two entries to relocate by, and the data.
Exe(last, blocks, relocs, paras, minextra, tablesize, size) ==
  FoldLeft(LAMBDA s, w : s \o WordBytes(w), <<>>,
           <<23117, last, blocks, Len(relocs), paras, minextra, 65535, 1, 32, 0, 4, 2, 28, 0>>)
  \o FoldLeft(LAMBDA s, w : s \o WordBytes(w), <<>>, [k \in 1..2 * Len(relocs) |->
       relocs[(k + 1) \div 2][2 - (k % 2)]])
  \o [k \in 1..size |-> (3 * k) % 256]
Files1 ==
  {Exe(last, 1, rel, 3, 2, 0, size) :
     last \in {60, 100, 0}, size \in {40, 500},
     rel \in {<<>>, <<<<2, 0>>>>, <<<<3, 0>>, <<3, 0>>, <<0, 1>>>>, <<<<255, 0>>, <<20, 14>>>>}}
  \cup {Exe(200, 2, <<<<15, 15>>, <<255, 15>>>>, 3, 0, 0, 660),
        Exe(0, 0, <<>>, 0, 0, 0, 0), Exe(0, 0, <<>>, 3, 0, 0, 40), <<77, 90>>,
        Exe(60, 1, <<>>, 30, 0, 0, 40), Exe(600, 1, <<>>, 2, 0, 0, 572), [Exe(60, 1, <<>>, 3, 0, 0, 40) EXCEPT ![1] = 0],
        [Exe(40, 1, <<>>, 2, 0, 0, 12) EXCEPT ![7] = 9]}

Tiny == Exe(60, 1, <<>>, 3, 2, 0, 40)
Guest(kind, file, menu, n) == [kind |-> kind, file |-> file, menu |-> menu, n |-> n]
MCGuests ==
  {Guest("exe", Tiny, "tty", 8), Guest("exe", Tiny, "screen", 3),
   Guest("floppy", <<>>, "disk", 2), Guest("exe", Tiny, "files", 4),
   Guest("exe", Tiny, "vectors", 3), Guest("exe", Tiny, "odd", 1)}
  \cup {Guest("binary", file, "none", 0) : file \in {<<>>, <<1>>}}
  \cup {Guest("exe", file, "none", 0) : file \in Files1}
MCCalls ==
  [tty |-> TtyCalls, screen |-> ScreenCalls, disk |-> DiskCalls, files |-> FileCalls,
   vectors |-> VectorCalls, odd |-> OddCalls, none |-> {}]

Image(n) == [k \in 1..n |-> IF k = 3 THEN 85 ELSE IF k = 4 THEN 170 ELSE 10 + k]
MCFloppies == {NoFloppy, Image(48), Image(46), <<1, 2>>}
MCNames == {A, BC}
MCGreeting == <<82, 13, 10>>
MCBootError == <<13, 10, 66, 33>>
MCClocks == {[hour |-> 23, min |-> 59, sec |-> 8, isdst |-> 1, year |-> 126, mon |-> 11, mday |-> 31]}
=============================================================================
