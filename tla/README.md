# A TLA+ verification of the Realmode Emulator

This directory models the Realmode Emulator (RME), an 8086/80286/386 real mode
interpreter in C, and its host program `nativetest`, a small PC with an
emulated BIOS and DOS. TLC checks the models on small machines; TLAPS proves the
central results for machines of every size. `PROJECT.json` maps every
definition to the lines it models and lists the runs, the seeded bugs that show
each property can fail, the disagreements found, and the theorems.

## The system and its parts

| Part | State it keeps | Operations | What makes it correct |
|---|---|---|---|
| Control transfer (`src/rme.c` 119-226, `ops_call.c`, `ops_jump.c`, `ops_stack.c`) | CS:IP, FLAGS, SS:SP, the guest's stack and vectors in memory, `bDontChangeIP` | `RME_CallInt`, `RME_Call`, `RME_RunOne`, HLE dispatch, the divide error, CALL/RET/INT/IRET, PUSH/POP | every return finds the address its call saved; SP is balanced; the host's call ends exactly when everything has been returned from |
| Decoder (`rme.c` 231-336, `prefixes.c`, the opcode table) | `State->Decoder`, `bWasLastOperationNull` | the prefix loop, the commit of IP, the search for executed zeroes | IP moves only past whole, successful instructions; prefixes affect one instruction |
| Operands and moves (`rme.c` 353-978, `ops_mov.c`, `ops_stack.c`, `ops_misc.c`) | the registers; a reference (`struct ValueRef`) lives for one instruction | ModRM and SIB addresses, reads and writes through them, MOV, XCHG, LEA, LDS.., PUSH and POP of anything, the indirect CALL and JMP | the address and segment the processor would use; a move copies what it names, all of it or nothing but SP |
| Guest memory (`rme.c` 981-1107) | `Memory[]` blocks, `MemoryTouched[]` | `RME_Int_ReadBytes`, `RME_Int_WriteBytes`, `RME_GetPtr` | a flat array of bytes, whatever the blocks |
| Arithmetic (`ops_alu.*`, `ops_misc.c`) | registers, FLAGS | one function per instruction | results and flags of the processor |
| String instructions (`ops_string.c`) | CX, SI, DI, FLAGS | seven instructions with REP and REPNZ | one element after the other, with counts that agree with what was done |
| Main loop of `nativetest` (`main.c` 293-346) | `gaMemory`, `gaMemory_prev` | run, compare memory, clear flags, poll the UI | the comparison misses no change |
| Key buffer, INT 16h (`main.c` 523-591, `hle_bios.c` 490-538) | `gKeyBuffer`, `gKeyBufferPos` | push, peek, pop, wait | keys come out in the order they went in; waiting ends |
| User interfaces (`ui_tty.c`, `ui_sdl.c`) | terminal, stdio and SDL queues, `gbIsRedrawing` | poll, wait, the redraw timer on its own thread | input is not stranded; one redraw at a time |
| BIOS services (`hle_bios.c`) | cursor, attribute, video page, floppy image | INT 10h, 11h, 12h, 13h, 18h, 19h, 1Ah | the cursor and what is written stay on the screen; a read delivers the sectors asked for, or says how many are missing |
| DOS services and loader (`hle_dos.c`, `main.c` 131-291) | file table, program loaded | INT 21h, `LoadDosExe`, BIOS image, boot sector | a program lies where its registers point; handles name open files and are not given out twice |
| Test kernel, `mini_test`, comparison tools | none of their own | clients of the emulator | - |

The emulator is one thread and calls back into the host: `RME_RunOne` runs one
instruction, or the host's HLE callback when CS is `RME_HLE_CS`; callbacks change
registers, push characters to the screen and wait for keys. The host loop polls
the user interface between instructions. The only other thread is the redraw
timer of SDL. What is hard here is therefore less concurrency than *partial
failure* (any memory access may fail between two halves of an operation), *long
legal sequences* (nested calls, interrupts and traps over one stack), *limits*
(SP, block and buffer ends) and *shared state nobody owns* (touched flags, the
saved memory, stdio's buffer). `PROJECT.json` lists each hazard at its line.

## Modules

* `CallStack` - abstract: what control transfer promises. A context (CS, IP,
  FLAGS), one register, and a stack of pending transfers; a return gives back
  exactly what the newest matching transfer saved.
* `RmeControl` - one step is one `RME_RunOne` (or a call of the host). The
  stack is `Size` words of memory with SP wrapping below zero; `Pushed`,
  `PushFails`, `Popped`, `PopFailsAt` are the PUSH and POP macros with every
  place a store or load can fail. `frames` and `base` are history: what the
  guest has on its stack. The guest is any program with a stack discipline
  (returns match calls, pops match pushes, the stack is not overrun); programs
  without one defeat every property of any processor, so only the guards that
  express the discipline read `frames`. Jumps, other instructions, vectors set
  by guest and host, and errors are nondeterministic.
* `RmeMemory` - one step is one block access of `RME_Int_ReadBytes` or
  `RME_Int_WriteBytes`, or one `RME_GetPtr`. `addr`, `len`, `pos`, `head`, `buf`,
  `data` are the locals; `last`, `start`, `total`, `before` are history of what was
  asked. A block has memory, or is served by a callback (which may exist only
  for reads, say, and may fail), or fails.
* `NativeLoop` extends `RmeMemory` with the host loop: `MemoryTouched` selects the
  blocks compared with `gaMemory_prev`, then all flags are cleared; callbacks
  also write `gaMemory` directly (`CallbackWrites`).
* `RmeOperands` - one step is one instruction of a short program, given by the
  bytes after its opcode. `GetMMM`, `DecodeModM` and `Memory` make the reference a
  ModRM byte names; moves, pushes, pops, pointer loads and the indirect
  transfers read and write through it, two accesses for a double word, each
  of which may meet a block without memory or one that cannot be written. A
  step's result is the whole state it leaves, the fault's included.
* `RmeMoves` - what those instructions are for: the address by the processor's
  manual, and a move as a set of copies that happen at once.
* `BiosServices` - one step is one HLE callback. Memory is sparse: the bytes
  written since `main` filled it. A use of memory that is not the guest's is the
  state "wild"; a failed assertion is "aborted".
* `DosServices` extends `BiosServices` with the start of a guest (a DOS program, a
  BIOS image, the boot sector, nothing) and INT 21h. `held` is history: the
  handles the guest has been given and has not given back.
* `KeyBuffer` - the key buffer and INT 16h. `guest` is where the emulator's
  thread is: in `RME_RunOne`, waiting for a key inside it, polling, stopped.
* `HostInput` extends `KeyBuffer` with both interfaces. The terminal has two
  places for characters, because `select` sees one and `getc` the other; the
  timer's test-and-set and its push are two steps of another thread.
* `RmeString` - one step is one round of the loop between `STRING_HEAD` and
  `STRING_FOOTER`. `srcOfs` and `destOfs` are the macros' locals; every read,
  write or port callback may fail at any byte. One instruction runs, from any
  registers and memory: between two instructions there is nothing else. Of the
  flags of CMPS and SCAS it keeps the two that tell order and equality.
  `first`, `done` and `io` are history.
* `RmeDecode` - one step is one fetch of `RME_Int_DoOpcode` or of the function it
  calls, or the end of the instruction. Bytes are kinds: a prefix, an opcode
  whose function reads a ModRM byte, an immediate, a second byte, memory. The
  model commits IP, looks for executed zeroes, and passes through the divide
  error, HLE calls and the host's next call. `start`, `fetched`, `fault`, `moved`
  and `zeroes` are history.
* `RmeAlu` - one step is one arithmetic instruction on two registers, which stand
  for a destination and its other half (AL and AH, AX and DX) or for two
  destinations. A program is a short sequence, so that flags one instruction
  leaves reach the next: ADC after ADD, DAA after ADD, DIV after MUL, SAHF after
  LAHF. Formulas of the macros are kept as they are, sizes of C types and
  undefined shifts included; the properties state the arithmetic they should
  come to.
* `RmeControl_proof`, `NativeLoop_proof` (with memory's), `HostInput_proof`,
  `RmeDecode_proof`, `RmeString_proof`, `RmeMoves_proof`, `RmeAlu_proof`,
  `DosServices_proof` - the theorems. `MC*` - the small instances for TLC.

## Runs

| Run | Checks | Bounds and why they suffice |
|---|---|---|
| `control` | `TypeOK`, `FramesIntact`, `StackBalanced`, `CallsUnwound`, refinement `Implements` of `CallStack` | Six words of stack starting at SP = 0, so the first push wraps; two interrupts nest; one word may have no memory, so each push and pop of a frame can fail; vectors that cannot be read in either half; four word values keep CS, IP, FLAGS and data confusable. One value of FLAGS and register left by plain instructions: their values are distinguished by what is pushed. |
| `loop` | `MemTypeOK`, `BlockBounds`, `FlatRead`, `FlatWrite`, `RefExact`, `ChangesAreFlagged` | Three blocks of two bytes and accesses up to four, so an access has a head, a whole block and a tail; the middle block may be missing or be served by callbacks. Segments and offsets 0..1 with paragraphs of one byte reach each alignment. Two accesses per instruction (`MaxAccesses`): a write, then something that could overwrite its flag. Callbacks write at one address (`Direct`). |
| `input` | `TypeOK`, `KeysInOrder`, `OneRedraw`, `PeekedIsPopped`, `KeyWakesGuest` | A buffer of three keys, an event queue of two and five key presses (`MaxPresses`): both overflow. Characters: one that makes no key, upper and lower case, one that ends the program. |
| `input_pop` | `PopRemoves`, violated | same machine |
| `string` | `StringTypeOK`, `Accounted`, `WritesExact`, `PatternRepeats`, `RepeatEnds`, `ReadsInOrder` | Segments of eight bytes, two of them four bytes apart; elements of one and two bytes, up to four of them, going up and down; offsets at both ends of a segment, two an element apart (overlapping copies), one with an upper half; a byte without memory. Every instruction, prefix and address size. |
| `decode` | `TypeOK`, `PrefixesLocal`, `CommitExact`, `ZeroesCaught` | Four bytes of code of nearly any kind, so that prefixes may fill the segment and instructions wrap; one byte may have no memory; stores hit the code. |
| `alu` | `WideSums`, `OrderDecided`, `FlagsDescribe`, `ShiftsExact`, `DivisionExact`, `DecimalExact` | Real bytes; words of 9 and double words of 15 bits, so that a product of double words is still a number of TLC. Operands at the ends and in the middle of the unsigned, signed and decimal ranges and of the nibble; counts at, below and above every width and above 31. Every instruction alone, and the sequences guests build on. |
| `alu_overflow` | `OverflowFlagged`, violated | same machine |
| `operands` | `AddressExact`, `MovesExact`, `FaultsContained`, `StackRestores` | Every mode and base of a 16-bit address and of a 32-bit one with and without SIB byte, with a positive and a negative displacement; every instruction on an operand in a register, before and across the end of a block; pushes and pops in pairs. Three register files and two segment files make sums wrap, SP cross 0 and numbers carry; the missing blocks lie in the middle of an operand, on the stack and above 1 MB. Double words in addresses have their highest byte below 8 (`Top`), which keeps sums within TLC's numbers. |
| `operand_ref` | `RefsHold21Bits`, violated | same machine |
| `services` | `LoadExact`, `ScreenContained`, `ReadsReported`, `HandlesExact` | A screen of four columns and three rows, a disk of two cylinders, two heads and three sectors of four bytes, blocks of 256 bytes, five file table entries. Each guest makes several calls of one kind (screen, disk, files, vectors) so that lines fill, columns and rows run over, the file table fills; any call once, those that end the emulator too. Packets of AH=42 name blocks on the disk, past it, below zero and too large for an int. Programs and images of every refused and accepted shape, one with a header that counts more bytes in its last block than a block has. |
| `exe_reloc` | `RelocsFollowImage`, violated | same machine |

`CHECK_DEADLOCK FALSE` is set where the system may stop: the guest's stack
discipline leaves a program no step it could take, the loop ends on an error,
the one string instruction is over, the program exits.

**Fairness** is assumed only in `HostInput`: the emulator's thread and the timer's
thread are scheduled (weak fairness of each). The user need not do anything.
`KeyWakesGuest` needs no more: SDL's queue and `getc` hand out input in order, and
INT 16h loops until there is a key.

## What the violated properties say

* `PopRemoves`: `Input_Pop` hands out the newest entry and removes the oldest.
* `RefsHold21Bits`: a reference is turned back into a 16-bit segment, which has no
  room for bit 20. A store to FFFF:0010 lands at address 0.
* `RelocsFollowImage`: relocations add the segment of the PSP, while the image is
  0x10 paragraphs above it.
* `OverflowFlagged`: ADD and ADC of 8 and 16 bits leave OF clear in the forms that
  are not typed, where Artlav's `add.asm` expects it (#5 and #19). `_ALU_SMASK`
  takes the size of a reference for that of the operand.

## Where the code departs from the machine it emulates

The models keep every one of the following; a property that would be false of
one names and excludes it. Six of them contradict a text of the repository, and
no run of their own shows them:

* `ops_alu.h` 221 says of MUL "CF,OF set if upper bits set"; the byte form tests
  the bits above 16 and never sets them. `DivisionExact` leaves out its flags.
* `ops_alu.h` 23-26 says of a subtraction that CF is set on "an unsigned overflow"
  and AF on "a carry from the low nibble". SBB adds the borrow to the operand
  first: the 32-bit form loses CF when it subtracts all ones and a borrow, and AF
  and OF are wrong where the borrow crosses the nibble or the sign. `WideSums`
  leaves out the first; `FlagsDescribe` does not speak of SBB.
* `rme_internal.h` 327 says of an operand within 16 bytes of the segment's end
  "Either wrap (<286) or fault (286)"; 32-bit addresses above 0xFFFF do neither
  and reach past the segment. `AddressExact` excepts them (`OtherAddr`).
* `main.c` 216 says a BIOS image "Must be at least 16 bytes long, in order for the
  entrypoint to be populated"; the test below it refuses every image that is.
  `Boot` starts the empty one only.
* `rme.h` 75 defines `RME_ERR_BADMEM` as "Emulator accessed invalid memory"; that the
  ModRM byte of a group could not be read is ignored (`rme.c` 265): 0xFF as the
  last byte of memory is read again as its own ModRM byte, and runs as INC DI.
  `CommitExact` allows for it.
* `ui_common.h` 13 says of `poll_events` "Poll for new input events, updating the
  keyboard"; `select` on the terminal's descriptor does not see what stdio has
  buffered (`ui_tty.c` 115), so a character typed with another may wait for the
  next key.

The others, by part:

*Control.* INT refuses a vector of 0000:0000; `RME_CallInt` and the divide error go
through `RME_int_CallInt`, which does not.

*Decoder.* `bWasLastOperationNull` is written only by an instruction that succeeds, so it
outlives errors, divide errors and HLE calls, and a 00 00 after one of those may
be reported as the second. The opcode 0xF1 ("unset memory") returns a literal 7
(`rme.c` 254), the value of `RME_ERR_BREAKPOINT` that executed zeroes return, so
the host cannot tell them apart. `ZeroesCaught` states what does hold.

*Arithmetic.* ADD, ADC, SBB and MUL: see above. AF of NEG looks at three bits. ROL
and ROR by a whole width, such as a byte by 8, leave CF as it was, which
`ShiftsExact` excepts. IMUL with an immediate multiplies without sign, which only its
flags show. The 32-bit IDIV always raises the divide error, and -2^31 / -1 or
-2^63 / -1 trap in the host. SHLD and SHRD never write their result back. BT,
BTS, BTR and BTC are refused: `Ext_0F` passes them a parameter of 0.

*Operands.* [BP+SI] and [BP+DI] without displacement use DS; of the 32-bit forms,
those with EDX, EBX or ESI and a displacement use SS while EBP and ESP use DS. A
byte of displacement is extended to 16 bits only, and four bytes are cut to
two (`OtherSegment`, `OtherDisp`). The displacement is read before the SIB byte
that it follows; with base 5 and mod 0 four bytes are read and never added. The
wide POP ESP reads its second half from the new stack, the wide PUSH of an immediate pushes two bytes of it and zeroes, and FF /6 on a
double word pushes its lower half. MOV with segment register 6 or 7
dereferences a null pointer. `_LDS_LES_internal` ignores the error of the
operand and leaves the new offset in the register when the segment cannot be
read.

*Main loop.* BIOS callbacks write `gaMemory` without a touched flag, so
`gaMemory_prev` does not follow them; `ChangesAreFlagged` excepts them.

*BIOS.* The last row does not scroll: what follows overwrites it. AH=06 lets its
lower corner lie one past the screen, and writes an attribute of 0. AH=09
compares its column with the number of rows and runs on into the next line from
column 25; `ScreenContained` leaves such calls out (`Proper`). Sector 0 reads the
sector before, or clears the buffer. AH=42 reports success whatever was read, and cuts its block number to an int that it
multiplies by 512: numbers past the disk may come round to blocks on it
(`CutToInt`, `Seeks`). `ReadsReported` says for those that only the buffer changes.
AH=02 does not ask whether the buffer is in memory. `main` writes the geometry of the drive into the second entry of the disk
information and leaves the first without.

*DOS.* The PSP is cleared by eight bytes only, so its command tail keeps a length
of 0xF1. A relocation that lies outside the image writes past its buffer. A
name that starts with a NUL at the end of a segment, or crosses a block, ends
the emulator, as does any write.

## Proofs

`RmeControl_proof` proves, from the assumptions of `RmeControl` (any words, code,
vectors, errors, stack of at least three words, any set of holes):
`Invariance`, `TypeCorrect`, `FramesStayIntact`, `StackStaysBalanced`, `CallsUnwind`.
The properties are not inductive by themselves. `IInv` adds `Stacked` (frames lie
one on the other and fit), `Returns` (the oldest frame returns to the magic
address and every other transfer into guest code) and `Located` (vectors lead to
code, to HLE or astray, never to the magic address; the machine is there only
with nothing pending, and in the HLE segment only with an interrupt on top). The
argument runs from the arithmetic of SP modulo `Size` (`BelowBelow`,
`AboveBelow`) over pushes that keep what lies above them (`StoredKeeps`) and
returns that find what was saved, to one lemma per action.

The same module proves `Refines`: `Spec => Implements`. Each action is mapped to
the step of `CallStack` it is: an interrupt of the host to `Begin`, a pop that
finds its word to `Pop`, any fault to `Fail`, the host's change of a vector to a
stutter. The one fact that is not bookkeeping is `PeekTop`: with `IInv` the words
a return reads are those its call saved. `PendWith` and `PendRest` say how the
abstract stack grows and shrinks with `frames`.

`NativeLoop_proof` proves of memory, for every block size, number of blocks, paragraph,
length, layout and pair of callbacks: `MemInvariance`, `MemTypeCorrect`,
`AccessesStayInBlocks`, `ReadsAreFlat`, `WritesAreFlat`, `RangesAreExact`. The
invariant adds `Progress`, which says where an access under way stands; the key
lemma is `PieceFits`: a piece makes progress, stays in its block and the next
one, if any, starts a block.

Assumed: no access reaches past the last block (`ReachAssumption`), which holds
in the code because 0xFFFF0 + 0xFFFF + 16 < 0x110000 and instructions access at
most four bytes. Ranges asked of `RME_GetPtr` are assumed to end in memory: the
code does not check.

Of the loop it proves `NoChangeEscapes`: the memory comparison misses no write of
the guest, for any memory and any number of accesses per instruction. It is
inductive together with the invariant of memory: the step that writes a piece
also sets the flag, and the piece lies in the block it flags.

`HostInput_proof` proves `InputTypeCorrect`, `KeysComeInOrder`, `OneRedrawAtATime`
and `PeekedComesOut` for any buffer, queue and number of keys. Its invariant adds
that the buffer holds the last of the keys typed, in order (`InOrder`), that what AH=01 told the guest is what AH=00 would give now (`ToldIsNext`) and
that queued events are events; while the redraw flag is clear no redraw is queued,
under way, or about to be queued by the timer's thread.

`RmeDecode_proof` proves `DecodeInvariant`, `DecoderTypes`, `PrefixesAreLocal`,
`CommitsExactly` and `ZeroesAreCaught` for every size and content of the code
segment, every set of missing bytes and all stores into the code. `DecodeInv`
adds three parts. `Decoding`: in the loop every byte read is a prefix, no two are
the same, and the decoder's fields hold these and no others; the size of that
set is the number of rounds, which is what bounds IPOffset. `Short`: what an
instruction still fetches stays within 15 bytes. `Counted`: zero instructions
are counted only while `bWasLastOperationNull` is set. `PrefixesLocal` follows from
`Decoding`.

`RmeString_proof` proves `StringInvariant`, `StringTypes`, `RegistersAccounted`,
`WritesAreExact`, `CopiesRepeat`, `RepetitionEnds` and `ReadsAreInOrder` for every
size of word, segment and element, every count, direction, fault and overlap.
`StringInv` adds `FirstOK` (the instruction started with registers and memory
of the machine), `Elsewhere` (what no element so far covers is as it was) and
`Patterns`, which is `PatternRepeats` for a copy that is not over yet and for
every distance: the element a round reads is either one that nothing has
written, or the one written that many rounds before. The locals of the loop step
from one another, while the properties compute offsets from the first registers;
that the two agree is the arithmetic of `OfsNext`. The step of `WritesExact` then
asks of each byte which element covered it last.

`RmeMoves_proof` proves `MovesTyped`, `MovesAreExact`, `FaultsAreContained`,
`AddressesAreExact` and `StackDoesRestore` for every program over `Instructions`
(any opcode function, operand and address size, prefix, ModRM and SIB byte,
displacement and immediate), every start of the registers and segments, every
set of missing and read-only blocks and every size of address (`Top`). A program
may have any length; what is left of its memory is what the instructions before
wrote. The lemmas that carry the argument:

* One write is described by `Wrote` (the cells it reaches hold the bytes, all others
  what they held), what a sequence of them may have changed by `Frame`, and the
  whole of an instruction by `Exact`. There is one lemma per instruction
  (`MOV_MR_Keeps` ... `Unary_JMP_F_Keeps`) that puts its accesses together; for PUSHA
  and POPA it goes word by word (`PushNext`, `PopNext`), and the words do not meet
  even where SP wraps (`WordsApart`).
* An operand may lie across a missing block, wrap, or be the register it is
  addressed by. That the copies are all from the machine before is what the
  order of reads and writes in each function gives; the mutant of XCHG breaks it.
* `ReferenceIs`: the reference a decoded address becomes leads to that address
  again, except past 1 MB and past the end of a segment. `OffsetIs` compares the
  sums of `DoFunc` and `DoFunc32`, which wrap on the way, with the manual's, which
  wraps once. The forms whose segment, displacement or whole address the code
  forms differently are named (`OtherSegment`, `OtherDisp`, `OtherAddr`) and excepted.
* `MovesInv` (types, `MovesExact`, `FaultsContained`) is inductive. The round trips
  need `PairsInv`, which adds that the second of two instructions in a row
  started from what the first left; they then follow from `MovesExact` of both.

Assumed there: a program is made of instructions whose byte form exists and whose
segment register is one of six (`Instructions`), as the opcode table gives them.

`RmeAlu_proof` proves `AluTyped`, `OrderIsDecided`, `FlagsDoDescribe`, `ShiftsAreExact`,
`DivisionIsExact`, `WideSumsAreExact` and `DecimalsAreExact` for every program over
`Instructions`, all operands and counts, and every width of words and double
words from 8 bits on. The invariant `AluInv` is `Typed` with `Followed`: each entry of
the history `Does` what its instruction must, by the state after it. `Does` is
stated in numbers and bits, never in the comparisons the macros make, and there
is one lemma per action that brings the two together. The lemmas that carry the
argument:

* `CarriesOfSum` and `BorrowsOfDifference`: comparing a wrapped result with an
  operand tells a carry, and comparing sign bits an overflow. They hold of any
  modulus that is twice a multiple of 16 (`Span`), so no leaf depends on a width.
* `Pow2` and `OfBits` are recursive functions, whose equations and values come from
  `RecursionExists` and least counterexamples. On them rest what the bits of a
  shifted number and of a disjunction are, and that a number is its bits.
* `RoundsAre`: each round of RCL and RCR turns a ring of one bit more than the
  operand by one place, so n rounds turn it by n. ROL and ROR shift both ways
  and join (`JoinIs`), which turns the number because the parts share no bit.
* `TruncatedDivision`: there is one quotient that truncates, and the code's is it.
* `SumOfWords`, `DifferenceOfWords`: the carry between two words in place is a sum of
  the whole. `DaaPacks` and `DasPacks`: the two corrections restore the decimal
  digits, from the nibbles' sums and the flags of the binary operation.

Assumed there: bytes have 8 bits, words at least 8, double words more than words,
operands fit, counts are bytes. The proof of `DecimalExact` failed at first: the
property spoke of any sum, while DAA adjusts AL; it now says that the sum is in
the destination `a`, as the guests' sequences have it.

`DosServices_proof` proves `ServicesInvariant`, `LoadsExactly`, `HandlesStayExact`,
`ScreenStaysContained` and `ReadsAreReported` for every screen, disk, size of
block, file table, program and sequence of calls. Only `LoadExact` is a state
invariant, and it speaks of the moment after loading; `ServicesInv` adds `Typed`,
`Handles` (what the guest holds are the open files) and `Fresh` (before a guest
starts nothing has been written but the screen, so all else that is found later
is the loader's). The three other properties speak of steps, and follow from
`Typed` and `Handles`. The lemmas that carry the argument:

* `RelocatedIs`: the fold over the relocation table adds the segment once for each
  listing. `FoldExists` gives a fold its recursive function; that each step adds
  one entry is then an argument by the least entry for which it fails.
* `LandingIs`: the first piece up to the end of a block and the blocks after it
  lie end to end. `ProgramPlaced` puts image, prefix and screen together.
* `NumberIs`: cylinder, head and sector to a sector number is the order of the
  disk. It is proved for the number of sectors before one (`Cardinality`), not
  for the formula, so a formula with heads and sectors swapped would not pass.
* `ReadDelivers`: what a read delivers and counts, when the image ends within the
  sectors asked for, within one of them, or before them.

Assumed there: a guest's registers are 16 bits, names and files are bytes, the
geometry is one INT 13h can name, a screen has no more rows than columns, a block has at least the 256 bytes of
a prefix, and the file table has more than its three reserved entries.

The proof of `LoadExact` failed at first, and rightly: a header may count more
than 512 bytes in its last block. `LoadDosExe` (`hle_dos.c` 72) then takes a size
larger than its blocks, while the prefix computes the first free segment from
the blocks alone (`hle_dos.c` 153), and names memory inside the image. TLC shows
it with a program of 600 bytes in a block, which is now part of the `services`
run; `LoadExact` says so and excepts such headers from that clause only.

Where a proof needs induction, over the rounds of a fold, the characters of a
string or the sectors before one, it is by the least counterexample (`WFMin` of
the library, `LeastOf` and `UpTo`), which needs no theorem about all predicates.

Only model-checked: liveness (`KeyWakesGuest`), which the prover does not handle.
The violated properties are shown by their counterexamples. What is proved are
the models: that they are what the code does rests on reading, and the bounds
on numbers that TLC needs (`Top`, the widths of `alu`) are parameters, not part of
what is proved.

## Not modelled

* ENTER and LEAVE, and a guest that moves SS:SP while a call is pending. Stacks
  that overlap code or vectors are outside the stack discipline of `RmeControl`.
* The opcode table: `RmeDecode` has kinds of bytes, the other modules start from
  the function the table names.
* CLI, STI, CLD and STD, IN and OUT: one assignment or one callback each.
* The argument parser, the register comparison and dumps of `main.c`, the drawing
  of the interfaces, the debug output: no state that anything else reads.
* The test kernel, `mini_test` and the comparison tools are clients with no
  protocol of their own; the VGA device is not part of any build.
* The contents of DOS files after the program is loaded: INT 21h never reads one.
* Limits of `BiosServices`: packets of AH=42 lie in memory. Of the
  64-bit block number in one all bytes are read.

## What could follow

1. `RmeControl` and `RmeOperands` on one memory: stacks that overlap vectors or code.
2. ENTER and LEAVE, with frames the guest addresses through BP.
