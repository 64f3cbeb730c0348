----------------------------- MODULE KeyBuffer -----------------------------
(***************************************************************************)
(* The key buffer of nativetest and the keyboard service of its BIOS,      *)
(* INT 16h: Input_PushKey, Input_Peek and Input_Pop of main.c, and         *)
(* HLECall(0x16) of hle_bios.c, which waits in a loop until Input_Pop      *)
(* gives it a key.  The emulator's thread alternates between RME_RunOne,   *)
(* which serves INT 16h, and the poll of the user interface.               *)
(***************************************************************************)
EXTENDS Integers, Sequences

CONSTANTS
  KeyBufferSize,  \* cKeyBufferSize (16)
  ByteRange       \* values of the uint8_t a code is kept in (256)

ASSUME KeyAssumption == KeyBufferSize \in Nat \ {0} /\ ByteRange \in Nat \ {0}

VARIABLES
  queue,  \* gKeyBuffer[0 .. gKeyBufferPos - 1]
  guest,  \* the thread: "running" RME_RunOne, "waiting" for a key inside it,
          \* "polling" the user interface after it, or "stopped"
  ax,     \* what INT 16h last left in AH and AL
  zf,     \* ... and in the zero flag
  told,   \* history: the key AH=01 reported, until the buffer changes
  typed,  \* history: the keys that found room, in their order
  nth,    \* history: which of them the entries of queue are
  last,   \* history: which of them was handed out last
  crowded \* history: has the buffer held two keys since it was last empty?

history == <<typed, nth, last, crowded>>
keyVars == <<queue, guest, ax, zf, told, history>>

Code == 0 .. ByteRange - 1
KeyBufEnt == [Scancode : Code, ASCII : Code]
NoKey == [Scancode |-> -1, ASCII |-> -1]

KeyInit ==
  /\ queue = <<>> /\ guest = "running"
  /\ ax = [Scancode |-> 0, ASCII |-> 0] /\ zf = FALSE
  /\ told = NoKey /\ typed = <<>> /\ nth = <<>> /\ last = 0 /\ crowded = FALSE

-----------------------------------------------------------------------------
(* The buffer.                                                             *)

\* Mutant: the test for a full buffer is off by one.
FullLate == Len(queue) > KeyBufferSize

Full == Len(queue) = KeyBufferSize

\* A key for which there is no room is dropped; codes are cut to a byte.
Input_PushKey(scancode, ch) ==
  IF Full
  THEN UNCHANGED <<queue, told, history>>
  ELSE LET key == [Scancode |-> scancode % ByteRange, ASCII |-> ch % ByteRange]
       IN  /\ queue' = Append(queue, key)
           /\ told' = NoKey
           /\ typed' = Append(typed, key) /\ nth' = Append(nth, Len(typed) + 1)
           /\ crowded' = (queue # <<>>) /\ UNCHANGED last

\* Mutant: the oldest key is shown, not the one Input_Pop takes.
PeekedOldest(q) == q[1]

\* What Input_Peek shows, what Input_Pop returns, and what its memmove leaves:
\* the last entry is returned, and the first is gone.
Peeked(q) == q[Len(q)]
Popped(q) == q[Len(q)]

\* Mutant: gKeyBufferPos is decremented, and nothing moves.
LeftUnmoved(q) == SubSeq(q, 1, Len(q) - 1)

Left(q) == Tail(q)

-----------------------------------------------------------------------------
(* INT 16h.                                                                *)

\* AH=00 and AH=10, at once or after a wait.
GetKey ==
  /\ guest \in {"running", "waiting"} /\ queue # <<>>
  /\ ax' = Popped(queue) /\ queue' = Left(queue)
  /\ told' = NoKey /\ last' = Popped(nth) /\ nth' = Left(nth)
  /\ guest' = "polling"
  /\ UNCHANGED <<zf, typed, crowded>>

\* ... with an empty buffer: Input_WaitForKey.
GetKeyWaits ==
  /\ guest = "running" /\ queue = <<>>
  /\ guest' = "waiting"
  /\ UNCHANGED <<queue, ax, zf, told, history>>

\* AH=01 and AH=11.
CheckKey ==
  /\ guest = "running" /\ guest' = "polling"
  /\ IF queue # <<>>
     THEN ax' = Peeked(queue) /\ zf' = FALSE /\ told' = Peeked(queue)
     ELSE zf' = TRUE /\ UNCHANGED <<ax, told>>
  /\ UNCHANGED <<queue, history>>

\* AH=02: no shift key is ever down.
GetShiftFlags ==
  /\ guest = "running" /\ guest' = "polling"
  /\ ax' = [ax EXCEPT !.ASCII = 0]
  /\ UNCHANGED <<queue, zf, told, history>>

\* Any other instruction, and any that ends in an error: an unknown AH too.
OtherInstruction ==
  /\ guest = "running" /\ guest' \in {"polling", "stopped"}
  /\ UNCHANGED <<queue, ax, zf, told, history>>

RunOne ==
  GetKey \/ GetKeyWaits \/ CheckKey \/ GetShiftFlags \/ OtherInstruction

-----------------------------------------------------------------------------
(* Properties.                                                             *)

KeyTypeOK ==
  /\ queue \in Seq(KeyBufEnt) /\ Len(queue) <= KeyBufferSize
  /\ guest \in {"running", "waiting", "polling", "stopped"}
  /\ ax \in KeyBufEnt /\ zf \in BOOLEAN
  /\ told \in KeyBufEnt \cup {NoKey} /\ typed \in Seq(KeyBufEnt)
  /\ nth \in Seq(Nat) /\ last \in Nat /\ crowded \in BOOLEAN

\* The guest gets keys in the order they were typed, however pushes, drops,
\* peeks, pops and waits interleave: never one older than a key it already
\* has; and as long as no two keys share the buffer, each key that found room
\* once, and none left out.  (With two in the buffer Input_Pop returns the
\* newer again and again: PopRemoves.)
KeysInOrder ==
  [][GetKey => /\ ax' = typed[last'] /\ last' >= last
               /\ ~crowded => last' = last + 1]_keyVars

\* What AH=01 has reported is what AH=00 then returns, unless a key arrived
\* between them.
PeekedIsPopped == [][GetKey /\ told # NoKey => ax' = told]_keyVars

\* "Remove a key from the input buffer": the buffer holds the key returned
\* once less than before.
Occurrences(q, k) == {i \in 1..Len(q) : q[i] = k}
PopRemoves ==
  [][GetKey => \E i \in Occurrences(queue, ax') :
                 queue' = [j \in 1..Len(queue) - 1 |->
                             IF j < i THEN queue[j] ELSE queue[j + 1]]]_keyVars
=============================================================================
