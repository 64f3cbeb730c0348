-------------------------- MODULE HostInput_proof ---------------------------
(***************************************************************************)
(* The key buffer keeps its order and what it has shown, and the redraw    *)
(* flag keeps the two threads apart, for every size of the key buffer and  *)
(* of SDL's queue, any input and any interleaving.                         *)
(***************************************************************************)
EXTENDS HostInput, TLAPS

\* What SDL's queue holds.
Event == {[kind |-> "redraw"], [kind |-> "quit"]}
           \cup {[kind |-> "key", sym |-> s] : s \in Syms}

\* Until the buffer changes, the key AH=01 reported is the one AH=00 takes.
ToldIsNext == told # NoKey => queue # <<>> /\ told = Peeked(queue)

\* The buffer holds the newest of the keys typed, in their order; the newest
\* is the one handed out last unless the buffer holds one that came alone.
InOrder ==
  /\ Len(nth) = Len(queue) /\ Len(queue) <= Len(typed)
  /\ \A i \in 1 .. Len(queue) :
       nth[i] = Len(typed) - Len(queue) + i /\ queue[i] = typed[nth[i]]
  /\ last <= Len(typed)
  /\ queue = <<>> => last = Len(typed)
  /\ ~crowded => Len(queue) <= 1 /\ (queue # <<>> => last + 1 = Len(typed))

KeyInv == KeyTypeOK /\ InOrder /\ ToldIsNext
InputInv == KeyInv /\ TypeOK /\ events \in Seq(Event) /\ OneRedraw

-----------------------------------------------------------------------------
(* The key buffer.                                                         *)

\* Nothing happens to the keys.
LEMMA OrderUnchanged ==
  ASSUME InOrder, UNCHANGED <<queue, history>>
  PROVE  InOrder'
<1>1. UNCHANGED <<queue, typed, nth, last, crowded>>
  BY DEF history
<1> QED
  BY <1>1 DEF InOrder

\* A key for which there is room is the newest.
LEMMA OrderPushed ==
  ASSUME KeyTypeOK, InOrder, NEW k \in KeyBufEnt, queue' = Append(queue, k),
         typed' = Append(typed, k), nth' = Append(nth, Len(typed) + 1),
         crowded' = (queue # <<>>), last' = last
  PROVE  InOrder'
<1>0. /\ queue \in Seq(KeyBufEnt) /\ typed \in Seq(KeyBufEnt) /\ nth \in Seq(Nat)
      /\ last \in Nat /\ Len(queue) \in Nat /\ Len(typed) \in Nat
  BY DEF KeyTypeOK
<1>1. /\ Len(nth) = Len(queue) /\ Len(queue) <= Len(typed) /\ last <= Len(typed)
      /\ \A i \in 1 .. Len(queue) :
           nth[i] = Len(typed) - Len(queue) + i /\ queue[i] = typed[nth[i]]
      /\ queue = <<>> => last = Len(typed)
  BY DEF InOrder
<1>2. /\ Len(queue') = Len(queue) + 1 /\ queue'[Len(queue) + 1] = k
      /\ \A i \in 1 .. Len(queue) : queue'[i] = queue[i]
  BY <1>0
<1>3. /\ Len(typed') = Len(typed) + 1 /\ typed'[Len(typed) + 1] = k
      /\ \A i \in 1 .. Len(typed) : typed'[i] = typed[i]
  BY <1>0
<1>4. /\ Len(nth') = Len(nth) + 1 /\ nth'[Len(nth) + 1] = Len(typed) + 1
      /\ \A i \in 1 .. Len(nth) : nth'[i] = nth[i]
  BY <1>0
<1>5. ASSUME NEW i \in 1 .. Len(queue')
      PROVE  nth'[i] = Len(typed') - Len(queue') + i /\ queue'[i] = typed'[nth'[i]]
  <2>1. CASE i = Len(queue) + 1
    BY <1>0, <1>1, <1>2, <1>3, <1>4, <2>1
  <2>2. CASE i \in 1 .. Len(queue)
    <3>1. nth[i] = Len(typed) - Len(queue) + i /\ queue[i] = typed[nth[i]]
      BY <1>1, <2>2
    <3>2. nth[i] \in 1 .. Len(typed)
      BY <1>0, <1>1, <2>2, <3>1
    <3>3. typed'[nth[i]] = typed[nth[i]] /\ nth'[i] = nth[i] /\ queue'[i] = queue[i]
      BY <1>1, <1>2, <1>3, <1>4, <2>2, <3>2
    <3>4. queue'[i] = typed'[nth'[i]]
      BY <3>1, <3>3
    <3>5. nth'[i] = Len(typed) - Len(queue) + i
      BY <3>1, <3>3
    <3>6. Len(typed') - Len(queue') + i = Len(typed) - Len(queue) + i
      <4>1. Len(typed') = Len(typed) + 1 /\ Len(queue') = Len(queue) + 1 /\ i \in Int
        BY <1>2, <1>3
      <4> QED
        BY <1>0, <4>1
    <3> QED
      BY <3>4, <3>5, <3>6
  <2>3. i = Len(queue) + 1 \/ i \in 1 .. Len(queue)
    BY <1>0, <1>2
  <2> QED
    BY <2>1, <2>2, <2>3
<1>6. queue' # <<>>
  BY <1>0, <1>2
<1>7. ~crowded' => Len(queue') <= 1 /\ last' + 1 = Len(typed')
  <2>1. CASE queue = <<>>
    BY <1>0, <1>1, <1>2, <1>3, <2>1
  <2> QED
    BY <2>1
<1> QED
  BY <1>0, <1>1, <1>2, <1>3, <1>4, <1>5, <1>6, <1>7 DEF InOrder

\* The newest is handed out, and the oldest is gone.
LEMMA OrderPopped ==
  ASSUME KeyTypeOK, InOrder, queue # <<>>, queue' = Tail(queue), nth' = Tail(nth),
         last' = nth[Len(nth)], typed' = typed, crowded' = crowded
  PROVE  /\ InOrder' /\ last' = Len(typed) /\ last' >= last
         /\ queue[Len(queue)] = typed[last']
         /\ ~crowded => last' = last + 1
<1>0. /\ queue \in Seq(KeyBufEnt) /\ typed \in Seq(KeyBufEnt) /\ nth \in Seq(Nat)
      /\ last \in Nat /\ Len(queue) \in Nat /\ Len(typed) \in Nat /\ Len(queue) >= 1
  BY DEF KeyTypeOK
<1>1. /\ Len(nth) = Len(queue) /\ Len(queue) <= Len(typed) /\ last <= Len(typed)
      /\ \A i \in 1 .. Len(queue) :
           nth[i] = Len(typed) - Len(queue) + i /\ queue[i] = typed[nth[i]]
      /\ ~crowded => Len(queue) <= 1 /\ last + 1 = Len(typed)
  BY DEF InOrder
<1>2. /\ Len(queue') = Len(queue) - 1
      /\ \A i \in 1 .. Len(queue') : queue'[i] = queue[i + 1]
  BY <1>0
<1>3. nth # <<>>
  BY <1>0, <1>1
<1>4. /\ Len(nth') = Len(nth) - 1
      /\ \A i \in 1 .. Len(nth') : nth'[i] = nth[i + 1]
  BY <1>0, <1>3
<1>5. last' = Len(typed) /\ queue[Len(queue)] = typed[last']
  <2>1. Len(queue) \in 1 .. Len(queue)
    BY <1>0
  <2>2. /\ nth[Len(queue)] = Len(typed) - Len(queue) + Len(queue)
        /\ queue[Len(queue)] = typed[nth[Len(queue)]]
    BY <1>1, <2>1
  <2> QED
    BY <1>0, <1>1, <2>2
<1>6. ASSUME NEW i \in 1 .. Len(queue')
      PROVE  nth'[i] = Len(typed') - Len(queue') + i /\ queue'[i] = typed'[nth'[i]]
  <2>1. i + 1 \in 1 .. Len(queue) /\ i \in 1 .. Len(nth')
    BY <1>0, <1>1, <1>2, <1>4
  <2>2. /\ nth[i + 1] = Len(typed) - Len(queue) + (i + 1)
        /\ queue[i + 1] = typed[nth[i + 1]]
    BY <1>1, <2>1
  <2> QED
    BY <1>0, <1>2, <1>4, <2>1, <2>2
<1>7. ~crowded => queue' = <<>>
  <2>1. queue' \in Seq(KeyBufEnt)
    BY <1>0
  <2> QED
    BY <1>0, <1>1, <1>2, <2>1
<1>8. InOrder'
  <2>1. Len(nth') = Len(queue') /\ Len(queue') <= Len(typed') /\ last' <= Len(typed')
    BY <1>0, <1>1, <1>2, <1>4, <1>5
  <2>2. ~crowded' => Len(queue') <= 1
    BY <1>0, <1>1, <1>2
  <2> QED
    BY <1>5, <1>6, <1>7, <2>1, <2>2 DEF InOrder
<1> QED
  BY <1>0, <1>1, <1>5, <1>8

\* Pushing a key, or dropping it, keeps the order.
LEMMA PushKeeps ==
  ASSUME KeyInv, NEW s \in Nat, NEW c \in Nat, Input_PushKey(s, c),
         UNCHANGED <<ax, zf>>,
         guest' \in {"running", "waiting", "polling", "stopped"}
  PROVE  KeyInv'
<1>0. /\ queue \in Seq(KeyBufEnt) /\ Len(queue) <= KeyBufferSize
      /\ typed \in Seq(KeyBufEnt) /\ nth \in Seq(Nat) /\ KeyTypeOK /\ InOrder
  BY DEF KeyInv, KeyTypeOK
<1>1. CASE Full
  <2>1. UNCHANGED <<queue, told, history>>
    BY <1>1 DEF Input_PushKey
  <2>2. InOrder'
    BY <1>0, <2>1, OrderUnchanged
  <2> QED
    BY <2>1, <2>2 DEF KeyInv, KeyTypeOK, ToldIsNext, Peeked, history
<1>2. CASE ~Full
  <2> DEFINE k == [Scancode |-> s % ByteRange, ASCII |-> c % ByteRange]
  <2>1. /\ queue' = Append(queue, k) /\ told' = NoKey /\ typed' = Append(typed, k)
        /\ nth' = Append(nth, Len(typed) + 1) /\ crowded' = (queue # <<>>) /\ last' = last
    BY <1>2 DEF Input_PushKey
  <2>2. k \in KeyBufEnt
    BY KeyAssumption DEF KeyBufEnt, Code
  <2> HIDE DEF k
  <2>3. queue' \in Seq(KeyBufEnt) /\ Len(queue') = Len(queue) + 1
    BY <1>0, <2>1, <2>2
  <2>4. Len(queue) \in Nat /\ Len(queue) # KeyBufferSize
    BY <1>0, <1>2 DEF Full
  <2>5. Len(queue') <= KeyBufferSize
    BY <1>0, <2>3, <2>4, KeyAssumption
  <2>6. InOrder'
    BY <1>0, <2>1, <2>2, OrderPushed
  <2>7. typed' \in Seq(KeyBufEnt) /\ nth' \in Seq(Nat)
    <3>1. Len(typed) + 1 \in Nat
      BY <1>0
    <3> QED
      BY <1>0, <2>1, <2>2, <3>1
  <2>8. crowded' \in BOOLEAN
    BY <2>1
  <2> QED
    BY <2>1, <2>3, <2>5, <2>6, <2>7, <2>8 DEF KeyInv, KeyTypeOK, ToldIsNext
<1> QED
  BY <1>1, <1>2

\* Steps that leave the keys and what was told of them alone.
LEMMA ResultsKeep ==
  ASSUME KeyInv, UNCHANGED <<queue, told, history>>, ax' \in KeyBufEnt, zf' \in BOOLEAN,
         guest' \in {"running", "waiting", "polling", "stopped"}
  PROVE  KeyInv'
<1>1. InOrder'
  BY OrderUnchanged DEF KeyInv
<1> QED
  BY <1>1 DEF KeyInv, KeyTypeOK, ToldIsNext, Peeked, history

\* What the poll or the wait does without a key.
LEMMA NothingKeeps ==
  ASSUME KeyInv, NothingPushed, UNCHANGED <<ax, zf>>,
         guest' \in {"running", "waiting", "polling", "stopped"}
  PROVE  KeyInv'
BY ResultsKeep DEF KeyInv, KeyTypeOK, NothingPushed

\* A step of others.
LEMMA KeysUnchanged ==
  ASSUME KeyInv, UNCHANGED keyVars
  PROVE  KeyInv'
<1>1. UNCHANGED <<queue, guest, ax, zf, told, history>>
  BY DEF keyVars
<1> QED
  BY <1>1, ResultsKeep DEF KeyInv, KeyTypeOK

\* INT 16h, at once or after a wait, and any other instruction.
LEMMA RunOneKeeps ==
  ASSUME KeyInv, RunOne
  PROVE  KeyInv'
<1>0. /\ queue \in Seq(KeyBufEnt) /\ Len(queue) <= KeyBufferSize
      /\ typed \in Seq(KeyBufEnt) /\ nth \in Seq(Nat) /\ KeyTypeOK /\ InOrder
      /\ guest \in {"running", "waiting", "polling", "stopped"}
      /\ ax \in KeyBufEnt /\ zf \in BOOLEAN /\ told \in KeyBufEnt \cup {NoKey}
  BY DEF KeyInv, KeyTypeOK
<1>1. CASE GetKey
  <2>1. /\ queue # <<>> /\ ax' = queue[Len(queue)] /\ queue' = Tail(queue)
        /\ told' = NoKey /\ guest' = "polling" /\ zf' = zf
        /\ last' = nth[Len(nth)] /\ nth' = Tail(nth) /\ typed' = typed /\ crowded' = crowded
    BY <1>1 DEF GetKey, Popped, Left
  <2>2. Len(queue) \in 1..Len(queue) /\ Len(queue) \in Nat
    BY <1>0, <2>1
  <2>3. ax' \in KeyBufEnt
    BY <1>0, <2>1, <2>2
  <2>4. queue' \in Seq(KeyBufEnt) /\ Len(queue') = Len(queue) - 1
    BY <1>0, <2>1
  <2>5. Len(queue') <= KeyBufferSize
    BY <1>0, <2>2, <2>4, KeyAssumption
  <2>6. InOrder' /\ last' = Len(typed)
    BY <1>0, <2>1, OrderPopped
  <2>7. nth' \in Seq(Nat) /\ last' \in Nat
    <3>1. nth # <<>>
      BY <1>0, <2>1 DEF InOrder
    <3> QED
      BY <1>0, <2>1, <2>6, <3>1
  <2> QED
    BY <1>0, <2>1, <2>3, <2>4, <2>5, <2>6, <2>7 DEF KeyInv, KeyTypeOK, ToldIsNext
<1>2. CASE CheckKey
  <2>1. /\ UNCHANGED <<queue, history>> /\ guest' = "polling"
        /\ \/ queue # <<>> /\ ax' = Peeked(queue) /\ zf' = FALSE /\ told' = Peeked(queue)
           \/ zf' = TRUE /\ UNCHANGED <<ax, told>>
    BY <1>2 DEF CheckKey
  <2>2. CASE queue # <<>> /\ ax' = Peeked(queue) /\ zf' = FALSE /\ told' = Peeked(queue)
    <3>1. Peeked(queue) \in KeyBufEnt
      <4>1. Len(queue) \in 1..Len(queue)
        BY <1>0, <2>2
      <4> QED
        BY <1>0, <4>1 DEF Peeked
    <3>2. Peeked(queue)' = Peeked(queue)
      BY <2>1 DEF Peeked
    <3>3. InOrder'
      BY <1>0, <2>1, OrderUnchanged
    <3> QED
      BY <2>1, <2>2, <3>1, <3>2, <3>3 DEF KeyInv, KeyTypeOK, ToldIsNext, history
  <2>3. CASE zf' = TRUE /\ UNCHANGED <<ax, told>>
    BY <1>0, <2>1, <2>3, ResultsKeep
  <2> QED
    BY <2>1, <2>2, <2>3
<1>3. CASE GetShiftFlags
  <2>1. ax' \in KeyBufEnt
    <3>1. 0 \in Code
      BY KeyAssumption DEF Code
    <3> QED
      BY <1>0, <1>3, <3>1 DEF GetShiftFlags, KeyBufEnt
  <2>2. UNCHANGED <<queue, told, history, zf>> /\ guest' = "polling"
    BY <1>3 DEF GetShiftFlags
  <2> QED
    BY <1>0, <2>1, <2>2, ResultsKeep
<1>4. CASE GetKeyWaits \/ OtherInstruction
  <2>1. UNCHANGED <<queue, told, history, ax, zf>>
        /\ guest' \in {"running", "waiting", "polling", "stopped"}
    BY <1>4 DEF GetKeyWaits, OtherInstruction
  <2> QED
    BY <1>0, <2>1, ResultsKeep
<1> QED
  BY <1>1, <1>2, <1>3, <1>4 DEF RunOne

\* A character becomes a key, is passed over, or ends the program.
LEMMA CharKeeps ==
  ASSUME KeyInv, NEW ch \in Nat, NEW next \in {"running", "waiting"},
         Input_PushKeysFromChar(ch, next), UNCHANGED <<ax, zf>>
  PROVE  KeyInv'
<1>1. CASE guest' = next /\ \E s \in Nat : Input_PushKey(s, ch)
  BY <1>1, PushKeeps
<1>2. CASE NothingPushed /\ guest' \in {next, "stopped"}
  BY <1>2, NothingKeeps
<1>3. ch \in Lower => ch - 32 \in Nat
  BY DEF Lower
<1> QED
  BY <1>1, <1>2, <1>3 DEF Input_PushKeysFromChar

-----------------------------------------------------------------------------
(* The queue of events.                                                    *)

\* An event goes to the end of the queue, or is dropped.
LEMMA QueuedRequests ==
  ASSUME events \in Seq(Event), Len(events) <= MaxEvents, NEW e \in Event, Queued(e)
  PROVE  /\ events' \in Seq(Event) /\ Len(events') <= MaxEvents
         /\ \A i \in Requests' : i \in Requests \/ (i = Len(events) + 1 /\ e.kind = "redraw")
<1>1. CASE events' = events
  BY <1>1 DEF Requests
<1>2. CASE events' = Append(events, e) /\ Len(events) < MaxEvents
  <2>1. /\ events' \in Seq(Event) /\ Len(events') = Len(events) + 1
        /\ \A i \in 1..Len(events) : events'[i] = events[i]
        /\ events'[Len(events) + 1] = e
    BY <1>2
  <2>2. Len(events) \in Nat /\ MaxEvents \in Nat
    BY InputAssumption
  <2>3. Len(events') <= MaxEvents
    BY <1>2, <2>1, <2>2
  <2>4. \A i \in 1..Len(events') : i \in 1..Len(events) \/ i = Len(events) + 1
    BY <2>1, <2>2
  <2> QED
    BY <2>1, <2>3, <2>4 DEF Requests
<1> QED
  BY <1>1, <1>2 DEF Queued

\* ... and is taken from its head.
LEMMA TakenRequests ==
  ASSUME events \in Seq(Event), Len(events) <= MaxEvents, events # <<>>,
         events' = Tail(events)
  PROVE  /\ events' \in Seq(Event) /\ Len(events') <= MaxEvents
         /\ Head(events) \in Event
         /\ \A i \in Requests' : i \in Nat /\ i >= 1 /\ i + 1 \in Requests
         /\ Head(events).kind = "redraw" => 1 \in Requests
<1>1. /\ events' \in Seq(Event) /\ Len(events') = Len(events) - 1
      /\ \A i \in 1..Len(events') : events'[i] = events[i + 1]
      /\ Head(events) = events[1] /\ Len(events) \in Nat /\ Len(events) >= 1
  OBVIOUS
<1>2. Len(events') <= MaxEvents
  BY <1>1, InputAssumption
<1>3. 1 \in 1..Len(events) /\ Head(events) \in Event
  BY <1>1
<1>4. \A i \in 1..Len(events') : i \in Nat /\ i >= 1 /\ i + 1 \in 1..Len(events)
  BY <1>1
<1> QED
  BY <1>1, <1>2, <1>3, <1>4 DEF Requests

-----------------------------------------------------------------------------
(* The steps.                                                              *)

\* Nothing has been typed, shown or requested.
LEMMA InputStarts == Init => InputInv
<1> SUFFICES ASSUME Init PROVE InputInv
  OBVIOUS
<1>1. KeyInv
  <2>1. 0 \in Code
    BY KeyAssumption DEF Code
  <2>2. ax \in KeyBufEnt
    BY <2>1 DEF Init, KeyInit, KeyBufEnt
  <2>3. /\ queue = <<>> /\ told = NoKey /\ zf = FALSE /\ guest = "running"
        /\ typed = <<>> /\ nth = <<>> /\ last = 0 /\ crowded = FALSE
    BY DEF Init, KeyInit
  <2>4. queue \in Seq(KeyBufEnt) /\ Len(queue) = 0 /\ 0 <= KeyBufferSize
    BY <2>3, KeyAssumption
  <2>5. InOrder
    BY <2>3 DEF InOrder
  <2>6. ToldIsNext
    BY <2>3 DEF ToldIsNext
  <2>7. /\ zf \in BOOLEAN /\ told \in KeyBufEnt \cup {NoKey} /\ crowded \in BOOLEAN
        /\ typed \in Seq(KeyBufEnt) /\ nth \in Seq(Nat) /\ last \in Nat
    <3>1. zf \in BOOLEAN /\ told \in KeyBufEnt \cup {NoKey} /\ crowded \in BOOLEAN
      BY <2>3
    <3>2. typed \in Seq(KeyBufEnt) /\ nth \in Seq(Nat) /\ last \in Nat
      BY <2>3
    <3> QED
      BY <3>1, <3>2
  <2>8. KeyTypeOK
    <3>1. Len(queue) <= KeyBufferSize
      BY <2>4
    <3> QED
      BY <2>2, <2>3, <2>4, <2>7, <3>1 DEF KeyTypeOK
  <2> QED
    BY <2>5, <2>6, <2>8 DEF KeyInv
<1>2. TypeOK
  <2>1. /\ tty \in Seq(Chars) /\ stdio \in Seq(Chars) /\ Len(events) = 0
        /\ ui \in Uis /\ presses = 0 /\ timer = "idle"
        /\ drawing = FALSE /\ redrawing = FALSE
    BY DEF Init
  <2>2. 0 <= MaxEvents /\ 0 \in 0..MaxPresses
    BY InputAssumption
  <2> QED
    BY <1>1, <2>1, <2>2 DEF TypeOK, KeyInv
<1>3. Requests = {}
  BY DEF Init, Requests
<1>4. events \in Seq(Event) /\ OneRedraw
  BY <1>3 DEF Init, OneRedraw
<1> QED
  BY <1>1, <1>2, <1>4 DEF InputInv

\* What the typing steps use of the invariant.
LEMMA InputFacts ==
  ASSUME InputInv
  PROVE  /\ KeyInv /\ OneRedraw /\ events \in Seq(Event) /\ Len(events) <= MaxEvents
         /\ ui \in Uis /\ presses \in 0..MaxPresses
         /\ tty \in Seq(Chars) /\ stdio \in Seq(Chars)
         /\ drawing \in BOOLEAN /\ redrawing \in BOOLEAN /\ timer \in {"idle", "pushing"}
BY DEF InputInv, TypeOK

\* Steps that leave SDL's side alone.
LEMMA TerminalKeeps ==
  ASSUME InputInv, KeyInv', UNCHANGED <<ui, sdlVars>>, presses' \in 0..MaxPresses,
         tty' \in Seq(Chars), stdio' \in Seq(Chars)
  PROVE  InputInv'
<1>1. UNCHANGED <<ui, events, drawing, redrawing, timer>>
  BY DEF sdlVars
<1>2. TypeOK'
  BY <1>1, InputFacts DEF TypeOK, KeyInv
<1>3. OneRedraw'
  BY <1>1, InputFacts DEF OneRedraw, Requests
<1> QED
  BY <1>1, <1>2, <1>3, InputFacts DEF InputInv

\* Reading a character from stdin.
LEMMA GetcKeeps ==
  ASSUME InputInv, NEW next \in {"running", "waiting"}, Getc(next), UNCHANGED <<ax, zf>>
  PROVE  KeyInv' /\ tty' \in Seq(Chars) /\ stdio' \in Seq(Chars)
<1>0. \A ch \in Chars : ch \in Nat
  BY InputAssumption
<1>1. CASE /\ stdio # <<>> /\ Input_PushKeysFromChar(Head(stdio), next)
           /\ stdio' = Tail(stdio) /\ UNCHANGED tty
  <2>1. Head(stdio) \in Chars /\ Tail(stdio) \in Seq(Chars)
    BY <1>1, InputFacts
  <2> QED
    BY <1>0, <1>1, <2>1, CharKeeps, InputFacts
<1>2. CASE /\ tty # <<>> /\ Input_PushKeysFromChar(Head(tty), next)
           /\ stdio' = Tail(tty) /\ tty' = <<>>
  <2>1. Head(tty) \in Chars /\ Tail(tty) \in Seq(Chars) /\ <<>> \in Seq(Chars)
    BY <1>2, InputFacts
  <2> QED
    BY <1>0, <1>2, <2>1, CharKeeps, InputFacts
<1> QED
  BY <1>1, <1>2 DEF Getc

\* One event of SDL, whether a poll or a wait asked for it.
LEMMA EventKeeps ==
  ASSUME InputInv, UiSdl_int_HandleEvent PROVE InputInv'
<1>0. /\ events # <<>> /\ ~drawing /\ events' = Tail(events)
      /\ ServiceUnchanged /\ UNCHANGED <<ttyVars, timer>>
  BY DEF UiSdl_int_HandleEvent
<1>1. /\ UNCHANGED <<ax, zf, ui, presses, tty, stdio, timer>>
  BY <1>0 DEF ServiceUnchanged, ttyVars
<1>2. /\ events' \in Seq(Event) /\ Len(events') <= MaxEvents
      /\ Head(events) \in Event
      /\ \A i \in Requests' : i \in Nat /\ i >= 1 /\ i + 1 \in Requests
      /\ Head(events).kind = "redraw" => 1 \in Requests
  BY <1>0, InputFacts, TakenRequests
<1>3. \A i, j \in Requests : i = j
  BY InputFacts DEF OneRedraw
<1>4. \A i, j \in Requests' : i = j
  BY <1>2, <1>3
<1>5. guest \in {"running", "waiting", "polling", "stopped"}
  BY InputFacts DEF KeyInv, KeyTypeOK
<1>6. CASE /\ Head(events).kind # "redraw"
           /\ guest' \in {guest, "stopped"} /\ UNCHANGED <<drawing, redrawing>>
           /\ KeyInv'
  <2>1. Requests = {} => Requests' = {}
    BY <1>2
  <2>2. OneRedraw'
    BY <1>1, <1>4, <1>6, <2>1, InputFacts DEF OneRedraw
  <2> QED
    BY <1>1, <1>2, <1>6, <2>2, InputFacts DEF InputInv, TypeOK, KeyInv
<1>7. CASE Head(events).kind = "redraw" /\ StartRedraw
  <2>1. drawing' = TRUE /\ NothingPushed /\ UNCHANGED <<guest, redrawing>>
    BY <1>7 DEF StartRedraw
  <2>2. KeyInv'
    BY <1>1, <1>5, <2>1, NothingKeeps, InputFacts
  <2>3. 1 \in Requests
    BY <1>2, <1>7
  <2>4. Requests' = {}
    <3> SUFFICES ASSUME NEW i \in Requests' PROVE FALSE
      OBVIOUS
    <3>1. i \in Nat /\ i >= 1 /\ i + 1 = 1
      BY <1>2, <1>3, <2>3
    <3> QED
      BY <3>1
  <2>5. timer # "pushing" /\ redrawing
    BY <2>3, InputFacts DEF OneRedraw
  <2>6. OneRedraw'
    BY <1>1, <2>1, <2>4, <2>5 DEF OneRedraw
  <2> QED
    BY <1>1, <1>2, <2>1, <2>2, <2>6, InputFacts DEF InputInv, TypeOK, KeyInv
<1>8. CASE Head(events).kind = "quit" /\ guest' = "stopped" /\ NothingPushed
           /\ UNCHANGED <<drawing, redrawing>>
  BY <1>1, <1>6, <1>8, NothingKeeps, InputFacts
<1>9. CASE Head(events).kind = "key" /\ Input_PushKey(Head(events).sym, 0)
           /\ UNCHANGED <<guest, drawing, redrawing>>
  <2>1. Head(events).sym \in Nat
    BY <1>2, <1>9, InputAssumption DEF Event
  <2> QED
    BY <1>1, <1>5, <1>6, <1>9, <2>1, PushKeeps, InputFacts
<1> QED
  BY <1>7, <1>8, <1>9 DEF UiSdl_int_HandleEvent

\* Steps that push an event and leave the rest of the emulator alone.
LEMMA PressKeeps ==
  ASSUME InputInv, NEW e \in Event, e.kind # "redraw", Press(e)
  PROVE  InputInv'
<1>1. /\ Queued(e) /\ presses < MaxPresses /\ presses' = presses + 1
      /\ UNCHANGED <<keyVars, ui, tty, stdio, drawing, redrawing, timer>>
  BY DEF Press, ttyVars
<1>2. /\ events' \in Seq(Event) /\ Len(events') <= MaxEvents
      /\ \A i \in Requests' : i \in Requests
  BY <1>1, InputFacts, QueuedRequests
<1>3. OneRedraw'
  BY <1>1, <1>2, InputFacts DEF OneRedraw
<1>4. KeyInv'
  BY <1>1, InputFacts, KeysUnchanged
<1>5. presses' \in 0..MaxPresses
  BY <1>1, InputFacts, InputAssumption
<1> QED
  BY <1>1, <1>2, <1>3, <1>4, <1>5, InputFacts DEF InputInv, TypeOK, KeyInv

\* The timer's thread, in its two steps.
LEMMA TimerKeeps ==
  ASSUME InputInv, Timer PROVE InputInv'
<1>0. ASSUME UNCHANGED keyVars PROVE KeyInv'
  BY <1>0, InputFacts, KeysUnchanged
<1>1. CASE TimerSetsFlag
  <2>1. /\ ~redrawing /\ redrawing' = TRUE /\ timer' = "pushing"
        /\ UNCHANGED <<keyVars, ui, presses, tty, stdio, events, drawing>>
    BY <1>1 DEF TimerSetsFlag, ttyVars
  <2>2. OneRedraw'
    BY <2>1, InputFacts DEF OneRedraw, Requests
  <2> QED
    BY <1>0, <2>1, <2>2, InputFacts DEF InputInv, TypeOK, KeyInv
<1>2. CASE TimerPushesEvent
  <2>1. /\ timer = "pushing" /\ timer' = "idle" /\ Queued([kind |-> "redraw"])
        /\ UNCHANGED <<keyVars, ui, presses, tty, stdio, drawing, redrawing>>
    BY <1>2 DEF TimerPushesEvent, ttyVars
  <2>2. /\ events' \in Seq(Event) /\ Len(events') <= MaxEvents
        /\ \A i \in Requests' : i \in Requests \/ i = Len(events) + 1
    <3>1. [kind |-> "redraw"] \in Event
      BY DEF Event
    <3> QED
      BY <2>1, <3>1, InputFacts, QueuedRequests
  <2>3. Requests = {} /\ ~drawing /\ redrawing
    BY <2>1, InputFacts DEF OneRedraw
  <2>4. OneRedraw'
    BY <2>1, <2>2, <2>3 DEF OneRedraw
  <2> QED
    BY <1>0, <2>1, <2>2, <2>4, InputFacts DEF InputInv, TypeOK, KeyInv
<1> QED
  BY <1>1, <1>2 DEF Timer

\* The emulator's thread.
LEMMA EmulatorKeeps ==
  ASSUME InputInv, Emulator PROVE InputInv'
<1>1. CASE RunOne /\ UNCHANGED <<ui, presses, ttyVars, sdlVars>>
  BY <1>1, RunOneKeeps, TerminalKeeps, InputFacts DEF ttyVars
<1>2. CASE UiTty_PollEvents
  <2>1. ServiceUnchanged /\ UNCHANGED sdlVars
    BY <1>2 DEF UiTty_PollEvents
  <2>2. CASE Getc("running")
    BY <2>1, <2>2, GetcKeeps, TerminalKeeps, InputFacts DEF ServiceUnchanged
  <2>3. CASE guest' = "running" /\ NothingPushed /\ UNCHANGED ttyVars
    BY <2>1, <2>3, NothingKeeps, TerminalKeeps, InputFacts DEF ServiceUnchanged, ttyVars
  <2> QED
    BY <1>2, <2>2, <2>3 DEF UiTty_PollEvents
<1>3. CASE UiTty_WaitEvent
  BY <1>3, GetcKeeps, TerminalKeeps, InputFacts DEF UiTty_WaitEvent, ServiceUnchanged
<1>4. CASE UiSdl_PollEvents
  <2>1. CASE guest' = "running" /\ NothingPushed /\ ServiceUnchanged
             /\ UNCHANGED <<ttyVars, sdlVars>>
    BY <2>1, NothingKeeps, TerminalKeeps, InputFacts DEF ServiceUnchanged, ttyVars
  <2> QED
    BY <1>4, <2>1, EventKeeps DEF UiSdl_PollEvents
<1>5. CASE UiSdl_WaitEvent
  BY <1>5, EventKeeps DEF UiSdl_WaitEvent
<1>6. CASE RedrawDone
  <2>1. /\ drawing /\ drawing' = FALSE /\ redrawing' = FALSE
        /\ UNCHANGED <<keyVars, ui, presses, tty, stdio, events, timer>>
    BY <1>6 DEF RedrawDone, ttyVars
  <2>2. KeyInv'
    BY <2>1, InputFacts, KeysUnchanged
  <2>3. OneRedraw'
    BY <2>1, InputFacts DEF OneRedraw, Requests
  <2> QED
    BY <2>1, <2>2, <2>3, InputFacts DEF InputInv, TypeOK, KeyInv
<1> QED
  BY <1>1, <1>2, <1>3, <1>4, <1>5, <1>6 DEF Emulator

\* The invariant is preserved by both threads and the user.
LEMMA InputStep == InputInv /\ [Next]_vars => InputInv'
<1> SUFFICES ASSUME InputInv, [Next]_vars PROVE InputInv'
  OBVIOUS
<1>1. ASSUME NEW ch \in Chars, Type(ch) PROVE InputInv'
  <2>1. /\ tty' = Append(tty, ch) /\ presses < MaxPresses /\ presses' = presses + 1
        /\ UNCHANGED <<keyVars, ui, stdio, sdlVars>>
    BY <1>1 DEF Type
  <2>2. presses' \in 0..MaxPresses /\ tty' \in Seq(Chars)
    BY <2>1, InputFacts, InputAssumption
  <2>3. KeyInv'
    BY <2>1, InputFacts, KeysUnchanged
  <2> QED
    BY <2>1, <2>2, <2>3, TerminalKeeps, InputFacts
<1>2. CASE User
  <2>1. \A s \in Syms : [kind |-> "key", sym |-> s] \in Event
    BY DEF Event
  <2>2. [kind |-> "quit"] \in Event
    BY DEF Event
  <2> QED
    BY <1>1, <1>2, <2>1, <2>2, PressKeeps DEF User
<1>3. CASE UNCHANGED vars
  <2>1. UNCHANGED <<keyVars, ui, presses, ttyVars, sdlVars>>
    BY <1>3 DEF vars
  <2>2. KeyInv'
    BY <2>1, InputFacts, KeysUnchanged
  <2> QED
    BY <2>1, <2>2, TerminalKeeps, InputFacts DEF ttyVars
<1> QED
  BY <1>2, <1>3, EmulatorKeeps, TimerKeeps DEF Next

-----------------------------------------------------------------------------

\* The invariant holds of every interleaving.
THEOREM InputInvariance == Spec => []InputInv
BY InputStarts, InputStep, PTL DEF Spec

\* The key buffer, the interfaces and the redraw flag keep their types.
THEOREM InputTypeCorrect == Spec => []TypeOK
<1>1. InputInv => TypeOK
  BY DEF InputInv
<1> QED
  BY <1>1, InputInvariance, PTL

\* AH=00 hands out keys in the order they were typed, and each that found room
\* once as long as no two share gKeyBuffer, whatever its size.
THEOREM KeysComeInOrder == Spec => KeysInOrder
<1>1. ASSUME InputInv, GetKey
      PROVE  ax' = typed[last'] /\ last' >= last /\ (~crowded => last' = last + 1)
  <2>1. /\ queue # <<>> /\ ax' = queue[Len(queue)] /\ queue' = Tail(queue)
        /\ last' = nth[Len(nth)] /\ nth' = Tail(nth) /\ typed' = typed /\ crowded' = crowded
    BY <1>1 DEF GetKey, Popped, Left
  <2>2. KeyTypeOK /\ InOrder
    BY <1>1 DEF InputInv, KeyInv
  <2> QED
    BY <2>1, <2>2, OrderPopped
<1>2. InputInv => [GetKey => /\ ax' = typed[last'] /\ last' >= last
                             /\ ~crowded => last' = last + 1]_keyVars
  BY <1>1
<1> QED
  BY <1>2, InputInvariance, PTL DEF KeysInOrder

\* gbIsRedrawing keeps a second request away from the queue until the first
\* has been drawn, however the timer's thread and the emulator's interleave.
THEOREM OneRedrawAtATime == Spec => []OneRedraw
<1>1. InputInv => OneRedraw
  BY DEF InputInv
<1> QED
  BY <1>1, InputInvariance, PTL

\* INT 16h AH=00 returns the key that AH=01 reported.
THEOREM PeekedComesOut == Spec => PeekedIsPopped
<1>1. InputInv => [GetKey /\ told # NoKey => ax' = told]_keyVars
  BY DEF InputInv, KeyInv, ToldIsNext, GetKey, Peeked, Popped
<1> QED
  BY <1>1, InputInvariance, PTL DEF PeekedIsPopped
=============================================================================
