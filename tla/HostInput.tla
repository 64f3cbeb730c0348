----------------------------- MODULE HostInput -----------------------------
(***************************************************************************)
(* Where the keys come from: the two user interfaces of nativetest.        *)
(* ui_tty.c reads characters with select() and getc(); the characters that *)
(* wait are in the terminal or already in the buffer of stdin, and only    *)
(* the first kind makes select() report any.  ui_sdl.c takes events from   *)
(* SDL's queue, into which a timer thread puts a request to redraw the     *)
(* screen unless one is under way (gbIsRedrawing).                         *)
(***************************************************************************)
EXTENDS KeyBuffer

CONSTANTS
  Uis,        \* the interfaces built in: of "tty" and "sdl"
  Chars,      \* ASCII codes typed at the terminal
  Syms,       \* SDL key symbols pressed in the window
  MaxEvents,  \* the length of SDL's event queue
  MaxPresses  \* bound: keys pressed

ASSUME InputAssumption ==
  /\ Uis \subseteq {"tty", "sdl"} /\ Chars \subseteq 0..255 /\ Syms \subseteq Nat
  /\ MaxEvents \in Nat /\ MaxPresses \in Nat

VARIABLES
  ui,         \* gpUiBinding
  presses,    \* keys pressed so far
  tty, stdio, \* characters in the terminal, and in the buffer of stdin
  events,     \* SDL's queue: symbols, "redraw" and "quit"
  drawing,    \* is the emulator's thread inside UiSdl_int_Redraw?
  redrawing,  \* gbIsRedrawing
  timer       \* "pushing" between the timer's two statements, else "idle"

ttyVars == <<tty, stdio>>
sdlVars == <<events, drawing, redrawing, timer>>
vars == <<keyVars, ui, presses, ttyVars, sdlVars>>

Init ==
  /\ KeyInit
  /\ ui \in Uis /\ presses = 0
  /\ tty = <<>> /\ stdio = <<>>
  /\ events = <<>> /\ drawing = FALSE /\ redrawing = FALSE /\ timer = "idle"

\* The input of the user interface leaves the service's results alone.
ServiceUnchanged == UNCHANGED <<ax, zf, ui, presses>>
NothingPushed == UNCHANGED <<queue, told, history>>

-----------------------------------------------------------------------------
(* The terminal.                                                           *)

LF == 10
CR == 13
Upper == 65..90
Lower == 97..122
Digits == 48..57

\* Input_PushKeysFromChar.  A character it does not know ends the program, as
\* the end of the input does: otherwise the thread goes on to `next'.
Input_PushKeysFromChar(ch, next) ==
  \/ ch = LF /\ Input_PushKey(1, ch) /\ guest' = next
  \/ ch \in Upper \cup Digits /\ Input_PushKey(ch, ch) /\ guest' = next
  \/ ch \in Lower /\ Input_PushKey(ch - 32, ch) /\ guest' = next
  \/ ch = CR /\ NothingPushed /\ guest' = next
  \/ /\ ch \notin {LF, CR} \cup Upper \cup Lower \cup Digits
     /\ NothingPushed /\ guest' = "stopped"

Type(ch) ==
  /\ ui = "tty" /\ presses < MaxPresses
  /\ tty' = Append(tty, ch) /\ presses' = presses + 1
  /\ UNCHANGED <<keyVars, ui, stdio, sdlVars>>

\* getc(stdin): an empty buffer is filled with all the terminal has.
Getc(next) ==
  \/ /\ stdio # <<>>
     /\ Input_PushKeysFromChar(Head(stdio), next)
     /\ stdio' = Tail(stdio) /\ UNCHANGED tty
  \/ /\ stdio = <<>> /\ tty # <<>>
     /\ Input_PushKeysFromChar(Head(tty), next)
     /\ stdio' = Tail(tty) /\ tty' = <<>>

UiTty_PollEvents ==
  /\ ui = "tty" /\ guest = "polling"
  /\ \/ tty # <<>> /\ Getc("running")
     \/ tty = <<>> /\ guest' = "running" /\ NothingPushed /\ UNCHANGED ttyVars
  /\ ServiceUnchanged /\ UNCHANGED sdlVars

\* Mutant: the wait asks select() first, as the poll does.
WaitEventBySelect ==
  /\ ui = "tty" /\ guest = "waiting" /\ queue = <<>>
  /\ tty # <<>> /\ Getc("waiting")
  /\ ServiceUnchanged /\ UNCHANGED sdlVars

\* Called again until there is a key: a CR brings none.
UiTty_WaitEvent ==
  /\ ui = "tty" /\ guest = "waiting" /\ queue = <<>>
  /\ Getc("waiting")
  /\ ServiceUnchanged /\ UNCHANGED sdlVars

-----------------------------------------------------------------------------
(* The window.                                                             *)

\* SDL drops an event its queue has no room for.
Queued(e) == events' = IF Len(events) < MaxEvents THEN Append(events, e) ELSE events

Press(e) ==
  /\ ui = "sdl" /\ presses < MaxPresses
  /\ Queued(e) /\ presses' = presses + 1
  /\ UNCHANGED <<keyVars, ui, ttyVars, drawing, redrawing, timer>>

\* Mutant: the flag is cleared before the screen is drawn.
StartRedrawClears ==
  drawing' = TRUE /\ redrawing' = FALSE /\ NothingPushed /\ UNCHANGED guest

StartRedraw ==
  drawing' = TRUE /\ NothingPushed /\ UNCHANGED <<guest, redrawing>>

\* UiSdl_int_HandleEvent.  SDL translates no key to Unicode unless asked to,
\* so the ASCII code is always 0.
UiSdl_int_HandleEvent ==
  /\ ui = "sdl" /\ events # <<>> /\ ~drawing
  /\ events' = Tail(events)
  /\ \/ /\ Head(events).kind = "quit" /\ guest' = "stopped"
        /\ NothingPushed /\ UNCHANGED <<drawing, redrawing>>
     \/ /\ Head(events).kind = "key" /\ Input_PushKey(Head(events).sym, 0)
        /\ UNCHANGED <<guest, drawing, redrawing>>
     \/ Head(events).kind = "redraw" /\ StartRedraw
  /\ ServiceUnchanged /\ UNCHANGED <<ttyVars, timer>>

RedrawDone ==
  /\ drawing
  /\ drawing' = FALSE /\ redrawing' = FALSE
  /\ UNCHANGED <<keyVars, ui, presses, ttyVars, events, timer>>

\* The poll handles one event after the other until there is none.
UiSdl_PollEvents ==
  \/ guest = "polling" /\ UiSdl_int_HandleEvent
  \/ /\ ui = "sdl" /\ guest = "polling" /\ events = <<>> /\ ~drawing
     /\ guest' = "running"
     /\ NothingPushed /\ ServiceUnchanged /\ UNCHANGED <<ttyVars, sdlVars>>

\* The wait handles one, and is called again until there is a key.
UiSdl_WaitEvent == guest = "waiting" /\ queue = <<>> /\ UiSdl_int_HandleEvent

\* UiSdl_int_RedrawTimerCb, on the timer's own thread: the flag is tested and
\* set, then the event is pushed, and nobody looks whether there was room.
TimerSetsFlag ==
  /\ ui = "sdl" /\ timer = "idle" /\ ~redrawing
  /\ redrawing' = TRUE /\ timer' = "pushing"
  /\ UNCHANGED <<keyVars, ui, presses, ttyVars, events, drawing>>
TimerPushesEvent ==
  /\ timer = "pushing" /\ timer' = "idle"
  /\ Queued([kind |-> "redraw"])
  /\ UNCHANGED <<keyVars, ui, presses, ttyVars, drawing, redrawing>>

-----------------------------------------------------------------------------
\* The emulator's thread; it does not run the guest while it draws.
Emulator ==
  \/ RunOne /\ ~drawing /\ UNCHANGED <<ui, presses, ttyVars, sdlVars>>
  \/ UiTty_PollEvents \/ UiTty_WaitEvent
  \/ UiSdl_PollEvents \/ UiSdl_WaitEvent \/ RedrawDone

Timer == TimerSetsFlag \/ TimerPushesEvent

User ==
  \/ \E ch \in Chars : Type(ch)
  \/ \E sym \in Syms : Press([kind |-> "key", sym |-> sym])
  \/ Press([kind |-> "quit"])

Next == guest # "stopped" /\ (Emulator \/ Timer \/ User)

\* The two threads are scheduled; the user may do nothing.
Spec == Init /\ [][Next]_vars /\ WF_vars(guest # "stopped" /\ Emulator)
                              /\ WF_vars(guest # "stopped" /\ Timer)

-----------------------------------------------------------------------------
(* Properties.                                                             *)

TypeOK ==
  /\ KeyTypeOK
  /\ ui \in Uis /\ presses \in 0..MaxPresses
  /\ tty \in Seq(Chars) /\ stdio \in Seq(Chars)
  /\ Len(events) <= MaxEvents
  /\ {drawing, redrawing} \subseteq BOOLEAN /\ timer \in {"idle", "pushing"}

\* The flag inhibits the timer: from the moment it sets the flag until the
\* screen is drawn no second request is made, whenever the timer fires.
Requests == {i \in 1..Len(events) : events[i].kind = "redraw"}
OneRedraw ==
  /\ \A i, j \in Requests : i = j
  /\ drawing \/ timer = "pushing" => Requests = {}
  /\ ~(drawing /\ timer = "pushing")
  /\ ~redrawing => Requests = {} /\ ~drawing /\ timer = "idle"

\* A guest that waits for a key gets one that has been typed, behind whatever
\* other input; if it does not, the program has ended over a character.
KeyChars == {LF} \cup Upper \cup Lower \cup Digits
KeyComing ==
  \/ \E i \in 1..Len(tty) : tty[i] \in KeyChars
  \/ \E i \in 1..Len(stdio) : stdio[i] \in KeyChars
  \/ \E i \in 1..Len(events) : events[i].kind = "key"
KeyWakesGuest == guest = "waiting" /\ KeyComing ~> guest # "waiting"
=============================================================================
