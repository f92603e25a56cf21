------------------------------- MODULE Screens -------------------------------
(***************************************************************************)
(* Screens: the two queues screen.c keeps them in, the system calls on     *)
(* them, and what is shared through a screen: the rings that the interrupt *)
(* handlers of keyboard and mouse fill and user code empties, and the      *)
(* frame, which is in video memory while its screen is the active one.     *)
(*                                                                         *)
(* System calls and handlers run with interrupts off.  c_getchar and the   *)
(* gs_ routines are user code: anything may happen between their steps.    *)
(***************************************************************************)
EXTENDS Integers, FiniteSets

CONSTANTS
  NUM_SCREENS,
  BUFSIZE,      \* size of a ring; a multiple of PACKET
  PACKET,       \* bytes of a mouse packet
  SCREEN_USERS, \* processes (their PIDs)
  KEYS          \* characters typed

ASSUME ScreensAssumption ==
  /\ NUM_SCREENS \in Nat \ {0} /\ PACKET \in Nat \ {0}
  /\ BUFSIZE \in Nat \ {0, 1} /\ BUFSIZE % PACKET = 0
  /\ 0 \notin SCREEN_USERS

ScreenHandles == 0..(NUM_SCREENS - 1)
NO_NODE == -1
VIDEO == NUM_SCREENS           \* video memory, the frame of the active screen
Frames == ScreenHandles \cup {VIDEO}
UNSET == -1          \* a NULL pointer into a ring
E_EMPTY == 2

VARIABLES
  unused_screens, active_screens,   \* first, last and length of a queue
  chained,       \* a screen's node -> the next one
  owner,         \* _screens[].owner, 0 for none
  active_screen,
  screenOf,      \* process -> pcb->screen
  keys,          \* kb_buf of every screen: its characters, next_char, next_space
  mice,          \* mouse_buf likewise; a byte is its place in its packet
  mouseByte,     \* the place in its packet of the byte the mouse sends next
  torn,          \* screens that got a part of a packet only
  getchar,       \* process -> where it is in c_getchar
  frames,        \* video memory and the buffer of every screen: the screens whose
                 \* processes drew there
  drawing,       \* process -> where it is in a gs_ routine
  smeared        \* whether a routine drew on after screens were switched

chainVars == <<unused_screens, active_screens, chained, owner>>
inputVars == <<keys, mice, mouseByte, torn, getchar>>
drawVars == <<frames, drawing, smeared>>
screenVars == <<chainVars, active_screen, screenOf, inputVars, drawVars>>

-----------------------------------------------------------------------------
(* screen.c *)

EmptyRing == [data |-> [i \in 0..(BUFSIZE - 1) |-> UNSET], char |-> UNSET, space |-> UNSET]
ResetRing(r) == [r EXCEPT !.char = 0, !.space = 0]

\* _screen_init; init, the first process, opens a screen before any key is looked at.
ScreensInit ==
  /\ unused_screens = [first |-> 0, last |-> NUM_SCREENS - 1, length |-> NUM_SCREENS]
  /\ active_screens = [first |-> NO_NODE, last |-> NO_NODE, length |-> 0]
  /\ chained = [s \in ScreenHandles |-> IF s = NUM_SCREENS - 1 THEN NO_NODE ELSE s + 1]
  /\ owner = [s \in ScreenHandles |-> 0]
  /\ active_screen = 0
  /\ screenOf = [p \in SCREEN_USERS |-> 0]
  /\ keys = [s \in ScreenHandles |-> EmptyRing] /\ mice = keys
  /\ mouseByte = 0 /\ torn = {}
  /\ getchar = [p \in SCREEN_USERS |-> [pc |-> "out", char |-> UNSET]]
  /\ frames = [f \in Frames |-> {}]
  /\ drawing = [p \in SCREEN_USERS |-> [pc |-> "out", target |-> VIDEO]]
  /\ smeared = FALSE

\* _enqueue: node s behind the last one of q; its queue and links.
EnqueueScreen(q, links, s) ==
  LET ends == [links EXCEPT ![s] = NO_NODE]
  IN  IF q.length # 0
      THEN [q |-> [q EXCEPT !.last = s, !.length = @ + 1], links |-> [ends EXCEPT ![q.last] = s]]
      ELSE [q |-> [first |-> s, last |-> s, length |-> 1], links |-> ends]

\* _dequeue: the queue without its first node.
DequeueScreen(q) ==
  [first |-> chained[q.first], length |-> q.length - 1,
   last |-> IF q.first = q.last THEN NO_NODE ELSE q.last]

\* Mutant: the last node of a queue is taken out like one in its middle.
RemoveKeepsLast(q, s) ==
  LET before == {t \in ScreenHandles : chained[t] = s}
      prev == IF q.first = s \/ before = {} THEN NO_NODE ELSE CHOOSE t \in before : TRUE
  IN  [q |-> [first |-> IF prev = NO_NODE THEN chained[s] ELSE q.first,
              last |-> q.last, length |-> q.length - 1],
       links |-> IF prev = NO_NODE THEN chained ELSE [chained EXCEPT ![prev] = chained[s]]]

\* _remove_node, of a node that is in the queue: the queue and the links without it.
RemoveScreenNode(q, s) ==
  LET before == {t \in ScreenHandles : chained[t] = s}
      prev == IF q.first = s \/ before = {} THEN NO_NODE ELSE CHOOSE t \in before : TRUE
  IN  [q |-> [first |-> IF prev = NO_NODE THEN chained[s] ELSE q.first,
              last |-> IF chained[s] = NO_NODE THEN prev ELSE q.last,
              length |-> q.length - 1],
       links |-> IF prev = NO_NODE THEN chained ELSE [chained EXCEPT ![prev] = chained[s]]]

-----------------------------------------------------------------------------
(* The system calls *)

\* A process does one thing at a time.
Idle(p) == getchar[p].pc = "out" /\ drawing[p].pc = "out"

\* What _sys_openscreen does to the screen: it gets an owner, and empty rings.
TakeScreen(p, s) ==
  /\ owner' = [owner EXCEPT ![s] = p]
  /\ keys' = [keys EXCEPT ![s] = ResetRing(@)]
  /\ mice' = [mice EXCEPT ![s] = ResetRing(@)]
  /\ torn' = IF mouseByte = 0 THEN torn \ {s} ELSE torn \cup {s}

\* _sys_openscreen, _screen_dequeue: the first unused screen, cleared.
OpenScreen(p) ==
  LET s == unused_screens.first
      to == EnqueueScreen(active_screens, chained, s)
  IN  /\ Idle(p)
      /\ unused_screens.length # 0
      /\ unused_screens' = DequeueScreen(unused_screens)
      /\ active_screens' = to.q /\ chained' = to.links
      /\ frames' = [frames EXCEPT ![s] = {}]
      /\ TakeScreen(p, s)
      /\ UNCHANGED <<active_screen, screenOf, mouseByte, getchar, drawing, smeared>>

\* The same with none left: E_EMPTY is not negative and is taken for a handle.
OpenScreenEmpty(p) ==
  /\ Idle(p)
  /\ unused_screens.length = 0
  /\ TakeScreen(p, E_EMPTY)
  /\ UNCHANGED <<unused_screens, active_screens, chained, active_screen, screenOf,
                 mouseByte, getchar, drawVars>>

\* _sys_closescreen, _screen_enqueue: of any screen with an owner, whoever that is.
CloseScreen(p, s) ==
  LET from == RemoveScreenNode(active_screens, s)
      to == EnqueueScreen(unused_screens, from.links, s)
  IN  /\ Idle(p)
      /\ owner[s] # 0
      /\ owner' = [owner EXCEPT ![s] = 0]
      /\ active_screens' = from.q
      /\ unused_screens' = to.q /\ chained' = to.links
      /\ UNCHANGED <<active_screen, screenOf, inputVars, drawVars>>

\* _sys_setscreen; getscreen only reads.
SetScreen(p, s) ==
  /\ Idle(p)
  /\ owner[s] # 0
  /\ screenOf' = [screenOf EXCEPT ![p] = s]
  /\ UNCHANGED <<chainVars, active_screen, inputVars, drawVars>>

\* Mutant: the two frames are copied in the other order.
SwitchSwapped(p, s) ==
  /\ Idle(p)
  /\ s # active_screen
  /\ frames' = [frames EXCEPT ![active_screen] = frames[s], ![VIDEO] = frames[s]]
  /\ active_screen' = s
  /\ drawing' = [q \in SCREEN_USERS |->
       IF drawing[q].pc = "out" THEN drawing[q] ELSE [drawing[q] EXCEPT !.pc = "switched"]]
  /\ torn' = IF mouseByte = 0 THEN torn ELSE torn \cup {active_screen, s}
  /\ UNCHANGED <<chainVars, screenOf, keys, mice, mouseByte, getchar, smeared>>

\* _sys_switchscreen, to any screen, opened or not.
SwitchScreen(p, s) ==
  /\ Idle(p)
  /\ s # active_screen
  /\ frames' = [frames EXCEPT ![active_screen] = frames[VIDEO], ![VIDEO] = frames[s]]
  /\ active_screen' = s
  /\ drawing' = [q \in SCREEN_USERS |->
       IF drawing[q].pc = "out" THEN drawing[q] ELSE [drawing[q] EXCEPT !.pc = "switched"]]
  /\ torn' = IF mouseByte = 0 THEN torn ELSE torn \cup {active_screen, s}
  /\ UNCHANGED <<chainVars, screenOf, keys, mice, mouseByte, getchar, smeared>>

-----------------------------------------------------------------------------
(* Keyboard *)

\* __c_increment
RingNext(i) == IF i + 1 >= BUFSIZE THEN 0 ELSE i + 1

\* Mutant: a character is stored whether or not there is room.
KeyPressedAlways(k) ==
  LET r == keys[active_screen]
  IN  /\ r.space # UNSET
      /\ keys' = [keys EXCEPT ![active_screen] =
           [r EXCEPT !.data[r.space] = k, !.space = RingNext(r.space)]]
      /\ UNCHANGED <<chainVars, active_screen, screenOf, mice, mouseByte, torn, getchar, drawVars>>

\* __c_keyboard_isr, __c_input_scan_code: into the ring of the active screen, if
\* there is room; shift and control only change which character it is.
KeyPressed(k) ==
  LET r == keys[active_screen]
  IN  /\ r.space # UNSET
      /\ RingNext(r.space) # r.char
      /\ keys' = [keys EXCEPT ![active_screen] =
           [r EXCEPT !.data[r.space] = k, !.space = RingNext(r.space)]]
      /\ UNCHANGED <<chainVars, active_screen, screenOf, mice, mouseByte, torn, getchar, drawVars>>

\* c_getchar, once the ring is not empty: the first character.  Programs share a
\* screen, but one of them reads its keys.
GetcharReads(p) ==
  LET r == keys[screenOf[p]]
  IN  /\ Idle(p)
      /\ \A q \in SCREEN_USERS : screenOf[q] = screenOf[p] => getchar[q].pc = "out"
      /\ r.char # r.space
      /\ getchar' = [getchar EXCEPT ![p] = [pc |-> "read", char |-> r.data[r.char]]]
      /\ UNCHANGED <<chainVars, active_screen, screenOf, keys, mice, mouseByte, torn, drawVars>>

\* And on to the next character.
GetcharAdvances(p) ==
  /\ getchar[p].pc # "out"
  /\ keys' = [keys EXCEPT ![screenOf[p]].char = RingNext(@)]
  /\ getchar' = [getchar EXCEPT ![p] = [pc |-> "out", char |-> UNSET]]
  /\ UNCHANGED <<chainVars, active_screen, screenOf, mice, mouseByte, torn, drawVars>>

-----------------------------------------------------------------------------
(* Mouse *)

\* Mutant: the ring wraps round one byte early.
IsrMouseShort ==
  LET r == mice[active_screen]
  IN  /\ mice' = IF r.space = UNSET THEN mice
                  ELSE [mice EXCEPT ![active_screen].data[r.space] = mouseByte,
                                    ![active_screen].space = IF r.space + 1 >= BUFSIZE - 1 THEN 0 ELSE r.space + 1]
      /\ mouseByte' = (mouseByte + 1) % PACKET
      /\ UNCHANGED <<chainVars, active_screen, screenOf, keys, torn, getchar, drawVars>>

\* _isr_mouse: a byte into the ring of the active screen, whether or not there is
\* room; to where a NULL pointer leads if that screen was never opened.
IsrMouse ==
  LET r == mice[active_screen]
  IN  /\ mice' = IF r.space = UNSET THEN mice
                  ELSE [mice EXCEPT ![active_screen].data[r.space] = mouseByte,
                                    ![active_screen].space = RingNext(r.space)]
      /\ mouseByte' = (mouseByte + 1) % PACKET
      /\ UNCHANGED <<chainVars, active_screen, screenOf, keys, torn, getchar, drawVars>>

\* get_mouse, once the ring is not empty; the handler leaves next_char alone.
GetMouse(p) ==
  LET r == mice[screenOf[p]]
  IN  /\ Idle(p)
      /\ r.char # r.space
      /\ mice' = [mice EXCEPT ![screenOf[p]].char = RingNext(@)]
      /\ UNCHANGED <<chainVars, active_screen, screenOf, keys, mouseByte, torn, getchar, drawVars>>

\* clear_mouse; no program calls it.
ClearMouse(p) ==
  /\ Idle(p)
  /\ mice' = [mice EXCEPT ![screenOf[p]].char = mice[screenOf[p]].space]
  /\ UNCHANGED <<chainVars, active_screen, screenOf, keys, mouseByte, torn, getchar, drawVars>>

-----------------------------------------------------------------------------
(* gs_io.c *)

\* gs_clear, gs_putc_at, gs_draw_pixel ...: where to draw is decided first.
GsBegin(p) ==
  /\ Idle(p)
  /\ drawing' = [drawing EXCEPT ![p] =
       [pc |-> "begun", target |-> IF screenOf[p] = active_screen THEN VIDEO ELSE screenOf[p]]]
  /\ UNCHANGED <<chainVars, active_screen, screenOf, inputVars, frames, smeared>>

\* And then drawn.
GsDraw(p) ==
  /\ drawing[p].pc # "out"
  /\ frames' = [frames EXCEPT ![drawing[p].target] = @ \cup {screenOf[p]}]
  /\ smeared' = (smeared \/ drawing[p].pc = "switched")
  /\ drawing' = [drawing EXCEPT ![p].pc = "out"]
  /\ UNCHANGED <<chainVars, active_screen, screenOf, inputVars>>

-----------------------------------------------------------------------------
ScreenCalls ==
  \E p \in SCREEN_USERS :
    \/ OpenScreen(p)
    \/ OpenScreenEmpty(p)
    \/ \E s \in ScreenHandles : CloseScreen(p, s) \/ SetScreen(p, s)

\* Programs that open one screen each and work on it, at most `many' of them.
OwnScreens(many) ==
  \E p \in SCREEN_USERS :
    \/ active_screens.length < many /\ (\A s \in ScreenHandles : owner[s] # p) /\ OpenScreen(p)
    \/ \E s \in ScreenHandles : owner[s] = p /\ SetScreen(p, s)

Switching == \E p \in SCREEN_USERS, s \in ScreenHandles : SwitchScreen(p, s)

Keyboard ==
  \/ \E k \in KEYS : KeyPressed(k)
  \/ \E p \in SCREEN_USERS : GetcharReads(p) \/ GetcharAdvances(p)

Mouse == IsrMouse \/ \E p \in SCREEN_USERS : GetMouse(p) \/ ClearMouse(p)

Drawing == \E p \in SCREEN_USERS : GsBegin(p) \/ GsDraw(p)

-----------------------------------------------------------------------------
RingTypeOK(r) == r.char \in -1..(BUFSIZE - 1) /\ r.space \in -1..(BUFSIZE - 1)

ScreensTypeOK ==
  /\ unused_screens.length \in 0..NUM_SCREENS /\ active_screens.length \in 0..NUM_SCREENS
  /\ owner \in [ScreenHandles -> SCREEN_USERS \cup {0}]
  /\ screenOf \in [SCREEN_USERS -> ScreenHandles]
  /\ \A s \in ScreenHandles : RingTypeOK(keys[s]) /\ RingTypeOK(mice[s])

\* The screens of a queue, in its order up to its length.
InQueue(q) ==
  LET at[i \in 0..NUM_SCREENS] ==
        IF i = 0 THEN q.first ELSE LET n == at[i - 1] IN IF n = NO_NODE THEN n ELSE chained[n]
  IN  at

MembersOf(q) == {InQueue(q)[i] : i \in 0..NUM_SCREENS} \ {NO_NODE}

\* Every screen is in one of the queues, whose lengths and last nodes are right, in
\* every order of calls by owners and others; it is in that of the active ones just
\* when it has an owner, so that closing finds its node and no length is taken off
\* for nothing.
ScreensKept ==
  /\ MembersOf(unused_screens) \cup MembersOf(active_screens) = ScreenHandles
  /\ MembersOf(active_screens) = {s \in ScreenHandles : owner[s] # 0}
  /\ \A q \in {unused_screens, active_screens} :
       /\ q.length = Cardinality(MembersOf(q))
       /\ q.length # 0 => InQueue(q)[q.length - 1] = q.last
  /\ unused_screens.length + active_screens.length = NUM_SCREENS

\* What c_getchar has read stays the first of the characters that wait until it
\* moves on: the keyboard handler between its steps neither overwrites it nor makes
\* the ring look empty, while nobody opens the screen once more.
ReadIsFirst ==
  \A p \in SCREEN_USERS :
    LET r == keys[screenOf[p]]
    IN  getchar[p].pc # "out" => r.char # r.space /\ r.data[r.char] = getchar[p].char

\* The bytes that wait in a mouse ring stand where those of a packet do, also when
\* the ring was overrun and packets are lost, so that get_mouse by fours stays at the
\* beginning of a packet: screen.h asks for a ring that is a multiple of 4 long.
\* (Switching screens in the middle of a packet breaks this.)
PacketsAligned ==
  \A s \in ScreenHandles \ torn :
    LET r == mice[s]
        waiting == {i \in 0..(BUFSIZE - 1) :
                      IF r.char <= r.space THEN r.char <= i /\ i < r.space
                      ELSE r.char <= i \/ i < r.space}
    IN  \A i \in waiting : r.data[i] = i % PACKET

\* A screen shows nothing but what its own processes drew, whichever screens were switched to
\* and back.  (A routine that draws on after a switch it did not see breaks this.)
FramesApart ==
  ~ smeared =>
    \A s \in ScreenHandles :
      (IF s = active_screen THEN frames[VIDEO] ELSE frames[s]) \subseteq {s}

\* screen.h has _screen_dequeue return a negative number when no screen is left, for
\* which openscreen and its callers test: a screen is not taken from its owner.
OpenedWasFree ==
  [][\A s \in ScreenHandles : owner[s] # 0 /\ owner'[s] # owner[s] => owner'[s] = 0]_owner
=============================================================================
