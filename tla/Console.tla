------------------------------ MODULE Console -------------------------------
(***************************************************************************)
(* The text console: c_putchar and the window it scrolls, with the cursor  *)
(* and the window in variables that every process that prints shares.      *)
(* The kernel is compiled without optimisation: `curr_x += 1' loads and    *)
(* stores in two instructions, and the clock may interrupt between them    *)
(* and let another process print.                                          *)
(***************************************************************************)
EXTENDS Integers, Sequences

CONSTANTS
  SCREEN_MAX_X, SCREEN_MAX_Y,
  SCROLLS,      \* arguments c_setscroll may be called with: min x, min y, max x, max y
  PRINTERS,     \* processes that print
  LETTERS,      \* the other characters
  TEXT_MAX,     \* bound: characters printed while nobody interrupts anybody
  BEYOND_MAX    \* bound: how far right of the window and below it the cursor is followed

NEWLINE == "newline"
RETURN == "return"
BLANK == " "

Columns == 0..SCREEN_MAX_X
Lines == 0..SCREEN_MAX_Y

ASSUME ConsoleAssumption ==
  /\ SCREEN_MAX_X \in Nat /\ SCREEN_MAX_Y \in Nat /\ TEXT_MAX \in Nat /\ BEYOND_MAX \in Nat
  /\ \A s \in SCROLLS : \A i \in 1..4 : s[i] \in Nat
  /\ {NEWLINE, RETURN, BLANK} \cap LETTERS = {}

VARIABLES
  video,            \* the cells of the screen: <<x, y>> -> character
  scroll,           \* the window: its least and greatest x and y
  curr_x, curr_y,   \* the cursor
  call,             \* printer -> how far its c_putchar is
  text,             \* what has been printed since the window was set
  mixed             \* two calls have overlapped: what is shown is a mixture

consoleVars == <<video, scroll, curr_x, curr_y, call, text, mixed>>

NotPrinting == [at |-> "idle", char |-> BLANK, loaded |-> 0]

\* bound
Bounded(min, value, max) == IF value > max THEN max ELSE IF value < min THEN min ELSE value

\* The window c_setscroll makes of its arguments.
Window(s) ==
  LET x == Bounded(0, s[1], SCREEN_MAX_X)
      y == Bounded(0, s[2], SCREEN_MAX_Y)
  IN  [min_x |-> x, min_y |-> y,
       max_x |-> Bounded(x, s[3], SCREEN_MAX_X), max_y |-> Bounded(y, s[4], SCREEN_MAX_Y)]

\* c_io_init, then c_clearscreen and c_setscroll of _init.
ConsoleInit ==
  /\ video = [cell \in Columns \X Lines |-> BLANK]
  /\ scroll \in {Window(s) : s \in SCROLLS}
  /\ curr_x = scroll.min_x /\ curr_y = scroll.min_y
  /\ call = [p \in PRINTERS |-> NotPrinting]
  /\ text = <<>>
  /\ mixed = FALSE

-----------------------------------------------------------------------------
(* c_putchar *)

NobodyPrints == \A p \in PRINTERS : call[p].at = "idle"

Goto(p, at) ==
  call' = [call EXCEPT ![p] = IF at = "idle" THEN NotPrinting ELSE [@ EXCEPT !.at = at]]

\* __c_putchar_at: nothing outside the screen.
PutAt(x, y, c) ==
  video' = IF <<x, y>> \in DOMAIN video THEN [video EXCEPT ![<<x, y>>] = c] ELSE video

\* The call of c_putchar, up to its look at the bottom of the window.
PutcharBegin(p, c) ==
  /\ call[p].at = "idle"
  /\ mixed' = (mixed \/ ~ NobodyPrints)
  /\ mixed' \/ Len(text) < TEXT_MAX
  /\ text' = IF mixed' THEN <<>> ELSE Append(text, c)
  /\ call' = [call EXCEPT ![p] = [NotPrinting EXCEPT
                !.at = IF curr_y > scroll.max_y THEN "scroll" ELSE "put", !.char = c]]
  /\ UNCHANGED <<video, scroll, curr_x, curr_y>>

InWindow(cell) == cell[1] \in scroll.min_x..scroll.max_x /\ cell[2] \in scroll.min_y..scroll.max_y

\* Mutant: the lines that come in at the bottom are not cleared.
ScrolledKeeping(lines) ==
  [cell \in DOMAIN video |->
    IF InWindow(cell) /\ cell[2] + lines <= scroll.max_y
    THEN video[<<cell[1], cell[2] + lines>>] ELSE video[cell]]

\* c_scroll by less than the window: copied up, and cleared at the bottom.
Scrolled(lines) ==
  [cell \in DOMAIN video |->
    IF ~ InWindow(cell) THEN video[cell]
    ELSE IF cell[2] + lines <= scroll.max_y THEN video[<<cell[1], cell[2] + lines>>]
    ELSE BLANK]

\* c_clearscroll
Cleared == [cell \in DOMAIN video |-> IF InWindow(cell) THEN BLANK ELSE video[cell]]

\* c_scroll( curr_y - scroll_max_y ): by the whole window or more, and by the huge
\* number that comes of a cursor another process moved up, the window is cleared.
PutcharScrolls(p) ==
  LET lines == curr_y - scroll.max_y
  IN  /\ call[p].at = "scroll"
      /\ IF lines \in 0..(scroll.max_y - scroll.min_y)
         THEN video' = Scrolled(lines) /\ UNCHANGED <<curr_x, curr_y>>
         ELSE video' = Cleared /\ curr_x' = scroll.min_x /\ curr_y' = scroll.min_y
      /\ Goto(p, "scrolled")
      /\ UNCHANGED <<scroll, text, mixed>>

\* curr_y = scroll_max_y
PutcharScrolled(p) ==
  /\ call[p].at = "scrolled"
  /\ curr_y' = scroll.max_y
  /\ Goto(p, "put")
  /\ UNCHANGED <<video, scroll, curr_x, text, mixed>>

\* A letter is put where the cursor is, and a blank while a newline erases the line.
PutcharPuts(p) ==
  LET c == call[p].char
  IN  /\ call[p].at = "put"
      /\ c \in LETTERS \/ (c = NEWLINE /\ curr_x <= scroll.max_x)
      /\ PutAt(curr_x, curr_y, IF c = NEWLINE THEN BLANK ELSE c)
      /\ Goto(p, "load x")
      /\ UNCHANGED <<scroll, curr_x, curr_y, text, mixed>>

\* The newline has erased its line; and the carriage return, which ends there.
PutcharReturns(p) ==
  LET c == call[p].char
  IN  /\ call[p].at = "put"
      /\ c = RETURN \/ (c = NEWLINE /\ curr_x > scroll.max_x)
      /\ curr_x' = scroll.min_x
      /\ Goto(p, IF c = RETURN THEN "idle" ELSE "load y")
      /\ UNCHANGED <<video, scroll, curr_y, text, mixed>>

\* curr_x += 1, its first half
PutcharLoadsX(p) ==
  /\ call[p].at = "load x" /\ curr_x < scroll.max_x + BEYOND_MAX
  /\ call' = [call EXCEPT ![p].at = "store x", ![p].loaded = curr_x]
  /\ UNCHANGED <<video, scroll, curr_x, curr_y, text, mixed>>

\* curr_x += 1, its second half
PutcharStoresX(p) ==
  /\ call[p].at = "store x"
  /\ curr_x' = call[p].loaded + 1
  /\ call' = [call EXCEPT ![p].at = IF call[p].char = NEWLINE THEN "put" ELSE "wrap",
                          ![p].loaded = 0]
  /\ UNCHANGED <<video, scroll, curr_y, text, mixed>>

\* Mutant: looks for the column behind the window only.
PastWindowExactly(x) == x = scroll.max_x + 1

\* curr_x > scroll_max_x
PastWindow(x) == x > scroll.max_x

\* A letter in the last column leads to the next line.
PutcharWraps(p) ==
  /\ call[p].at = "wrap"
  /\ IF PastWindow(curr_x)
     THEN curr_x' = scroll.min_x /\ Goto(p, "load y")
     ELSE UNCHANGED curr_x /\ Goto(p, "idle")
  /\ UNCHANGED <<video, scroll, curr_y, text, mixed>>

\* curr_y += 1, its first half
PutcharLoadsY(p) ==
  /\ call[p].at = "load y" /\ curr_y < scroll.max_y + BEYOND_MAX
  /\ call' = [call EXCEPT ![p].at = "store y", ![p].loaded = curr_y]
  /\ UNCHANGED <<video, scroll, curr_x, curr_y, text, mixed>>

\* curr_y += 1, its second half
PutcharStoresY(p) ==
  /\ call[p].at = "store y"
  /\ curr_y' = call[p].loaded + 1
  /\ call' = [call EXCEPT ![p] = NotPrinting]
  /\ UNCHANGED <<video, scroll, curr_x, text, mixed>>

\* Where TEXT_MAX and BEYOND_MAX end what is looked at.
ConsoleAtBound ==
  /\ \/ NobodyPrints /\ Len(text) = TEXT_MAX
     \/ \E p \in PRINTERS : call[p].at = "load x" /\ curr_x >= scroll.max_x + BEYOND_MAX
     \/ \E p \in PRINTERS : call[p].at = "load y" /\ curr_y >= scroll.max_y + BEYOND_MAX
  /\ UNCHANGED consoleVars

PutcharStep(p) ==
  \/ PutcharScrolls(p)
  \/ PutcharScrolled(p)
  \/ PutcharPuts(p)
  \/ PutcharReturns(p)
  \/ PutcharLoadsX(p)
  \/ PutcharStoresX(p)
  \/ PutcharWraps(p)
  \/ PutcharLoadsY(p)
  \/ PutcharStoresY(p)

\* The processes ps print characters of cs.
ConsoleNext(ps, cs) ==
  \/ \E p \in ps, c \in cs : PutcharBegin(p, c)
  \/ \E p \in ps : PutcharStep(p)
  \/ ConsoleAtBound

-----------------------------------------------------------------------------
ConsoleTypeOK ==
  /\ DOMAIN video = Columns \X Lines
  /\ curr_x \in Nat /\ curr_y \in Nat
  /\ scroll.min_x <= scroll.max_x /\ scroll.max_x <= SCREEN_MAX_X
  /\ scroll.min_y <= scroll.max_y /\ scroll.max_y <= SCREEN_MAX_Y

\* However calls of c_putchar interrupt each other and write the cursor back late,
\* it is in a column of the window when they are done, and above its first line never;
\* of one that is not interrupted it is at most a line below, waiting to be scrolled.
CursorReturns ==
  NobodyPrints =>
    /\ curr_x \in scroll.min_x..scroll.max_x
    /\ curr_y >= scroll.min_y
    /\ ~ mixed => curr_y <= scroll.max_y + 1

Width == scroll.max_x - scroll.min_x + 1
Height == scroll.max_y - scroll.min_y + 1

\* Where the pen is on an endless sheet of this width: line and column after a
\* character c that was printed at pos.
PenMove(width, pos, c) ==
  CASE c = RETURN -> <<pos[1], 0>>
    [] c = NEWLINE -> <<pos[1] + 1, 0>>
    [] OTHER -> IF pos[2] = width - 1 THEN <<pos[1] + 1, 0>> ELSE <<pos[1], pos[2] + 1>>

\* Where it is after each number of characters of t.
Pen(width, t) ==
  LET pen[i \in 0..Len(t)] == IF i = 0 THEN <<0, 0>> ELSE PenMove(width, pen[i - 1], t[i])
  IN  pen

\* The characters of t that wrote or erased a place of the sheet.
Touching(pen, t, line, column) ==
  {i \in DOMAIN t :
    /\ pen[i - 1][1] = line
    /\ \/ t[i] \in LETTERS /\ pen[i - 1][2] = column
       \/ t[i] = NEWLINE /\ pen[i - 1][2] <= column}

\* What is at that place in the end.
Sheet(pen, t, line, column) ==
  LET touching == Touching(pen, t, line, column)
      i == CHOOSE i \in touching : \A j \in touching : j <= i
  IN  IF touching = {} \/ t[i] = NEWLINE THEN BLANK ELSE t[i]

\* The first line in sight: a new one comes in with the first character after the one
\* that ended the line before.
TopLine(pen, t, height) ==
  LET last == IF t = <<>> THEN 0 ELSE pen[Len(t) - 1][1]
  IN  IF last < height THEN 0 ELSE last - height + 1

\* What an undisturbed console shows: the last lines of the sheet the text fills, as
\* many as the window has; and nothing outside the window.
ShowsText ==
  LET pen == Pen(Width, text)
  IN  NobodyPrints /\ ~ mixed =>
        \A cell \in DOMAIN video :
          video[cell] = IF InWindow(cell)
                        THEN Sheet(pen, text, TopLine(pen, text, Height) + cell[2] - scroll.min_y,
                                   cell[1] - scroll.min_x)
                        ELSE BLANK
=============================================================================
