------------------------------ MODULE BIOSText ------------------------------
(***************************************************************************)
(* The text services of INT 10h over the text memory of the adapter, and   *)
(* the renderer that draws changed cells only.                             *)
(*                                                                         *)
(* A cell is a character and an attribute, at its number in video memory.  *)
(* The cursor is a register of the adapter: a number that the BIOS makes   *)
(* from a column and a row, and takes apart again.  The BIOS writes any    *)
(* number into it, also one below 0, a preset its two bytes only.          *)
(***************************************************************************)
EXTENDS Integers, FiniteSets, FiniteSetsExt, Sequences

CONSTANTS
  Modes,      \* the modes: [w, h, pages, text, home], home the cursor of the preset
  Chars,      \* characters that are printed
  Attrs,      \* attributes: "white" is 7, "black" is 0, others as bl has them
  MaxSteps    \* bound on the services called

(* A mode has cells, its text pages lie in the text memory, and the memory  *)
(* is that of the mode that needs most.                                    *)
ASSUME ModesAssumption ==
  /\ \A m \in Modes : /\ {m.w, m.h, m.pages} \subseteq Nat \ {0}
                      /\ m.text \in BOOLEAN
  /\ \E m \in Modes : \A n \in Modes : n.w * n.h * n.pages <= m.w * m.h * m.pages

(* The cursor of a preset is two bytes.                                    *)
ASSUME HomesAssumption == \A m \in Modes : m.home \in Nat /\ m.home < 65536

(* White is an attribute that a program may ask for, and no character looks *)
(* like the entry of an empty cache.                                       *)
ASSUME CellsAssumption == "white" \in Attrs /\ "none" \notin Chars

ASSUME StepsAssumption == MaxSteps \in Nat

VARIABLES
  mode,       \* screen.mode of the BIOS
  page,       \* screen.page of the BIOS
  size,       \* textModeState.size of the adapter, as of its last text mode
  cells,      \* text memory
  cursor,     \* cursorLocation of the adapter
  cursorOn,   \* the cursor is enabled
  outside,    \* memory that is not text memory was written
  crashed,    \* a service threw
  cache,      \* renderCharsCache, and None where it has nothing
  image,      \* what the canvas shows
  canvas,     \* the size of the canvas
  live,       \* history: the program stayed on the first page's screen
  resized,    \* history: the canvas was replaced while the cache was in use
  epoch,      \* history: switches of modes
  steps       \* bound

vars == <<mode, page, size, cells, cursor, cursorOn, outside, crashed,
          cache, image, canvas, live, resized, epoch, steps>>

LF == "lf"
CR == "cr"
BS == "bs"

None == [char |-> "none", attr |-> "none", swapped |-> FALSE]

Cell(c, a) == [char |-> c, attr |-> a]

CellNumbers == 0 .. Max({m.w * m.h * m.pages : m \in Modes}) - 1

Unwritten == Cell("blank", "black")

At(mem, i) == IF i \in CellNumbers THEN mem[i] ELSE Unwritten

TypeOK ==
  /\ mode \in Modes
  /\ page \in 0..1
  /\ size \in {<<m.w, m.h>> : m \in {n \in Modes : n.text}}
  /\ cells \in [CellNumbers -> [char : Chars \cup {"blank"}, attr : Attrs \cup {"black"}]]
  /\ cursor \in Int
  /\ {cursorOn, outside, crashed, live, resized} \subseteq BOOLEAN
  /\ live => ~crashed /\ ~outside
  /\ DOMAIN cache = CellNumbers
  /\ DOMAIN image = CellNumbers
  /\ steps \in 0..MaxSteps

-----------------------------------------------------------------------------
(* The cursor as a column and a row.                                       *)

(* The remainder of JavaScript has the sign of what is divided.            *)
Remainder(n, w) == IF n >= 0 THEN n % w ELSE -((-n) % w)

TextCursorLocation(n) == [x |-> Remainder(n, size[1]), y |-> n \div size[1] - 1]

CursorNumber(x, y) == (y + 1) * size[1] + x

-----------------------------------------------------------------------------
(* What a service works on: memory, the column and the row, and whether it *)
(* wrote elsewhere.                                                        *)

Tty(n) == [cells |-> cells, x |-> TextCursorLocation(n).x, y |-> TextCursorLocation(n).y,
           outside |-> outside]

(* Mutant of ScrollTextUp: the last row stays as it was.                   *)
ScrollKeepsLast(mem, lines, pg) ==
  LET start == size[1] * size[2] * pg IN
  [i \in CellNumbers |->
     IF i >= start /\ i < start + size[1] * (size[2] - 1) THEN At(mem, i + lines * size[1])
     ELSE mem[i]]

(* The last row is blank; a row above it is the one lines below, wherever  *)
(* that is.                                                                *)
ScrollTextUp(mem, lines, pg) ==
  LET start == size[1] * size[2] * pg
      last  == start + size[1] * (size[2] - 1)
  IN [i \in CellNumbers |->
        IF i >= start /\ i < last THEN At(mem, i + lines * size[1])
        ELSE IF i >= last /\ i < last + size[1] THEN Cell("blank", "white")
        ELSE mem[i]]

(* VideoMode.write: only the address decides, not the bounds of the page.  *)
Write(t, c, a) ==
  LET i == (mode.w * mode.h) * page + t.y * mode.w + t.x IN
  IF ~mode.text THEN [t EXCEPT !.outside = @ \/ t.y < 0 \/ t.x < 0]
  ELSE IF i \in CellNumbers THEN [t EXCEPT !.cells[i] = Cell(c, a)]
  ELSE [t EXCEPT !.outside = TRUE]

ScrollIfBelow(t) ==
  IF t.y >= mode.h THEN [t EXCEPT !.cells = ScrollTextUp(@, 1, 0), !.y = mode.h - 1] ELSE t

Advance(t) ==
  IF t.x + 1 < mode.w THEN [t EXCEPT !.x = @ + 1]
  ELSE IF mode.text THEN [t EXCEPT !.x = 0, !.y = @ + 1]
  ELSE t

WriteCharacter(t, c, a) ==
  CASE c = BS -> [t EXCEPT !.x = @ - 1]
    [] c = LF -> ScrollIfBelow([t EXCEPT !.y = @ + 1])
    [] c = CR -> ScrollIfBelow([t EXCEPT !.x = 0])
    [] OTHER  -> Advance(Write(t, c, a))

(* writeCharacters: one cursor object goes through all repetitions.        *)
WriteCharacters(t, c, a, cx) ==
  LET written[n \in 0..cx] == IF n = 0 THEN t ELSE WriteCharacter(written[n - 1], c, a)
  IN written[cx]

-----------------------------------------------------------------------------
(* The services.                                                           *)

(* The memory of a new text mode: its first page is white on black.        *)
Fresh(m) ==
  [i \in CellNumbers |-> Cell("blank", IF m.text /\ i < m.w * m.h THEN "white" ELSE "black")]

OnScreen(n) == n - size[1] \in 0 .. size[1] * size[2] - 1

Init ==
  \E m \in Modes :
    /\ m.text
    /\ mode = m
    /\ size = <<m.w, m.h>>
    /\ cells = Fresh(m)
    /\ page = 0
    /\ cursor = m.home
    /\ cursorOn = TRUE
    /\ outside = FALSE
    /\ crashed = FALSE
    /\ cache = [i \in CellNumbers |-> None]
    /\ image = [i \in CellNumbers |-> [key |-> None, cursor |-> FALSE]]
    /\ canvas = <<0, 0>>
    /\ live = OnScreen(m.home)
    /\ resized = FALSE
    /\ epoch = 0
    /\ steps = 0

Running == ~crashed /\ steps < MaxSteps

Called == Running /\ steps' = steps + 1

Undrawn == UNCHANGED <<cache, image, canvas, resized>>

(* The bytes of a preset replace the low 16 bits of the cursor: below 0 it *)
(* stays as far away as it was.                                            *)
CursorOfPreset(m) == (cursor \div 65536) * 65536 + m.home

(* setVideoMode: the preset brings its own cursor; alloc() of the renderer *)
(* empties the cache, and only a change of renderers calls it.  The page   *)
(* of the BIOS is what it was.                                             *)
SetVideoMode(m) ==
  /\ Called
  /\ mode' = m
  /\ size' = IF m.text THEN <<m.w, m.h>> ELSE size
  /\ cells' = Fresh(m)
  /\ cursor' = CursorOfPreset(m)
  /\ cursorOn' = TRUE
  /\ cache' = IF m.text /\ ~mode.text THEN [i \in CellNumbers |-> None] ELSE cache
  /\ resized' = (resized /\ mode.text)
  /\ live' = (m.text /\ page = 0 /\ ~outside
                /\ cursor' - m.w \in 0 .. m.w * m.h - 1)
  /\ epoch' = epoch + 1
  /\ UNCHANGED <<page, outside, crashed, image, canvas>>

(* A code without a mode, or the mode object of service 11h: the lookup    *)
(* answers undefined.                                                      *)
SetUnknownMode ==
  /\ Called
  /\ crashed' = TRUE
  /\ live' = FALSE
  /\ Undrawn
  /\ UNCHANGED <<mode, page, size, cells, cursor, cursorOn, outside, epoch>>

SetCursorShape(on) ==
  /\ Called
  /\ cursorOn' = on
  /\ Undrawn
  /\ UNCHANGED <<mode, page, size, cells, cursor, outside, crashed, live, epoch>>

SetCursor(x, y) ==
  /\ Called
  /\ cursor' = CursorNumber(x, y)
  /\ live' = (live /\ x < mode.w /\ OnScreen(CursorNumber(x, y)))
  /\ Undrawn
  /\ UNCHANGED <<mode, page, size, cells, cursorOn, outside, crashed, epoch>>

ChangePage(p) ==
  /\ Called
  /\ page' = p
  /\ live' = FALSE
  /\ Undrawn
  /\ UNCHANGED <<mode, size, cells, cursor, cursorOn, outside, crashed, epoch>>

ClearScreen(bh) ==
  LET start == mode.w * mode.h * page IN
  /\ Called
  /\ IF mode.text
     THEN /\ cells' = [i \in CellNumbers |->
                         IF i >= start /\ i < start + mode.w * mode.h THEN Cell("blank", bh)
                         ELSE cells[i]]
          /\ UNCHANGED outside
     ELSE outside' = TRUE /\ UNCHANGED cells
  /\ live' = (live /\ mode.text)
  /\ Undrawn
  /\ UNCHANGED <<mode, page, size, cursor, cursorOn, crashed, epoch>>

ScrollWindow(lines) ==
  /\ Called
  /\ cells' = ScrollTextUp(cells, lines, page)
  /\ live' = (live /\ lines = 1)
  /\ Undrawn
  /\ UNCHANGED <<mode, page, size, cursor, cursorOn, outside, crashed, epoch>>

(* Services 9h and 0Ah: characters from the cursor on; a run that leaves   *)
(* the screen, or has control characters, is not what a terminal promises. *)
WriteRun(c, a, cx) ==
  LET t == WriteCharacters(Tty(cursor), c, a, cx) IN
  /\ Called
  /\ cells' = t.cells
  /\ outside' = t.outside
  /\ live' = (live /\ c \notin {LF, CR, BS}
                /\ OnScreen(cursor + cx - 1))
  /\ Undrawn
  /\ UNCHANGED <<mode, page, size, cursor, cursorOn, crashed, epoch>>

(* Service 0Eh.  Its color is 7 in a text mode.                            *)
Teletype(c) ==
  LET t == WriteCharacter(Tty(cursor), c, "white") IN
  /\ Called
  /\ cells' = t.cells
  /\ outside' = t.outside
  /\ cursor' = CursorNumber(t.x, t.y)
  /\ live' = (live /\ mode.text /\ OnScreen(CursorNumber(t.x, t.y)))
  /\ Undrawn
  /\ UNCHANGED <<mode, page, size, cursorOn, crashed, epoch>>

(* Service 13h reads the cursor again for each character and leaves it.    *)
WriteString(c, d, a) ==
  LET first  == WriteCharacter(Tty(cursor), c, a)
      second == WriteCharacter([Tty(cursor) EXCEPT !.cells = first.cells,
                                                   !.outside = first.outside], d, a)
  IN
  /\ Called
  /\ cells' = second.cells
  /\ outside' = second.outside
  /\ live' = FALSE
  /\ Undrawn
  /\ UNCHANGED <<mode, page, size, cursor, cursorOn, crashed, epoch>>

-----------------------------------------------------------------------------
(* The frame.                                                              *)

Visible == 0 .. size[1] * size[2] - 1

Key(i, blink) ==
  [char |-> At(cells, i).char, attr |-> At(cells, i).attr,
   swapped |-> blink /\ At(cells, i).attr = "blink"]

CursorAt(i) == cursorOn /\ cursor - size[1] = i

(* Mutant of CacheAfter: the cell under the cursor stays cached.           *)
CacheKeepsCursor(i, blink) == Key(i, blink)

CacheAfter(i, blink) == IF CursorAt(i) THEN None ELSE Key(i, blink)

Shown(i, blink, picture) ==
  [key    |-> IF cache[i] = Key(i, blink) THEN picture[i].key ELSE Key(i, blink),
   cursor |-> CursorAt(i) \/ (cache[i] = Key(i, blink) /\ picture[i].cursor)]

(* updateCanvasSize and drawToImageData; the graphics renderer has a       *)
(* canvas of its own.                                                      *)
Frame(blink) ==
  LET new     == canvas # size
      picture == IF new THEN [i \in CellNumbers |-> [key |-> None, cursor |-> FALSE]] ELSE image
  IN
  /\ ~crashed
  /\ mode.text
  /\ canvas' = size
  /\ image' = [i \in CellNumbers |-> IF i \in Visible THEN Shown(i, blink, picture) ELSE picture[i]]
  /\ cache' = [i \in CellNumbers |-> IF i \in Visible THEN CacheAfter(i, blink) ELSE cache[i]]
  /\ resized' = (resized \/ (new /\ \E i \in CellNumbers : cache[i] # None))
  /\ UNCHANGED <<mode, page, size, cells, cursor, cursorOn, outside, crashed, live, epoch, steps>>

Next ==
  \/ \E m \in Modes : SetVideoMode(m)
  \/ SetUnknownMode
  \/ \E on \in BOOLEAN : SetCursorShape(on)
  \/ \E x \in 0..1, y \in {0, 2} : SetCursor(x, y)
  \/ \E p \in 0..1 : ChangePage(p)
  \/ \E bh \in Attrs : ClearScreen(bh)
  \/ \E lines \in 1..2 : ScrollWindow(lines)
  \/ \E c \in Chars \cup {LF}, a \in Attrs, cx \in {1, 3} : WriteRun(c, a, cx)
  \/ \E c \in Chars \cup {LF, CR, BS} : Teletype(c)
  \/ \E c, d \in Chars : c # d /\ WriteString(c, d, "white")
  \/ \E blink \in BOOLEAN : Frame(blink)

Spec == Init /\ [][Next]_vars

-----------------------------------------------------------------------------
(* A program that stays on the first page, and does not print past the end *)
(* of the screen, has a terminal: what it prints is in the cell of the     *)
(* cursor, lines end and scroll, and nothing else on its screen changes.   *)
Grid == [i \in 0 .. mode.w * mode.h - 1 |-> cells[i]]

Screen == INSTANCE Terminal WITH
  Modes <- {[w |-> m.w, h |-> m.h] : m \in {n \in Modes : n.text}},
  mode  <- [w |-> mode.w, h |-> mode.h],
  grid  <- IF live THEN Grid ELSE <<>>,
  at    <- IF live THEN cursor - size[1] ELSE 0

IsTerminal == Screen!Spec

(* A frame leaves each cell of the screen on the canvas as memory has it,  *)
(* with the cursor where the cursor is, although it draws only the cells   *)
(* that its cache holds for changed.                                       *)
MemoryIsShown(blink) ==
  \A i \in Visible : image'[i] = [key |-> Key(i, blink), cursor |-> CursorAt(i)]

FrameShowsMemory ==
  [][\A blink \in BOOLEAN : Frame(blink) /\ ~resized' => MemoryIsShown(blink)]_vars

\* The screen tells the truth: cells, cache and cursor stay well formed over any
\* calls of INT 10h, and a frame shows them.
ScreenIsTrue == []TypeOK /\ FrameShowsMemory

=============================================================================
