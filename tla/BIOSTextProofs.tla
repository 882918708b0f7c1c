--------------------------- MODULE BIOSTextProofs ---------------------------
(***************************************************************************)
(* Proofs about BIOSText, for every set of modes, characters and           *)
(* attributes and any number of calls: the cache of the renderer never     *)
(* hides a change of memory, and a program that stays on its screen has    *)
(* the terminal of Terminal.  A service works on a pen (memory, a column   *)
(* and a row), so each operation has a lemma about pens, and a service is  *)
(* then proved by following its operations.                                *)
(***************************************************************************)
EXTENDS BIOSText, TLAPS

Memory == [CellNumbers -> [char : Chars \cup {"blank"}, attr : Attrs \cup {"black"}]]

Pens == [cells : Memory, x : Int, y : Int, outside : BOOLEAN]

\* What the canvas shows of a cell that the cache has an entry for.
CacheTrue ==
  \A i \in CellNumbers : cache[i] # None => image[i] = [key |-> cache[i], cursor |-> FALSE]

\* The inductive invariant.  A cache that outlives its mode is emptied when the
\* next text mode comes, and a cache that outlives its canvas is no promise.
IInv ==
  /\ TypeOK
  /\ mode.text => size = <<mode.w, mode.h>>
  /\ live => mode.text /\ page = 0 /\ OnScreen(cursor)
  /\ mode.text /\ ~resized => CacheTrue

-----------------------------------------------------------------------------
(* Numbers.                                                                *)

\* A number is its row and its column.
LEMMA RowAndColumn ==
  ASSUME NEW n \in Int, NEW w \in Nat \ {0}
  PROVE  n = (n \div w) * w + (n % w) /\ n % w \in 0 .. w - 1 /\ n \div w \in Int
  <1>1. n % w \in 0 .. w - 1
    OBVIOUS
  <1>2. n \div w \in Int
    OBVIOUS
  <1>3. n = (n \div w) * w + (n % w)
    OBVIOUS
  <1> QED
    BY <1>1, <1>2, <1>3

\* There is one way to be so.
LEMMA OneRowAndColumn ==
  ASSUME NEW w \in Nat \ {0}, NEW x \in 0 .. w - 1, NEW y \in Int, NEW n \in Int, n = y * w + x
  PROVE  n % w = x /\ n \div w = y
  OBVIOUS

\* The cells of a mode are in memory.
LEMMA ModesHaveMemory ==
  ASSUME NEW m \in Modes
  PROVE  /\ m.w \in Nat \ {0} /\ m.h \in Nat \ {0} /\ m.home \in Nat /\ m.text \in BOOLEAN
         /\ m.w * m.h \in Nat \ {0}
         /\ 0 .. m.w * m.h - 1 \subseteq CellNumbers
         /\ CellNumbers \subseteq Nat
  <1> DEFINE sizes == {n.w * n.h * n.pages : n \in Modes}
             most  == Max(sizes)
  <1>1. PICK g \in Modes : \A n \in Modes : n.w * n.h * n.pages <= g.w * g.h * g.pages
    BY ModesAssumption
  <1>2. \A n \in Modes : n.w \in Nat \ {0} /\ n.h \in Nat \ {0} /\ n.pages \in Nat \ {0}
    BY ModesAssumption
  <1>3. \A n \in Modes : n.w * n.h * n.pages \in Nat /\ n.w * n.h \in Nat \ {0}
    BY <1>2
  <1>4. most \in sizes /\ \A k \in sizes : most >= k
    <2>1. g.w * g.h * g.pages \in sizes
      OBVIOUS
    <2>2. \A k \in sizes : g.w * g.h * g.pages >= k
      BY <1>1, <1>3
    <2> QED
      BY <2>1, <2>2 DEF Max
  <1>5. most \in Nat /\ m.w * m.h * m.pages <= most
    BY <1>3, <1>4
  <1>6. m.w * m.h <= m.w * m.h * m.pages
    <2> DEFINE a == m.w * m.h
    <2>1. a \in Nat /\ m.pages \in Nat \ {0}
      BY <1>2, <1>3
    <2> HIDE DEF a
    <2>2. a <= a * m.pages
      BY <2>1
    <2> QED
      BY <2>2 DEF a
  <1>7. CellNumbers = 0 .. most - 1
    BY DEF CellNumbers
  <1>8. m.home \in Nat /\ m.text \in BOOLEAN
    BY ModesAssumption, HomesAssumption
  <1> HIDE DEF most
  <1>9. 0 .. m.w * m.h - 1 \subseteq CellNumbers
    <2> DEFINE a == m.w * m.h
               b == m.w * m.h * m.pages
    <2>1. a \in Nat /\ b \in Nat /\ a <= b /\ b <= most
      BY <1>3, <1>5, <1>6
    <2> HIDE DEF a, b
    <2>2. 0 .. a - 1 \subseteq 0 .. most - 1
      BY <2>1, <1>5
    <2> QED
      BY <2>2, <1>7 DEF a
  <1>10. CellNumbers \subseteq Nat
    BY <1>7
  <1> QED
    BY <1>2, <1>3, <1>8, <1>9, <1>10

-----------------------------------------------------------------------------
(* Pens.                                                                   *)

\* What TypeOK says of the modes and of the size.
LEMMA Sizes ==
  ASSUME TypeOK
  PROVE  /\ mode \in Modes /\ mode.w \in Nat \ {0} /\ mode.h \in Nat \ {0} /\ mode.text \in BOOLEAN
         /\ page \in 0 .. 1 /\ size[1] \in Nat \ {0} /\ size[2] \in Nat \ {0}
         /\ 0 .. size[1] * size[2] - 1 \subseteq CellNumbers
         /\ cells \in Memory /\ cursor \in Int /\ outside \in BOOLEAN
  <1>1. PICK m \in Modes : size = <<m.w, m.h>>
    BY DEF TypeOK
  <1>2. size[1] = m.w /\ size[2] = m.h
    BY <1>1
  <1> QED
    BY <1>2, ModesHaveMemory DEF TypeOK, Memory

LEMMA AtType ==
  ASSUME NEW mem \in Memory, NEW i
  PROVE  At(mem, i) \in [char : Chars \cup {"blank"}, attr : Attrs \cup {"black"}]
  BY DEF At, Memory, Unwritten, Cell

LEMMA FreshType == ASSUME NEW m \in Modes PROVE Fresh(m) \in Memory
  <1> DEFINE a(i) == IF m.text /\ i < m.w * m.h THEN "white" ELSE "black"
  <1>1. \A i \in CellNumbers : a(i) \in Attrs \cup {"black"}
    BY CellsAssumption
  <1>2. Fresh(m) = [i \in CellNumbers |-> Cell("blank", a(i))]
    BY DEF Fresh
  <1> HIDE DEF a
  <1> QED
    BY <1>1, <1>2 DEF Memory, Cell

LEMMA ScrollType == ASSUME NEW mem \in Memory, NEW lines, NEW pg PROVE ScrollTextUp(mem, lines, pg) \in Memory
  BY AtType, CellsAssumption DEF ScrollTextUp, Memory, Cell

\* Column and row of a pen may be set together.
LEMMA Moved ==
  ASSUME NEW t \in Pens, NEW x \in Int, NEW y \in Int
  PROVE  [t EXCEPT !.x = x, !.y = y] \in Pens
  BY DEF Pens

\* The start of the next row.
LEMMA NextRow ==
  ASSUME NEW t \in Pens
  PROVE  /\ [t EXCEPT !.x = 0, !.y = @ + 1] \in Pens
         /\ [t EXCEPT !.x = 0, !.y = @ + 1].x = 0
         /\ [t EXCEPT !.x = 0, !.y = @ + 1].y = t.y + 1
         /\ [t EXCEPT !.x = 0, !.y = @ + 1].cells = t.cells
         /\ [t EXCEPT !.x = 0, !.y = @ + 1].outside = t.outside
  <1>1. t.y \in Int
    BY DEF Pens
  <1>2. PICK y \in Int : y = t.y + 1
    BY <1>1
  <1>3. PICK x \in Int : x = 0
    OBVIOUS
  <1> DEFINE r == [t EXCEPT !.x = 0, !.y = @ + 1]
             q == [t EXCEPT !.x = x, !.y = y]
  <1>4. r = q
    BY <1>2, <1>3
  <1>5. q \in Pens /\ q.x = x /\ q.y = y /\ q.cells = t.cells /\ q.outside = t.outside
    <2> HIDE DEF r
    <2>1. t \in Pens /\ x \in Int /\ y \in Int
      OBVIOUS
    <2>2. q \in Pens
      BY <2>1, Moved
    <2>3. q.x = x /\ q.y = y /\ q.cells = t.cells /\ q.outside = t.outside
      BY <2>1 DEF Pens
    <2> HIDE DEF q
    <2> QED
      BY <2>2, <2>3
  <1>6. r \in Pens /\ r.x = 0 /\ r.y = t.y + 1 /\ r.cells = t.cells /\ r.outside = t.outside
    <2> HIDE DEF r, q
    <2> QED
      BY <1>2, <1>3, <1>4, <1>5
  <1> QED
    BY <1>6

LEMMA TtyType == ASSUME TypeOK PROVE Tty(cursor) \in Pens
  <1> DEFINE x == Remainder(cursor, size[1])
             y == cursor \div size[1] - 1
  <1>1. x \in Int /\ y \in Int
    <2> DEFINE w == size[1]
    <2>1. w \in Nat \ {0} /\ cursor \in Int
      BY Sizes
    <2> HIDE DEF w
    <2>2. cursor % w \in Int /\ cursor \div w - 1 \in Int
      BY <2>1
    <2>3. -((-cursor) % w) \in Int
      BY <2>1
    <2>4. Remainder(cursor, w) \in Int
      BY <2>1, <2>2, <2>3 DEF Remainder
    <2> QED
      BY <2>2, <2>4 DEF w
  <1>2. Tty(cursor) = [cells |-> cells, x |-> x, y |-> y, outside |-> outside]
    BY DEF Tty, TextCursorLocation
  <1> HIDE DEF x, y
  <1> QED
    BY <1>1, <1>2, Sizes DEF Pens

LEMMA WriteType ==
  ASSUME TypeOK, NEW t \in Pens, NEW c \in Chars, NEW a \in Attrs
  PROVE  Write(t, c, a) \in Pens /\ Write(t, c, a).x = t.x /\ Write(t, c, a).y = t.y
  <1> DEFINE i   == (mode.w * mode.h) * page + t.y * mode.w + t.x
             v   == Cell(c, a)
             out == t.outside \/ t.y < 0 \/ t.x < 0
             mem == [t.cells EXCEPT ![i] = v]
  <1>1. Write(t, c, a) \in {[t EXCEPT !.outside = out], [t EXCEPT !.cells = mem], [t EXCEPT !.outside = TRUE]}
    <2>1. [t EXCEPT !.outside = @ \/ t.y < 0 \/ t.x < 0] = [t EXCEPT !.outside = out]
      OBVIOUS
    <2>2. [t EXCEPT !.cells[i] = v] = [t EXCEPT !.cells = mem]
      OBVIOUS
    <2> HIDE DEF out, mem
    <2>3. \/ Write(t, c, a) = [t EXCEPT !.outside = @ \/ t.y < 0 \/ t.x < 0]
          \/ Write(t, c, a) = [t EXCEPT !.cells[i] = v]
          \/ Write(t, c, a) = [t EXCEPT !.outside = TRUE]
      <3> HIDE DEF v
      <3> QED
        BY Zenon DEF Write, v
    <2> QED
      BY <2>1, <2>2, <2>3
  <1>2. out \in BOOLEAN /\ TRUE \in BOOLEAN
    BY DEF Pens
  <1>3. mem \in Memory
    <2>1. v \in [char : Chars \cup {"blank"}, attr : Attrs \cup {"black"}] /\ t.cells \in Memory
      BY DEF Cell, Pens
    <2> HIDE DEF v, i
    <2> QED
      BY <2>1 DEF Memory
  <1> HIDE DEF out, mem
  <1>4. \A o \in BOOLEAN : [t EXCEPT !.outside = o] \in Pens /\ [t EXCEPT !.outside = o].x = t.x
                            /\ [t EXCEPT !.outside = o].y = t.y
    BY DEF Pens
  <1>5. \A m \in Memory : [t EXCEPT !.cells = m] \in Pens /\ [t EXCEPT !.cells = m].x = t.x
                           /\ [t EXCEPT !.cells = m].y = t.y
    BY DEF Pens
  <1> QED
    BY <1>1, <1>2, <1>3, <1>4, <1>5

LEMMA ScrollIfBelowType ==
  ASSUME TypeOK, NEW t \in Pens
  PROVE  ScrollIfBelow(t) \in Pens
  <1> DEFINE m == ScrollTextUp(t.cells, 1, 0)
             y == mode.h - 1
  <1>1. m \in Memory /\ y \in Int
    BY ScrollType, Sizes DEF Pens
  <1>2. ScrollIfBelow(t) \in {t, [t EXCEPT !.cells = m, !.y = y]}
    BY Zenon DEF ScrollIfBelow
  <1> HIDE DEF m, y
  <1>3. [t EXCEPT !.cells = m, !.y = y] \in Pens
    BY <1>1 DEF Pens
  <1> QED
    BY <1>2, <1>3

LEMMA AdvanceType ==
  ASSUME TypeOK, NEW t \in Pens
  PROVE  Advance(t) \in Pens
  <1>1. Advance(t) \in {t, [t EXCEPT !.x = @ + 1], [t EXCEPT !.x = 0, !.y = @ + 1]}
    BY Zenon DEF Advance
  <1>2. [t EXCEPT !.x = @ + 1] \in Pens
    BY DEF Pens
  <1>3. [t EXCEPT !.x = 0, !.y = @ + 1] \in Pens
    BY NextRow
  <1> QED
    BY <1>1, <1>2, <1>3

LEMMA WriteCharacterType ==
  ASSUME TypeOK, NEW t \in Pens, NEW c \in Chars \cup {LF, CR, BS}, NEW a \in Attrs
  PROVE  WriteCharacter(t, c, a) \in Pens
  <1>1. [t EXCEPT !.x = @ - 1] \in Pens /\ [t EXCEPT !.y = @ + 1] \in Pens /\ [t EXCEPT !.x = 0] \in Pens
    BY DEF Pens
  <1>2. c \notin {LF, CR, BS} => c \in Chars
    OBVIOUS
  <1> QED
    BY <1>1, <1>2, WriteType, ScrollIfBelowType, AdvanceType DEF WriteCharacter

\* A run of one or of three characters is what the loop does in one or three turns.
LEMMA RunOf ==
  ASSUME NEW t, NEW c, NEW a
  PROVE  /\ WriteCharacters(t, c, a, 1) = WriteCharacter(t, c, a)
         /\ WriteCharacters(t, c, a, 3)
              = WriteCharacter(WriteCharacter(WriteCharacter(t, c, a), c, a), c, a)
  <1> DEFINE W(u) == WriteCharacter(u, c, a)
  <1> HIDE DEF W
  <1>1. ASSUME NEW cx \in {1, 3} PROVE WriteCharacters(t, c, a, cx) = IF cx = 1 THEN W(t) ELSE W(W(W(t)))
    <2> DEFINE Q(f) == f = [n \in 0 .. cx |-> IF n = 0 THEN t ELSE W(f[n - 1])]
               g == [n \in 0 .. cx |-> IF n = 0 THEN t ELSE IF n = 1 THEN W(t)
                                        ELSE IF n = 2 THEN W(W(t)) ELSE W(W(W(t)))]
               written == CHOOSE f : Q(f)
    <2>1. Q(g)
      OBVIOUS
    <2>2. Q(written)
      <3> HIDE DEF Q, g
      <3> QED
        BY <2>1
    <2>3. WriteCharacters(t, c, a, cx) = written[cx]
      BY Zenon DEF WriteCharacters, W
    <2> HIDE DEF written
    <2>4. /\ written[0] = t
          /\ \A n \in 1 .. cx : written[n] = W(written[n - 1])
      BY <2>2
    <2>5. CASE cx = 1
      BY <2>3, <2>4, <2>5
    <2>6. CASE cx = 3
      <3>1. written[1] = W(written[0])
        BY <2>4, <2>6
      <3>2. written[2] = W(written[1])
        BY <2>4, <2>6
      <3>3. written[3] = W(written[2])
        BY <2>4, <2>6
      <3> QED
        BY <2>3, <2>4, <2>6, <3>1, <3>2, <3>3
    <2> QED
      BY <2>5, <2>6
  <1>2. WriteCharacters(t, c, a, 1) = W(t) /\ WriteCharacters(t, c, a, 3) = W(W(W(t)))
    BY <1>1
  <1> QED
    BY <1>2 DEF W

-----------------------------------------------------------------------------
(* Every service keeps the types.                                          *)

\* The truth values are what they are.
LEMMA Truths ==
  ASSUME TypeOK
  PROVE  cursorOn \in BOOLEAN /\ outside \in BOOLEAN /\ crashed \in BOOLEAN /\ live \in BOOLEAN /\ resized \in BOOLEAN
  BY DEF TypeOK

\* A service leaves the number of steps in its bound.
LEMMA CalledType == ASSUME TypeOK, Called PROVE steps' \in 0 .. MaxSteps /\ ~crashed
  BY StepsAssumption DEF TypeOK, Called, Running

\* What a step that sets no mode has to show for the types.
LEMMA SameMode ==
  ASSUME TypeOK, UNCHANGED <<mode, size>>, page' \in 0 .. 1, cells' \in Memory, cursor' \in Int,
         cursorOn' \in BOOLEAN, outside' \in BOOLEAN, crashed' \in BOOLEAN, live' \in BOOLEAN, resized' \in BOOLEAN,
         live' => ~crashed' /\ ~outside',
         DOMAIN cache' = CellNumbers, DOMAIN image' = CellNumbers, steps' \in 0 .. MaxSteps
  PROVE  TypeOK'
  BY DEF TypeOK, Memory

LEMMA InitType == ASSUME Init PROVE TypeOK
  <1>1. PICK m \in Modes : m.text /\ mode = m /\ size = <<m.w, m.h>> /\ cells = Fresh(m) /\ cursor = m.home
                             /\ live = OnScreen(m.home)
    BY DEF Init
  <1>2. cells \in Memory /\ cursor \in Int
    BY <1>1, FreshType, ModesHaveMemory
  <1>3. live \in BOOLEAN
    BY <1>1 DEF OnScreen
  <1>4. /\ page \in 0 .. 1 /\ cursorOn \in BOOLEAN /\ outside = FALSE /\ crashed = FALSE /\ resized = FALSE
        /\ DOMAIN cache = CellNumbers /\ DOMAIN image = CellNumbers /\ steps = 0
    BY DEF Init
  <1>5. steps \in 0 .. MaxSteps
    BY <1>4, StepsAssumption
  <1>7. {cursorOn, outside, crashed, live, resized} \subseteq BOOLEAN
    BY <1>3, <1>4
  <1>6. mode \in Modes /\ size \in {<<k.w, k.h>> : k \in {n \in Modes : n.text}}
    BY <1>1
  <1> QED
    BY <1>2, <1>4, <1>5, <1>6, <1>7 DEF TypeOK, Memory

LEMMA SetVideoModeType == ASSUME TypeOK, NEW m \in Modes, SetVideoMode(m) PROVE TypeOK'
  <1>1. mode' = m /\ cells' = Fresh(m) /\ cursor' = CursorOfPreset(m) /\ cursorOn' = TRUE /\ size' \in {size, <<m.w, m.h>>}
        /\ (size' # size => m.text) /\ UNCHANGED <<page, outside, crashed, image>>
    BY DEF SetVideoMode
  <1>2. cells' \in Memory /\ cursor' \in Int
    <2>1. m.home \in Int /\ cursor \in Int
      BY ModesHaveMemory DEF TypeOK
    <2>2. CursorOfPreset(m) \in Int
      BY <2>1 DEF CursorOfPreset
    <2> QED
      BY <1>1, <2>2, FreshType
  <1>3. size' \in {<<k.w, k.h>> : k \in {n \in Modes : n.text}}
    BY <1>1 DEF TypeOK
  <1>4. steps' \in 0 .. MaxSteps /\ ~crashed
    BY CalledType DEF SetVideoMode
  <1>5. resized' \in BOOLEAN
    BY DEF SetVideoMode
  <1>6. live' \in BOOLEAN /\ (live' => ~outside)
    BY DEF SetVideoMode
  <1>7. DOMAIN cache' = CellNumbers
    BY DEF SetVideoMode, TypeOK
  <1> QED
    BY <1>1, <1>2, <1>3, <1>4, <1>5, <1>6, <1>7 DEF TypeOK, Memory

LEMMA CursorType == ASSUME TypeOK, NEW x \in Int, NEW y \in Int PROVE CursorNumber(x, y) \in Int
  <1> DEFINE w == size[1]
  <1>1. w \in Nat
    BY Sizes
  <1> HIDE DEF w
  <1>2. (y + 1) * w + x \in Int
    BY <1>1
  <1> QED
    BY <1>2 DEF CursorNumber, w

-----------------------------------------------------------------------------
(* Printing on the screen.                                                 *)

Place(t) == t.y * mode.w + t.x

\* A pen on a cell of the screen.
OnGrid(t) ==
  /\ t \in Pens
  /\ t.x \in 0 .. mode.w - 1
  /\ Place(t) \in 0 .. mode.w * mode.h - 1

\* A program that has a terminal is on the first page of a text mode.
LEMMA LiveScreen ==
  ASSUME IInv, live
  PROVE  /\ mode.text /\ page = 0 /\ ~outside /\ size[1] = mode.w /\ size[2] = mode.h
         /\ cursor - mode.w \in 0 .. mode.w * mode.h - 1
         /\ TypeOK
  <1>1. TypeOK /\ mode.text /\ page = 0 /\ OnScreen(cursor) /\ size = <<mode.w, mode.h>> /\ ~outside
    BY DEF IInv, TypeOK
  <1>2. size[1] = mode.w /\ size[2] = mode.h
    BY <1>1
  <1> QED
    BY <1>1, <1>2 DEF OnScreen

\* A service starts at the cursor.
LEMMA TtyOnGrid ==
  ASSUME IInv, live
  PROVE  /\ OnGrid(Tty(cursor)) /\ Place(Tty(cursor)) = cursor - mode.w
         /\ Tty(cursor).cells = cells /\ Tty(cursor).outside = FALSE
  <1> DEFINE w == mode.w
             x == cursor % w
             y == cursor \div w - 1
  <1>1. TypeOK /\ w \in Nat \ {0} /\ cursor \in Int /\ size[1] = w /\ outside \in BOOLEAN
    BY LiveScreen, Sizes
  <1>a. cursor >= 0
    <2>1. cursor - w \in Nat
      BY LiveScreen
    <2> HIDE DEF w
    <2> QED
      BY <1>1, <2>1
  <1>b. Remainder(cursor, size[1]) = x
    BY <1>1, <1>a DEF Remainder
  <1>2. Tty(cursor) = [cells |-> cells, x |-> x, y |-> y, outside |-> outside]
    BY <1>1, <1>b DEF Tty, TextCursorLocation
  <1> HIDE DEF w
  <1>3. x \in 0 .. w - 1 /\ y \in Int /\ y * w + x = cursor - w
    <2> DEFINE q == cursor \div w
               r == cursor % w
    <2>1. cursor = q * w + r /\ r \in 0 .. w - 1 /\ q \in Int
      BY <1>1, RowAndColumn
    <2> HIDE DEF q, r
    <2>2. (q - 1) * w + r = cursor - w
      BY <2>1, <1>1
    <2> QED
      BY <2>1, <2>2 DEF q, r
  <1> HIDE DEF x, y
  <1>4. Tty(cursor).x = x /\ Tty(cursor).y = y /\ Tty(cursor).cells = cells /\ Tty(cursor).outside = outside
    BY <1>2
  <1>5. outside = FALSE
    BY LiveScreen, <1>1
  <1> QED
    BY <1>1, <1>3, <1>4, <1>5, TtyType, LiveScreen DEF OnGrid, Place, w

\* A character goes into the cell of the pen, and the pen to the next.
LEMMA Printed ==
  ASSUME TypeOK, mode.text, page = 0, NEW t, OnGrid(t),
         NEW c \in Chars \ {LF, CR, BS}, NEW a \in Attrs
  PROVE  /\ WriteCharacter(t, c, a) \in Pens
         /\ WriteCharacter(t, c, a).cells = [t.cells EXCEPT ![Place(t)] = Cell(c, a)]
         /\ WriteCharacter(t, c, a).outside = t.outside
         /\ WriteCharacter(t, c, a).x \in 0 .. mode.w - 1
         /\ Place(WriteCharacter(t, c, a)) = Place(t) + 1
  <1> DEFINE i == (mode.w * mode.h) * page + t.y * mode.w + t.x
             k == Place(t)
             w == mode.w
             u == Write(t, c, a)
             v == Cell(c, a)
             mem == [t.cells EXCEPT ![k] = v]
  <1>1. t \in Pens /\ t.x \in Int /\ t.y \in Int /\ w \in Nat \ {0} /\ mode.w * mode.h \in Nat /\ k \in CellNumbers
    BY Sizes, ModesHaveMemory DEF OnGrid, Pens
  <1>2. i = k
    <2> DEFINE wh == mode.w * mode.h
               p  == t.y * mode.w
    <2>1. wh \in Nat /\ p \in Int
      BY <1>1
    <2> HIDE DEF wh, p
    <2>2. wh * 0 + p + t.x = p + t.x
      BY <2>1, <1>1
    <2> QED
      BY <2>2 DEF wh, p, Place
  <1>3. u = [t EXCEPT !.cells = mem]
    <2>1. u = [t EXCEPT !.cells[i] = v]
      <3> HIDE DEF v
      <3>1. i \in CellNumbers
        BY <1>1, <1>2
      <3> HIDE DEF i
      <3>2. Write(t, c, a) = IF ~mode.text THEN [t EXCEPT !.outside = @ \/ t.y < 0 \/ t.x < 0]
                             ELSE IF i \in CellNumbers THEN [t EXCEPT !.cells[i] = v]
                             ELSE [t EXCEPT !.outside = TRUE]
        BY Zenon DEF Write, v, i
      <3> QED
        BY <3>1, <3>2
    <2> HIDE DEF i, k, v, u
    <2> QED
      BY <2>1, <1>2
  <1>4. mem \in Memory
    <2>1. v \in [char : Chars \cup {"blank"}, attr : Attrs \cup {"black"}] /\ t.cells \in Memory
      BY <1>1 DEF Cell, Pens
    <2> HIDE DEF v, k
    <2> QED
      BY <2>1 DEF Memory
  <1>5. WriteCharacter(t, c, a) = IF u.x + 1 < w THEN [u EXCEPT !.x = @ + 1] ELSE [u EXCEPT !.x = 0, !.y = @ + 1]
    <2>1. c # BS /\ c # LF /\ c # CR
      OBVIOUS
    <2>2. WriteCharacter(t, c, a) = Advance(u)
      BY <2>1 DEF WriteCharacter
    <2> HIDE DEF u
    <2> QED
      BY <2>2 DEF Advance
  <1>6. u \in Pens /\ u.x = t.x /\ u.y = t.y /\ u.cells = mem /\ u.outside = t.outside
    <2> HIDE DEF mem, u
    <2> QED
      BY <1>1, <1>3, <1>4 DEF Pens
  <1>7. t.x \in 0 .. w - 1
    BY DEF OnGrid
  <1>8. t.y * w + t.x + 1 = IF t.x + 1 < w THEN t.y * w + (t.x + 1) ELSE (t.y + 1) * w + 0
    BY <1>1, <1>7
  <1> HIDE DEF u, mem
  <1>9. CASE t.x + 1 < w
    <2>1. WriteCharacter(t, c, a) = [u EXCEPT !.x = @ + 1]
      BY <1>5, <1>6, <1>9
    <2> DEFINE r == [u EXCEPT !.x = @ + 1]
    <2>2. r \in Pens /\ r.x = t.x + 1 /\ r.y = t.y /\ r.cells = mem /\ r.outside = t.outside
      BY <1>6 DEF Pens
    <2> HIDE DEF r
    <2>3. r.y * w + r.x = t.y * w + t.x + 1
      BY <1>8, <1>9, <2>2
    <2>4. r.x \in 0 .. w - 1
      BY <1>7, <1>9, <2>2, <1>1
    <2> QED
      BY <2>1, <2>2, <2>3, <2>4 DEF mem, r, Place
  <1>10. CASE ~(t.x + 1 < w)
    <2>1. WriteCharacter(t, c, a) = [u EXCEPT !.x = 0, !.y = @ + 1]
      BY <1>5, <1>6, <1>10
    <2> DEFINE r == [u EXCEPT !.x = 0, !.y = @ + 1]
    <2>2. r \in Pens /\ r.x = 0 /\ r.y = t.y + 1 /\ r.cells = mem /\ r.outside = t.outside
      BY <1>6, NextRow
    <2> HIDE DEF r
    <2>3. r.y * w + r.x = t.y * w + t.x + 1
      BY <1>8, <1>10, <2>2
    <2>4. r.x \in 0 .. w - 1
      BY <2>2, <1>1
    <2> QED
      BY <2>1, <2>2, <2>3, <2>4 DEF mem, r, Place
  <1> QED
    BY <1>9, <1>10

\* What a character does.
LEMMA Kinds ==
  ASSUME NEW t, NEW c, NEW a
  PROVE  /\ c = BS => WriteCharacter(t, c, a) = [t EXCEPT !.x = @ - 1]
         /\ c = LF => WriteCharacter(t, c, a) = ScrollIfBelow([t EXCEPT !.y = @ + 1])
         /\ c = CR => WriteCharacter(t, c, a) = ScrollIfBelow([t EXCEPT !.x = 0])
         /\ c \notin {LF, CR, BS} => WriteCharacter(t, c, a) = Advance(Write(t, c, a))
  <1> DEFINE b == [t EXCEPT !.x = @ - 1]
             l == ScrollIfBelow([t EXCEPT !.y = @ + 1])
             r == ScrollIfBelow([t EXCEPT !.x = 0])
             o == Advance(Write(t, c, a))
             u == WriteCharacter(t, c, a)
  <1>1. u = CASE c = BS -> b [] c = LF -> l [] c = CR -> r [] OTHER -> o
    BY Zenon DEF WriteCharacter
  <1>2. LF # BS /\ CR # BS /\ CR # LF
    BY DEF LF, BS, CR
  <1> HIDE DEF b, l, r, o, u
  <1>3. (c = BS => u = b) /\ (c = LF => u = l) /\ (c = CR => u = r) /\ (c \notin {LF, CR, BS} => u = o)
    BY <1>1, <1>2
  <1> QED
    BY <1>3 DEF b, l, r, o, u

\* A run that ends on the screen fills its cells and no others.
LEMMA RunFills ==
  ASSUME IInv, live, NEW c \in Chars \ {LF, CR, BS}, NEW a \in Attrs, NEW cx \in {1, 3},
         OnScreen(cursor + cx - 1)
  PROVE  /\ WriteCharacters(Tty(cursor), c, a, cx) \in Pens
         /\ WriteCharacters(Tty(cursor), c, a, cx).outside = FALSE
         /\ WriteCharacters(Tty(cursor), c, a, cx).cells
              = [i \in CellNumbers |-> IF cursor - mode.w <= i /\ i < cursor - mode.w + cx THEN Cell(c, a)
                                       ELSE cells[i]]
  <1> DEFINE at == cursor - mode.w
             W(u) == WriteCharacter(u, c, a)
             t0 == Tty(cursor)
             t1 == W(t0)
             t2 == W(t1)
             t3 == W(t2)
             v  == Cell(c, a)
             n  == mode.w * mode.h
             Done(t, k) == /\ t \in Pens /\ t.outside = FALSE /\ t.x \in 0 .. mode.w - 1 /\ Place(t) = at + k
                           /\ \A i \in CellNumbers : t.cells[i] = IF at <= i /\ i < at + k THEN v ELSE cells[i]
  <1>1. /\ TypeOK /\ mode.text /\ page = 0 /\ mode.w \in Nat \ {0} /\ n \in Nat /\ cursor \in Int
        /\ 0 .. n - 1 \subseteq CellNumbers /\ CellNumbers \subseteq Nat /\ cells \in Memory
    BY LiveScreen, Sizes, ModesHaveMemory
  <1>2. at \in Int /\ at \in 0 .. n - 1 /\ at + cx - 1 \in 0 .. n - 1
    BY <1>1, LiveScreen DEF OnScreen
  <1> HIDE DEF at, n
  <1>3. Done(t0, 0)
    <2>1. OnGrid(t0) /\ Place(t0) = at /\ t0.cells = cells /\ t0.outside = FALSE
      BY TtyOnGrid DEF at
    <2> HIDE DEF t0
    <2>2. t0 \in Pens /\ t0.x \in 0 .. mode.w - 1
      BY <2>1 DEF OnGrid
    <2> QED
      BY <1>1, <1>2, <2>1, <2>2
  <1>4. ASSUME NEW t, NEW k \in 0 .. 2, k < cx, Done(t, k) PROVE Done(W(t), k + 1)
    <2> DEFINE q == at + k
               u == W(t)
    <2>1. q \in 0 .. n - 1 /\ q \in CellNumbers /\ q \in Int
      BY <1>1, <1>2, <1>4
    <2>2. OnGrid(t) /\ Place(t) = q
      BY <1>4, <2>1 DEF OnGrid, n
    <2> HIDE DEF q
    <2>3. u \in Pens /\ u.cells = [t.cells EXCEPT ![q] = v] /\ u.outside = t.outside
          /\ u.x \in 0 .. mode.w - 1 /\ Place(u) = q + 1
      BY <1>1, <2>2, Printed
    <2> HIDE DEF u, v
    <2>4. t.cells \in Memory
      BY <1>4 DEF Pens
    <2>5. ASSUME NEW i \in CellNumbers PROVE u.cells[i] = IF at <= i /\ i < at + (k + 1) THEN v ELSE cells[i]
      <3>1. i \in Int
        BY <1>1
      <3>2. CASE i = q
        BY <1>2, <2>1, <2>3, <2>4, <3>1, <3>2 DEF Memory, q
      <3>3. CASE i # q
        <4>1. u.cells[i] = t.cells[i]
          BY <2>3, <2>4, <3>3 DEF Memory
        <4>2. (at <= i /\ i < at + (k + 1)) <=> (at <= i /\ i < at + k)
          BY <1>2, <3>1, <3>3 DEF q
        <4> QED
          BY <1>4, <4>1, <4>2
      <3> QED
        BY <3>2, <3>3
    <2>6. Place(u) = at + (k + 1) /\ u.outside = FALSE /\ u \in Pens /\ u.x \in 0 .. mode.w - 1
      BY <1>2, <1>4, <2>3 DEF q
    <2>7. Done(u, k + 1)
      BY <2>5, <2>6
    <2> QED
      BY <2>7 DEF u
  <1> HIDE DEF W, t0, Done
  <1>5. Done(t1, 1)
    BY <1>3, <1>4
  <1>6. cx = 3 => Done(t2, 2) /\ Done(t3, 3)
    <2> HIDE DEF t1
    <2>1. cx = 3 => Done(t2, 2)
      BY <1>4, <1>5
    <2> HIDE DEF t2
    <2> QED
      BY <1>4, <2>1
  <1> DEFINE r == WriteCharacters(Tty(cursor), c, a, cx)
  <1>7. Done(r, cx)
    <2>1. WriteCharacters(t0, c, a, 1) = t1 /\ WriteCharacters(t0, c, a, 3) = t3
      BY RunOf DEF W
    <2> HIDE DEF t1, t3
    <2> QED
      BY <1>5, <1>6, <2>1 DEF t0
  <1>8. r \in Pens /\ r.outside = FALSE /\ r.cells \in Memory
        /\ \A i \in CellNumbers : r.cells[i] = IF at <= i /\ i < at + cx THEN v ELSE cells[i]
    <2> HIDE DEF r, v
    <2> QED
      BY <1>7 DEF Done, Pens
  <1>9. r.cells = [i \in CellNumbers |-> IF at <= i /\ i < at + cx THEN v ELSE cells[i]]
    <2> HIDE DEF r, v
    <2> QED
      BY <1>8 DEF Memory
  <1> QED
    BY <1>8, <1>9 DEF at, v

\* Whatever is printed, a run leaves a pen.
LEMMA RunType ==
  ASSUME TypeOK, NEW t \in Pens, NEW c \in Chars \cup {LF, CR, BS}, NEW a \in Attrs, NEW cx \in {1, 3}
  PROVE  WriteCharacters(t, c, a, cx) \in Pens
  <1> DEFINE W(u) == WriteCharacter(u, c, a)
  <1>1. \A u \in Pens : W(u) \in Pens
    BY WriteCharacterType
  <1>2. WriteCharacters(t, c, a, 1) = W(t) /\ WriteCharacters(t, c, a, 3) = W(W(W(t)))
    BY RunOf
  <1> HIDE DEF W
  <1> QED
    BY <1>1, <1>2

\* Lines end and scroll inside of the memory.
LEMMA TypedInside ==
  ASSUME IInv, live, NEW c \in Chars \cup {LF, CR, BS}
  PROVE  WriteCharacter(Tty(cursor), c, "white").outside = FALSE
  <1> DEFINE t == Tty(cursor)
             down == [t EXCEPT !.y = @ + 1]
             home == [t EXCEPT !.x = 0]
  <1>1. TypeOK /\ mode.text /\ page = 0 /\ OnGrid(t) /\ t \in Pens /\ t.outside = FALSE
    BY LiveScreen, TtyOnGrid, TtyType
  <1> HIDE DEF t
  <1>2. \A u \in Pens : ScrollIfBelow(u).outside = u.outside
    <2>1. ASSUME NEW u \in Pens, NEW m, NEW y PROVE [u EXCEPT !.cells = m, !.y = y].outside = u.outside
      BY DEF Pens
    <2>2. \A u \in Pens : \/ ScrollIfBelow(u) = u
                         \/ ScrollIfBelow(u) = [u EXCEPT !.cells = ScrollTextUp(u.cells, 1, 0), !.y = mode.h - 1]
      BY Zenon DEF ScrollIfBelow
    <2>3. ASSUME NEW u \in Pens PROVE ScrollIfBelow(u).outside = u.outside
      <3>1. CASE ScrollIfBelow(u) = u
        BY <3>1
      <3>2. CASE ScrollIfBelow(u) = [u EXCEPT !.cells = ScrollTextUp(u.cells, 1, 0), !.y = mode.h - 1]
        BY <3>2, <2>1
      <3> QED
        BY <2>2, <3>1, <3>2
    <2> QED
      BY <2>3
  <1>3. c \in Chars \ {LF, CR, BS} => WriteCharacter(t, c, "white").outside = FALSE
    BY <1>1, Printed, CellsAssumption
  <1>4. down \in Pens /\ home \in Pens /\ down.outside = FALSE /\ home.outside = FALSE
    BY <1>1 DEF Pens
  <1>5. c = LF => WriteCharacter(t, c, "white").outside = FALSE
    <2>1. c = LF => WriteCharacter(t, c, "white") = ScrollIfBelow(down)
      BY Kinds
    <2> HIDE DEF down
    <2> QED
      BY <1>2, <1>4, <2>1
  <1>6. c = CR => WriteCharacter(t, c, "white").outside = FALSE
    <2>1. c = CR => WriteCharacter(t, c, "white") = ScrollIfBelow(home)
      BY Kinds
    <2> HIDE DEF home
    <2> QED
      BY <1>2, <1>4, <2>1
  <1>7. c = BS => WriteCharacter(t, c, "white").outside = FALSE
    <2>1. c = BS => WriteCharacter(t, c, "white") = [t EXCEPT !.x = @ - 1]
      BY Kinds
    <2>2. [t EXCEPT !.x = @ - 1].outside = FALSE
      BY <1>1 DEF Pens
    <2> QED
      BY <2>1, <2>2
  <1> QED
    BY <1>3, <1>5, <1>6, <1>7 DEF t

-----------------------------------------------------------------------------
(* Every service keeps the invariant.                                      *)

\* What a service other than the setting of a mode leaves alone, and what it
\* keeps while the program has a terminal.
ServiceKeeps ==
  /\ TypeOK' /\ ~crashed
  /\ UNCHANGED <<mode, size, cache, image, canvas, resized, epoch>>
  /\ live' => live /\ page' = page /\ OnScreen(cursor')

LEMMA Keeps ==
  ASSUME IInv, Called, Undrawn, UNCHANGED <<mode, size, epoch>>,
         page' \in 0 .. 1, cells' \in Memory, cursor' \in Int,
         cursorOn' \in BOOLEAN, outside' \in BOOLEAN, crashed' \in BOOLEAN, live' \in BOOLEAN,
         live' => live /\ page' = page /\ OnScreen(cursor') /\ crashed' = crashed /\ outside' = outside
  PROVE  ServiceKeeps
  <1>1. TypeOK /\ DOMAIN cache = CellNumbers /\ DOMAIN image = CellNumbers /\ (live => ~outside)
    BY DEF IInv, TypeOK
  <1>2. resized' \in BOOLEAN /\ steps' \in 0 .. MaxSteps /\ ~crashed
    BY <1>1, Truths, CalledType DEF Undrawn
  <1>3. DOMAIN cache' = CellNumbers /\ DOMAIN image' = CellNumbers
    BY <1>1 DEF Undrawn
  <1>4. live' => ~crashed' /\ ~outside'
    BY <1>1, <1>2
  <1>5. TypeOK'
    BY <1>1, <1>2, <1>3, <1>4, SameMode
  <1> QED
    BY <1>2, <1>5 DEF ServiceKeeps, Undrawn

LEMMA SetUnknownModeKeeps == ASSUME IInv, SetUnknownMode PROVE ServiceKeeps
  <1>1. TypeOK
    BY DEF IInv
  <1> QED
    BY <1>1, Sizes, Truths, Keeps DEF SetUnknownMode

LEMMA SetCursorShapeKeeps == ASSUME IInv, NEW on \in BOOLEAN, SetCursorShape(on) PROVE ServiceKeeps
  <1>1. TypeOK /\ (live => OnScreen(cursor))
    BY DEF IInv
  <1> QED
    BY <1>1, Sizes, Truths, Keeps DEF SetCursorShape

LEMMA SetCursorKeeps == ASSUME IInv, NEW x \in Int, NEW y \in Int, SetCursor(x, y) PROVE ServiceKeeps
  <1>1. TypeOK
    BY DEF IInv
  <1>2. cursor' \in Int
    BY <1>1, CursorType DEF SetCursor
  <1>3. live' \in BOOLEAN /\ (live' => live /\ OnScreen(cursor'))
    BY DEF SetCursor
  <1> QED
    BY <1>1, <1>2, <1>3, Sizes, Truths, Keeps DEF SetCursor

LEMMA ChangePageKeeps == ASSUME IInv, NEW p \in 0 .. 1, ChangePage(p) PROVE ServiceKeeps
  <1>1. TypeOK
    BY DEF IInv
  <1> QED
    BY <1>1, Sizes, Truths, Keeps DEF ChangePage

LEMMA ClearScreenKeeps == ASSUME IInv, NEW bh \in Attrs, ClearScreen(bh) PROVE ServiceKeeps
  <1>1. TypeOK /\ (live => OnScreen(cursor))
    BY DEF IInv
  <1>2. live' \in BOOLEAN /\ (live' => live /\ mode.text)
    BY DEF ClearScreen
  <1>3. cells' \in Memory
    <2>1. Cell("blank", bh) \in [char : Chars \cup {"blank"}, attr : Attrs \cup {"black"}] /\ cells \in Memory
      BY <1>1, Sizes DEF Cell
    <2>2. CASE mode.text
      BY <2>1, <2>2 DEF ClearScreen, Memory
    <2>3. CASE ~mode.text
      BY <2>1, <2>3 DEF ClearScreen
    <2> QED
      BY <2>2, <2>3
  <1>4. outside' \in BOOLEAN /\ (mode.text => outside' = outside)
    BY <1>1, Truths DEF ClearScreen
  <1>5. Called /\ Undrawn /\ UNCHANGED <<mode, page, size, cursor, cursorOn, crashed, epoch>>
    BY DEF ClearScreen
  <1> QED
    BY <1>1, <1>2, <1>3, <1>4, <1>5, Sizes, Truths, Keeps

LEMMA ScrollWindowKeeps == ASSUME IInv, NEW lines \in 1 .. 2, ScrollWindow(lines) PROVE ServiceKeeps
  <1>1. TypeOK /\ (live => OnScreen(cursor))
    BY DEF IInv
  <1>2. cells' \in Memory
    BY <1>1, Sizes, ScrollType DEF ScrollWindow
  <1>3. live' \in BOOLEAN /\ (live' => live)
    BY DEF ScrollWindow
  <1> QED
    BY <1>1, <1>2, <1>3, Sizes, Truths, Keeps DEF ScrollWindow

LEMMA WriteRunKeeps ==
  ASSUME IInv, NEW c \in Chars \cup {LF}, NEW a \in Attrs, NEW cx \in {1, 3}, WriteRun(c, a, cx)
  PROVE  ServiceKeeps
  <1> DEFINE t == WriteCharacters(Tty(cursor), c, a, cx)
  <1>1. TypeOK /\ (live => OnScreen(cursor))
    BY DEF IInv
  <1>2. t \in Pens
    BY <1>1, TtyType, RunType
  <1>3. cells' = t.cells /\ outside' = t.outside
    BY DEF WriteRun
  <1>4. live' \in BOOLEAN /\ (live' => live /\ c \notin {LF, CR, BS} /\ OnScreen(cursor + cx - 1))
    BY DEF WriteRun
  <1>5. live' => t.outside = FALSE
    BY <1>4, RunFills
  <1>6. live => outside = FALSE
    BY <1>1, LiveScreen, Truths
  <1> HIDE DEF t
  <1>7. cells' \in Memory /\ outside' \in BOOLEAN /\ (live' => outside' = outside)
    BY <1>2, <1>3, <1>4, <1>5, <1>6 DEF Pens
  <1>8. Called /\ Undrawn /\ UNCHANGED <<mode, page, size, cursor, cursorOn, crashed, epoch>>
    BY DEF WriteRun
  <1> QED
    BY <1>1, <1>4, <1>7, <1>8, Sizes, Truths, Keeps

LEMMA TeletypeKeeps == ASSUME IInv, NEW c \in Chars \cup {LF, CR, BS}, Teletype(c) PROVE ServiceKeeps
  <1> DEFINE t == WriteCharacter(Tty(cursor), c, "white")
  <1>1. TypeOK
    BY DEF IInv
  <1>2. t \in Pens
    BY <1>1, TtyType, WriteCharacterType, CellsAssumption
  <1>3. cells' = t.cells /\ outside' = t.outside /\ cursor' = CursorNumber(t.x, t.y)
    BY DEF Teletype
  <1>4. live' \in BOOLEAN /\ (live' => live /\ OnScreen(CursorNumber(t.x, t.y)))
    BY DEF Teletype
  <1>5. live => t.outside = FALSE
    BY TypedInside
  <1>6. live => outside = FALSE
    BY <1>1, LiveScreen, Truths
  <1> HIDE DEF t
  <1>7. t.x \in Int /\ t.y \in Int /\ t.cells \in Memory /\ t.outside \in BOOLEAN
    BY <1>2 DEF Pens
  <1>8. cursor' \in Int
    BY <1>1, <1>3, <1>7, CursorType
  <1>9. cells' \in Memory /\ outside' \in BOOLEAN /\ (live' => outside' = outside /\ OnScreen(cursor'))
    BY <1>3, <1>4, <1>5, <1>6, <1>7
  <1>10. Called /\ Undrawn /\ UNCHANGED <<mode, page, size, cursorOn, crashed, epoch>>
    BY DEF Teletype
  <1> QED
    BY <1>1, <1>4, <1>8, <1>9, <1>10, Sizes, Truths, Keeps

LEMMA WriteStringKeeps ==
  ASSUME IInv, NEW c \in Chars, NEW d \in Chars, WriteString(c, d, "white")
  PROVE  ServiceKeeps
  <1> DEFINE first  == WriteCharacter(Tty(cursor), c, "white")
             again  == [Tty(cursor) EXCEPT !.cells = first.cells, !.outside = first.outside]
             second == WriteCharacter(again, d, "white")
  <1>1. TypeOK
    BY DEF IInv
  <1>2. Tty(cursor) \in Pens /\ "white" \in Attrs /\ c \in Chars \cup {LF, CR, BS} /\ d \in Chars \cup {LF, CR, BS}
    BY <1>1, TtyType, CellsAssumption
  <1>3. first \in Pens
    BY <1>1, <1>2, WriteCharacterType
  <1>4. again \in Pens
    <2> DEFINE t == Tty(cursor)
               m == first.cells
               o == first.outside
    <2>1. t \in Pens /\ m \in Memory /\ o \in BOOLEAN
      BY <1>2, <1>3 DEF Pens
    <2> HIDE DEF t, m, o
    <2>2. [t EXCEPT !.cells = m, !.outside = o] \in Pens
      BY <2>1 DEF Pens
    <2> QED
      BY <2>2 DEF t, m, o
  <1>5. second \in Pens
    <2> HIDE DEF again
    <2> QED
      BY <1>1, <1>2, <1>4, WriteCharacterType
  <1>6. cells' = second.cells /\ outside' = second.outside /\ live' = FALSE
        /\ Called /\ Undrawn /\ UNCHANGED <<mode, page, size, cursor, cursorOn, crashed, epoch>>
    BY DEF WriteString
  <1> HIDE DEF second
  <1>7. cells' \in Memory /\ outside' \in BOOLEAN
    BY <1>5, <1>6 DEF Pens
  <1> QED
    BY <1>1, <1>6, <1>7, Sizes, Truths, Keeps

\* A service that keeps so much keeps the invariant.
LEMMA ServiceInv == ASSUME IInv, ServiceKeeps PROVE IInv'
  <1>1. TypeOK' /\ UNCHANGED <<mode, size, cache, image, resized>>
        /\ (live' => live /\ page' = page /\ OnScreen(cursor'))
    BY DEF ServiceKeeps
  <1>2. CacheTrue' = CacheTrue
    BY <1>1 DEF CacheTrue
  <1>3. live' => OnScreen(cursor)'
    BY <1>1 DEF OnScreen
  <1> QED
    BY <1>1, <1>2, <1>3 DEF IInv

LEMMA InitInv == Init => IInv
  <1> SUFFICES ASSUME Init PROVE IInv
    OBVIOUS
  <1>1. TypeOK
    BY InitType
  <1>2. mode.text /\ size = <<mode.w, mode.h>> /\ page = 0 /\ (live = OnScreen(cursor))
        /\ cache = [i \in CellNumbers |-> None]
    BY DEF Init
  <1>3. CacheTrue
    BY <1>2 DEF CacheTrue
  <1> QED
    BY <1>1, <1>2, <1>3 DEF IInv

\* A new mode brings its cursor.  Its cache is empty when it follows a mode that
\* is not a text mode.
LEMMA SetVideoModeInv == ASSUME IInv, NEW m \in Modes, SetVideoMode(m) PROVE IInv'
  <1>1. TypeOK'
    BY SetVideoModeType DEF IInv
  <1>2. mode' = m /\ (m.text => size' = <<m.w, m.h>>) /\ page' = page /\ image' = image
    BY DEF SetVideoMode
  <1>3. live' => m.text /\ page = 0 /\ cursor' - m.w \in 0 .. m.w * m.h - 1
    BY DEF SetVideoMode
  <1>4. m.text => size'[1] = m.w /\ size'[2] = m.h
    BY <1>2
  <1>5. live' => OnScreen(cursor)'
    BY <1>2, <1>3, <1>4 DEF OnScreen
  <1>6. ASSUME m.text, ~resized' PROVE CacheTrue'
    <2>1. CASE mode.text
      <3>1. cache' = cache /\ ~resized
        BY <1>6, <2>1 DEF SetVideoMode
      <3>2. CacheTrue
        BY <2>1, <3>1 DEF IInv
      <3> QED
        BY <1>2, <3>1, <3>2 DEF CacheTrue
    <2>2. CASE ~mode.text
      <3>1. cache' = [i \in CellNumbers |-> None]
        BY <1>6, <2>2 DEF SetVideoMode
      <3> QED
        BY <3>1 DEF CacheTrue
    <2> QED
      BY <2>1, <2>2
  <1> QED
    BY <1>1, <1>2, <1>3, <1>5, <1>6 DEF IInv

-----------------------------------------------------------------------------
(* The frame.                                                              *)

Picture == IF canvas # size THEN [i \in CellNumbers |-> [key |-> None, cursor |-> FALSE]] ELSE image

\* What a frame does to a cell.
LEMMA FrameCells ==
  ASSUME NEW blink \in BOOLEAN, Frame(blink), NEW i \in CellNumbers
  PROVE  /\ i \in Visible => image'[i] = Shown(i, blink, Picture) /\ cache'[i] = CacheAfter(i, blink)
         /\ i \notin Visible => image'[i] = Picture[i] /\ cache'[i] = cache[i]
  BY Zenon DEF Frame, Picture

\* No cell of memory looks like an empty entry.
LEMMA KeyIsSome == ASSUME TypeOK, NEW i, NEW blink \in BOOLEAN PROVE Key(i, blink) # None
  <1>1. At(cells, i).char \in Chars \cup {"blank"}
    BY Sizes, AtType
  <1>2. At(cells, i).char # "none"
    BY <1>1, CellsAssumption
  <1>3. Key(i, blink).char = At(cells, i).char /\ None.char = "none"
    BY DEF Key, None
  <1> QED
    BY <1>2, <1>3

\* What the cache holds is on the picture that the frame starts from, unless the
\* canvas was replaced under it.
LEMMA PictureTrue ==
  ASSUME IInv, NEW blink \in BOOLEAN, Frame(blink), ~resized'
  PROVE  \A i \in CellNumbers : cache[i] # None => Picture[i] = [key |-> cache[i], cursor |-> FALSE]
  <1>1. mode.text /\ ~resized /\ ~(canvas # size /\ \E i \in CellNumbers : cache[i] # None)
    BY DEF Frame
  <1>2. CacheTrue
    BY <1>1 DEF IInv
  <1>3. CASE canvas # size
    BY <1>1, <1>3
  <1>4. CASE canvas = size
    BY <1>2, <1>4 DEF CacheTrue, Picture
  <1> QED
    BY <1>3, <1>4

\* So the frame leaves each visible cell as memory has it, drawn or not.
LEMMA ShownTrue ==
  ASSUME IInv, NEW blink \in BOOLEAN, Frame(blink), ~resized', NEW i \in CellNumbers
  PROVE  Shown(i, blink, Picture) = [key |-> Key(i, blink), cursor |-> CursorAt(i)]
  <1> DEFINE k == Key(i, blink)
             p == Picture[i]
             c == CursorAt(i)
  <1>1. k # None
    BY KeyIsSome DEF IInv
  <1>2. cache[i] = k => p = [key |-> k, cursor |-> FALSE]
    BY <1>1, PictureTrue
  <1>3. c \in BOOLEAN
    BY DEF CursorAt, IInv, TypeOK
  <1>4. Shown(i, blink, Picture) = [key |-> IF cache[i] = k THEN p.key ELSE k,
                                    cursor |-> c \/ (cache[i] = k /\ p.cursor)]
    BY Zenon DEF Shown
  <1> HIDE DEF k, p, c
  <1>5. CASE cache[i] = k
    <2>1. p.key = k /\ p.cursor = FALSE
      BY <1>2, <1>5
    <2> QED
      BY <1>3, <1>4, <1>5, <2>1 DEF k, c
  <1>6. CASE cache[i] # k
    BY <1>3, <1>4, <1>6 DEF k, c
  <1> QED
    BY <1>5, <1>6

LEMMA FrameInv == ASSUME IInv, NEW blink \in BOOLEAN, Frame(blink) PROVE IInv'
  <1>1. /\ mode.text
        /\ UNCHANGED <<mode, page, size, cells, cursor, cursorOn, outside, crashed, live, epoch, steps>>
        /\ DOMAIN image' = CellNumbers /\ DOMAIN cache' = CellNumbers
    BY DEF Frame
  <1>2. resized' \in BOOLEAN
    BY DEF Frame
  <1>3. TypeOK'
    <2>1. TypeOK /\ steps \in 0 .. MaxSteps /\ (live => ~crashed /\ ~outside)
      BY DEF IInv, TypeOK
    <2> QED
      BY <1>1, <1>2, <2>1, Sizes, Truths, SameMode
  <1>4. live' => OnScreen(cursor)'
    BY <1>1 DEF OnScreen, IInv
  <1>5. ASSUME ~resized' PROVE CacheTrue'
    <2>1. ASSUME NEW i \in CellNumbers, cache'[i] # None
          PROVE  image'[i] = [key |-> cache'[i], cursor |-> FALSE]
      <3>1. CASE i \in Visible
        <4>1. image'[i] = [key |-> Key(i, blink), cursor |-> CursorAt(i)] /\ cache'[i] = CacheAfter(i, blink)
          BY <1>5, <3>1, FrameCells, ShownTrue
        <4>2. ~CursorAt(i) /\ cache'[i] = Key(i, blink)
          BY <2>1, <4>1 DEF CacheAfter
        <4>3. CursorAt(i) = FALSE
          BY <4>2 DEF CursorAt
        <4> QED
          BY <4>1, <4>2, <4>3
      <3>2. CASE i \notin Visible
        <4>1. image'[i] = Picture[i] /\ cache'[i] = cache[i]
          BY <3>2, FrameCells
        <4> QED
          BY <1>5, <2>1, <4>1, PictureTrue
      <3> QED
        BY <3>1, <3>2
    <2> QED
      BY <2>1 DEF CacheTrue
  <1> QED
    BY <1>1, <1>3, <1>4, <1>5 DEF IInv

-----------------------------------------------------------------------------
(* The invariant.                                                          *)

LEMMA StepInv == IInv /\ [Next]_vars => IInv'
  <1> SUFFICES ASSUME IInv, [Next]_vars PROVE IInv'
    OBVIOUS
  <1>1. ASSUME NEW m \in Modes, SetVideoMode(m) PROVE IInv'
    BY <1>1, SetVideoModeInv
  <1>2. ASSUME SetUnknownMode PROVE IInv'
    BY <1>2, SetUnknownModeKeeps, ServiceInv
  <1>3. ASSUME NEW on \in BOOLEAN, SetCursorShape(on) PROVE IInv'
    BY <1>3, SetCursorShapeKeeps, ServiceInv
  <1>4. ASSUME NEW x \in 0..1, NEW y \in {0, 2}, SetCursor(x, y) PROVE IInv'
    BY <1>4, SetCursorKeeps, ServiceInv
  <1>5. ASSUME NEW p \in 0..1, ChangePage(p) PROVE IInv'
    BY <1>5, ChangePageKeeps, ServiceInv
  <1>6. ASSUME NEW bh \in Attrs, ClearScreen(bh) PROVE IInv'
    BY <1>6, ClearScreenKeeps, ServiceInv
  <1>7. ASSUME NEW lines \in 1..2, ScrollWindow(lines) PROVE IInv'
    BY <1>7, ScrollWindowKeeps, ServiceInv
  <1>8. ASSUME NEW c \in Chars \cup {LF}, NEW a \in Attrs, NEW cx \in {1, 3}, WriteRun(c, a, cx) PROVE IInv'
    BY <1>8, WriteRunKeeps, ServiceInv
  <1>9. ASSUME NEW c \in Chars \cup {LF, CR, BS}, Teletype(c) PROVE IInv'
    BY <1>9, TeletypeKeeps, ServiceInv
  <1>10. ASSUME NEW c \in Chars, NEW d \in Chars, WriteString(c, d, "white") PROVE IInv'
    BY <1>10, WriteStringKeeps, ServiceInv
  <1>11. ASSUME NEW blink \in BOOLEAN, Frame(blink) PROVE IInv'
    BY <1>11, FrameInv
  <1>12. ASSUME UNCHANGED vars PROVE IInv'
    BY <1>12 DEF vars, IInv, TypeOK, CacheTrue, OnScreen
  <1> QED
    BY <1>1, <1>2, <1>3, <1>4, <1>5, <1>6, <1>7, <1>8, <1>9, <1>10, <1>11, <1>12 DEF Next

LEMMA Inductive == Spec => []IInv
  BY InitInv, StepInv, PTL DEF Spec

\* A frame shows what memory holds.
LEMMA FrameShows ==
  ASSUME IInv, NEW blink \in BOOLEAN, Frame(blink), ~resized'
  PROVE  MemoryIsShown(blink)
  <1>1. ASSUME NEW i \in Visible PROVE image'[i] = [key |-> Key(i, blink), cursor |-> CursorAt(i)]
    <2>1. i \in CellNumbers
      BY Sizes DEF Visible, IInv
    <2> QED
      BY <2>1, FrameCells, ShownTrue
  <1> QED
    BY <1>1 DEF MemoryIsShown

\* The screen tells the truth, for every set of modes and after any number of
\* calls of INT 10h: registers, memory and cursor keep their types, a program that
\* stays on its screen writes nowhere else, and a frame of the text renderer, which
\* draws only the cells that its cache holds for changed, leaves all of the screen
\* as memory has it (VGATextModeCanvasRenderer.drawToImageData, BIOS.ts services).
THEOREM ScreenAlwaysTrue == Spec => ScreenIsTrue
  <1>1. IInv => TypeOK
    BY DEF IInv
  <1>2. IInv => [\A blink \in BOOLEAN : Frame(blink) /\ ~resized' => MemoryIsShown(blink)]_vars
    BY FrameShows
  <1> QED
    BY Inductive, <1>1, <1>2, PTL DEF ScreenIsTrue, FrameShowsMemory

-----------------------------------------------------------------------------
(* The refinement: the first page of a text mode is a terminal.            *)

Area == 0 .. mode.w * mode.h - 1

Rows == [i \in Area |-> cells[i]]

Blank(attr) == [char |-> "blank", attr |-> attr]

RowsUp == [i \in Area |-> IF i + mode.w \in Area THEN cells[i + mode.w] ELSE Blank("white")]

\* The state of the terminal, while there is one.
LEMMA ScreenState ==
  ASSUME IInv, live
  PROVE  /\ TypeOK /\ mode.w \in Nat \ {0} /\ mode.h \in Nat \ {0} /\ mode.w * mode.h \in Nat \ {0}
         /\ Screen!W = mode.w /\ Screen!H = mode.h /\ Screen!Cells = Area
         /\ size[1] = mode.w /\ cursor \in Int /\ cursor - mode.w \in Area
         /\ (IF live THEN Grid ELSE <<>>) = Rows
         /\ (IF live THEN cursor - size[1] ELSE 0) = cursor - mode.w
         /\ Area \subseteq CellNumbers /\ Area \subseteq Nat /\ live = TRUE
  <1>1. TypeOK /\ size[1] = mode.w /\ cursor - mode.w \in 0 .. mode.w * mode.h - 1
    BY LiveScreen
  <1>2. Screen!W = mode.w /\ Screen!H = mode.h
    BY DEF Screen!W, Screen!H
  <1>3. Screen!Cells = Area
    BY <1>2 DEF Screen!Cells, Area
  <1>4. live = TRUE
    BY <1>1, Truths
  <1>5. Grid = Rows
    BY DEF Grid, Rows, Area
  <1>6. mode.w \in Nat \ {0} /\ mode.h \in Nat \ {0} /\ mode.w * mode.h \in Nat \ {0} /\ cursor \in Int
        /\ Area \subseteq CellNumbers /\ Area \subseteq Nat
    BY <1>1, Sizes, ModesHaveMemory DEF Area
  <1> QED
    BY <1>1, <1>2, <1>3, <1>4, <1>5, <1>6 DEF Area

\* What a step of the terminal is, in words of the adapter.
Becomes(A, p) ==
  /\ live' = TRUE /\ mode' = mode /\ epoch' = epoch /\ size' = size
  /\ cursor' - mode.w = p
  /\ [i \in Area |-> cells'[i]] = A

LEMMA ScreenNext ==
  ASSUME IInv, live, NEW A, NEW p, Becomes(A, p)
  PROVE  /\ [w |-> mode.w, h |-> mode.h]' = [w |-> mode.w, h |-> mode.h]
         /\ (IF live THEN Grid ELSE <<>>)' = A
         /\ (IF live THEN cursor - size[1] ELSE 0)' = p
  <1>1. Grid' = A
    BY DEF Becomes, Grid, Area
  <1>2. size[1] = mode.w
    BY ScreenState
  <1> QED
    BY <1>1, <1>2 DEF Becomes

\* Each step of the terminal.
LEMMA IsMoveTo == ASSUME IInv, live, NEW q \in Area, Becomes(Rows, q) PROVE Screen!Next
  <1>1. live' = live /\ epoch' = epoch
    BY ScreenState DEF Becomes
  <1>2. Screen!MoveTo(q)
    BY <1>1, ScreenState, ScreenNext DEF Screen!MoveTo
  <1> QED
    BY <1>2, ScreenState DEF Screen!Next

LEMMA IsPut ==
  ASSUME IInv, live, NEW c \in Chars, NEW a \in Attrs, cursor - mode.w + 1 \in Area,
         Becomes([Rows EXCEPT ![cursor - mode.w] = [char |-> c, attr |-> a]], cursor - mode.w + 1)
  PROVE  Screen!Next
  <1>1. live' = TRUE /\ epoch' = epoch
    BY DEF Becomes
  <1>2. Screen!Put(c, a)
    BY <1>1, ScreenState, ScreenNext DEF Screen!Put
  <1> QED
    BY <1>2, ScreenState DEF Screen!Next

LEMMA IsFill ==
  ASSUME IInv, live, NEW c \in Chars, NEW a \in Attrs, NEW n \in 1 .. 3, cursor - mode.w + n - 1 \in Area,
         Becomes([i \in Area |-> IF cursor - mode.w <= i /\ i < cursor - mode.w + n THEN [char |-> c, attr |-> a]
                                 ELSE Rows[i]], cursor - mode.w)
  PROVE  Screen!Next
  <1>1. live' = live /\ epoch' = epoch
    BY ScreenState DEF Becomes
  <1>2. Screen!Fill(c, a, n)
    BY <1>1, ScreenState, ScreenNext DEF Screen!Fill
  <1> QED
    BY <1>2, ScreenState DEF Screen!Next

\* The rows above are those of the terminal.
LEMMA ScrolledRows ==
  ASSUME IInv, live
  PROVE  Screen!Scrolled = RowsUp
  BY ScreenState DEF Screen!Scrolled, Screen!BlankRow, RowsUp, Rows, Blank

LEMMA IsLineFeed ==
  ASSUME IInv, live,
         \/ cursor - mode.w + mode.w \in Area /\ Becomes(Rows, cursor - mode.w + mode.w)
         \/ cursor - mode.w + mode.w \notin Area /\ Becomes(RowsUp, cursor - mode.w)
  PROVE  Screen!Next
  <1>1. live' = live /\ epoch' = epoch
    BY ScreenState DEF Becomes
  <1>2. Screen!LineFeed
    BY <1>1, ScreenState, ScreenNext, ScrolledRows DEF Screen!LineFeed
  <1> QED
    BY <1>2, ScreenState DEF Screen!Next

LEMMA IsCarriageReturn ==
  ASSUME IInv, live, Becomes(Rows, cursor - mode.w - ((cursor - mode.w) % mode.w))
  PROVE  Screen!Next
  <1>1. live' = live /\ epoch' = epoch
    BY ScreenState DEF Becomes
  <1>2. Screen!CarriageReturn
    BY <1>1, ScreenState, ScreenNext DEF Screen!CarriageReturn
  <1> QED
    BY <1>2, ScreenState DEF Screen!Next

LEMMA IsGoBack ==
  ASSUME IInv, live, cursor - mode.w # 0, Becomes(Rows, cursor - mode.w - 1)
  PROVE  Screen!Next
  <1>1. live' = TRUE /\ epoch' = epoch
    BY DEF Becomes
  <1>2. Screen!GoBack
    BY <1>1, ScreenState, ScreenNext DEF Screen!GoBack
  <1> QED
    BY <1>2, ScreenState DEF Screen!Next

LEMMA IsScrollUp == ASSUME IInv, live, Becomes(RowsUp, cursor - mode.w) PROVE Screen!Next
  <1>1. live' = live /\ epoch' = epoch
    BY ScreenState DEF Becomes
  <1>2. Screen!ScrollUp
    BY <1>1, ScreenState, ScreenNext, ScrolledRows DEF Screen!ScrollUp
  <1> QED
    BY <1>2, ScreenState DEF Screen!Next

LEMMA IsClear ==
  ASSUME IInv, live, NEW a \in Attrs, Becomes([i \in Area |-> Blank(a)], cursor - mode.w)
  PROVE  Screen!Next
  <1>1. live' = live /\ epoch' = epoch
    BY ScreenState DEF Becomes
  <1>2. Screen!Clear(a)
    BY <1>1, ScreenState, ScreenNext DEF Screen!Clear, Screen!BlankRow, Blank
  <1> QED
    BY <1>2, ScreenState DEF Screen!Next

\* Whoever has no terminal after the step has left it.
LEMMA IsLeave == ASSUME live' = FALSE PROVE Screen!Next
  BY DEF Screen!Next, Screen!Leave

-----------------------------------------------------------------------------
(* Every service is a step of the terminal or leaves it.                   *)

\* What a service keeps, while there is a terminal before and after it.
LEMMA Stays ==
  ASSUME IInv, ServiceKeeps, live'
  PROVE  /\ live' = TRUE /\ live /\ mode' = mode /\ epoch' = epoch /\ size' = size
         /\ mode.text /\ page = 0 /\ size[1] = mode.w /\ size[2] = mode.h
         /\ cursor' \in Int /\ cursor' - mode.w \in Area
  <1>1. live' \in BOOLEAN /\ live /\ UNCHANGED <<mode, size, epoch>> /\ TypeOK' /\ OnScreen(cursor')
    BY DEF ServiceKeeps, TypeOK
  <1>2. mode.text /\ page = 0 /\ size[1] = mode.w /\ size[2] = mode.h
    BY <1>1, LiveScreen
  <1>3. cursor' \in Int
    BY <1>1 DEF TypeOK
  <1> QED
    BY <1>1, <1>2, <1>3 DEF OnScreen, Area

\* Steps that only move the cursor.
LEMMA CursorMoves ==
  ASSUME IInv, ServiceKeeps, live', cells' = cells
  PROVE  Screen!Next
  <1>1. Becomes(Rows, cursor' - mode.w) /\ live /\ cursor' - mode.w \in Area
    BY Stays DEF Becomes, Rows
  <1> QED
    BY <1>1, IsMoveTo

\* Not live is left.
LEMMA Left == ASSUME IInv, ServiceKeeps, ~live' PROVE Screen!Next
  <1>1. live' \in BOOLEAN
    BY DEF ServiceKeeps, TypeOK
  <1> QED
    BY <1>1, IsLeave

LEMMA ClearScreenSteps ==
  ASSUME IInv, ServiceKeeps, live', NEW bh \in Attrs, ClearScreen(bh)
  PROVE  Screen!Next
  <1>1. cells' = [i \in CellNumbers |->
                    IF i >= mode.w * mode.h * page /\ i < mode.w * mode.h * page + mode.w * mode.h
                    THEN Cell("blank", bh) ELSE cells[i]]
    BY Stays DEF ClearScreen
  <1>2. mode.w * mode.h * page = 0 /\ live
    BY Stays, ScreenState
  <1>3. \A i \in Area : i \in CellNumbers /\ i >= 0 /\ i < 0 + mode.w * mode.h
    BY <1>2, ScreenState DEF Area
  <1>4. [i \in Area |-> cells'[i]] = [i \in Area |-> Blank(bh)]
    BY <1>1, <1>2, <1>3 DEF Cell, Blank
  <1>5. cursor' = cursor
    BY DEF ClearScreen
  <1>6. Becomes([i \in Area |-> Blank(bh)], cursor - mode.w)
    BY <1>4, <1>5, Stays DEF Becomes
  <1> QED
    BY <1>2, <1>6, IsClear

\* ScrollTextUp moves the rows of the terminal.
LEMMA ScrollMovesRows ==
  ASSUME IInv, live
  PROVE  [i \in Area |-> ScrollTextUp(cells, 1, 0)[i]] = RowsUp
  <1> DEFINE w == mode.w
             h == mode.h
             b == w * (h - 1)
             mem == ScrollTextUp(cells, 1, 0)
  <1>1. w \in Nat \ {0} /\ h \in Nat \ {0} /\ size[1] = w /\ size[2] = h /\ Area \subseteq CellNumbers
        /\ Area \subseteq Nat
    BY ScreenState, LiveScreen
  <1>2. mem = [i \in CellNumbers |->
                 IF i >= size[1] * size[2] * 0 /\ i < size[1] * size[2] * 0 + size[1] * (size[2] - 1)
                 THEN At(cells, i + 1 * size[1])
                 ELSE IF i >= size[1] * size[2] * 0 + size[1] * (size[2] - 1)
                         /\ i < size[1] * size[2] * 0 + size[1] * (size[2] - 1) + size[1]
                 THEN Cell("blank", "white")
                 ELSE cells[i]]
    BY DEF ScrollTextUp
  <1>3. w * h * 0 = 0 /\ w * (h - 1) + w = w * h /\ w * h \in Nat /\ w * (h - 1) \in Nat /\ 1 * w = w
    BY <1>1
  <1>4. b + w = w * h /\ b \in Nat /\ Area = 0 .. b + w - 1
    <2>1. Area = 0 .. w * h - 1
      BY DEF Area
    <2>2. b + w = w * h /\ b \in Nat
      BY <1>3
    <2>3. b + w - 1 = w * h - 1
      <3> DEFINE n == w * h
      <3>1. b + w = n /\ b \in Int /\ w \in Int
        BY <1>1, <2>2
      <3> HIDE DEF b, n, w
      <3> QED
        BY <3>1 DEF n
    <2> QED
      BY <2>1, <2>2, <2>3, Zenon
  <1>5. mem = [i \in CellNumbers |->
                 IF i >= 0 /\ i < 0 + b THEN At(cells, i + w)
                 ELSE IF i >= 0 + b /\ i < 0 + b + w THEN Cell("blank", "white")
                 ELSE cells[i]]
    BY <1>1, <1>2, <1>3
  <1> HIDE DEF w, b, mem
  <1>6. ASSUME NEW i \in Area PROVE mem[i] = IF i + w \in Area THEN cells[i + w] ELSE Blank("white")
    <2>1. i \in CellNumbers /\ i \in Nat /\ i < b + w
      BY <1>1, <1>4
    <2>2. CASE i < b
      <3>1. i + w \in Area /\ i + w \in CellNumbers
        BY <1>1, <1>4, <2>1, <2>2
      <3>2. mem[i] = At(cells, i + w)
        BY <1>4, <1>5, <2>1, <2>2
      <3> QED
        BY <3>1, <3>2 DEF At
    <2>3. CASE ~(i < b)
      <3>1. i + w \notin Area
        BY <1>1, <1>4, <2>1, <2>3
      <3>2. mem[i] = Cell("blank", "white")
        BY <1>4, <1>5, <2>1, <2>3
      <3> QED
        BY <3>1, <3>2 DEF Cell, Blank
    <2> QED
      BY <2>2, <2>3
  <1> QED
    BY <1>6 DEF RowsUp, w, mem

LEMMA ScrollWindowSteps ==
  ASSUME IInv, ServiceKeeps, live', NEW lines \in 1 .. 2, ScrollWindow(lines)
  PROVE  Screen!Next
  <1>1. lines = 1 /\ cells' = ScrollTextUp(cells, lines, page) /\ cursor' = cursor /\ page = 0 /\ live
    BY Stays DEF ScrollWindow
  <1>2. cells' = ScrollTextUp(cells, 1, 0)
    BY <1>1
  <1>3. [i \in Area |-> cells'[i]] = RowsUp
    BY <1>1, <1>2, ScrollMovesRows
  <1>4. Becomes(RowsUp, cursor - mode.w)
    BY <1>1, <1>3, Stays DEF Becomes
  <1> QED
    BY <1>1, <1>4, IsScrollUp

LEMMA WriteRunSteps ==
  ASSUME IInv, ServiceKeeps, live', NEW c \in Chars \cup {LF}, NEW a \in Attrs, NEW cx \in {1, 3},
         WriteRun(c, a, cx)
  PROVE  Screen!Next
  <1>1. /\ c \in Chars \ {LF, CR, BS} /\ live /\ OnScreen(cursor + cx - 1)
        /\ cells' = WriteCharacters(Tty(cursor), c, a, cx).cells /\ cursor' = cursor
    BY Stays DEF WriteRun
  <1>2. cells' = [i \in CellNumbers |-> IF cursor - mode.w <= i /\ i < cursor - mode.w + cx THEN Cell(c, a)
                                        ELSE cells[i]]
    BY <1>1, RunFills, ZenonT(40)
  <1> DEFINE filled == [i \in Area |-> IF cursor - mode.w <= i /\ i < cursor - mode.w + cx
                                       THEN [char |-> c, attr |-> a] ELSE Rows[i]]
  <1>3. Area \subseteq CellNumbers
    BY <1>1, ScreenState
  <1>4. \A i \in Area : Rows[i] = cells[i]
    BY DEF Rows
  <1>5. [i \in Area |-> cells'[i]] = filled
    BY <1>2, <1>3, <1>4 DEF Cell
  <1>6. Becomes(filled, cursor - mode.w)
    BY <1>1, <1>5, Stays DEF Becomes
  <1>7. cursor - mode.w + cx - 1 \in Area
    <2> DEFINE w == mode.w
               k == cursor + cx - 1
               s == size[1]
    <2>1. s = w /\ size[2] = mode.h /\ w \in Nat /\ cursor \in Int /\ cx \in Int
      BY <1>1, Stays, ScreenState
    <2>2. k - s \in 0 .. s * size[2] - 1
      <3>1. OnScreen(k)
        BY <1>1
      <3> HIDE DEF k
      <3> QED
        BY <3>1, Zenon DEF OnScreen
    <2>3. k - s = cursor - w + cx - 1
      <3> HIDE DEF s, w
      <3> QED
        BY <2>1
    <2>4. 0 .. s * size[2] - 1 = Area
      <3> HIDE DEF s
      <3> QED
        BY <2>1, Zenon DEF Area, w
    <2> HIDE DEF k, s
    <2>5. cursor - w + cx - 1 \in Area
      BY <2>2, <2>3, <2>4, Zenon
    <2> QED
      BY <2>5
  <1>8. cx \in 1 .. 3
    OBVIOUS
  <1> QED
    BY <1>1, <1>6, <1>7, <1>8, IsFill

\* Where the pen of a terminal is.
LEMMA PenNumbers ==
  ASSUME IInv, live
  PROVE  /\ Tty(cursor) \in Pens /\ Tty(cursor).cells = cells
         /\ Tty(cursor).x \in 0 .. mode.w - 1 /\ Tty(cursor).y \in 0 .. mode.h - 1
         /\ Tty(cursor).y * mode.w + Tty(cursor).x = cursor - mode.w
         /\ (cursor - mode.w) % mode.w = Tty(cursor).x
  <1> DEFINE t == Tty(cursor)
             x == t.x
             y == t.y
             w == mode.w
             h == mode.h
             p == cursor - mode.w
  <1>1. t \in Pens /\ t.cells = cells /\ x \in 0 .. w - 1 /\ y * w + x = p /\ y \in Int
    BY TtyOnGrid DEF OnGrid, Place, Pens
  <1>2. w \in Nat \ {0} /\ h \in Nat \ {0} /\ p \in 0 .. w * h - 1 /\ p \in Int
    BY ScreenState DEF Area
  <1> HIDE DEF t, x, y, w, h, p
  <1>3. p % w = x
    BY <1>1, <1>2, OneRowAndColumn
  <1>4. y >= 0
    <2>1. y <= -1 => y * w <= -1 * w
      BY <1>1, <1>2
    <2> QED
      BY <1>1, <1>2, <2>1
  <1>5. y <= h - 1
    <2>1. y >= h => y * w >= h * w
      BY <1>1, <1>2
    <2> QED
      BY <1>1, <1>2, <2>1
  <1>6. y \in 0 .. h - 1
    BY <1>1, <1>2, <1>4, <1>5
  <1> QED
    BY <1>1, <1>3, <1>6 DEF t, x, y, w, h, p

\* The number of a cursor is one row above that of its cell.
LEMMA NumberOfCell ==
  ASSUME IInv, live, NEW x \in Int, NEW y \in Int
  PROVE  CursorNumber(x, y) - mode.w = y * mode.w + x
  <1> DEFINE w == mode.w
  <1>1. w \in Nat /\ size[1] = w
    BY ScreenState
  <1> HIDE DEF w
  <1>2. (y + 1) * w + x - w = y * w + x
    BY <1>1
  <1> QED
    BY <1>1, <1>2 DEF CursorNumber, w

LEMMA BackspaceSteps ==
  ASSUME IInv, ServiceKeeps, live', Teletype(BS)
  PROVE  Screen!Next
  <1> DEFINE t == Tty(cursor)
             u == WriteCharacter(t, BS, "white")
  <1>1. live /\ u = [t EXCEPT !.x = @ - 1]
    <2>1. live
      BY Stays
    <2>2. u = [t EXCEPT !.x = @ - 1]
      <3> HIDE DEF t
      <3> QED
        BY Kinds
    <2> QED
      BY <2>1, <2>2
  <1>2. t \in Pens /\ t.cells = cells
    BY <1>1, PenNumbers
  <1>3. cells' = u.cells
    BY DEF Teletype
  <1> HIDE DEF t
  <1>4. u.cells = cells
    BY <1>1, <1>2 DEF Pens
  <1> QED
    BY <1>3, <1>4, CursorMoves

LEMMA LineFeedSteps ==
  ASSUME IInv, ServiceKeeps, live', Teletype(LF)
  PROVE  Screen!Next
  <1> DEFINE t == Tty(cursor)
             d == [t EXCEPT !.y = @ + 1]
             u == ScrollIfBelow(d)
             m == ScrollTextUp(cells, 1, 0)
             y == mode.h - 1
  <1>1. live /\ cells' = u.cells /\ cursor' = CursorNumber(u.x, u.y)
    <2>1. WriteCharacter(t, LF, "white") = u
      BY Kinds
    <2>2. cells' = WriteCharacter(t, LF, "white").cells
          /\ cursor' = CursorNumber(WriteCharacter(t, LF, "white").x, WriteCharacter(t, LF, "white").y)
      BY Zenon DEF Teletype
    <2> HIDE DEF t, u
    <2> QED
      BY <2>1, <2>2, Stays
  <1>2. t \in Pens /\ t.cells = cells /\ t.x \in Int /\ t.y \in 0 .. mode.h - 1
    BY <1>1, PenNumbers DEF Pens
  <1>3. mode.h \in Nat \ {0} /\ mode.w \in Nat \ {0}
    BY <1>1, ScreenState
  <1> HIDE DEF t
  <1>4. d \in Pens /\ d.cells = cells /\ d.x = t.x /\ d.y = t.y + 1
    BY <1>2 DEF Pens
  <1> HIDE DEF d
  <1>5. CASE d.y < mode.h
    <2>1. u = d
      BY <1>3, <1>4, <1>2, <1>5 DEF ScrollIfBelow
    <2> QED
      BY <1>1, <1>4, <2>1, CursorMoves
  <1>6. CASE ~(d.y < mode.h)
    <2>1. d.y = mode.h /\ d.y >= mode.h /\ t.y = mode.h - 1
      BY <1>2, <1>3, <1>4, <1>6
    <2>2. u = [d EXCEPT !.cells = ScrollTextUp(d.cells, 1, 0), !.y = mode.h - 1]
      BY <2>1, Zenon DEF ScrollIfBelow
    <2>3. u = [d EXCEPT !.cells = m, !.y = y]
      BY <1>4, <2>2
    <2> HIDE DEF m, y, u
    <2>4. u.cells = m /\ u.x = d.x /\ u.y = y
      BY <1>4, <2>3 DEF Pens
    <2>5. cursor' = cursor
      <3>1. CursorNumber(t.x, t.y) - mode.w = t.y * mode.w + t.x
        BY <1>1, <1>2, NumberOfCell
      <3>2. t.y * mode.w + t.x = cursor - mode.w
        BY <1>1, PenNumbers DEF t
      <3>3. cursor' = CursorNumber(t.x, t.y)
        BY <1>1, <1>4, <2>1, <2>4 DEF y
      <3>4. cursor' \in Int /\ cursor \in Int
        BY <1>1, Stays, ScreenState
      <3> QED
        BY <1>3, <3>1, <3>2, <3>3, <3>4
    <2>6. [i \in Area |-> cells'[i]] = RowsUp
      BY <1>1, <2>4, ScrollMovesRows DEF m
    <2>7. Becomes(RowsUp, cursor - mode.w)
      BY <2>5, <2>6, Stays DEF Becomes
    <2> QED
      BY <1>1, <2>7, IsScrollUp
  <1> QED
    BY <1>5, <1>6

LEMMA CarriageReturnSteps ==
  ASSUME IInv, ServiceKeeps, live', Teletype(CR)
  PROVE  Screen!Next
  <1> DEFINE t == Tty(cursor)
             d == [t EXCEPT !.x = 0]
             u == ScrollIfBelow(d)
  <1>1. live /\ cells' = u.cells
    <2>1. WriteCharacter(t, CR, "white") = u
      BY Kinds
    <2>2. cells' = WriteCharacter(t, CR, "white").cells
      BY Zenon DEF Teletype
    <2> HIDE DEF t, u
    <2> QED
      BY <2>1, <2>2, Stays
  <1>2. t \in Pens /\ t.cells = cells /\ t.y \in 0 .. mode.h - 1
    BY <1>1, PenNumbers
  <1>3. mode.h \in Nat \ {0}
    BY <1>1, ScreenState
  <1> HIDE DEF t
  <1>4. d.cells = cells /\ d.y = t.y
    BY <1>2 DEF Pens
  <1> HIDE DEF d
  <1>5. u = d
    BY <1>2, <1>3, <1>4 DEF ScrollIfBelow
  <1> QED
    BY <1>1, <1>4, <1>5, CursorMoves

LEMMA CharacterSteps ==
  ASSUME IInv, ServiceKeeps, live', NEW c \in Chars \ {LF, CR, BS}, Teletype(c)
  PROVE  Screen!Next
  <1> DEFINE t == Tty(cursor)
             u == WriteCharacter(t, c, "white")
             p == cursor - mode.w
             v == Cell(c, "white")
  <1>1. live /\ cells' = u.cells /\ cursor' = CursorNumber(u.x, u.y)
    BY Stays DEF Teletype
  <1>2. OnGrid(t) /\ Place(t) = p /\ t.cells = cells
    BY <1>1, TtyOnGrid
  <1>3. TypeOK /\ mode.text /\ page = 0
    BY <1>1, LiveScreen
  <1> HIDE DEF t, p
  <1>4. u \in Pens /\ u.cells = [t.cells EXCEPT ![Place(t)] = v] /\ Place(u) = Place(t) + 1
    BY <1>2, <1>3, Printed, CellsAssumption
  <1> HIDE DEF u, v
  <1>5. u.x \in Int /\ u.y \in Int
    BY <1>4 DEF Pens
  <1>6. cursor' - mode.w = p + 1
    BY <1>1, <1>2, <1>4, <1>5, NumberOfCell DEF Place
  <1>7. Area \subseteq CellNumbers /\ p \in Area /\ cells \in Memory
    BY <1>1, <1>3, ScreenState, Sizes DEF p
  <1>8. [i \in Area |-> cells'[i]] = [Rows EXCEPT ![p] = v]
    BY <1>1, <1>2, <1>4, <1>7 DEF Rows, Memory
  <1>9. v = [char |-> c, attr |-> "white"]
    BY DEF v, Cell
  <1>10. p + 1 \in Area
    BY <1>6, Stays
  <1>11. Becomes([Rows EXCEPT ![p] = [char |-> c, attr |-> "white"]], p + 1)
    BY <1>6, <1>8, <1>9, Stays DEF Becomes
  <1>12. "white" \in Attrs /\ c \in Chars
    BY CellsAssumption
  <1> QED
    BY <1>1, <1>10, <1>11, <1>12, IsPut DEF p

\* Each service.
LEMMA TeletypeSteps ==
  ASSUME IInv, NEW c \in Chars \cup {LF, CR, BS}, Teletype(c)
  PROVE  Screen!Next
  <1>1. ServiceKeeps
    BY TeletypeKeeps
  <1>2. CASE ~live'
    BY <1>1, <1>2, Left
  <1>3. CASE live'
    <2>1. CASE c = BS
      BY <1>1, <1>3, <2>1, BackspaceSteps
    <2>2. CASE c = LF
      BY <1>1, <1>3, <2>2, LineFeedSteps
    <2>3. CASE c = CR
      BY <1>1, <1>3, <2>3, CarriageReturnSteps
    <2>4. CASE c \notin {LF, CR, BS}
      <3>1. c \in Chars \ {LF, CR, BS}
        BY <2>4
      <3> QED
        BY <1>1, <1>3, <3>1, CharacterSteps
    <2> QED
      BY <2>1, <2>2, <2>3, <2>4
  <1> QED
    BY <1>2, <1>3

\* A mode that is set begins a new terminal, or none.
LEMMA SetVideoModeSteps ==
  ASSUME IInv, NEW m \in Modes, SetVideoMode(m)
  PROVE  Screen!Next
  <1>1. IInv'
    BY SetVideoModeInv
  <1>2. CASE ~live'
    <2>1. live' \in BOOLEAN
      BY <1>1 DEF IInv, TypeOK
    <2> QED
      BY <1>2, <2>1, IsLeave
  <1>3. CASE live'
    <2>1. /\ mode' = m /\ m.text /\ size' = <<m.w, m.h>> /\ cells' = Fresh(m)
          /\ cursor' - m.w \in 0 .. m.w * m.h - 1 /\ epoch' = epoch + 1
      BY <1>3 DEF SetVideoMode
    <2>2. live' = TRUE
      BY <1>1, <1>3 DEF IInv, TypeOK
    <2>3. m.w * m.h \in Nat /\ 0 .. m.w * m.h - 1 \subseteq CellNumbers /\ CellNumbers \subseteq Nat
      BY ModesHaveMemory
    <2> DEFINE s == [w |-> mode.w, h |-> mode.h]
               g == IF live THEN Grid ELSE <<>>
               p == IF live THEN cursor - size[1] ELSE 0
               n == [w |-> m.w, h |-> m.h]
               fresh == [i \in 0 .. m.w * m.h - 1 |-> Blank("white")]
    <2>4. s' = n /\ n \in {[w |-> k.w, h |-> k.h] : k \in {j \in Modes : j.text}}
      BY <2>1
    <2>5. Grid' = fresh
      <3>1. Grid' = [i \in 0 .. m.w * m.h - 1 |-> Fresh(m)[i]]
        BY <2>1 DEF Grid
      <3>2. \A i \in 0 .. m.w * m.h - 1 : Fresh(m)[i] = Blank("white")
        BY <2>1, <2>3 DEF Fresh, Cell, Blank
      <3> QED
        BY <3>1, <3>2
    <2>6. g' = fresh
      BY <2>2, <2>5
    <2>7. p' = cursor' - m.w
      <3>1. size'[1] = m.w
        BY <2>1
      <3> QED
        BY <2>1, <2>2, <3>1
    <2>8. p' \in DOMAIN g'
      BY <2>1, <2>6, <2>7
    <2>9. g' = [i \in 0 .. s'.w * s'.h - 1 |-> Screen!BlankRow("white")]
      <3>1. s'.w = m.w /\ s'.h = m.h
        BY <2>4
      <3> QED
        BY <2>6, <3>1 DEF Blank, Screen!BlankRow
    <2>10. Screen!SetMode
      <3> HIDE DEF s, g, p
      <3>1. s' \in {[w |-> k.w, h |-> k.h] : k \in {j \in Modes : j.text}}
        BY <2>4
      <3> QED
        BY <2>1, <2>2, <2>8, <2>9, <3>1 DEF Screen!SetMode, s, g, p
    <2> QED
      BY <2>10 DEF Screen!Next
  <1> QED
    BY <1>2, <1>3

\* What the terminal does not see.
LEMMA Unseen ==
  ASSUME UNCHANGED <<mode, size, cells, cursor, live, epoch>>
  PROVE  UNCHANGED Screen!vars
  BY DEF Screen!vars, Grid

\* Every step.
LEMMA ScreenStep == IInv /\ [Next]_vars => [Screen!Next]_(Screen!vars)
  <1> SUFFICES ASSUME IInv, [Next]_vars PROVE [Screen!Next]_(Screen!vars)
    OBVIOUS
  <1>1. ASSUME NEW m \in Modes, SetVideoMode(m) PROVE Screen!Next
    BY <1>1, SetVideoModeSteps
  <1>2. ASSUME SetUnknownMode PROVE Screen!Next
    BY <1>2, IsLeave DEF SetUnknownMode
  <1>3. ASSUME NEW on \in BOOLEAN, SetCursorShape(on) PROVE UNCHANGED Screen!vars
    BY <1>3, Unseen DEF SetCursorShape
  <1>4. ASSUME NEW x \in 0..1, NEW y \in {0, 2}, SetCursor(x, y) PROVE Screen!Next
    <2>1. ServiceKeeps /\ cells' = cells
      BY <1>4, SetCursorKeeps DEF SetCursor
    <2> QED
      BY <2>1, Left, CursorMoves
  <1>5. ASSUME NEW p \in 0..1, ChangePage(p) PROVE Screen!Next
    BY <1>5, IsLeave DEF ChangePage
  <1>6. ASSUME NEW bh \in Attrs, ClearScreen(bh) PROVE Screen!Next
    BY <1>6, ClearScreenKeeps, Left, ClearScreenSteps
  <1>7. ASSUME NEW lines \in 1..2, ScrollWindow(lines) PROVE Screen!Next
    BY <1>7, ScrollWindowKeeps, Left, ScrollWindowSteps
  <1>8. ASSUME NEW c \in Chars \cup {LF}, NEW a \in Attrs, NEW cx \in {1, 3}, WriteRun(c, a, cx) PROVE Screen!Next
    BY <1>8, WriteRunKeeps, Left, WriteRunSteps
  <1>9. ASSUME NEW c \in Chars \cup {LF, CR, BS}, Teletype(c) PROVE Screen!Next
    BY <1>9, TeletypeSteps
  <1>10. ASSUME NEW c \in Chars, NEW d \in Chars, WriteString(c, d, "white") PROVE Screen!Next
    BY <1>10, IsLeave DEF WriteString
  <1>11. ASSUME NEW blink \in BOOLEAN, Frame(blink) PROVE UNCHANGED Screen!vars
    BY <1>11, Unseen DEF Frame
  <1>12. ASSUME UNCHANGED vars PROVE UNCHANGED Screen!vars
    BY <1>12, Unseen DEF vars
  <1> QED
    BY <1>1, <1>2, <1>3, <1>4, <1>5, <1>6, <1>7, <1>8, <1>9, <1>10, <1>11, <1>12 DEF Next

\* A machine starts with a blank terminal, or without one.
LEMMA ScreenStarts == Init => Screen!Init
  <1> SUFFICES ASSUME Init PROVE Screen!Init
    OBVIOUS
  <1>1. IInv
    BY InitInv
  <1>2. epoch = 0 /\ live \in BOOLEAN
    BY <1>1 DEF Init, IInv, TypeOK
  <1>3. ASSUME live
        PROVE  /\ [w |-> mode.w, h |-> mode.h] \in {[w |-> m.w, h |-> m.h] : m \in {n \in Modes : n.text}}
               /\ (IF live THEN Grid ELSE <<>>) = Screen!Blank
               /\ (IF live THEN cursor - size[1] ELSE 0) \in Screen!Cells
    <2>1. mode \in Modes /\ mode.text /\ cells = Fresh(mode)
      BY DEF Init
    <2>2. Area \subseteq CellNumbers /\ Screen!Cells = Area
          /\ (IF live THEN Grid ELSE <<>>) = Rows /\ (IF live THEN cursor - size[1] ELSE 0) \in Area
      BY <1>1, <1>3, ScreenState
    <2>3. \A i \in Area : cells[i] = Screen!BlankRow("white")
      <3>1. \A i \in Area : i \in CellNumbers /\ i < mode.w * mode.h
        BY <2>1, <2>2, ModesHaveMemory DEF Area
      <3>2. \A i \in CellNumbers : cells[i] = Cell("blank", IF mode.text /\ i < mode.w * mode.h THEN "white" ELSE "black")
        BY <2>1, Zenon DEF Fresh
      <3> QED
        BY <2>1, <3>1, <3>2 DEF Cell, Screen!BlankRow
    <2>4. Rows = Screen!Blank
      BY <2>2, <2>3 DEF Rows, Screen!Blank
    <2> QED
      BY <2>1, <2>2, <2>4
  <1> QED
    BY <1>2, <1>3 DEF Screen!Init

\* A program that stays on the first page and does not print past the end of the
\* screen has a terminal, for every set of modes: characters, line ends, the scroll
\* at the last row and the services for the cursor, for runs and for clearing
\* (BIOS.writeCharacter, setCursor, scrollTextUp, clearScreen, the register of the
\* cursor that counts rows from one) compose to the steps of Terminal.
THEOREM ScreenImplementsTerminal == Spec => IsTerminal
  <1>1. Init => Screen!Init
    BY ScreenStarts
  <1>2. IInv /\ [Next]_vars => [Screen!Next]_(Screen!vars)
    BY ScreenStep
  <1> QED
    BY Inductive, <1>1, <1>2, PTL DEF Spec, IsTerminal, Screen!Spec

=============================================================================
