------------------------------ MODULE Terminal ------------------------------
(***************************************************************************)
(* Abstract: the terminal that a program printing through the BIOS sees.   *)
(* A grid of cells, a cursor on the grid.  Whoever leaves the grid (prints *)
(* past its last cell, goes back from its first, changes to another page,  *)
(* scrolls several lines, sets a mode that starts outside) is promised     *)
(* nothing until a text mode is set whose cursor is on the grid.           *)
(***************************************************************************)
EXTENDS Integers

CONSTANTS Chars, Attrs, Modes

VARIABLES mode, grid, at, live, epoch

vars == <<mode, grid, at, live, epoch>>

W == mode.w
H == mode.h

BlankRow(attr) == [char |-> "blank", attr |-> attr]

(* Cells are numbered by row; at is the number of the cursor's cell.       *)
Cells == 0 .. W * H - 1

Blank == [i \in Cells |-> BlankRow("white")]

(* A machine starts with a blank screen, or with its cursor off the grid.   *)
Init ==
  /\ epoch = 0
  /\ live = FALSE \/ (live = TRUE /\ mode \in Modes /\ grid = Blank /\ at \in Cells)

Leave == live' = FALSE

Put(c, a) ==
  /\ grid' = [grid EXCEPT ![at] = [char |-> c, attr |-> a]]
  /\ IF at + 1 \in Cells THEN at' = at + 1 /\ live' = TRUE ELSE Leave
  /\ UNCHANGED <<mode, epoch>>

Scrolled == [i \in Cells |-> IF i + W \in Cells THEN grid[i + W] ELSE BlankRow("white")]

LineFeed ==
  /\ IF at + W \in Cells THEN at' = at + W /\ UNCHANGED grid
     ELSE at' = at /\ grid' = Scrolled
  /\ UNCHANGED <<mode, live, epoch>>

CarriageReturn == at' = at - (at % W) /\ UNCHANGED <<mode, grid, live, epoch>>

GoBack ==
  /\ IF at = 0 THEN Leave ELSE at' = at - 1 /\ live' = TRUE
  /\ UNCHANGED <<mode, grid, epoch>>

(* The same character n times from the cursor on, which stays.             *)
Fill(c, a, n) ==
  /\ at + n - 1 \in Cells
  /\ grid' = [i \in Cells |-> IF at <= i /\ i < at + n THEN [char |-> c, attr |-> a] ELSE grid[i]]
  /\ UNCHANGED <<mode, at, live, epoch>>

MoveTo(i) == at' = i /\ UNCHANGED <<mode, grid, live, epoch>>

Clear(a) == grid' = [i \in Cells |-> BlankRow(a)] /\ UNCHANGED <<mode, at, live, epoch>>

ScrollUp == grid' = Scrolled /\ UNCHANGED <<mode, at, live, epoch>>

SetMode ==
  /\ mode' \in Modes
  /\ grid' = [i \in 0 .. mode'.w * mode'.h - 1 |-> BlankRow("white")]
  /\ at' \in DOMAIN grid'
  /\ live' = TRUE
  /\ epoch' = epoch + 1

Next ==
  \/ live = TRUE /\ \E c \in Chars, a \in Attrs : Put(c, a)
  \/ live = TRUE /\ \E c \in Chars, a \in Attrs, n \in 1..3 : Fill(c, a, n)
  \/ live = TRUE /\ (LineFeed \/ CarriageReturn \/ GoBack \/ ScrollUp)
  \/ live = TRUE /\ \E i \in Cells : MoveTo(i)
  \/ live = TRUE /\ \E a \in Attrs : Clear(a)
  \/ SetMode
  \/ Leave

Spec == Init /\ [][Next]_vars
=============================================================================
