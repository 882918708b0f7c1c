----------------------------- MODULE X86Machine -----------------------------
(***************************************************************************)
(* The life of the machines that the page runs (X86CPU.ts, X86AbstractCPU, *)
(* BIOS.ts, VGARenderLoopDriver.ts, EditorContainer.tsx).  Every program   *)
(* that is run gets a CPU of its own; the CPU before it is released, but   *)
(* what it has put into the event loop of the page is still there: a       *)
(* message that runs its next slice, an animation frame, a timer, and the  *)
(* listeners on the document.                                              *)
(*                                                                         *)
(* A task of the event loop is one action, except a slice of execution: it *)
(* is begun, executes instructions and is ended by the clock of the page,  *)
(* and no other task runs meanwhile.  Of the instructions those are        *)
(* modelled that a task outside the slice can meet.                        *)
(***************************************************************************)
EXTENDS Integers

CONSTANTS
  Machines,   \* the CPUs that are created, one for each run of a program
  Keys,       \* the keys of the keyboard
  Modifiers,  \* those that isCaseModifyKeycode leaves out: shift, ctrl, alt
  None        \* no key, no machine

ASSUME MachineAssumption ==
  /\ None \notin Machines /\ None \notin Keys
  /\ Modifiers \subseteq Keys

Cpus ==
  [stage    : {"unborn", "mounted", "released"},
   clock    : BOOLEAN,                          \* not halted
   pause    : BOOLEAN,                          \* ticks do nothing
   devices  : BOOLEAN,                          \* devices # null
   loop     : {"none", "posted", "running"},    \* the asap message
   frame    : BOOLEAN,                          \* a requestAnimationFrame is pending
   timers   : Nat,                              \* setTimeouts of INT 15h that are pending
   key      : Keys \cup {None},                 \* keymap.key
   callback : BOOLEAN,                          \* keymap.callback is set
   graphics : BOOLEAN,                          \* the renderer is the one of the graphics modes
   dirty    : BOOLEAN,                          \* video memory differs from the screen
   fresh    : Int]                              \* history: 1 if a keystroke came since the last read

VARIABLES
  cpus,    \* the CPUs
  screen   \* whose video memory the screen element shows

vars == <<cpus, screen>>

Unborn ==
  [stage |-> "unborn", clock |-> TRUE, pause |-> FALSE, devices |-> TRUE, loop |-> "none",
   frame |-> FALSE, timers |-> 0, key |-> None, callback |-> FALSE,
   graphics |-> FALSE, dirty |-> FALSE, fresh |-> 0]

Init == cpus = [m \in Machines |-> Unborn] /\ screen = None

Slicing == \E m \in Machines : cpus[m].loop = "running"

Becomes(m, c) == cpus' = [cpus EXCEPT ![m] = c]

-----------------------------------------------------------------------------
(* The page.                                                               *)

\* new X86CPU: its BIOS listens to the document, boot() posts the first message
\* and requests the first frame; the BIOS has set a text mode.
Booted == [Unborn EXCEPT !.stage = "mounted", !.loop = "posted", !.frame = TRUE, !.dirty = TRUE]

\* halt: a halted CPU is only warned about.
Halted(c) == [c EXCEPT !.clock = FALSE]

\* Mutant of Released: the devices stay.
ReleasedWithDevices(c) == [Halted(c) EXCEPT !.stage = "released"]

\* release: halts the CPU and drops its devices, with the VGA what was to be drawn
\* of it, but no listener, timer or frame.
Released(c) ==
  [Halted(c) EXCEPT !.stage = "released", !.devices = FALSE, !.graphics = FALSE, !.dirty = FALSE]

Unmounted(c) == IF c.stage = "mounted" THEN Released(c) ELSE c

\* The effect of EditorContainer: cleans up what it had mounted, mounts anew.
Run(m) ==
  /\ ~Slicing /\ cpus[m].stage = "unborn"
  /\ cpus' = [n \in Machines |-> IF n = m THEN Booted ELSE Unmounted(cpus[n])]
  /\ UNCHANGED screen

Stop ==
  /\ ~Slicing /\ \E m \in Machines : cpus[m].stage = "mounted"
  /\ cpus' = [n \in Machines |-> Unmounted(cpus[n])]
  /\ UNCHANGED screen

-----------------------------------------------------------------------------
(* Keyboard.                                                               *)

\* Mutant of KeyBufferCleared: the callback survives.
KeyBufferClearedOnly(c) == [c EXCEPT !.key = None]

\* clearKeyBuffer()
KeyBufferCleared(c) == [c EXCEPT !.key = None, !.callback = FALSE]

\* What readKeyState puts into AX is the keystroke, read once.
KeyRead(c) == [KeyBufferCleared(c) EXCEPT !.fresh = @ - 1]

\* The keydown listener: a CPU that waits gets the key when nothing on the page
\* has the focus, unless it is a modifier.
Pressed(c, k, focused) ==
  LET held == [c EXCEPT !.key = k, !.fresh = IF k \in Modifiers THEN @ ELSE 1] IN
  IF c.callback /\ focused /\ k \notin Modifiers
    THEN [KeyRead(held) EXCEPT !.pause = FALSE]
    ELSE held

\* Every CPU that was ever created has its listeners on the document.
KeyDown(k, focused) ==
  /\ ~Slicing
  /\ cpus' = [m \in Machines |-> IF cpus[m].stage = "unborn" THEN cpus[m]
                                 ELSE Pressed(cpus[m], k, focused)]
  /\ UNCHANGED screen

\* keyup: clearKeyBuffer(false)
KeyUp ==
  /\ ~Slicing
  /\ cpus' = [m \in Machines |-> [cpus[m] EXCEPT !.key = None]]
  /\ UNCHANGED screen

-----------------------------------------------------------------------------
(* Slices of execution.                                                    *)

\* The message of asap: exec(1) of a halted CPU does nothing, and the loop ends.
BeginSlice(m) ==
  /\ ~Slicing /\ cpus[m].loop = "posted"
  /\ Becomes(m, [cpus[m] EXCEPT !.loop = IF cpus[m].clock THEN "running" ELSE "none"])
  /\ UNCHANGED screen

\* The millisecond is over: the next message is posted, unless the CPU was halted.
EndSlice(m) ==
  /\ cpus[m].loop = "running"
  /\ Becomes(m, [cpus[m] EXCEPT !.loop = IF cpus[m].clock THEN "posted" ELSE "none"])
  /\ UNCHANGED screen

\* tick: within the slice only pause is looked at, not the clock.
Ticking(m) == cpus[m].loop = "running" /\ ~cpus[m].pause

Instruction(m, c) == Ticking(m) /\ Becomes(m, c) /\ UNCHANGED screen

\* An instruction that writes to video memory.
Draw(m) == Instruction(m, [cpus[m] EXCEPT !.dirty = TRUE])

\* INT 10h, AH = 0: the mode decides on the renderer.
SetMode(m, g) == Instruction(m, [cpus[m] EXCEPT !.graphics = g, !.dirty = TRUE])

\* HLT, or an interrupt function that the BIOS does not know.
Halt(m) == Instruction(m, Halted(cpus[m]))

\* INT 15h, AH = 86h: carry is set and cleared again within the wait, which the
\* program does not see; less than two milliseconds are no wait.
WaitTime(m) ==
  Instruction(m, [cpus[m] EXCEPT !.pause = TRUE, !.timers = @ + 1])

\* INT 16h, AH = 0 or 10h: waits for a key, reads the one that is held, and
\* returns without any when a modifier is held.
WaitKey(m) ==
  LET c == cpus[m] IN
  \/ c.key = None /\ Instruction(m, [c EXCEPT !.pause = TRUE, !.callback = TRUE])
  \/ c.key \in Keys \ Modifiers /\ Instruction(m, KeyRead(c))

\* An instruction that throws: the slice is left, no message is posted, and
\* the clock goes on.
Crash(m) == Instruction(m, [cpus[m] EXCEPT !.loop = "none"])

\* Mutant of Timer: it is ignored once the CPU is halted.
TimerUnlessHalted(m) ==
  /\ ~Slicing /\ cpus[m].timers > 0
  /\ Becomes(m, IF cpus[m].clock THEN [cpus[m] EXCEPT !.pause = FALSE, !.timers = @ - 1]
                ELSE [cpus[m] EXCEPT !.timers = @ - 1])
  /\ UNCHANGED screen

\* The setTimeout of INT 15h, whatever has become of the CPU.
Timer(m) ==
  /\ ~Slicing /\ cpus[m].timers > 0
  /\ Becomes(m, [cpus[m] EXCEPT !.pause = FALSE, !.timers = @ - 1])
  /\ UNCHANGED screen

\* redraw: nothing without a VGA.  While the clock goes, a frame draws what was
\* marked, which is not all that has changed when the canvas was replaced or the
\* palette was set (drawn).  Once the clock stands, everything is marked: the
\* text renderer empties its cache and draws every cell, the graphics renderer
\* gets a region from -1 to -1, of which no pixel is drawn.
Redrawn(c, drawn) ==
  IF c.devices /\ (IF c.clock THEN drawn ELSE ~c.graphics) THEN [c EXCEPT !.dirty = FALSE] ELSE c

\* Mutant of Frame: a halted CPU is not drawn any more.
FrameUnlessHalted(m) ==
  /\ ~Slicing /\ cpus[m].frame
  /\ IF cpus[m].clock THEN \E drawn \in BOOLEAN : Becomes(m, Redrawn(cpus[m], drawn))
     ELSE Becomes(m, [cpus[m] EXCEPT !.frame = FALSE])
  /\ screen' = IF cpus[m].clock /\ cpus[m].devices THEN m ELSE screen

\* frame: draws, and requests the next frame until the CPU is halted.
Frame(m) ==
  /\ ~Slicing /\ cpus[m].frame
  /\ \E drawn \in BOOLEAN :
       Becomes(m, [Redrawn(cpus[m], drawn) EXCEPT !.frame = cpus[m].clock])
  /\ screen' = IF cpus[m].devices THEN m ELSE screen

Executes(m) ==
  \/ Draw(m) \/ Halt(m) \/ WaitTime(m) \/ WaitKey(m) \/ Crash(m)
  \/ \E g \in BOOLEAN : SetMode(m, g)

User == Stop \/ KeyUp \/ (\E m \in Machines : Run(m))
          \/ \E k \in Keys, focused \in BOOLEAN : KeyDown(k, focused)

Next ==
  \/ User
  \/ \E m \in Machines : Executes(m) \/ BeginSlice(m) \/ EndSlice(m) \/ Timer(m) \/ Frame(m)

\* Slices end, and the event loop gets to every task that waits in it; between
\* two slices it may take any, so that a task is enabled again and again only.
Fairness ==
  \A m \in Machines :
    WF_vars(EndSlice(m)) /\ SF_vars(BeginSlice(m)) /\ SF_vars(Timer(m)) /\ SF_vars(Frame(m))

Spec == Init /\ [][Next]_vars /\ Fairness

-----------------------------------------------------------------------------
(* Properties.                                                             *)

\* The shape of the state; at most one CPU is mounted and at most one executes.
TypeOK ==
  /\ cpus \in [Machines -> Cpus] /\ screen \in Machines \cup {None}
  /\ \A m, n \in Machines :
       /\ cpus[m].stage = "mounted" /\ cpus[n].stage = "mounted" => m = n
       /\ cpus[m].loop = "running" => cpus[m].stage = "mounted"

\* One flag is enough for two kinds of waits: a CPU is paused exactly while its
\* timer or its key has not come, never for both, so that neither ends the
\* other's wait (pause, keymap.callback and setTimeout in BIOS.ts).
Waits(c) ==
  /\ c.pause <=> (c.timers = 1 \/ c.callback)
  /\ ~(c.timers = 1 /\ c.callback)
  /\ c.timers \in {0, 1}

WaitsAreExclusive == \A m \in Machines : Waits(cpus[m])

\* What is read is a keystroke that came after the last read, whether it comes
\* before the program asks or while it waits (clearKeyBuffer).
OneReadPerKeystroke == \A m \in Machines : cpus[m].fresh >= 0

\* A CPU waits for one event at a time, is woken by that event only, reads a key
\* once, and no two machines are ever mounted.
WaitsKeepApart == TypeOK /\ WaitsAreExclusive /\ OneReadPerKeystroke

\* The screen element is that of a halted machine, over which nobody draws, and
\* in a text mode it shows all that the machine left in video memory, its last
\* instructions included: it is drawn once more after the last slice (frame in
\* VGARenderLoopDriver).  In a graphics mode the last frame draws nothing, and
\* what was written since the frame before it is not shown.
ScreenShowsTheEnd ==
  \A m \in Machines :
    LET c == cpus[m] IN
    c.stage = "mounted" /\ ~c.clock /\ ~c.frame =>
      screen = m /\ (~c.graphics => ~c.dirty)

\* A CPU that was released never draws into the screen element it shares with
\* its successor, though its last frame is still to come.
OnlyMountedDraws ==
  [][\A m \in Machines : Frame(m) /\ screen' # screen => cpus[m].stage = "mounted"]_vars

\* A wait for time ends, in a released CPU too.
TimeWaitsEnd ==
  \A m \in Machines : cpus[m].timers > 0 ~> ~cpus[m].pause

\* What a released CPU has in the event loop runs out: its message, its frame
\* and its timer.
Quiet(c) == c.loop = "none" /\ ~c.frame /\ c.timers = 0

ReleasedRunsOut ==
  \A m \in Machines : cpus[m].stage = "released" ~> Quiet(cpus[m])

\* What is started comes to its end: a wait for time in running on, a release in
\* silence.
WhatIsLeftEnds == TimeWaitsEnd /\ ReleasedRunsOut
=============================================================================
