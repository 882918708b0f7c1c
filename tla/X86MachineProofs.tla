--------------------------- MODULE X86MachineProofs ---------------------------
(***************************************************************************)
(* Proofs about the life of the machines (X86Machine), for any number of   *)
(* machines and keys.                                                      *)
(***************************************************************************)
EXTENDS X86Machine, TLAPS

\* The life of a CPU: what it cannot do before it is mounted and after it is
\* released, and that the frame outlives the clock by one.
Life(c) ==
  /\ c.stage = "unborn" => c.loop = "none" /\ ~c.frame /\ c.timers = 0
  /\ c.stage = "mounted" => c.devices /\ (c.frame \/ (~c.clock /\ c.loop # "running"))
  /\ c.stage = "released" => ~c.devices /\ ~c.clock /\ c.loop # "running"

\* A key that the program may read came after its last read.
Keystrokes(c) ==
  /\ c.fresh >= 0
  /\ c.key \in Keys \ Modifiers => c.fresh >= 1

\* Good is what every operation keeps of its CPU.
Good(c) == c \in Cpus /\ Waits(c) /\ Keystrokes(c) /\ Life(c)

OneMounted ==
  \A m, n \in Machines : cpus[m].stage = "mounted" /\ cpus[n].stage = "mounted" => m = n

\* The inductive invariant: each CPU is good, one is mounted, and the screen
\* shows what a machine has left behind.
IInv ==
  /\ cpus \in [Machines -> Cpus] /\ screen \in Machines \cup {None}
  /\ \A m \in Machines : Good(cpus[m])
  /\ OneMounted
  /\ ScreenShowsTheEnd

-----------------------------------------------------------------------------
(* Operations on a CPU.                                                    *)

\* The beginning and the end of a wait for time keep the type of a CPU.
LEMMA TimedTyped ==
  ASSUME NEW c \in Cpus, NEW p \in BOOLEAN, NEW n \in Nat
  PROVE  [c EXCEPT !.pause = p, !.timers = n] \in Cpus
  BY DEF Cpus

\* So does a key that goes down,
LEMMA KeyTyped ==
  ASSUME NEW c \in Cpus, NEW k \in Keys, NEW i \in Int
  PROVE  [c EXCEPT !.key = k, !.fresh = i] \in Cpus
  BY DEF Cpus

\* and one that is read.
LEMMA ReadTyped ==
  ASSUME NEW c \in Cpus
  PROVE  KeyRead(c) \in Cpus /\ [KeyRead(c) EXCEPT !.pause = FALSE] \in Cpus
  <1>1. KeyBufferCleared(c) \in Cpus
    BY DEF KeyBufferCleared, Cpus
  <1>2. KeyRead(c) \in Cpus
    <2>1. ASSUME NEW d \in Cpus, NEW i \in Int PROVE [d EXCEPT !.fresh = i] \in Cpus
      BY DEF Cpus
    <2>2. KeyBufferCleared(c).fresh - 1 \in Int
      BY <1>1 DEF Cpus
    <2> QED
      BY <1>1, <2>1, <2>2 DEF KeyRead
  <1>3. ASSUME NEW d \in Cpus PROVE [d EXCEPT !.pause = FALSE] \in Cpus
    BY DEF Cpus
  <1> QED
    BY <1>2, <1>3

\* A CPU as it is created, and as boot leaves it.
LEMMA UnbornGood == Good(Unborn) /\ Good(Booted)
  <1>1. Unborn \in Cpus
    BY DEF Unborn, Cpus
  <1>a. Booted \in Cpus
    BY <1>1 DEF Booted, Unborn, Cpus
  <1>2. Waits(Unborn) /\ Waits(Booted)
    BY DEF Unborn, Booted, Waits
  <1>3. Keystrokes(Unborn) /\ Keystrokes(Booted)
    BY MachineAssumption DEF Unborn, Booted, Keystrokes
  <1>4. Life(Unborn) /\ Life(Booted)
    BY DEF Unborn, Booted, Life
  <1> QED
    BY <1>1, <1>a, <1>2, <1>3, <1>4 DEF Good

\* halt keeps a CPU good.
LEMMA HaltedGood ==
  ASSUME NEW c, Good(c), c.stage = "mounted", c.frame
  PROVE  Good(Halted(c))
  <1>1. Halted(c) \in Cpus
    BY DEF Good, Halted, Cpus
  <1>2. Waits(Halted(c)) /\ Keystrokes(Halted(c)) /\ Life(Halted(c))
    BY DEF Good, Halted, Cpus, Waits, Keystrokes, Life
  <1> QED
    BY <1>1, <1>2 DEF Good

\* release, between two slices.
LEMMA UnmountedGood ==
  ASSUME NEW c, Good(c), c.loop # "running"
  PROVE  Good(Unmounted(c)) /\ Unmounted(c).stage # "mounted"
  <1>1. CASE c.stage = "mounted"
    <2> DEFINE d == Released(c)
    <2>1. d \in Cpus /\ d.stage = "released"
      BY DEF Good, Released, Halted, Cpus
    <2>2. Waits(d)
      BY DEF Good, Released, Halted, Cpus, Waits
    <2>3. Keystrokes(d)
      BY DEF Good, Released, Halted, Cpus, Keystrokes
    <2>4. Life(d)
      BY DEF Good, Released, Halted, Cpus, Life
    <2> QED
      BY <1>1, <2>1, <2>2, <2>3, <2>4 DEF Good, Unmounted
  <1> QED
    BY <1>1 DEF Unmounted

\* keydown, whoever waits for it and whatever has the focus.
LEMMA PressedGood ==
  ASSUME NEW c, Good(c), c.stage # "unborn", NEW k \in Keys, NEW focused \in BOOLEAN
  PROVE  /\ Good(Pressed(c, k, focused))
         /\ Pressed(c, k, focused).stage = c.stage
         /\ Pressed(c, k, focused).loop = c.loop
         /\ Pressed(c, k, focused).dirty = c.dirty
         /\ Pressed(c, k, focused).graphics = c.graphics
         /\ Pressed(c, k, focused).clock = c.clock
         /\ Pressed(c, k, focused).frame = c.frame
  <1> DEFINE held == [c EXCEPT !.key = k, !.fresh = IF k \in Modifiers THEN @ ELSE 1]
             d    == [KeyRead(held) EXCEPT !.pause = FALSE]
  <1>a. held \in Cpus
    <2>1. c \in Cpus /\ c.fresh \in Int /\ 1 \in Int
      BY DEF Good, Cpus
    <2>2. (IF k \in Modifiers THEN c.fresh ELSE 1) \in Int
      BY <2>1
    <2> QED
      BY <2>1, <2>2, KeyTyped
  <1>b. Waits(held)
    BY DEF Good, Waits, Cpus
  <1>c. Keystrokes(held)
    BY DEF Good, Keystrokes, Cpus
  <1>d. Life(held)
    BY DEF Good, Life, Cpus
  <1>e. /\ held.stage = c.stage /\ held.loop = c.loop /\ held.dirty = c.dirty
        /\ held.clock = c.clock /\ held.frame = c.frame /\ held.graphics = c.graphics
    BY DEF Good, Cpus
  <1>1. /\ held \in Cpus /\ Waits(held) /\ Keystrokes(held) /\ Life(held)
        /\ held.stage = c.stage /\ held.loop = c.loop /\ held.dirty = c.dirty
        /\ held.clock = c.clock /\ held.frame = c.frame /\ held.graphics = c.graphics
    BY <1>a, <1>b, <1>c, <1>d, <1>e
  <1>2. CASE c.callback /\ focused /\ k \notin Modifiers
    <2>1. held.fresh = 1 /\ held.callback /\ held.timers = 0
      BY <1>2 DEF Good, Cpus, Waits
    <2> HIDE DEF held
    <2>c. d \in Cpus
      BY <1>1, ReadTyped
    <2>d. /\ d.stage = held.stage /\ d.loop = held.loop /\ d.dirty = held.dirty
          /\ d.clock = held.clock /\ d.frame = held.frame /\ d.devices = held.devices
          /\ d.graphics = held.graphics
          /\ d.timers = held.timers /\ d.key = None /\ ~d.callback /\ ~d.pause
      BY <1>1 DEF KeyRead, KeyBufferCleared, Cpus
    <2>e. d.fresh = held.fresh - 1
      BY <1>1 DEF KeyRead, KeyBufferCleared, Cpus
    <2>2. /\ d \in Cpus /\ d.stage = held.stage /\ d.loop = held.loop /\ d.dirty = held.dirty
          /\ d.clock = held.clock /\ d.frame = held.frame /\ d.devices = held.devices
          /\ d.graphics = held.graphics
          /\ d.timers = 0 /\ ~d.callback /\ ~d.pause /\ d.fresh = 0 /\ d.key = None
      BY <2>1, <2>c, <2>d, <2>e
    <2>3. Waits(d)
      BY <2>2 DEF Waits
    <2>4. Keystrokes(d)
      BY <2>2, MachineAssumption DEF Keystrokes
    <2>5. Life(d)
      BY <1>1, <2>2 DEF Life
    <2>6. Pressed(c, k, focused) = d
      BY <1>2 DEF Pressed, held
    <2> QED
      BY <1>1, <2>2, <2>3, <2>4, <2>5, <2>6 DEF Good
  <1>3. CASE ~(c.callback /\ focused /\ k \notin Modifiers)
    <2>1. Pressed(c, k, focused) = held
      BY <1>3 DEF Pressed
    <2> QED
      BY <1>1, <2>1 DEF Good
  <1> QED
    BY <1>2, <1>3

\* A CPU that executes is mounted and still has its frame to come.
LEMMA RunningMounted ==
  ASSUME NEW c, Good(c), c.loop = "running"
  PROVE  c.stage = "mounted" /\ c.frame
  BY DEF Good, Life, Cpus

\* What the instructions make of their CPU.
Executed(c, d) ==
  \/ d = [c EXCEPT !.dirty = TRUE]
  \/ d = Halted(c)
  \/ d = [c EXCEPT !.pause = TRUE, !.timers = @ + 1]
  \/ c.key = None /\ d = [c EXCEPT !.pause = TRUE, !.callback = TRUE]
  \/ c.key \in Keys \ Modifiers /\ d = KeyRead(c)
  \/ d = [c EXCEPT !.loop = "none"]
  \/ \E g \in BOOLEAN : d = [c EXCEPT !.graphics = g, !.dirty = TRUE]

\* An instruction leaves a CPU that was not paused good, and mounted.
LEMMA ExecutedGood ==
  ASSUME NEW c, Good(c), c.loop = "running", ~c.pause, NEW d, Executed(c, d)
  PROVE  Good(d) /\ d.stage = c.stage /\ d.frame
  <1>1. c.stage = "mounted" /\ c.frame /\ c \in Cpus /\ c.devices
    BY RunningMounted DEF Good, Life
  <1>2. c.timers = 0 /\ ~c.callback
    BY DEF Good, Waits, Cpus
  <1>3. CASE d = [c EXCEPT !.dirty = TRUE]
    <2>1. d \in Cpus /\ d.stage = c.stage /\ d.frame
      BY <1>1, <1>3 DEF Cpus
    <2>2. Waits(d) /\ Keystrokes(d) /\ Life(d)
      BY <1>1, <1>3 DEF Good, Waits, Keystrokes, Life, Cpus
    <2> QED
      BY <2>1, <2>2 DEF Good
  <1>4. CASE d = Halted(c)
    BY <1>1, <1>4, HaltedGood DEF Halted, Cpus
  <1>5. CASE d = [c EXCEPT !.pause = TRUE, !.timers = @ + 1]
    <2>1. /\ d \in Cpus /\ d.timers = 1 /\ d.pause /\ (d.callback <=> c.callback)
          /\ d.stage = c.stage /\ d.frame = c.frame /\ d.devices = c.devices
          /\ d.fresh = c.fresh /\ d.key = c.key
      <3>1. d = [c EXCEPT !.pause = TRUE, !.timers = 1]
        BY <1>1, <1>2, <1>5 DEF Cpus
      <3>2. d \in Cpus
        BY <1>1, <3>1, TimedTyped
      <3> QED
        BY <1>1, <3>1, <3>2 DEF Cpus
    <2>2. Waits(d)
      BY <1>2, <2>1 DEF Waits, Cpus
    <2>3. Keystrokes(d)
      BY <2>1 DEF Good, Keystrokes
    <2>4. Life(d)
      BY <1>1, <2>1 DEF Life
    <2> QED
      BY <1>1, <2>1, <2>2, <2>3, <2>4 DEF Good
  <1>6. CASE c.key = None /\ d = [c EXCEPT !.pause = TRUE, !.callback = TRUE]
    <2>1. /\ d \in Cpus /\ d.timers = 0 /\ d.pause /\ d.callback
          /\ d.stage = c.stage /\ d.frame = c.frame /\ d.devices = c.devices
          /\ d.fresh = c.fresh /\ d.key = c.key
      BY <1>1, <1>2, <1>6 DEF Cpus
    <2>2. Waits(d)
      BY <2>1 DEF Waits, Cpus
    <2>3. Keystrokes(d)
      BY <2>1 DEF Good, Keystrokes
    <2>4. Life(d)
      BY <1>1, <2>1 DEF Life
    <2> QED
      BY <1>1, <2>1, <2>2, <2>3, <2>4 DEF Good
  <1>7. CASE c.key \in Keys \ Modifiers /\ d = KeyRead(c)
    <2>1. /\ d \in Cpus /\ d.timers = 0 /\ ~d.pause /\ ~d.callback
          /\ d.stage = c.stage /\ d.frame = c.frame /\ d.devices = c.devices
          /\ d.fresh = c.fresh - 1 /\ d.key = None
      <3>2. d \in Cpus
        BY <1>1, <1>7, ReadTyped
      <3>3. /\ d.timers = c.timers /\ d.stage = c.stage /\ d.frame = c.frame
            /\ d.devices = c.devices /\ d.key = None /\ ~d.callback /\ d.pause = c.pause
        BY <1>1, <1>7 DEF Cpus, KeyRead, KeyBufferCleared
      <3>4. d.fresh = c.fresh - 1
        BY <1>1, <1>7 DEF Cpus, KeyRead, KeyBufferCleared
      <3> QED
        BY <1>2, <3>2, <3>3, <3>4
    <2>2. Waits(d)
      BY <2>1 DEF Waits, Cpus
    <2>3. Keystrokes(d)
      BY <1>1, <1>7, <2>1, MachineAssumption DEF Good, Keystrokes, Cpus
    <2>4. Life(d)
      BY <1>1, <2>1 DEF Life
    <2> QED
      BY <1>1, <2>1, <2>2, <2>3, <2>4 DEF Good
  <1>8. CASE d = [c EXCEPT !.loop = "none"]
    <2>1. d \in Cpus /\ d.stage = c.stage /\ d.frame
      BY <1>1, <1>8 DEF Cpus
    <2>2. Waits(d) /\ Keystrokes(d) /\ Life(d)
      BY <1>1, <1>8 DEF Good, Waits, Keystrokes, Life, Cpus
    <2> QED
      BY <2>1, <2>2 DEF Good
  <1>9. ASSUME NEW g \in BOOLEAN, d = [c EXCEPT !.graphics = g, !.dirty = TRUE]
        PROVE  Good(d) /\ d.stage = c.stage /\ d.frame
    <2>1. d \in Cpus /\ d.stage = c.stage /\ d.frame
      BY <1>1, <1>9 DEF Cpus
    <2>2. Waits(d) /\ Keystrokes(d) /\ Life(d)
      BY <1>1, <1>9 DEF Good, Waits, Keystrokes, Life, Cpus
    <2> QED
      BY <2>1, <2>2 DEF Good
  <1> QED
    BY <1>3, <1>4, <1>5, <1>6, <1>7, <1>8, <1>9 DEF Executed

-----------------------------------------------------------------------------
(* Steps.                                                                  *)

\* What remains to be shown of a step that changes one CPU.
LEMMA OneChanges ==
  ASSUME IInv, NEW m \in Machines, NEW c, Becomes(m, c), Good(c), c.stage = cpus[m].stage,
         screen' = screen \/ (screen' = m /\ c.stage = "mounted"),
         c.stage = "mounted" /\ ~c.clock /\ ~c.frame =>
           screen' = m /\ (~c.graphics => ~c.dirty)
  PROVE  IInv'
  <1>1. cpus' \in [Machines -> Cpus] /\ screen' \in Machines \cup {None}
    BY DEF IInv, Becomes, Good
  <1>2. \A n \in Machines : cpus'[n] = IF n = m THEN c ELSE cpus[n]
    BY DEF IInv, Becomes
  <1>3. \A n \in Machines : Good(cpus'[n])
    BY <1>2 DEF IInv
  <1>4. OneMounted'
    BY <1>2 DEF IInv, OneMounted
  <1>5. ScreenShowsTheEnd'
    <2> SUFFICES ASSUME NEW n \in Machines,
                        cpus'[n].stage = "mounted", ~cpus'[n].clock, ~cpus'[n].frame
                 PROVE  screen' = n /\ (~cpus'[n].graphics => ~cpus'[n].dirty)
      BY DEF ScreenShowsTheEnd
    <2>1. CASE n = m
      BY <1>2, <2>1
    <2>2. CASE n # m
      <3>1. c.stage # "mounted"
        BY <1>2, <2>2 DEF IInv, OneMounted
      <3> QED
        BY <1>2, <2>2, <3>1 DEF IInv, ScreenShowsTheEnd
    <2> QED
      BY <2>1, <2>2
  <1> QED
    BY <1>1, <1>3, <1>4, <1>5 DEF IInv

\* Instructions.
LEMMA ExecutesInv ==
  ASSUME IInv, NEW m \in Machines, Executes(m)
  PROVE  IInv'
  <1>1. PICK d : Becomes(m, d) /\ Ticking(m) /\ screen' = screen /\ Executed(cpus[m], d)
    BY Zenon DEF Executes, Draw, SetMode, Halt, WaitTime, WaitKey, Crash, Instruction, Executed
  <1>2. Good(cpus[m]) /\ cpus[m].loop = "running" /\ ~cpus[m].pause
    BY <1>1 DEF IInv, Ticking
  <1>3. Good(d) /\ d.stage = cpus[m].stage /\ d.frame
    BY <1>1, <1>2, ExecutedGood
  <1> QED
    BY <1>1, <1>3, OneChanges

\* The message of asap, on both sides of a slice.
LEMMA SliceInv ==
  ASSUME IInv, NEW m \in Machines, BeginSlice(m) \/ EndSlice(m)
  PROVE  IInv'
  <1> DEFINE c == cpus[m]
  <1>1. Good(c) /\ c \in Cpus
    BY DEF IInv, Good
  <1>2. c.stage = "mounted" /\ ~c.clock /\ ~c.frame => screen = m /\ (~c.graphics => ~c.dirty)
    BY DEF IInv, ScreenShowsTheEnd
  <1>3. CASE BeginSlice(m)
    <2> DEFINE d == [c EXCEPT !.loop = IF c.clock THEN "running" ELSE "none"]
    <2>1. /\ d \in Cpus /\ d.stage = c.stage /\ d.clock = c.clock /\ d.frame = c.frame
          /\ d.dirty = c.dirty /\ d.graphics = c.graphics
      BY <1>1 DEF Cpus
    <2>2. Waits(d) /\ Keystrokes(d)
      BY <1>1 DEF Good, Waits, Keystrokes, Cpus
    <2>3. Life(d)
      BY <1>1, <1>3 DEF Good, Life, Cpus, BeginSlice
    <2>4. Becomes(m, d) /\ screen' = screen
      BY <1>3 DEF BeginSlice
    <2> QED
      BY <1>2, <2>1, <2>2, <2>3, <2>4, OneChanges DEF Good
  <1>4. CASE EndSlice(m)
    <2> DEFINE d == [c EXCEPT !.loop = IF c.clock THEN "posted" ELSE "none"]
    <2>1. /\ d \in Cpus /\ d.stage = c.stage /\ d.clock = c.clock /\ d.frame = c.frame
          /\ d.dirty = c.dirty /\ d.graphics = c.graphics
      BY <1>1 DEF Cpus
    <2>2. Waits(d) /\ Keystrokes(d)
      BY <1>1 DEF Good, Waits, Keystrokes, Cpus
    <2>3. Life(d)
      BY <1>1, <1>4 DEF Good, Life, Cpus, EndSlice
    <2>4. Becomes(m, d) /\ screen' = screen
      BY <1>4 DEF EndSlice
    <2> QED
      BY <1>2, <2>1, <2>2, <2>3, <2>4, OneChanges DEF Good
  <1> QED
    BY <1>3, <1>4

\* The setTimeout of INT 15h ends the wait that set it.
LEMMA TimerInv ==
  ASSUME IInv, NEW m \in Machines, Timer(m)
  PROVE  IInv'
  <1> DEFINE c == cpus[m]
             d == [c EXCEPT !.pause = FALSE, !.timers = @ - 1]
  <1>1. Good(c) /\ c \in Cpus
    BY DEF IInv, Good
  <1>2. c.timers = 1 /\ ~c.callback
    BY <1>1 DEF Timer, Good, Waits, Cpus
  <1>3. /\ d \in Cpus /\ d.timers = 0 /\ ~d.pause /\ ~d.callback
        /\ d.stage = c.stage /\ d.frame = c.frame /\ d.devices = c.devices /\ d.clock = c.clock
        /\ d.fresh = c.fresh /\ d.key = c.key /\ d.loop = c.loop /\ d.dirty = c.dirty
        /\ d.graphics = c.graphics
    <2>1. d = [c EXCEPT !.pause = FALSE, !.timers = 0]
      BY <1>2
    <2>2. d \in Cpus
      BY <1>1, <2>1, TimedTyped
    <2> QED
      BY <1>1, <1>2, <2>1, <2>2 DEF Cpus
  <1>4. c.stage # "unborn"
    BY <1>1, <1>2 DEF Good, Life
  <1>5. Waits(d)
    BY <1>2, <1>3 DEF Waits, Cpus
  <1>6. Keystrokes(d)
    BY <1>1, <1>3 DEF Good, Keystrokes
  <1>7. Life(d)
    BY <1>1, <1>3, <1>4 DEF Good, Life
  <1>8. Becomes(m, d) /\ screen' = screen
    BY DEF Timer
  <1>9. c.stage = "mounted" /\ ~c.clock /\ ~c.frame => screen = m /\ (~c.graphics => ~c.dirty)
    BY DEF IInv, ScreenShowsTheEnd
  <1>10. Good(d)
    BY <1>3, <1>5, <1>6, <1>7 DEF Good
  <1> HIDE DEF d
  <1> QED
    BY <1>3, <1>8, <1>9, <1>10, OneChanges

\* A frame draws, and is the last one when the clock stands.
LEMMA FrameInv ==
  ASSUME IInv, NEW m \in Machines, Frame(m)
  PROVE  IInv'
  <1>a. PICK drawn \in BOOLEAN :
          Becomes(m, [Redrawn(cpus[m], drawn) EXCEPT !.frame = cpus[m].clock])
    BY DEF Frame
  <1> DEFINE c == cpus[m]
             d == [Redrawn(c, drawn) EXCEPT !.frame = c.clock]
  <1>1. Good(c) /\ c \in Cpus /\ c.frame /\ c.loop # "running"
    BY DEF IInv, Good, Frame, Slicing
  <1>2. c.stage # "unborn"
    BY <1>1 DEF Good, Life
  <1>3. /\ d \in Cpus /\ d.timers = c.timers /\ d.pause = c.pause /\ d.callback = c.callback
        /\ d.stage = c.stage /\ d.frame = c.clock /\ d.devices = c.devices /\ d.clock = c.clock
        /\ d.fresh = c.fresh /\ d.key = c.key /\ d.loop = c.loop
        /\ d.graphics = c.graphics
        /\ (c.devices /\ ~c.clock /\ ~c.graphics => d.dirty = FALSE)
    BY <1>1 DEF Cpus, Redrawn
  <1>4. Becomes(m, d) /\ screen' = IF c.devices THEN m ELSE screen
    BY <1>a DEF Frame
  <1> HIDE DEF d
  <1>5. Waits(d)
    BY <1>1, <1>3 DEF Good, Waits
  <1>6. Keystrokes(d)
    BY <1>1, <1>3 DEF Good, Keystrokes
  <1>7. Life(d)
    BY <1>1, <1>2, <1>3 DEF Good, Life
  <1>8. c.devices <=> c.stage = "mounted"
    BY <1>1, <1>2 DEF Good, Life, Cpus
  <1>9. Good(d)
    BY <1>3, <1>5, <1>6, <1>7 DEF Good
  <1> QED
    BY <1>3, <1>4, <1>8, <1>9, OneChanges

\* A new machine is mounted, or none: what was mounted is released.
LEMMA MountInv ==
  ASSUME IInv, Stop \/ \E m \in Machines : Run(m)
  PROVE  IInv'
  <1>1. ~Slicing /\ screen' = screen /\ \A n \in Machines : cpus[n].loop # "running"
    BY DEF Stop, Run, Slicing
  <1>2. \A n \in Machines : Good(Unmounted(cpus[n])) /\ Unmounted(cpus[n]).stage # "mounted"
    BY <1>1, UnmountedGood DEF IInv
  <1>3. CASE Stop
    <2>1. cpus' = [n \in Machines |-> Unmounted(cpus[n])]
      BY <1>3 DEF Stop
    <2>2. \A n \in Machines : Good(cpus'[n]) /\ cpus'[n].stage # "mounted"
      BY <1>2, <2>1
    <2>3. cpus' \in [Machines -> Cpus]
      BY <2>1, <2>2 DEF Good
    <2> QED
      BY <1>1, <2>2, <2>3 DEF IInv, OneMounted, ScreenShowsTheEnd
  <1>4. ASSUME NEW m \in Machines, Run(m) PROVE IInv'
    <2>1. cpus' = [n \in Machines |-> IF n = m THEN Booted ELSE Unmounted(cpus[n])]
      BY <1>4 DEF Run
    <2>2. \A n \in Machines : Good(cpus'[n]) /\ (cpus'[n].stage = "mounted" => n = m)
      BY <1>2, <2>1, UnbornGood
    <2>3. cpus' \in [Machines -> Cpus]
      BY <2>1, <2>2 DEF Good
    <2>4. cpus'[m].clock
      BY <2>1 DEF Booted, Unborn
    <2>5. OneMounted'
      BY <2>2 DEF OneMounted
    <2>6. ScreenShowsTheEnd'
      BY <2>2, <2>4 DEF ScreenShowsTheEnd
    <2> QED
      BY <1>1, <2>2, <2>3, <2>5, <2>6 DEF IInv
  <1> QED
    BY <1>3, <1>4

\* A step that changes keys only, in any number of machines.
LEMMA KeysChange ==
  ASSUME IInv, screen' = screen, cpus' \in [Machines -> Cpus],
         \A m \in Machines :
           /\ Good(cpus'[m])
           /\ cpus'[m].stage = cpus[m].stage /\ cpus'[m].clock = cpus[m].clock
           /\ cpus'[m].frame = cpus[m].frame /\ cpus'[m].dirty = cpus[m].dirty
           /\ cpus'[m].graphics = cpus[m].graphics
  PROVE  IInv'
  <1>1. OneMounted'
    BY DEF IInv, OneMounted
  <1>2. ScreenShowsTheEnd'
    BY DEF IInv, ScreenShowsTheEnd
  <1> QED
    BY <1>1, <1>2 DEF IInv

\* Keys go down and up for every machine there ever was.
LEMMA KeyInv ==
  ASSUME IInv, KeyUp \/ \E k \in Keys, focused \in BOOLEAN : KeyDown(k, focused)
  PROVE  IInv'
  <1>1. CASE KeyUp
    <2>1. cpus' = [m \in Machines |-> [cpus[m] EXCEPT !.key = None]] /\ screen' = screen
      BY <1>1 DEF KeyUp
    <2>2. ASSUME NEW m \in Machines
          PROVE  /\ Good(cpus'[m])
                 /\ cpus'[m].stage = cpus[m].stage /\ cpus'[m].clock = cpus[m].clock
                 /\ cpus'[m].frame = cpus[m].frame /\ cpus'[m].dirty = cpus[m].dirty
                 /\ cpus'[m].graphics = cpus[m].graphics
      <3> DEFINE c == cpus[m]
                 d == [c EXCEPT !.key = None]
      <3>1. Good(c) /\ c \in Cpus
        BY DEF IInv, Good
      <3>2. /\ d \in Cpus /\ d.stage = c.stage /\ d.clock = c.clock
            /\ d.frame = c.frame /\ d.dirty = c.dirty /\ d.graphics = c.graphics
        BY <3>1 DEF Cpus
      <3>3. Waits(d)
        BY <3>1 DEF Good, Waits, Cpus
      <3>4. Keystrokes(d)
        BY <3>1, MachineAssumption DEF Good, Keystrokes, Cpus
      <3>5. Life(d)
        BY <3>1 DEF Good, Life, Cpus
      <3>6. cpus'[m] = d
        BY <2>1
      <3> QED
        BY <3>2, <3>3, <3>4, <3>5, <3>6 DEF Good
    <2>3. cpus' \in [Machines -> Cpus]
      BY <2>1, <2>2 DEF Good
    <2> QED
      BY <2>1, <2>2, <2>3, KeysChange
  <1>2. ASSUME NEW k \in Keys, NEW focused \in BOOLEAN, KeyDown(k, focused) PROVE IInv'
    <2>1. /\ cpus' = [m \in Machines |-> IF cpus[m].stage = "unborn" THEN cpus[m]
                                         ELSE Pressed(cpus[m], k, focused)]
          /\ screen' = screen
      BY <1>2 DEF KeyDown
    <2>2. ASSUME NEW m \in Machines
          PROVE  /\ Good(cpus'[m])
                 /\ cpus'[m].stage = cpus[m].stage /\ cpus'[m].clock = cpus[m].clock
                 /\ cpus'[m].frame = cpus[m].frame /\ cpus'[m].dirty = cpus[m].dirty
                 /\ cpus'[m].graphics = cpus[m].graphics
      <3>1. Good(cpus[m])
        BY DEF IInv
      <3>2. CASE cpus[m].stage = "unborn"
        BY <2>1, <3>1, <3>2
      <3>3. CASE cpus[m].stage # "unborn"
        <4>1. cpus'[m] = Pressed(cpus[m], k, focused)
          BY <2>1, <3>3
        <4> QED
          BY <3>1, <3>3, <4>1, PressedGood
      <3> QED
        BY <3>2, <3>3
    <2>3. cpus' \in [Machines -> Cpus]
      BY <2>1, <2>2 DEF Good
    <2> QED
      BY <2>1, <2>2, <2>3, KeysChange
  <1> QED
    BY <1>1, <1>2

-----------------------------------------------------------------------------
(* Theorems.                                                               *)

\* Nothing has been created.
LEMMA InitInv == Init => IInv
  <1> SUFFICES ASSUME Init PROVE IInv
    OBVIOUS
  <1>1. \A m \in Machines : cpus[m] = Unborn /\ Good(cpus[m]) /\ cpus[m].stage = "unborn"
    BY UnbornGood DEF Init, Unborn
  <1>2. cpus \in [Machines -> Cpus]
    BY <1>1 DEF Init, Good
  <1> QED
    BY <1>1, <1>2 DEF Init, IInv, OneMounted, ScreenShowsTheEnd

\* Every task of the event loop and every instruction keeps the invariant.
LEMMA NextInv == IInv /\ [Next]_vars => IInv'
  <1> SUFFICES ASSUME IInv, [Next]_vars PROVE IInv'
    OBVIOUS
  <1>1. CASE User
    BY <1>1, MountInv, KeyInv DEF User
  <1>2. ASSUME NEW m \in Machines,
               Executes(m) \/ BeginSlice(m) \/ EndSlice(m) \/ Timer(m) \/ Frame(m)
        PROVE  IInv'
    BY <1>2, ExecutesInv, SliceInv, TimerInv, FrameInv
  <1>3. CASE UNCHANGED vars
    BY <1>3 DEF vars, IInv, OneMounted, ScreenShowsTheEnd
  <1> QED
    BY <1>1, <1>2, <1>3 DEF Next

\* The invariant holds in every state of every behavior.
THEOREM Invariance == Spec => []IInv
  BY InitInv, NextInv, PTL DEF Spec

\* Waits for time and for keys keep apart on one pause flag, a key is read
\* once, and one machine is mounted, for any number of machines and keys.
THEOREM WaitsAlwaysKeepApart == Spec => []WaitsKeepApart
  <1>1. IInv => WaitsKeepApart
    <2> SUFFICES ASSUME IInv PROVE WaitsKeepApart
      OBVIOUS
    <2>1. \A m \in Machines : cpus[m].loop = "running" => cpus[m].stage = "mounted"
      BY RunningMounted DEF IInv
    <2>2. TypeOK
      BY <2>1 DEF IInv, OneMounted, TypeOK
    <2>3. WaitsAreExclusive /\ OneReadPerKeystroke
      BY DEF IInv, Good, Keystrokes, WaitsAreExclusive, OneReadPerKeystroke
    <2> QED
      BY <2>2, <2>3 DEF WaitsKeepApart
  <1> QED
    BY Invariance, <1>1, PTL

\* The screen element is that of a machine that has halted, and in a text mode
\* it shows the machine as it halted, for any number of machines.
THEOREM TheEndIsShown == Spec => []ScreenShowsTheEnd
  BY Invariance, PTL DEF IInv

\* Only the mounted machine draws into the screen element.
THEOREM OnlyMountedEverDraws == Spec => OnlyMountedDraws
  <1>1. IInv /\ [Next]_vars =>
          [\A m \in Machines : Frame(m) /\ screen' # screen => cpus[m].stage = "mounted"]_vars
    <2> SUFFICES ASSUME IInv, NEW m \in Machines, Frame(m), screen' # screen
                 PROVE  cpus[m].stage = "mounted"
      OBVIOUS
    <2>1. Good(cpus[m]) /\ cpus[m].frame /\ cpus[m].devices
      BY DEF IInv, Frame
    <2> QED
      BY <2>1 DEF Good, Life, Cpus
  <1> QED
    BY Invariance, <1>1, PTL DEF Spec, OnlyMountedDraws
===============================================================================
