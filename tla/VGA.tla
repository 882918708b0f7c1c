-------------------------------- MODULE VGA --------------------------------
(***************************************************************************)
(* The video adapter: a program sets modes, writes registers, reads and    *)
(* writes video memory through the write modes, the latch and the plane    *)
(* masks; the page redraws the canvas from the planes, when they are       *)
(* marked dirty.                                                           *)
(*                                                                         *)
(* A byte is the set of its one bits, a double word has a byte per plane.  *)
(***************************************************************************)
EXTENDS VGAModes, FiniteSets

CONSTANTS
  Presets,    \* the presets that are loaded, names of VGAModes
  Offsets,    \* the offsets into the window that are accessed, 0..n
  Values,     \* the bytes that are written
  Settings,   \* the registers that programs write: <<file, index, number>>
  MaxSteps    \* bound: accesses, settings and mode switches of a run

ASSUME PresetsAssumption == Presets \subseteq DOMAIN TextPresets \cup DOMAIN GraphicsPresets

(* The smallest window, of 32K, holds all offsets.                         *)
ASSUME OffsetsAssumption == \E n \in 0 .. 2 ^ 15 - 1 : Offsets = 0..n

(* A register, and the index that selects it, are bytes.                   *)
ASSUME WritesAssumption ==
  /\ Values \subseteq SUBSET Bits
  /\ Settings \subseteq {"seq", "crtc", "gc", "attr"} \X (0..255) \X (0..255)

ASSUME StepsAssumption == MaxSteps \in Nat

VARIABLES
  regs,       \* the register files
  planes,     \* video memory: plane -> offset -> byte
  latch,      \* what the last read in a graphics mode found, by plane
  screen,     \* what measureMode left
  renderer,   \* the graphics renderer: dirty.low, dirty.high, canvas, image
  halted,     \* TRUE after the last frame
  written,    \* history: offsets written since the last switch of modes
  plain,      \* history: no register was written since then
  epoch,      \* history: switches of modes
  last,       \* history: the address and the byte stored last
  steps       \* bound

vars == <<regs, planes, latch, screen, renderer, halted, written, plain, epoch, last, steps>>

Null == -2
Whole == -1

(* The addresses of the offsets in each of the three windows.              *)
Addresses == {base + o : base \in {655360, 720896, 753664}, o \in Offsets}

Pixels == 0 .. 8 * Cardinality(Offsets) + 8

Blank == [p \in Pixels |-> {}]

Zero == [p \in Planes |-> {}]

TypeOK ==
  /\ planes \in [Planes -> [Offsets -> SUBSET Bits]]
  /\ latch \in [Planes -> SUBSET Bits]
  /\ DOMAIN regs = {"misc", "seq", "crtc", "gc", "attr"}
  /\ renderer.low \in Pixels \cup {Null, Whole}
  /\ renderer.high \in Pixels \cup {Null, Whole}
  /\ (renderer.low \in {Null, Whole}) <=> (renderer.high \in {Null, Whole})
  /\ renderer.image \in [Pixels -> SUBSET Bits]
  /\ plain => renderer.kind = (IF TextMode(regs) THEN "text" ELSE "graphics")
  /\ halted \in BOOLEAN
  /\ written \subseteq Offsets
  /\ plain \in BOOLEAN
  /\ epoch \in 0..steps
  /\ last \in {<< >>} \cup (Addresses \X Values)
  /\ steps \in 0..MaxSteps

-----------------------------------------------------------------------------
(* The path of a byte from the processor to the planes.                    *)

RepeatByteInDword(byte) == [p \in Planes |-> byte]

ApplyExpand(S) == [p \in Planes |-> IF p \in S THEN Bits ELSE {}]

Rotate(r, byte) == {b \in Bits : (b + RotateCount(r)) % 8 \in byte}

(* Mutant of ApplySetReset: enabled planes are set, never reset.           *)
SetNeverResets(r, d) ==
  LET enable == ApplyExpand(EnableSetReset(r))
      set    == ApplyExpand(SetReset(r))
  IN [p \in Planes |-> d[p] \cup (enable[p] \cap set[p])]

ApplySetReset(r, d) ==
  LET enable == ApplyExpand(EnableSetReset(r))
      set    == ApplyExpand(SetReset(r))
  IN [p \in Planes |->
       (d[p] \cup (enable[p] \cap set[p])) \cap ((Bits \ enable[p]) \cup set[p])]

GraphicsAluOps(op, a, b) ==
  CASE op = 0 -> a
    [] op = 1 -> a \cap b
    [] op = 2 -> a \cup b
    [] op = 3 -> (a \cup b) \ (a \cap b)

ApplyLogical(r, l, d) == [p \in Planes |-> GraphicsAluOps(LogicalOperation(r), d[p], l[p])]

ApplyLatchBitmask(mask, l, d) == [p \in Planes |-> (mask[p] \cap d[p]) \cup (l[p] \ mask[p])]

OutputDword(r, l, byte) ==
  LET mask == RepeatByteInDword(Bitmask(r)) IN
  CASE WriteMode(r) = 0 ->
         ApplyLatchBitmask(mask, l,
           ApplyLogical(r, l, ApplySetReset(r, RepeatByteInDword(Rotate(r, byte)))))
    [] WriteMode(r) = 1 -> l
    [] WriteMode(r) = 2 ->
         ApplyLatchBitmask(mask, l, ApplyLogical(r, l, ApplyExpand(byte \cap Planes)))
    [] WriteMode(r) = 3 ->
         ApplyLatchBitmask([p \in Planes |-> mask[p] \cap Rotate(r, byte)], l,
           ApplyExpand(SetReset(r)))

PlaneSelect(r, offset) ==
  MapMask(r) \cap
    (IF ~OddEvenDisabled(r) THEN IF offset % 2 = 0 THEN {0, 2} ELSE {1, 3}
     ELSE IF Chain4(r) THEN {offset % 4}
     ELSE Planes)

PlaneOffset(r, offset) ==
  IF ~OddEvenDisabled(r) THEN offset - (offset % 2)
  ELSE IF Chain4(r) THEN offset - (offset % 4)
  ELSE offset

Contains(window, address) == window[1] <= address /\ address <= window[2]

OffsetOf(r, address) == address - Window(r)[1]

(* In the window, and among the offsets that are modelled.                 *)
InWindow(r, address) == Contains(Window(r), address) /\ OffsetOf(r, address) \in Offsets

Writable(r, address) == RamEnable(r) /\ InWindow(r, address)

-----------------------------------------------------------------------------
(* Reading.                                                                *)

LatchAt(pl, offset) == [p \in Planes |-> pl[p][offset]]

ReadTextMode(pl, offset) == pl[offset % 2][offset \div 2]

(* Read mode 1: the planes that matter, and nothing of color compare.      *)
PlanesOfInterest(r, pl, offset) ==
  {b \in Bits : \A p \in ColorDontCare(r) : b \in pl[p][offset]}

(* Mutant of ReadPlane: chain-4 picks the plane and keeps the low bits of  *)
(* the offset.                                                             *)
ReadPlaneUnaligned(r, pl, offset) ==
  IF Chain4(r) THEN pl[offset % 4][offset]
  ELSE IF HostOddEven(r) THEN pl[offset % 2][offset - (offset % 2)]
  ELSE pl[ReadMapSelect(r)][offset]

ReadPlane(r, pl, offset) ==
  IF Chain4(r) THEN pl[offset % 4][offset - (offset % 4)]
  ELSE IF HostOddEven(r) THEN pl[offset % 2][offset - (offset % 2)]
  ELSE pl[ReadMapSelect(r)][offset]

ReadByte(r, pl, address) ==
  LET offset == OffsetOf(r, address) IN
  IF TextMode(r) THEN ReadTextMode(pl, offset)
  ELSE IF ReadMode(r) = 1 THEN PlanesOfInterest(r, pl, offset)
  ELSE ReadPlane(r, pl, offset)

-----------------------------------------------------------------------------
(* The canvas.                                                             *)

PlaneByte(pl, p, offset) == IF offset \in Offsets THEN pl[p][offset] ELSE {}

(* cachedShiftLoads: four planes of a bit, interleaved pairs, or nibbles.  *)
ShiftLoad(r, pl, offset, i) ==
  CASE ShiftMode(r) = 0 -> {p \in Planes : 7 - i \in PlaneByte(pl, p, offset)}
    [] ShiftMode(r) = 1 ->
         LET p == i \div 4
             nth == 6 - 2 * (i % 4)
         IN {b \in 0..1 : nth + b \in PlaneByte(pl, p, offset)}
              \cup {b + 2 : b \in {c \in 0..1 : nth + c \in PlaneByte(pl, p + 2, offset)}}
    [] OTHER ->
         {b \in 0..3 : b + 4 * (1 - (i % 2)) \in PlaneByte(pl, i \div 2, offset)}

(* The pixels that one offset of the planes holds.                         *)
PixelsAtOnce(r) == IF Bit8(r) THEN 4 ELSE 8

PixelOffset(r, pixel) == (pixel - (pixel % PixelsAtOnce(r))) \div 2 ^ AddressShiftCount(r)

(* The color of a pixel, before the palette.                               *)
Pixel(r, pl, pixel) ==
  LET i      == pixel % PixelsAtOnce(r)
      offset == PixelOffset(r, pixel)
  IN IF Bit8(r)
     THEN ShiftLoad(r, pl, offset, 2 * i + 1)
            \cup {b + 4 : b \in ShiftLoad(r, pl, offset, 2 * i)}
     ELSE ShiftLoad(r, pl, offset, i) \cap ColorPlanes(r)

(* Mutant of MarkRegionAsDirty: the region follows the last write.         *)
MarkOnlyLastRegion(rend, low, high) == [rend EXCEPT !.low = low, !.high = high]

MarkRegionAsDirty(rend, low, high) ==
  [rend EXCEPT !.low  = IF rend.low = Null THEN low ELSE Min({low, rend.low}),
               !.high = IF rend.high = Null THEN high ELSE Max({high, rend.high})]

MarkWholeRegionAsDirty(rend) == [rend EXCEPT !.low = Whole, !.high = Whole]

ResetDirtyFlags(rend) == [rend EXCEPT !.low = Null, !.high = Null]

IsDirtyBuffer(rend) == rend.low = Whole \/ rend.low # rend.high

(* A canvas of another size is a new, empty image.                         *)
UpdateCanvasSize(rend) ==
  IF screen.canvas = rend.canvas THEN rend
  ELSE [rend EXCEPT !.canvas = screen.canvas, !.image = Blank]

DrawToImageData(rend) ==
  IF ~IsDirtyBuffer(rend) THEN rend
  ELSE ResetDirtyFlags(
         [rend EXCEPT !.image =
            [p \in Pixels |-> IF rend.low <= p /\ p <= rend.high
                              THEN Pixel(regs, planes, p) ELSE @[p]]])

Redraw(rend) ==
  IF rend.kind = "graphics" THEN DrawToImageData(UpdateCanvasSize(rend)) ELSE rend

-----------------------------------------------------------------------------
(* Modes.                                                                  *)

(* The contents of the planes of a new mode: the font in plane 2 and white *)
(* on black in a text mode.                                                *)
Defaults(r, size) ==
  [p \in Planes |-> [o \in Offsets |->
     CASE TextMode(r) /\ p = 1 /\ o < size.size[1] * size.size[2] -> {0, 1, 2}
       [] TextMode(r) /\ p = 2 -> IF size.charSize[2] = 16 THEN {0, 7} ELSE {7}
       [] OTHER -> {}]]

(* The renderer of the mode is found, the one in use is left as it is, with*)
(* the dirty region and the image of the mode before.                      *)
MatchPixBufRenderer(rend, r) ==
  [rend EXCEPT !.kind = IF TextMode(r) THEN "text" ELSE "graphics"]

NewRenderer == [kind |-> "none", low |-> 0, high |-> 0, canvas |-> <<300, 150>>, image |-> Blank]

Init ==
  \E preset \in Presets :
    /\ regs = Preset(preset)
    /\ screen = Measured(regs)
    /\ planes = Defaults(regs, screen)
    /\ latch = Zero
    /\ renderer = MatchPixBufRenderer(NewRenderer, regs)
    /\ halted = FALSE
    /\ written = {}
    /\ plain = TRUE
    /\ epoch = 0
    /\ last = << >>
    /\ steps = 0

Running == ~halted /\ steps < MaxSteps

LoadModePreset(preset) ==
  /\ Running
  /\ regs' = Preset(preset)
  /\ screen' = Measured(regs')
  /\ planes' = Defaults(regs', screen')
  /\ renderer' = MatchPixBufRenderer(renderer, regs')
  /\ written' = {}
  /\ plain' = TRUE
  /\ epoch' = epoch + 1
  /\ steps' = steps + 1
  /\ UNCHANGED <<latch, halted, last>>

(* An index and a data byte to one of the pairs of ports.                  *)
SetRegByIndex(file, index, number) ==
  /\ Running
  /\ regs' = [regs EXCEPT ![file][index] = number]
  /\ plain' = FALSE
  /\ steps' = steps + 1
  /\ UNCHANGED <<planes, latch, screen, renderer, halted, written, epoch, last>>

WriteTextMode(address, byte) ==
  LET offset == OffsetOf(regs, address) IN
  /\ Running
  /\ Writable(regs, address)
  /\ TextMode(regs)
  /\ planes' = [planes EXCEPT ![offset % 2][offset \div 2] = byte]
  /\ last' = <<address, byte>>
  /\ steps' = steps + 1
  /\ UNCHANGED <<regs, latch, screen, renderer, halted, written, plain, epoch>>

WriteGraphicsMode(address, byte) ==
  LET offset == OffsetOf(regs, address)
      at     == PlaneOffset(regs, offset)
      pixel  == at * 2 ^ AddressShiftCount(regs)
      output == OutputDword(regs, latch, byte)
  IN
  /\ Running
  /\ Writable(regs, address)
  /\ ~TextMode(regs)
  /\ planes' = [p \in Planes |-> IF p \in PlaneSelect(regs, offset)
                                 THEN [planes[p] EXCEPT ![at] = output[p]]
                                 ELSE planes[p]]
  /\ renderer' = MarkRegionAsDirty(renderer, pixel, pixel + 8)
  /\ written' = written \cup {at}
  /\ last' = <<address, byte>>
  /\ steps' = steps + 1
  /\ UNCHANGED <<regs, latch, screen, halted, plain, epoch>>

(* A read in a graphics mode fills the latch; the value goes to the CPU.   *)
LoadLatch(address) ==
  /\ Running
  /\ InWindow(regs, address)
  /\ ~TextMode(regs)
  /\ latch' = LatchAt(planes, OffsetOf(regs, address))
  /\ steps' = steps + 1
  /\ UNCHANGED <<regs, planes, screen, renderer, halted, written, plain, epoch, last>>

Frame ==
  /\ ~halted
  /\ renderer' = Redraw(renderer)
  /\ UNCHANGED <<regs, planes, latch, screen, halted, written, plain, epoch, last, steps>>

(* The frame that finds the processor halted is the last one.              *)
LastFrame ==
  /\ ~halted
  /\ halted' = TRUE
  /\ renderer' = Redraw(MarkWholeRegionAsDirty(renderer))
  /\ UNCHANGED <<regs, planes, latch, screen, written, plain, epoch, last, steps>>

Next ==
  \/ \E preset \in Presets : LoadModePreset(preset)
  \/ \E s \in Settings : SetRegByIndex(s[1], s[2], s[3])
  \/ \E address \in Addresses, byte \in Values :
       WriteTextMode(address, byte) \/ WriteGraphicsMode(address, byte)
  \/ \E address \in Addresses : LoadLatch(address)
  \/ Frame
  \/ LastFrame

Spec == Init /\ [][Next]_vars

-----------------------------------------------------------------------------
(* A pixel of memory written since the mode was set is on the canvas, or   *)
(* in the dirty region that the next frame draws: the arithmetic that maps *)
(* a written address to pixels and the one that maps pixels to addresses   *)
(* agree in every mode, and no region is forgotten.                        *)
StaleIsDirty ==
  (renderer.kind = "graphics" /\ plain /\ ~halted) =>
    \A p \in Pixels : PixelOffset(regs, p) \in written =>
      \/ Pixel(regs, planes, p) = renderer.image[p]
      \/ renderer.low <= p /\ p <= renderer.high

\* The canvas can catch up: the renderer is the one of the mode that the
\* registers hold, and what its image lacks lies in its dirty region.
CanvasCatchesUp == TypeOK /\ StaleIsDirty

(* The screen has the size that the BIOS has for the mode.  Mode 4 is left *)
(* out: its preset leaves the adapter in a text mode.                      *)
ModesMeasure ==
  \A mode \in BiosModes :
    (mode.code # 4 /\ plain /\ regs = Preset(mode.preset)) => screen.size = <<mode.w, mode.h>>

(* The bit that VGA hardware stores, bit by bit: what the processor, set/  *)
(* reset or the expanded value offers, combined with the latch, behind     *)
(* the bit mask; the latch alone in write mode 1.                          *)
OfferedBit(r, byte, p, b) ==
  CASE WriteMode(r) = 0 -> IF p \in EnableSetReset(r) THEN p \in SetReset(r)
                           ELSE (b + RotateCount(r)) % 8 \in byte
    [] WriteMode(r) = 2 -> p \in byte
    [] OTHER -> p \in SetReset(r)

StoredBit(r, l, byte, p, b) ==
  LET offered == OfferedBit(r, byte, p, b)
      latched == b \in l[p]
      masked  == b \notin Bitmask(r) \/ (WriteMode(r) = 3 /\ (b + RotateCount(r)) % 8 \notin byte)
  IN IF WriteMode(r) = 1 \/ masked THEN latched
     ELSE IF WriteMode(r) = 3 THEN offered
     ELSE CASE LogicalOperation(r) = 0 -> offered
            [] LogicalOperation(r) = 1 -> offered /\ latched
            [] LogicalOperation(r) = 2 -> offered \/ latched
            [] LogicalOperation(r) = 3 -> offered # latched

(* Whatever the registers and the latch hold, the path of a byte through   *)
(* rotation, set/reset, operation and masks stores these bits.             *)
BitsAreStored ==
  \A byte \in Values :
    OutputDword(regs, latch, byte) =
      [p \in Planes |-> {b \in Bits : StoredBit(regs, latch, byte, p, b)}]

(* A program that leaves the registers as the mode set them sees memory:   *)
(* what it writes at an address is what it reads there, and nowhere else.  *)
NoByte == {8}  \* the bits of a byte are 0..7

Memory == [a \in Addresses |->
             IF plain /\ InWindow(regs, a) THEN ReadByte(regs, planes, a) ELSE NoByte]

Linear == INSTANCE LinearMemory WITH mem <- Memory, trusted <- plain, None <- NoByte

IsLinearMemory == Linear!Spec
=============================================================================
