------------------------------ MODULE VGAModes ------------------------------
(***************************************************************************)
(* The registers of the video adapter, the presets of the modes, and what  *)
(* the adapter derives from them: the size of the screen, the window of    *)
(* memory, the way addresses are spread over the planes.                   *)
(*                                                                         *)
(* A register is its number; r is the record of the five register files.   *)
(* Registers from which nothing is derived here (timings, polarities) are  *)
(* left out of the files.                                                  *)
(***************************************************************************)
EXTENDS Integers, FiniteSetsExt

Planes == 0..3
Bits == 0..7

Bit(number, nth) == (number \div 2 ^ nth) % 2

BitField(number, low, high) == (number \div 2 ^ low) % 2 ^ (high - low + 1)

(* The set of the one bits of a register, of those in S.                   *)
Ones(number, S) == {b \in S : Bit(number, b) = 1}

-----------------------------------------------------------------------------
(* The presets.                                                            *)

(* Columns: clocking mode, end of display, start of blanking, overflow,    *)
(* maximum scan line, cursor location, display end, offset, underline,     *)
(* start of vertical blanking.                                             *)
TextPresets ==
  [m40x25 |-> << 8,  39, 40, 31, 79, 160,  143, 20, 31, 150>>,
   m40x50 |-> << 8,  39, 40, 31, 71, 1120, 143, 20, 31, 150>>,
   m80x25 |-> << 0,  79, 80, 31, 79, 80,   143, 40, 31, 150>>,
   m80x50 |-> << 0,  79, 80, 31, 71, 320,  143, 40, 31, 150>>,
   m90x30 |-> << 1,  89, 90, 62, 79, 0,    223, 45, 16, 232>>,
   m90x60 |-> << 1,  89, 90, 62, 71, 0,    223, 45, 8,  232>>]

(* Columns: clocking mode, map mask, memory mode, end of display, start of *)
(* blanking, overflow, maximum scan line, display end, offset, underline,  *)
(* start of vertical blanking, mode control, read map, graphics mode,      *)
(* miscellaneous graphics, do not care, attribute mode control, color      *)
(* planes.                                                                 *)
GraphicsPresets ==
  [m640x480x2   |-> <<1, 15, 6,  79, 80, 62, 64, 223, 40, 0,  231, 227, 0, 0,  5, 15, 1,  15>>,
   m320x200x4   |-> <<9, 3,  2,  39, 40, 31, 65, 143, 20, 0,  150, 163, 0, 48, 2, 0,  1,  3>>,
   m640x480x16  |-> <<1, 8,  6,  79, 80, 62, 64, 223, 40, 0,  231, 227, 3, 0,  5, 15, 1,  15>>,
   m720x480x16  |-> <<1, 8,  6,  89, 90, 62, 64, 223, 45, 8,  232, 227, 3, 0,  5, 15, 1,  15>>,
   m320x200x256 |-> <<1, 15, 14, 79, 80, 31, 65, 143, 40, 64, 150, 163, 0, 64, 5, 15, 65, 15>>,
   mModeX       |-> <<1, 15, 6,  79, 80, 31, 65, 143, 40, 0,  150, 227, 0, 64, 5, 15, 65, 15>>]

Crtc(hde, shb, overflow, maxScan, cursor, vde, offset, underline, svb, control) ==
  [i \in {1, 2, 7, 9} \cup 12..15 \cup 18..21 \cup {23} |->
     CASE i = 1  -> hde
       [] i = 2  -> shb
       [] i = 7  -> overflow
       [] i = 9  -> maxScan
       [] i = 12 -> 0
       [] i = 13 -> 0
       [] i = 14 -> cursor \div 256
       [] i = 15 -> cursor % 256
       [] i = 18 -> vde
       [] i = 19 -> offset
       [] i = 20 -> underline
       [] i = 21 -> svb
       [] i = 23 -> control]

Sequencer(clocking, mapMask, memMode) ==
  [i \in {1, 2, 4} |-> CASE i = 1 -> clocking [] i = 2 -> mapMask [] i = 4 -> memMode]

Graphics(readMap, mode, misc, dontCare) ==
  [i \in 0..8 \ {2} |->
     CASE i = 4 -> readMap
       [] i = 5 -> mode
       [] i = 6 -> misc
       [] i = 7 -> dontCare
       [] i = 8 -> 255
       [] OTHER -> 0]

Attr(control, colorPlanes) == [i \in {16, 18} |-> IF i = 16 THEN control ELSE colorPlanes]

(* assignPresetToVGA: every register of every file is assigned.            *)
Preset(name) ==
  IF name \in DOMAIN TextPresets
  THEN LET p == TextPresets[name] IN
       [misc |-> 103,
        seq  |-> Sequencer(p[1], 3, 2),
        crtc |-> Crtc(p[2], p[3], p[4], p[5], p[6], p[7], p[8], p[9], p[10], 163),
        gc   |-> Graphics(0, 16, 14, 0),
        attr |-> Attr(12, 15)]
  ELSE LET p == GraphicsPresets[name] IN
       [misc |-> 227,
        seq  |-> Sequencer(p[1], p[2], p[3]),
        crtc |-> Crtc(p[4], p[5], p[6], p[7], 0, p[8], p[9], p[10], p[11], p[12]),
        gc   |-> Graphics(p[13], p[14], p[15], p[16]),
        attr |-> Attr(p[17], p[18])]

-----------------------------------------------------------------------------
(* What the registers say.                                                 *)

TextMode(r) == Bit(r.gc[6], 0) = 0
RamEnable(r) == Bit(r.misc, 1) = 1

(* The window of memory, as the first and the last address.                *)
MemoryMaps ==
  << <<655360, 786431>>, <<655360, 720895>>, <<720896, 753663>>, <<753664, 786431>> >>

Window(r) == MemoryMaps[1 + BitField(r.gc[6], 2, 3)]

MapMask(r) == Ones(r.seq[2], Planes)
OddEvenDisabled(r) == Bit(r.seq[4], 2) = 1
Chain4(r) == Bit(r.seq[4], 3) = 1

SetReset(r) == Ones(r.gc[0], Planes)
EnableSetReset(r) == Ones(r.gc[1], Planes)
RotateCount(r) == BitField(r.gc[3], 0, 2)
LogicalOperation(r) == BitField(r.gc[3], 3, 4)
ReadMapSelect(r) == BitField(r.gc[4], 0, 1)
WriteMode(r) == BitField(r.gc[5], 0, 1)
ReadMode(r) == Bit(r.gc[5], 3)
HostOddEven(r) == Bit(r.gc[5], 4) = 1
ShiftMode(r) == BitField(r.gc[5], 5, 6)
ColorDontCare(r) == Ones(r.gc[7], Planes)
Bitmask(r) == Ones(r.gc[8], Bits)

Bit8(r) == Bit(r.attr[16], 6) = 1
ColorPlanes(r) == Ones(r.attr[18], Planes)

(* The parts of a vertical register that are kept in the overflow register.*)
VerticalDisplayEnd(r) == r.crtc[18] + 512 * Bit(r.crtc[7], 6) + 256 * Bit(r.crtc[7], 1)
VerticalBlankingStart(r) == r.crtc[21] + 256 * Bit(r.crtc[7], 3)

AddressShiftCount(r) ==
  2 + (1 - Bit(r.crtc[20], 6)) * Bit(r.crtc[23], 6) - Bit(r.crtc[20], 6) - Bit(r.attr[16], 6)

BytesPerLine(r) ==
  IF Bit(r.crtc[20], 6) = 1 THEN r.crtc[19] * 8
  ELSE IF Bit(r.crtc[23], 6) = 1 THEN r.crtc[19] * 2
  ELSE r.crtc[19] * 4

Ceiling(n, d) == (n + d - 1) \div d

(* Mutant of ScanLineToRow: the last, incomplete row is lost.              *)
ScanLineToRowRoundsDown(r, scans) ==
  (IF Bit(r.crtc[9], 7) = 1 THEN scans \div 2 ELSE scans) \div (2 + BitField(r.crtc[9], 0, 4))

ScanLineToRow(r, scans) ==
  LET doubled == IF Bit(r.crtc[9], 7) = 1 THEN scans \div 2 ELSE scans IN
  Ceiling(doubled, 1 + BitField(r.crtc[9], 0, 4))
    * (2 - Bit(r.crtc[23], 0)) * (2 - Bit(r.crtc[23], 1))

(* measureMode: the size in characters or pixels, the size of a character, *)
(* and the size of the canvas.                                             *)
Measured(r) ==
  LET chars == Min({1 + r.crtc[1], r.crtc[2]})
      scans == Min({1 + VerticalDisplayEnd(r), VerticalBlankingStart(r)})
      lines == IF Bit(r.crtc[9], 7) = 1 THEN scans \div 2 ELSE scans
      charH == BitField(r.crtc[9], 0, 4) + 1
      charW == 9 - Bit(r.seq[1], 0)
      half  == IF Bit8(r) THEN 2 ELSE 1
      w     == (chars * 8) \div half
      h     == ScanLineToRow(r, scans)
  IN IF TextMode(r)
     THEN [size |-> <<chars, lines \div charH>>, charSize |-> <<charW, charH>>,
           canvas |-> <<charW * chars, charH * (lines \div charH)>>,
           virtual |-> <<0, 0>>]
     ELSE [size |-> <<w, h>>, charSize |-> <<0, 0>>, canvas |-> <<w, h>>,
           virtual |-> <<(r.crtc[19] * 16) \div half, Ceiling(131072, BytesPerLine(r))>>]

-----------------------------------------------------------------------------
(* The modes of the BIOS: size, preset, pages.                             *)
BiosModes ==
  {[code |-> 0,  w |-> 40,  h |-> 25,  preset |-> "m40x25",       pages |-> 8],
   [code |-> 2,  w |-> 80,  h |-> 25,  preset |-> "m80x25",       pages |-> 8],
   [code |-> 3,  w |-> 80,  h |-> 25,  preset |-> "m80x25",       pages |-> 8],
   [code |-> 4,  w |-> 320, h |-> 200, preset |-> "m320x200x4",   pages |-> 1],
   [code |-> 17, w |-> 640, h |-> 480, preset |-> "m640x480x2",   pages |-> 1],
   [code |-> 18, w |-> 640, h |-> 480, preset |-> "m640x480x16",  pages |-> 1],
   [code |-> 19, w |-> 320, h |-> 200, preset |-> "m320x200x256", pages |-> 1]}
=============================================================================
