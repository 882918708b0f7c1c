----------------------------- MODULE VGAProofs -----------------------------
(***************************************************************************)
(* Proofs about VGA, for every choice of presets, offsets, bytes and       *)
(* settings.  What the registers of the presets say is worked out once     *)
(* (PresetFacts); the rest of the proofs knows the modes by that only.     *)
(***************************************************************************)
EXTENDS VGA, TLAPS, FiniteSetTheorems

Registers ==
  [misc : Nat, seq : [{1, 2, 4} -> Nat],
   crtc : [{1, 2, 7, 9} \cup 12..15 \cup 18..21 \cup {23} -> Nat],
   gc : [0..8 \ {2} -> Nat], attr : [{16, 18} -> Nat]]

Renderer(d) ==
  /\ d = [kind |-> d.kind, low |-> d.low, high |-> d.high, canvas |-> d.canvas, image |-> d.image]
  /\ d.kind \in {"text", "graphics"}
  /\ d.low \in Pixels \cup {Null, Whole} /\ d.high \in Pixels \cup {Null, Whole}
  /\ (d.low \in {Null, Whole}) <=> (d.high \in {Null, Whole})
  /\ d.image \in [Pixels -> SUBSET Bits]

Memories == [Planes -> [Offsets -> SUBSET Bits]]
Latches  == [Planes -> SUBSET Bits]

(* A graphics mode whose registers pass on what is written and read.       *)
Straight(r) ==
  /\ ~TextMode(r)
  /\ WriteMode(r) = 0 /\ LogicalOperation(r) = 0 /\ RotateCount(r) = 0
  /\ EnableSetReset(r) = {} /\ Bitmask(r) = Bits
  /\ ReadMode(r) = 0 /\ ~HostOddEven(r) /\ OddEvenDisabled(r)
  /\ \/ Chain4(r) /\ MapMask(r) = Planes
     \/ ~Chain4(r) /\ ReadMapSelect(r) \in MapMask(r)
  /\ <<PixelsAtOnce(r), AddressShiftCount(r)>> \in {<<8, 3>>, <<4, 2>>, <<4, 0>>}

(* Until registers are written, they are those of a preset.                *)
Set ==
  plain => /\ RamEnable(regs) /\ (TextMode(regs) \/ Straight(regs))
           /\ renderer.kind = (IF TextMode(regs) THEN "text" ELSE "graphics")
           /\ screen = Measured(regs)

(* The dirty region is one, and not empty when something was written.      *)
Region(low, high, w) ==
  /\ low = Null <=> high = Null
  /\ low # Whole /\ high # Whole
  /\ low = Null \/ low < high \/ (low = high /\ w = {})

(* The renderer d lacks nothing of the offsets w of memory pl, or will draw*)
(* it: what is not in its region is on a canvas of the right size.         *)
Shows(d, r, pl, canvas, w) ==
  d.kind = "graphics" =>
    \A p \in Pixels : PixelOffset(r, p) \in w =>
      \/ d.low <= p /\ p <= d.high
      \/ Pixel(r, pl, p) = d.image[p] /\ canvas = d.canvas

Shown == plain => Shows(renderer, regs, planes, screen.canvas, written)

IInv ==
  /\ regs \in Registers /\ planes \in Memories /\ latch \in Latches
  /\ Renderer(renderer)
  /\ halted \in BOOLEAN /\ plain \in BOOLEAN /\ written \subseteq Offsets
  /\ steps \in 0..MaxSteps /\ epoch \in 0..steps
  /\ last \in {<< >>} \cup (Addresses \X Values)
  /\ Set
  /\ ~halted => Region(renderer.low, renderer.high, written) /\ Shown

-----------------------------------------------------------------------------
(* Bits and fields of registers.                                           *)

LEMMA Halves ==
  ASSUME NEW n \in Nat, NEW k \in {0, 1, 2, 3, 4, 5, 6, 7} PROVE n \div 2 ^ k \in Nat
  <1>1. 2 ^ 0 = 1 /\ 2 ^ 1 = 2 /\ 2 ^ 2 = 4 /\ 2 ^ 3 = 8
    OBVIOUS
  <1>2. 2 ^ 4 = 16 /\ 2 ^ 5 = 32 /\ 2 ^ 6 = 64 /\ 2 ^ 7 = 128
    OBVIOUS
  <1>3. n \div 1 \in Nat /\ n \div 2 \in Nat /\ n \div 4 \in Nat /\ n \div 8 \in Nat
    OBVIOUS
  <1>4. n \div 16 \in Nat /\ n \div 32 \in Nat /\ n \div 64 \in Nat /\ n \div 128 \in Nat
    OBVIOUS
  <1>5. CASE k \in {0, 1, 2, 3}
    BY <1>1, <1>3, <1>5
  <1>6. CASE k \in {4, 5, 6, 7}
    BY <1>2, <1>4, <1>6, ZenonT(40)
  <1> QED
    BY <1>5, <1>6

LEMMA BitIsBit == ASSUME NEW n \in Nat, NEW k \in {0, 1, 2, 3, 4, 6, 7} PROVE Bit(n, k) \in {0, 1}
  <1>1. \A m \in Nat : m % 2 \in {0, 1}
    OBVIOUS
  <1>2. n \div 2 ^ k \in Nat
    BY Halves
  <1> QED
    BY <1>1, <1>2 DEF Bit

LEMMA FieldOfTwo ==
  ASSUME NEW n \in Nat, NEW k \in {0, 2, 3, 5} PROVE BitField(n, k, k + 1) \in 0..3
  <1>1. n \div 2 ^ k \in Nat
    BY Halves
  <1>2. k + 1 - k + 1 = 2 /\ 2 ^ 2 = 4
    OBVIOUS
  <1>3. \A m \in Nat : m % 4 \in 0..3
    OBVIOUS
  <1> QED
    BY <1>1, <1>2, <1>3 DEF BitField

LEMMA AllOnes == Ones(255, Bits) = Bits /\ Ones(15, Planes) = Planes
  <1>1. \A b \in Bits : Bit(255, b) = 1
    <2> SUFFICES ASSUME NEW b \in Bits PROVE Bit(255, b) = 1
      OBVIOUS
    <2>1. b \in {0, 1, 2, 3, 4, 5, 6, 7}
      BY DEF Bits
    <2>2. Bit(255, 0) = 1 /\ Bit(255, 1) = 1 /\ Bit(255, 2) = 1 /\ Bit(255, 3) = 1
      BY DEF Bit
    <2>3. Bit(255, 4) = 1 /\ Bit(255, 5) = 1 /\ Bit(255, 6) = 1 /\ Bit(255, 7) = 1
      BY DEF Bit
    <2> QED
      BY <2>1, <2>2, <2>3
  <1>2. \A b \in Planes : Bit(15, b) = 1
    <2> SUFFICES ASSUME NEW b \in Planes PROVE Bit(15, b) = 1
      OBVIOUS
    <2>1. b \in {0, 1, 2, 3}
      BY DEF Planes
    <2>2. Bit(15, 0) = 1 /\ Bit(15, 1) = 1 /\ Bit(15, 2) = 1 /\ Bit(15, 3) = 1
      BY DEF Bit
    <2> QED
      BY <2>1, <2>2
  <1> QED
    BY <1>1, <1>2 DEF Ones

-----------------------------------------------------------------------------
(* What the path of a byte stores.                                         *)

(* What the operation makes of a bit and the one in the latch.             *)
Combined(op, x, y) ==
  CASE op = 0 -> x
    [] op = 1 -> x /\ y
    [] op = 2 -> x \/ y
    [] op = 3 -> x # y

LEMMA CombinedAlike ==
  ASSUME NEW op \in 0..3, NEW x \in BOOLEAN, NEW z \in BOOLEAN, NEW y \in BOOLEAN, x <=> z
  PROVE  Combined(op, x, y) <=> Combined(op, z, y)
  <1>1. x = z
    OBVIOUS
  <1> QED
    BY <1>1

LEMMA Operated ==
  ASSUME NEW op \in 0..3, NEW a \in SUBSET Bits, NEW c \in SUBSET Bits, NEW b \in Bits
  PROVE  b \in GraphicsAluOps(op, a, c) <=> Combined(op, b \in a, b \in c)
  <1>1. CASE op = 0
    BY <1>1 DEF GraphicsAluOps, Combined
  <1>2. CASE op = 1
    BY <1>2 DEF GraphicsAluOps, Combined
  <1>3. CASE op = 2
    BY <1>3 DEF GraphicsAluOps, Combined
  <1>4. CASE op = 3
    <2>1. GraphicsAluOps(op, a, c) = (a \cup c) \ (a \cap c)
      BY <1>4 DEF GraphicsAluOps
    <2>2. Combined(op, b \in a, b \in c) <=> ((b \in a) # (b \in c))
      BY <1>4 DEF Combined
    <2> QED
      BY <2>1, <2>2
  <1> QED
    BY <1>1, <1>2, <1>3, <1>4

LEMMA Parameters ==
  ASSUME NEW r \in Registers
  PROVE  /\ WriteMode(r) \in 0..3 /\ LogicalOperation(r) \in 0..3
         /\ Bitmask(r) \subseteq Bits /\ SetReset(r) \subseteq Planes
         /\ EnableSetReset(r) \subseteq Planes
  <1>1. r.gc[5] \in Nat /\ r.gc[3] \in Nat
    BY DEF Registers
  <1>2. BitField(r.gc[5], 0, 1) \in 0..3 /\ BitField(r.gc[3], 3, 4) \in 0..3
    BY <1>1, FieldOfTwo, 0 + 1 = 1, 3 + 1 = 4
  <1> QED
    BY <1>2 DEF WriteMode, LogicalOperation, Bitmask, SetReset, EnableSetReset, Ones

LEMMA StoredBits ==
  ASSUME NEW r \in Registers, NEW l \in Latches, NEW byte \in SUBSET Bits
  PROVE  OutputDword(r, l, byte) = [p \in Planes |-> {b \in Bits : StoredBit(r, l, byte, p, b)}]
  <1>1. WriteMode(r) \in 0..3 /\ LogicalOperation(r) \in 0..3
    BY Parameters
  <1>2. l = [p \in Planes |-> l[p]] /\ \A p \in Planes : l[p] \subseteq Bits
    BY DEF Latches
  <1>3. Bitmask(r) \subseteq Bits /\ Rotate(r, byte) \subseteq Bits
    BY Parameters DEF Rotate
  <1>4. \A b \in Bits : b \in Rotate(r, byte) <=> (b + RotateCount(r)) % 8 \in byte
    BY DEF Rotate
  <1> DEFINE out == OutputDword(r, l, byte)
  <1>5. CASE WriteMode(r) = 1
    <2>1. out = l
      BY <1>5 DEF OutputDword
    <2>2. \A p \in Planes, b \in Bits : StoredBit(r, l, byte, p, b) <=> b \in l[p]
      BY <1>5 DEF StoredBit
    <2>3. \A p \in Planes : l[p] = {b \in Bits : StoredBit(r, l, byte, p, b)}
      BY <1>2, <2>2
    <2> QED
      BY <1>2, <2>1, <2>3
  <1>6. CASE WriteMode(r) = 3
    <2> DEFINE mask == [p \in Planes |-> Bitmask(r) \cap Rotate(r, byte)]
    <2>1. out = ApplyLatchBitmask(mask, l, ApplyExpand(SetReset(r)))
      BY <1>6 DEF OutputDword, RepeatByteInDword
    <2>2. out = [p \in Planes |-> (mask[p] \cap (IF p \in SetReset(r) THEN Bits ELSE {})) \cup (l[p] \ mask[p])]
      BY <2>1 DEF ApplyLatchBitmask, ApplyExpand
    <2>3. ASSUME NEW p \in Planes, NEW b \in Bits
          PROVE  StoredBit(r, l, byte, p, b)
                   <=> IF b \in mask[p] THEN p \in SetReset(r) ELSE b \in l[p]
      BY <1>4, <1>6 DEF StoredBit, OfferedBit
    <2>4. \A p \in Planes : out[p] = {b \in Bits : StoredBit(r, l, byte, p, b)}
      BY <1>2, <1>3, <2>2, <2>3
    <2> QED
      BY <2>2, <2>4
  <1>7. ASSUME WriteMode(r) \in {0, 2}
        PROVE  out = [p \in Planes |-> {b \in Bits : StoredBit(r, l, byte, p, b)}]
    <2> DEFINE given == IF WriteMode(r) = 0
                        THEN ApplySetReset(r, RepeatByteInDword(Rotate(r, byte)))
                        ELSE ApplyExpand(byte \cap Planes)
    <2>1. \A p \in Planes : given[p] \subseteq Bits
      BY <1>3 DEF ApplySetReset, ApplyExpand, RepeatByteInDword
    <2>2. \A p \in Planes, b \in Bits : b \in given[p] <=> OfferedBit(r, byte, p, b)
      BY <1>4, <1>7 DEF ApplySetReset, ApplyExpand, RepeatByteInDword, OfferedBit
    <2>3. out = ApplyLatchBitmask(RepeatByteInDword(Bitmask(r)), l, ApplyLogical(r, l, given))
      BY <1>7 DEF OutputDword
    <2> HIDE DEF given
    <2> DEFINE logic(p) == GraphicsAluOps(LogicalOperation(r), given[p], l[p])
    <2>4. out = [p \in Planes |-> (Bitmask(r) \cap logic(p)) \cup (l[p] \ Bitmask(r))]
      BY <2>3 DEF ApplyLatchBitmask, RepeatByteInDword, ApplyLogical
    <2>5. ASSUME NEW p \in Planes, NEW b \in Bits
          PROVE  /\ b \in logic(p) <=> Combined(LogicalOperation(r), b \in given[p], b \in l[p])
      BY <1>1, <1>2, <2>1, Operated
    <2>6. ASSUME NEW p \in Planes, NEW b \in Bits
          PROVE  StoredBit(r, l, byte, p, b) <=> IF b \in Bitmask(r) THEN b \in logic(p) ELSE b \in l[p]
      <3>1. CASE b \notin Bitmask(r)
        <4>1. StoredBit(r, l, byte, p, b) <=> b \in l[p]
          BY <3>1, ZenonT(30) DEF StoredBit
        <4> QED
          BY <3>1, <4>1
      <3>2. CASE b \in Bitmask(r)
        <4>1. StoredBit(r, l, byte, p, b)
                <=> Combined(LogicalOperation(r), OfferedBit(r, byte, p, b), b \in l[p])
          <5>1. WriteMode(r) # 1 /\ WriteMode(r) # 3
            BY <1>7
          <5>2. CASE LogicalOperation(r) = 0
            BY <3>2, <5>1, <5>2, ZenonT(30) DEF StoredBit, Combined
          <5>3. CASE LogicalOperation(r) = 1
            <6>1. StoredBit(r, l, byte, p, b) <=> OfferedBit(r, byte, p, b) /\ b \in l[p]
              BY <3>2, <5>1, <5>3 DEF StoredBit
            <6> QED
              BY <5>3, <6>1 DEF Combined
          <5>4. CASE LogicalOperation(r) = 2
            <6>1. StoredBit(r, l, byte, p, b) <=> OfferedBit(r, byte, p, b) \/ b \in l[p]
              BY <3>2, <5>1, <5>4 DEF StoredBit
            <6> QED
              BY <5>4, <6>1 DEF Combined
          <5>5. CASE LogicalOperation(r) = 3
            <6>1. StoredBit(r, l, byte, p, b) <=> (OfferedBit(r, byte, p, b) # (b \in l[p]))
              BY <3>2, <5>1, <5>5 DEF StoredBit
            <6> QED
              BY <5>5, <6>1 DEF Combined
          <5> QED
            BY <1>1, <5>2, <5>3, <5>4, <5>5
        <4>2. b \in given[p] <=> OfferedBit(r, byte, p, b)
          BY <2>2
        <4>3. b \in logic(p) <=> Combined(LogicalOperation(r), b \in given[p], b \in l[p])
          BY <2>5
        <4>4. Combined(LogicalOperation(r), b \in given[p], b \in l[p])
                <=> Combined(LogicalOperation(r), OfferedBit(r, byte, p, b), b \in l[p])
          <5>1. OfferedBit(r, byte, p, b) \in BOOLEAN
            <6>1. CASE WriteMode(r) = 0 /\ p \in EnableSetReset(r)
              BY <6>1 DEF OfferedBit
            <6>2. CASE WriteMode(r) = 0 /\ p \notin EnableSetReset(r)
              BY <6>2 DEF OfferedBit
            <6>3. CASE WriteMode(r) = 2
              BY <6>3 DEF OfferedBit
            <6> QED
              BY <1>7, <6>1, <6>2, <6>3
          <5> QED
            BY <1>1, <4>2, <5>1, CombinedAlike
        <4> QED
          BY <3>2, <4>1, <4>3, <4>4
      <3> QED
        BY <3>1, <3>2
    <2> HIDE DEF logic
    <2>7. \A p \in Planes : out[p] = {b \in Bits : StoredBit(r, l, byte, p, b)}
      BY <1>2, <1>3, <2>4, <2>6
    <2> QED
      BY <2>4, <2>7
  <1> QED
    BY <1>1, <1>5, <1>6, <1>7

-----------------------------------------------------------------------------
(* The presets.                                                            *)

TextNames     == {"m40x25", "m40x50", "m80x25", "m80x50", "m90x30", "m90x60"}
GraphicsNames == {"m640x480x2", "m320x200x4", "m640x480x16", "m720x480x16", "m320x200x256", "mModeX"}

LEMMA PresetNames == DOMAIN TextPresets = TextNames /\ DOMAIN GraphicsPresets = GraphicsNames
  BY DEF TextPresets, GraphicsPresets, TextNames, GraphicsNames

LEMMA TextColumns ==
  ASSUME NEW name \in TextNames, NEW i \in 1..10 PROVE TextPresets[name][i] \in Nat
  <1>1. CASE name = "m40x25"
    BY <1>1 DEF TextPresets
  <1>2. CASE name = "m40x50"
    BY <1>2 DEF TextPresets
  <1>3. CASE name = "m80x25"
    BY <1>3 DEF TextPresets
  <1>4. CASE name = "m80x50"
    BY <1>4 DEF TextPresets
  <1>5. CASE name = "m90x30"
    BY <1>5 DEF TextPresets
  <1>6. CASE name = "m90x60"
    BY <1>6 DEF TextPresets
  <1> QED
    BY <1>1, <1>2, <1>3, <1>4, <1>5, <1>6 DEF TextNames

LEMMA GraphicsColumns ==
  ASSUME NEW name \in GraphicsNames, NEW i \in 1..18 PROVE GraphicsPresets[name][i] \in Nat
  <1>1. CASE name = "m640x480x2"
    BY <1>1 DEF GraphicsPresets
  <1>2. CASE name = "m320x200x4"
    BY <1>2 DEF GraphicsPresets
  <1>3. CASE name = "m640x480x16"
    BY <1>3 DEF GraphicsPresets
  <1>4. CASE name = "m720x480x16"
    BY <1>4 DEF GraphicsPresets
  <1>5. CASE name = "m320x200x256"
    BY <1>5 DEF GraphicsPresets
  <1>6. CASE name = "mModeX"
    BY <1>6 DEF GraphicsPresets
  <1> QED
    BY <1>1, <1>2, <1>3, <1>4, <1>5, <1>6 DEF GraphicsNames

LEMMA CrtcType ==
  ASSUME NEW hde \in Nat, NEW shb \in Nat, NEW overflow \in Nat, NEW maxScan \in Nat,
         NEW cursor \in Nat, NEW vde \in Nat, NEW offset \in Nat, NEW underline \in Nat,
         NEW svb \in Nat, NEW control \in Nat
  PROVE  Crtc(hde, shb, overflow, maxScan, cursor, vde, offset, underline, svb, control)
           \in [{1, 2, 7, 9} \cup 12..15 \cup 18..21 \cup {23} -> Nat]
  <1>1. cursor \div 256 \in Nat /\ cursor % 256 \in Nat
    OBVIOUS
  <1>2. \A i \in 12..15 : i \in {12, 13, 14, 15}
    OBVIOUS
  <1>3. \A i \in 18..21 : i \in {18, 19, 20, 21}
    OBVIOUS
  <1> QED
    BY <1>1, <1>2, <1>3 DEF Crtc

LEMMA FilesType ==
  ASSUME NEW a \in Nat, NEW b \in Nat, NEW c \in Nat, NEW d \in Nat
  PROVE  /\ Sequencer(a, b, c) \in [{1, 2, 4} -> Nat]
         /\ Graphics(a, b, c, d) \in [0..8 \ {2} -> Nat]
         /\ Attr(a, b) \in [{16, 18} -> Nat]
  BY DEF Sequencer, Graphics, Attr

LEMMA TextPreset ==
  ASSUME NEW name \in TextNames
  PROVE  Preset(name) \in Registers /\ RamEnable(Preset(name)) /\ TextMode(Preset(name))
  <1> DEFINE p == TextPresets[name]
             crtc == Crtc(p[2], p[3], p[4], p[5], p[6], p[7], p[8], p[9], p[10], 163)
  <1>1. \A i \in 1..10 : p[i] \in Nat
    BY TextColumns
  <1>2. crtc \in [{1, 2, 7, 9} \cup 12..15 \cup 18..21 \cup {23} -> Nat]
    <2>1. /\ p[2] \in Nat /\ p[3] \in Nat /\ p[4] \in Nat /\ p[5] \in Nat /\ p[6] \in Nat
          /\ p[7] \in Nat /\ p[8] \in Nat /\ p[9] \in Nat /\ p[10] \in Nat
      BY <1>1
    <2>2. 163 \in Nat
      OBVIOUS
    <2> HIDE DEF p
    <2> QED
      BY <2>1, <2>2, CrtcType, ZenonT(30)
  <1>3. Preset(name) = [misc |-> 103, seq |-> Sequencer(p[1], 3, 2), crtc |-> crtc,
                        gc |-> Graphics(0, 16, 14, 0), attr |-> Attr(12, 15)]
    BY PresetNames DEF Preset
  <1>4. p[1] \in Nat
    BY <1>1
  <1> HIDE DEF p, crtc
  <1>5. Sequencer(p[1], 3, 2) \in [{1, 2, 4} -> Nat] /\ Graphics(0, 16, 14, 0) \in [0..8 \ {2} -> Nat]
          /\ Attr(12, 15) \in [{16, 18} -> Nat]
    BY <1>4, FilesType
  <1>6. Preset(name) \in Registers
    BY <1>2, <1>3, <1>5 DEF Registers
  <1>7. Bit(103, 1) = 1 /\ Bit(14, 0) = 0 /\ Graphics(0, 16, 14, 0)[6] = 14
    BY DEF Bit, Graphics
  <1> QED
    BY <1>3, <1>6, <1>7 DEF RamEnable, TextMode

(* The registers of a graphics preset that matter for the path of a byte.  *)
LEMMA GraphicsPreset ==
  ASSUME NEW name \in GraphicsNames
  PROVE  LET p == GraphicsPresets[name] r == Preset(name) IN
         /\ r \in Registers /\ RamEnable(r)
         /\ r.seq[2] = p[2] /\ r.seq[4] = p[3]
         /\ r.crtc[19] = p[9] /\ r.crtc[20] = p[10] /\ r.crtc[23] = p[12]
         /\ r.gc[1] = 0 /\ r.gc[3] = 0 /\ r.gc[8] = 255
         /\ r.gc[4] = p[13] /\ r.gc[5] = p[14] /\ r.gc[6] = p[15] /\ r.gc[7] = p[16]
         /\ r.attr[16] = p[17] /\ r.attr[18] = p[18]
  <1> DEFINE p == GraphicsPresets[name]
             crtc == Crtc(p[4], p[5], p[6], p[7], 0, p[8], p[9], p[10], p[11], p[12])
  <1>1. \A i \in 1..18 : p[i] \in Nat
    BY GraphicsColumns
  <1>2. /\ p[4] \in Nat /\ p[5] \in Nat /\ p[6] \in Nat /\ p[7] \in Nat /\ p[8] \in Nat
        /\ p[9] \in Nat /\ p[10] \in Nat /\ p[11] \in Nat /\ p[12] \in Nat
    BY <1>1
  <1>3. /\ p[1] \in Nat /\ p[2] \in Nat /\ p[3] \in Nat /\ p[13] \in Nat /\ p[14] \in Nat
        /\ p[15] \in Nat /\ p[16] \in Nat /\ p[17] \in Nat /\ p[18] \in Nat
    BY <1>1
  <1>4. name \notin DOMAIN TextPresets
    BY PresetNames DEF TextNames, GraphicsNames
  <1>5. Preset(name) = [misc |-> 227, seq |-> Sequencer(p[1], p[2], p[3]), crtc |-> crtc,
                        gc |-> Graphics(p[13], p[14], p[15], p[16]), attr |-> Attr(p[17], p[18])]
    BY <1>4 DEF Preset
  <1> HIDE DEF p
  <1>6. crtc \in [{1, 2, 7, 9} \cup 12..15 \cup 18..21 \cup {23} -> Nat]
    BY <1>2, CrtcType
  <1>7. crtc[19] = p[9] /\ crtc[20] = p[10] /\ crtc[23] = p[12]
    BY DEF Crtc
  <1> HIDE DEF crtc
  <1>8. /\ Sequencer(p[1], p[2], p[3]) \in [{1, 2, 4} -> Nat]
        /\ Graphics(p[13], p[14], p[15], p[16]) \in [0..8 \ {2} -> Nat]
        /\ Attr(p[17], p[18]) \in [{16, 18} -> Nat]
    BY <1>3, FilesType
  <1>9. Preset(name) \in Registers
    BY <1>5, <1>6, <1>8 DEF Registers
  <1>10. Bit(227, 1) = 1
    BY DEF Bit
  <1>11. RamEnable(Preset(name))
    BY <1>5, <1>10 DEF RamEnable
  <1>12. Sequencer(p[1], p[2], p[3])[2] = p[2] /\ Sequencer(p[1], p[2], p[3])[4] = p[3]
    BY DEF Sequencer
  <1>13. Attr(p[17], p[18])[16] = p[17] /\ Attr(p[17], p[18])[18] = p[18]
    BY DEF Attr
  <1> DEFINE gc == Graphics(p[13], p[14], p[15], p[16])
  <1>14. /\ gc[1] = 0 /\ gc[3] = 0 /\ gc[8] = 255
         /\ gc[4] = p[13] /\ gc[5] = p[14] /\ gc[6] = p[15] /\ gc[7] = p[16]
    BY DEF Graphics
  <1> HIDE DEF gc
  <1>15. Preset(name).gc = gc
    BY <1>5 DEF gc
  <1> QED
    BY <1>5, <1>7, <1>9, <1>11, <1>12, <1>13, <1>14, <1>15 DEF p

LEMMA StraightModes ==
  ASSUME NEW name \in GraphicsNames \ {"m320x200x4"} PROVE Straight(Preset(name))
  <1> DEFINE p == GraphicsPresets[name]
             r == Preset(name)
  <1>1. /\ r.seq[2] = p[2] /\ r.seq[4] = p[3] /\ r.crtc[20] = p[10] /\ r.crtc[23] = p[12]
        /\ r.gc[1] = 0 /\ r.gc[3] = 0 /\ r.gc[8] = 255
        /\ r.gc[4] = p[13] /\ r.gc[5] = p[14] /\ r.gc[6] = p[15] /\ r.attr[16] = p[17]
    BY GraphicsPreset
  <1>2. p[15] = 5 /\ p[14] \in {0, 64}
    <2>1. CASE name = "m640x480x2"
      BY <2>1 DEF GraphicsPresets
    <2>2. CASE name = "m640x480x16"
      BY <2>2 DEF GraphicsPresets
    <2>3. CASE name = "m720x480x16"
      BY <2>3 DEF GraphicsPresets
    <2>4. CASE name = "m320x200x256"
      BY <2>4 DEF GraphicsPresets
    <2>5. CASE name = "mModeX"
      BY <2>5 DEF GraphicsPresets
    <2> QED
      BY <2>1, <2>2, <2>3, <2>4, <2>5 DEF GraphicsNames
  <1>3. \/ p[3] = 14 /\ p[2] = 15
        \/ p[3] = 6 /\ p[2] = 15 /\ p[13] = 0
        \/ p[3] = 6 /\ p[2] = 8 /\ p[13] = 3
    <2>1. CASE name = "m640x480x2"
      BY <2>1 DEF GraphicsPresets
    <2>2. CASE name = "m640x480x16"
      BY <2>2 DEF GraphicsPresets
    <2>3. CASE name = "m720x480x16"
      BY <2>3 DEF GraphicsPresets
    <2>4. CASE name = "m320x200x256"
      BY <2>4 DEF GraphicsPresets
    <2>5. CASE name = "mModeX"
      BY <2>5 DEF GraphicsPresets
    <2> QED
      BY <2>1, <2>2, <2>3, <2>4, <2>5 DEF GraphicsNames
  <1>4. \/ p[10] \in {0, 8} /\ p[12] = 227 /\ p[17] = 1
        \/ p[10] = 64 /\ p[12] = 163 /\ p[17] = 65
        \/ p[10] = 0 /\ p[12] = 227 /\ p[17] = 65
    <2>1. CASE name = "m640x480x2"
      BY <2>1 DEF GraphicsPresets
    <2>2. CASE name = "m640x480x16"
      BY <2>2 DEF GraphicsPresets
    <2>3. CASE name = "m720x480x16"
      BY <2>3 DEF GraphicsPresets
    <2>4. CASE name = "m320x200x256"
      BY <2>4 DEF GraphicsPresets
    <2>5. CASE name = "mModeX"
      BY <2>5 DEF GraphicsPresets
    <2> QED
      BY <2>1, <2>2, <2>3, <2>4, <2>5 DEF GraphicsNames
  <1> HIDE DEF p, r
  <1>5. ~TextMode(r)
    <2>1. Bit(5, 0) = 1
      BY DEF Bit
    <2> QED
      BY <1>1, <1>2, <2>1 DEF TextMode
  <1>6. WriteMode(r) = 0 /\ ReadMode(r) = 0 /\ ~HostOddEven(r)
    <2>1. BitField(0, 0, 1) = 0 /\ BitField(64, 0, 1) = 0
      BY DEF BitField
    <2>2. Bit(0, 3) = 0 /\ Bit(64, 3) = 0 /\ Bit(0, 4) = 0 /\ Bit(64, 4) = 0
      BY DEF Bit
    <2> QED
      BY <1>1, <1>2, <2>1, <2>2 DEF WriteMode, ReadMode, HostOddEven
  <1>7. LogicalOperation(r) = 0 /\ RotateCount(r) = 0
    <2>1. BitField(0, 3, 4) = 0 /\ BitField(0, 0, 2) = 0
      BY DEF BitField
    <2> QED
      BY <1>1, <2>1 DEF LogicalOperation, RotateCount
  <1>8. EnableSetReset(r) = {} /\ Bitmask(r) = Bits
    <2>1. Ones(0, Planes) = {}
      <3>1. Bit(0, 0) = 0 /\ Bit(0, 1) = 0 /\ Bit(0, 2) = 0 /\ Bit(0, 3) = 0
        BY DEF Bit
      <3>2. \A b \in Planes : b \in {0, 1, 2, 3}
        BY DEF Planes
      <3> QED
        BY <3>1, <3>2 DEF Ones
    <2> QED
      BY <1>1, <2>1, AllOnes DEF EnableSetReset, Bitmask
  <1>9. Bit(14, 2) = 1 /\ Bit(14, 3) = 1 /\ Bit(6, 2) = 1 /\ Bit(6, 3) = 0
    BY DEF Bit
  <1>10. OddEvenDisabled(r)
    BY <1>1, <1>3, <1>9 DEF OddEvenDisabled
  <1>11. \/ Chain4(r) /\ MapMask(r) = Planes
         \/ ~Chain4(r) /\ ReadMapSelect(r) \in MapMask(r)
    <2>1. CASE p[3] = 14 /\ p[2] = 15
      BY <1>1, <1>9, <2>1, AllOnes DEF Chain4, MapMask
    <2>2. CASE p[3] = 6 /\ p[2] = 15 /\ p[13] = 0
      <3>1. BitField(0, 0, 1) = 0 /\ 0 \in Planes
        BY DEF BitField, Planes
      <3> QED
        BY <1>1, <1>9, <2>2, <3>1, AllOnes DEF Chain4, MapMask, ReadMapSelect
    <2>3. CASE p[3] = 6 /\ p[2] = 8 /\ p[13] = 3
      <3>1. BitField(3, 0, 1) = 3 /\ 3 \in Planes
        BY DEF BitField, Planes
      <3>2. Bit(8, 3) = 1
        BY DEF Bit
      <3> QED
        BY <1>1, <1>9, <2>3, <3>1, <3>2 DEF Chain4, MapMask, ReadMapSelect, Ones
    <2> QED
      BY <1>3, <2>1, <2>2, <2>3
  <1>12. <<PixelsAtOnce(r), AddressShiftCount(r)>> \in {<<8, 3>>, <<4, 2>>, <<4, 0>>}
    <2>1. Bit(0, 6) = 0 /\ Bit(8, 6) = 0 /\ Bit(64, 6) = 1
      BY DEF Bit
    <2>2. Bit(227, 6) = 1 /\ Bit(163, 6) = 0 /\ Bit(1, 6) = 0 /\ Bit(65, 6) = 1
      BY DEF Bit
    <2>3. CASE p[10] \in {0, 8} /\ p[12] = 227 /\ p[17] = 1
      BY <1>1, <2>1, <2>2, <2>3 DEF PixelsAtOnce, AddressShiftCount, Bit8
    <2>4. CASE p[10] = 64 /\ p[12] = 163 /\ p[17] = 65
      BY <1>1, <2>1, <2>2, <2>4 DEF PixelsAtOnce, AddressShiftCount, Bit8
    <2>5. CASE p[10] = 0 /\ p[12] = 227 /\ p[17] = 65
      BY <1>1, <2>1, <2>2, <2>5 DEF PixelsAtOnce, AddressShiftCount, Bit8
    <2> QED
      BY <1>4, <2>3, <2>4, <2>5
  <1> QED
    BY <1>5, <1>6, <1>7, <1>8, <1>10, <1>11, <1>12 DEF Straight, r

(* All that is known of the registers after a mode was set.                *)
LEMMA PresetFacts ==
  ASSUME NEW name \in Presets
  PROVE  /\ Preset(name) \in Registers /\ RamEnable(Preset(name))
         /\ TextMode(Preset(name)) \/ Straight(Preset(name))
  <1>1. name \in TextNames \cup GraphicsNames
    BY PresetsAssumption, PresetNames
  <1>2. CASE name \in TextNames
    BY <1>2, TextPreset
  <1>3. CASE name \in GraphicsNames \ {"m320x200x4"}
    BY <1>3, GraphicsPreset, StraightModes
  <1>4. CASE name = "m320x200x4"
    <2>1. name \in GraphicsNames /\ GraphicsPresets[name][15] = 2
      BY <1>4 DEF GraphicsNames, GraphicsPresets
    <2>2. Preset(name) \in Registers /\ RamEnable(Preset(name)) /\ Preset(name).gc[6] = 2
      BY <2>1, GraphicsPreset
    <2>3. Bit(2, 0) = 0
      BY DEF Bit
    <2> QED
      BY <2>2, <2>3 DEF TextMode
  <1> QED
    BY <1>1, <1>2, <1>3, <1>4

-----------------------------------------------------------------------------
(* Offsets and pixels.                                                     *)

LEMMA OffsetsAreAnInterval ==
  \E n \in Nat : Offsets = 0..n /\ Pixels = 0..8 * (n + 1) + 8
  <1>1. PICK n \in Nat : Offsets = 0..n
    BY OffsetsAssumption
  <1>2. Cardinality(0..n) = IF 0 > n THEN 0 ELSE n - 0 + 1
    BY FS_Interval, 0 \in Int, n \in Int
  <1>3. Cardinality(Offsets) = n + 1
    BY <1>1, <1>2
  <1>4. Pixels = 0 .. 8 * (n + 1) + 8
    BY <1>3 DEF Pixels
  <1> QED
    BY <1>1, <1>4

LEMMA OffsetsClosed ==
  ASSUME NEW o \in Offsets, NEW k \in Nat, k <= o
  PROVE  k \in Offsets
  BY OffsetsAssumption

LEMMA Numbers ==
  /\ Offsets \subseteq Nat /\ Pixels \subseteq Nat
  /\ \A o \in Offsets : 8 * o + 8 \in Pixels
  /\ \A p \in Pixels : \A m \in Nat : m <= p => m \in Pixels
  BY OffsetsAreAnInterval

LEMMA Division ==
  ASSUME NEW w \in Nat, w > 0, NEW a \in Nat
  PROVE  /\ a % w \in 0 .. w - 1 /\ a \div w \in Nat /\ a = (a \div w) * w + (a % w)
         /\ a % w <= a /\ a \div w <= a
  <1>1. a % w \in 0 .. w - 1 /\ a \div w \in Int /\ a = (a \div w) * w + (a % w)
    OBVIOUS
  <1> DEFINE q == a \div w
             m == a % w
  <1> HIDE DEF q, m
  <1>2. m \in 0 .. w - 1 /\ q \in Int /\ a = q * w + m
    BY <1>1 DEF q, m
  <1>3. q >= 0
    <2>1. q <= -1 => q * w <= -w
      BY <1>2
    <2> QED
      BY <1>2, <2>1
  <1>4. q <= q * w
    BY <1>2, <1>3
  <1>5. m \in 0 .. w - 1 /\ q \in Nat /\ a = q * w + m /\ m <= a /\ q <= a
    BY <1>2, <1>3, <1>4
  <1> QED
    BY <1>5 DEF q, m

LEMMA Divisions ==
  ASSUME NEW o \in Nat
  PROVE  /\ o % 2 \in 0..1 /\ o \div 2 \in Nat /\ o = (o \div 2) * 2 + (o % 2)
         /\ o % 4 \in 0..3 /\ o % 4 <= o /\ o % 2 <= o /\ o \div 2 <= o
         /\ o % 8 \in 0..7 /\ o % 8 <= o
  <1>1. 2 \in Nat /\ 4 \in Nat /\ 8 \in Nat /\ 2 > 0 /\ 4 > 0 /\ 8 > 0
    OBVIOUS
  <1>2. 2 - 1 = 1 /\ 4 - 1 = 3 /\ 8 - 1 = 7
    OBVIOUS
  <1>3. o % 2 \in 0 .. 2 - 1 /\ o \div 2 \in Nat /\ o = (o \div 2) * 2 + (o % 2) /\ o % 2 <= o /\ o \div 2 <= o
    BY <1>1, Division
  <1>4. o % 4 \in 0 .. 4 - 1 /\ o % 4 <= o
    BY <1>1, Division
  <1>5. o % 8 \in 0 .. 8 - 1 /\ o % 8 <= o
    BY <1>1, Division
  <1> QED
    BY <1>2, <1>3, <1>4, <1>5

(* Dividing a multiple, less a rest that is smaller than w.                *)
LEMMA Aligned ==
  ASSUME NEW w \in {1, 4, 8}, NEW v \in {4, 8}, w <= v, NEW p \in Nat, NEW o \in Nat,
         (p - (p % v)) \div w = o, w = v \/ w = 1
  PROVE  o * w <= p /\ p <= o * w + 8
  <1> DEFINE m == p % v
             d == (p - m) \div w
  <1>1. m \in 0 .. v - 1 /\ m <= p /\ p = (p \div v) * v + m /\ p \div v \in Nat
    BY Division
  <1> HIDE DEF m
  <1>2. p - m \in Nat /\ p - m = (p \div v) * v
    BY <1>1
  <1>3. p - m = d * w + ((p - m) % w) /\ (p - m) % w \in 0 .. w - 1
    BY <1>2, Division
  <1>4. d = o
    BY DEF m
  <1> QED
    BY <1>1, <1>2, <1>3, <1>4

LEMMA PlaneOffsetType == ASSUME NEW r, NEW o \in Offsets PROVE PlaneOffset(r, o) \in Offsets
  <1>1. o \in Nat
    BY Numbers
  <1>2. o - (o % 2) \in Nat /\ o - (o % 4) \in Nat /\ o - (o % 2) <= o /\ o - (o % 4) <= o
    BY <1>1, Divisions
  <1>3. o - (o % 2) \in Offsets /\ o - (o % 4) \in Offsets
    BY <1>2, OffsetsClosed
  <1>4. CASE ~OddEvenDisabled(r)
    BY <1>1, <1>3, <1>4 DEF PlaneOffset
  <1>5. CASE OddEvenDisabled(r) /\ Chain4(r)
    BY <1>1, <1>3, <1>5 DEF PlaneOffset
  <1>6. CASE OddEvenDisabled(r) /\ ~Chain4(r)
    BY <1>6 DEF PlaneOffset
  <1> QED
    BY <1>4, <1>5, <1>6

LEMMA ShiftType == ASSUME NEW r \in Registers PROVE 2 ^ AddressShiftCount(r) \in {1, 2, 4, 8}
  <1>1. r.crtc[20] \in Nat /\ r.crtc[23] \in Nat /\ r.attr[16] \in Nat
    BY DEF Registers
  <1>2. Bit(r.crtc[20], 6) \in {0, 1} /\ Bit(r.crtc[23], 6) \in {0, 1} /\ Bit(r.attr[16], 6) \in {0, 1}
    BY <1>1, BitIsBit
  <1>3. AddressShiftCount(r) \in {0, 1, 2, 3}
    <2> DEFINE a == Bit(r.crtc[20], 6)
               b == Bit(r.crtc[23], 6)
               c == Bit(r.attr[16], 6)
    <2>1. AddressShiftCount(r) = 2 + (1 - a) * b - a - c
      BY DEF AddressShiftCount
    <2> HIDE DEF a, b, c
    <2>2. a \in {0, 1} /\ b \in {0, 1} /\ c \in {0, 1}
      BY <1>2 DEF a, b, c
    <2> QED
      BY <2>1, <2>2
  <1>4. 2 ^ 0 = 1 /\ 2 ^ 1 = 2 /\ 2 ^ 2 = 4 /\ 2 ^ 3 = 8
    OBVIOUS
  <1> QED
    BY <1>3, <1>4

LEMMA Extremes ==
  ASSUME NEW a \in Int, NEW b \in Int
  PROVE  /\ Min({a, b}) = IF a <= b THEN a ELSE b
         /\ Max({a, b}) = IF a <= b THEN b ELSE a
  <1>1. \E x \in {a, b} : \A y \in {a, b} : x <= y
    OBVIOUS
  <1>2. \E x \in {a, b} : \A y \in {a, b} : x >= y
    OBVIOUS
  <1>3. Min({a, b}) \in {a, b} /\ \A y \in {a, b} : Min({a, b}) <= y
    BY <1>1 DEF Min
  <1>4. Max({a, b}) \in {a, b} /\ \A y \in {a, b} : Max({a, b}) >= y
    BY <1>2 DEF Max
  <1> QED
    BY <1>3, <1>4

(* A pixel is made of the bytes at its offset.                             *)
LEMMA ShiftLoadLocal ==
  ASSUME NEW r, NEW pl, NEW pl2, NEW o, NEW i \in 0..7,
         \A q \in Planes : PlaneByte(pl2, q, o) = PlaneByte(pl, q, o)
  PROVE  ShiftLoad(r, pl2, o, i) = ShiftLoad(r, pl, o, i)
  <1>1. i \div 4 \in Planes /\ i \div 4 + 2 \in Planes /\ i \div 2 \in Planes
    BY DEF Planes
  <1>2. /\ PlaneByte(pl2, i \div 4, o) = PlaneByte(pl, i \div 4, o)
        /\ PlaneByte(pl2, i \div 4 + 2, o) = PlaneByte(pl, i \div 4 + 2, o)
        /\ PlaneByte(pl2, i \div 2, o) = PlaneByte(pl, i \div 2, o)
    BY <1>1
  <1>3. {p \in Planes : 7 - i \in PlaneByte(pl2, p, o)} = {p \in Planes : 7 - i \in PlaneByte(pl, p, o)}
    OBVIOUS
  <1> QED
    BY <1>2, <1>3 DEF ShiftLoad

LEMMA PixelLocal ==
  ASSUME NEW r, NEW pl, NEW pl2, NEW p \in Pixels,
         \A q \in Planes : PlaneByte(pl2, q, PixelOffset(r, p)) = PlaneByte(pl, q, PixelOffset(r, p))
  PROVE  Pixel(r, pl2, p) = Pixel(r, pl, p)
  <1> DEFINE o == PixelOffset(r, p)
             i == p % PixelsAtOnce(r)
  <1>1. p \in Nat
    BY Numbers
  <1>2. CASE Bit8(r)
    <2>1. i \in {0, 1, 2, 3}
      BY <1>1, <1>2, Divisions DEF PixelsAtOnce
    <2>2. 2 * i + 1 \in 0..7 /\ 2 * i \in 0..7
      BY <2>1
    <2> HIDE DEF i
    <2> DEFINE j == 2 * i + 1
               k == 2 * i
    <2> HIDE DEF j, k
    <2>3. ShiftLoad(r, pl2, o, j) = ShiftLoad(r, pl, o, j) /\ ShiftLoad(r, pl2, o, k) = ShiftLoad(r, pl, o, k)
      BY <2>2, ShiftLoadLocal DEF j, k
    <2>4. \A m : Pixel(r, m, p) = ShiftLoad(r, m, o, j) \cup {b + 4 : b \in ShiftLoad(r, m, o, k)}
      BY <1>2 DEF Pixel, i, j, k
    <2> HIDE DEF o
    <2> QED
      BY <2>3, <2>4
  <1>3. CASE ~Bit8(r)
    <2>1. i \in 0..7
      BY <1>1, <1>3, Divisions DEF PixelsAtOnce
    <2> HIDE DEF i
    <2>2. ShiftLoad(r, pl2, o, i) = ShiftLoad(r, pl, o, i)
      BY <2>1, ShiftLoadLocal
    <2>3. \A m : Pixel(r, m, p) = ShiftLoad(r, m, o, i) \cap ColorPlanes(r)
      BY <1>3 DEF Pixel, i
    <2> QED
      BY <2>2, <2>3
  <1> QED
    BY <1>2, <1>3

LEMMA PixelType == ASSUME NEW r, NEW pl, NEW p PROVE Pixel(r, pl, p) \subseteq Bits
  <1>1. ASSUME NEW o, NEW i PROVE ShiftLoad(r, pl, o, i) \subseteq 0..3
    BY DEF ShiftLoad, Planes
  <1>2. CASE Bit8(r)
    BY <1>1, <1>2 DEF Pixel, Bits
  <1>3. CASE ~Bit8(r)
    BY <1>1, <1>3 DEF Pixel, Bits
  <1> QED
    BY <1>2, <1>3

(* The pixels of an offset lie in the region that a write to it marks.     *)
LEMMA MarkedPixels ==
  ASSUME NEW r, Straight(r), NEW o \in Offsets, NEW p \in Pixels, PixelOffset(r, p) = o
  PROVE  o * 2 ^ AddressShiftCount(r) <= p /\ p <= o * 2 ^ AddressShiftCount(r) + 8
  <1>1. p \in Nat /\ o \in Nat
    BY Numbers
  <1>2. 2 ^ 0 = 1 /\ 2 ^ 2 = 4 /\ 2 ^ 3 = 8
    OBVIOUS
  <1> DEFINE v == PixelsAtOnce(r)
             w == 2 ^ AddressShiftCount(r)
  <1>3. v \in {4, 8} /\ w \in {1, 4, 8} /\ (w = v \/ w = 1)
    BY <1>2 DEF Straight
  <1>4. (p - (p % v)) \div w = o
    BY DEF PixelOffset
  <1> HIDE DEF v, w
  <1>5. o * w <= p /\ p <= o * w + 8
    BY <1>1, <1>3, <1>4, Aligned
  <1> QED
    BY <1>5 DEF w

-----------------------------------------------------------------------------
(* The renderer.                                                           *)

LEMMA RendererShape ==
  ASSUME NEW k \in {"text", "graphics"}, NEW lo \in Pixels \cup {Null, Whole},
         NEW hi \in Pixels \cup {Null, Whole}, NEW c, NEW im \in [Pixels -> SUBSET Bits],
         (lo \in {Null, Whole}) <=> (hi \in {Null, Whole})
  PROVE  Renderer([kind |-> k, low |-> lo, high |-> hi, canvas |-> c, image |-> im])
  BY DEF Renderer

LEMMA Matched ==
  ASSUME NEW d, Renderer(d), NEW r
  PROVE  LET m == MatchPixBufRenderer(d, r) IN
         /\ Renderer(m) /\ m.kind = (IF TextMode(r) THEN "text" ELSE "graphics")
         /\ m.low = d.low /\ m.high = d.high /\ m.image = d.image /\ m.canvas = d.canvas
  <1> DEFINE k == IF TextMode(r) THEN "text" ELSE "graphics"
             m == MatchPixBufRenderer(d, r)
  <1>1. m = [kind |-> k, low |-> d.low, high |-> d.high, canvas |-> d.canvas, image |-> d.image]
    BY DEF MatchPixBufRenderer, Renderer
  <1>2. k \in {"text", "graphics"}
    OBVIOUS
  <1> HIDE DEF k
  <1>3. Renderer(m)
    BY <1>1, <1>2, RendererShape DEF Renderer
  <1> QED
    BY <1>1, <1>3 DEF k

LEMMA Marked ==
  ASSUME NEW d, Renderer(d), NEW w, Region(d.low, d.high, w),
         NEW a \in Pixels, NEW b \in Pixels, a < b
  PROVE  LET m == MarkRegionAsDirty(d, a, b) IN
         /\ Renderer(m) /\ m.kind = d.kind /\ m.image = d.image /\ m.canvas = d.canvas
         /\ m.low \in Pixels /\ m.high \in Pixels /\ m.low <= a /\ b <= m.high
         /\ d.low # Null => m.low <= d.low /\ d.high <= m.high
  <1> DEFINE m == MarkRegionAsDirty(d, a, b)
             lo == IF d.low = Null THEN a ELSE Min({a, d.low})
             hi == IF d.high = Null THEN b ELSE Max({b, d.high})
  <1>1. m = [kind |-> d.kind, low |-> lo, high |-> hi, canvas |-> d.canvas, image |-> d.image]
    <2>1. m = [d EXCEPT !.low = lo, !.high = hi]
      BY DEF MarkRegionAsDirty
    <2> HIDE DEF m, lo, hi
    <2> QED
      BY <2>1 DEF Renderer
  <1>2. a \in Int /\ b \in Int /\ Pixels \subseteq Nat
    BY Numbers
  <1>3. d.low = Null \/ d.low \in Pixels
    BY DEF Renderer, Region
  <1>4. d.high = Null \/ d.high \in Pixels
    BY DEF Renderer, Region
  <1>5. lo \in Pixels /\ lo <= a /\ (d.low # Null => lo <= d.low)
    <2>1. CASE d.low = Null
      BY <1>2, <2>1
    <2>2. CASE d.low # Null
      <3>1. d.low \in Pixels /\ d.low \in Int
        <4>1. d.low \in Pixels
          BY <1>3, <2>2
        <4>2. \A e \in Pixels : e \in Int
          BY Numbers
        <4> QED
          BY <4>1, <4>2
      <3>2. lo = IF a <= d.low THEN a ELSE d.low
        <4> DEFINE e == d.low
        <4> HIDE DEF e
        <4>1. e \in Int
          BY <3>1 DEF e
        <4>2. lo = Min({a, e})
          BY <2>2 DEF e
        <4>3. Min({a, e}) = IF a <= e THEN a ELSE e
          BY <1>2, <4>1, Extremes
        <4> QED
          BY <4>2, <4>3 DEF e
      <3> QED
        BY <1>2, <3>1, <3>2
    <2> QED
      BY <2>1, <2>2
  <1>6. hi \in Pixels /\ b <= hi /\ (d.high # Null => d.high <= hi)
    <2>1. CASE d.high = Null
      BY <1>2, <2>1
    <2>2. CASE d.high # Null
      <3>1. d.high \in Pixels /\ d.high \in Int
        <4>1. d.high \in Pixels
          BY <1>4, <2>2
        <4>2. \A e \in Pixels : e \in Int
          BY Numbers
        <4> QED
          BY <4>1, <4>2
      <3>2. hi = IF b <= d.high THEN d.high ELSE b
        <4> DEFINE e == d.high
        <4> HIDE DEF e
        <4>1. e \in Int
          BY <3>1 DEF e
        <4>2. hi = Max({b, e})
          BY <2>2 DEF e
        <4>3. Max({b, e}) = IF b <= e THEN e ELSE b
          BY <1>2, <4>1, Extremes
        <4> QED
          BY <4>2, <4>3 DEF e
      <3> QED
        BY <1>2, <3>1, <3>2
    <2> QED
      BY <2>1, <2>2
  <1>7. lo \notin {Null, Whole} /\ hi \notin {Null, Whole}
    BY <1>2, <1>5, <1>6 DEF Null, Whole
  <1> HIDE DEF lo, hi
  <1>8. d.kind \in {"text", "graphics"} /\ d.image \in [Pixels -> SUBSET Bits]
    BY DEF Renderer
  <1>9. Renderer(m)
    BY <1>1, <1>5, <1>6, <1>7, <1>8, RendererShape
  <1>10. d.low # Null => d.high # Null
    BY DEF Region
  <1> QED
    BY <1>1, <1>5, <1>6, <1>9, <1>10

(* The image that a frame draws on, and what it draws.                     *)
Kept(d) == IF screen.canvas = d.canvas THEN d.image ELSE Blank

Drawing(d) == [p \in Pixels |-> IF d.low <= p /\ p <= d.high THEN Pixel(regs, planes, p) ELSE Kept(d)[p]]

LEMMA Redrawn ==
  ASSUME NEW d, Renderer(d), d.kind = "graphics"
  PROVE  LET m == Redraw(d) dirty == d.low = Whole \/ d.low # d.high IN
         m = [kind   |-> d.kind,
              low    |-> IF dirty THEN Null ELSE d.low,
              high   |-> IF dirty THEN Null ELSE d.high,
              canvas |-> screen.canvas,
              image  |-> IF dirty THEN Drawing(d) ELSE Kept(d)]
  <1> DEFINE u == UpdateCanvasSize(d)
             dirty == d.low = Whole \/ d.low # d.high
  <1>1. u = [kind |-> d.kind, low |-> d.low, high |-> d.high, canvas |-> screen.canvas, image |-> Kept(d)]
    <2>1. CASE screen.canvas = d.canvas
      BY <2>1 DEF UpdateCanvasSize, Kept, Renderer
    <2>2. CASE screen.canvas # d.canvas
      <3>1. u = [d EXCEPT !.canvas = screen.canvas, !.image = Blank]
        BY <2>2 DEF UpdateCanvasSize
      <3>2. Kept(d) = Blank
        BY <2>2 DEF Kept
      <3> HIDE DEF u
      <3> QED
        BY <3>1, <3>2 DEF Renderer
    <2> QED
      BY <2>1, <2>2
  <1>2. Redraw(d) = IF IsDirtyBuffer(u)
                    THEN ResetDirtyFlags([u EXCEPT !.image =
                           [p \in Pixels |-> IF u.low <= p /\ p <= u.high
                                             THEN Pixel(regs, planes, p) ELSE @[p]]])
                    ELSE u
    BY DEF Redraw, DrawToImageData
  <1> HIDE DEF u
  <1>3. IsDirtyBuffer(u) <=> dirty
    BY <1>1 DEF IsDirtyBuffer
  <1>4. CASE ~dirty
    BY <1>1, <1>2, <1>3, <1>4
  <1>5. CASE dirty
    <2> DEFINE v == [u EXCEPT !.image =
                       [p \in Pixels |-> IF u.low <= p /\ p <= u.high
                                         THEN Pixel(regs, planes, p) ELSE @[p]]]
    <2>1. u.low = d.low /\ u.high = d.high /\ u.image = Kept(d)
      BY <1>1
    <2>2. v = [u EXCEPT !.image = Drawing(d)]
      BY <2>1 DEF Drawing
    <2> HIDE DEF v
    <2>3. v = [kind |-> d.kind, low |-> d.low, high |-> d.high, canvas |-> screen.canvas, image |-> Drawing(d)]
      BY <1>1, <2>2
    <2>4. Redraw(d) = [v EXCEPT !.low = Null, !.high = Null]
      BY <1>2, <1>3, <1>5 DEF v, ResetDirtyFlags
    <2> QED
      BY <1>5, <2>3, <2>4
  <1> QED
    BY <1>4, <1>5

LEMMA KeptType ==
  ASSUME NEW d, Renderer(d)
  PROVE  Kept(d) \in [Pixels -> SUBSET Bits] /\ Drawing(d) \in [Pixels -> SUBSET Bits]
  <1>1. Blank \in [Pixels -> SUBSET Bits]
    BY DEF Blank
  <1>2. Kept(d) \in [Pixels -> SUBSET Bits]
    BY <1>1 DEF Kept, Renderer
  <1> QED
    BY <1>2, PixelType DEF Drawing

LEMMA RedrawnType ==
  ASSUME NEW d, Renderer(d)
  PROVE  Renderer(Redraw(d)) /\ Redraw(d).kind = d.kind
  <1>1. CASE d.kind = "graphics"
    <2> DEFINE dirty == d.low = Whole \/ d.low # d.high
               lo == IF dirty THEN Null ELSE d.low
               hi == IF dirty THEN Null ELSE d.high
               im == IF dirty THEN Drawing(d) ELSE Kept(d)
    <2>1. Redraw(d) = [kind |-> d.kind, low |-> lo, high |-> hi, canvas |-> screen.canvas, image |-> im]
      BY <1>1, Redrawn
    <2>2. im \in [Pixels -> SUBSET Bits]
      BY KeptType
    <2>3. lo \in Pixels \cup {Null, Whole} /\ hi \in Pixels \cup {Null, Whole}
      BY DEF Renderer
    <2>4. (lo \in {Null, Whole}) <=> (hi \in {Null, Whole})
      BY DEF Renderer
    <2> HIDE DEF lo, hi, im
    <2>5. Renderer(Redraw(d))
      BY <1>1, <2>1, <2>2, <2>3, <2>4, RendererShape
    <2> QED
      BY <2>1, <2>5
  <1>2. CASE d.kind # "graphics"
    BY <1>2 DEF Redraw
  <1> QED
    BY <1>1, <1>2

LEMMA WholeType ==
  ASSUME NEW d, Renderer(d)
  PROVE  Renderer(MarkWholeRegionAsDirty(d)) /\ MarkWholeRegionAsDirty(d).kind = d.kind
  <1> DEFINE m == MarkWholeRegionAsDirty(d)
  <1>1. m = [kind |-> d.kind, low |-> Whole, high |-> Whole, canvas |-> d.canvas, image |-> d.image]
    <2>1. m = [d EXCEPT !.low = Whole, !.high = Whole]
      BY DEF MarkWholeRegionAsDirty
    <2> HIDE DEF m
    <2> QED
      BY <2>1 DEF Renderer
  <1> HIDE DEF m
  <1>2. d.kind \in {"text", "graphics"} /\ d.image \in [Pixels -> SUBSET Bits]
    BY DEF Renderer
  <1>3. Renderer(m)
    BY <1>1, <1>2, RendererShape
  <1> QED
    BY <1>1, <1>3 DEF m

(* A frame loses nothing, and empties the region that was not empty.       *)
LEMMA RedrawnShows ==
  ASSUME NEW d, Renderer(d), NEW w, Region(d.low, d.high, w), d.kind = "graphics"
  PROVE  /\ Region(Redraw(d).low, Redraw(d).high, w)
         /\ Shows(d, regs, planes, screen.canvas, w)
              => Shows(Redraw(d), regs, planes, screen.canvas, w)
  <1> DEFINE dirty == d.low = Whole \/ d.low # d.high
             lo == IF dirty THEN Null ELSE d.low
             hi == IF dirty THEN Null ELSE d.high
             im == IF dirty THEN Drawing(d) ELSE Kept(d)
             m == Redraw(d)
  <1>1. m = [kind |-> d.kind, low |-> lo, high |-> hi, canvas |-> screen.canvas, image |-> im]
    BY Redrawn
  <1>2. dirty <=> d.low # d.high
    BY DEF Region
  <1> HIDE DEF m
  <1>3. m.kind = d.kind /\ m.low = lo /\ m.high = hi /\ m.canvas = screen.canvas /\ m.image = im
    BY <1>1
  <1>4. Region(lo, hi, w)
    BY <1>2 DEF Region, Null, Whole
  <1>5. ASSUME Shows(d, regs, planes, screen.canvas, w) PROVE Shows(m, regs, planes, screen.canvas, w)
    <2> SUFFICES ASSUME NEW p \in Pixels, PixelOffset(regs, p) \in w
                 PROVE  (lo <= p /\ p <= hi) \/ Pixel(regs, planes, p) = im[p]
      BY <1>3 DEF Shows
    <2>1. \/ d.low <= p /\ p <= d.high
          \/ Pixel(regs, planes, p) = d.image[p] /\ screen.canvas = d.canvas
      BY <1>5 DEF Shows
    <2>2. CASE dirty
      <3>1. im[p] = IF d.low <= p /\ p <= d.high THEN Pixel(regs, planes, p) ELSE Kept(d)[p]
        BY <2>2 DEF Drawing
      <3> QED
        BY <2>1, <3>1 DEF Kept
    <2>3. CASE ~dirty
      <3>1. d.low = Null /\ d.high = Null
        <4>1. d.low = Null \/ d.low < d.high
          BY DEF Region
        <4>2. d.low = Null \/ d.low \in Int
          BY Numbers DEF Renderer, Region
        <4>3. ~(d.low \in Int /\ d.low < d.low)
          OBVIOUS
        <4> QED
          BY <2>3, <4>1, <4>2, <4>3 DEF Region
      <3>2. ~(d.low <= p /\ p <= d.high)
        BY <3>1, Numbers DEF Null
      <3> QED
        BY <2>1, <2>3, <3>2 DEF Kept
    <2> QED
      BY <2>2, <2>3
  <1> QED
    BY <1>3, <1>4, <1>5 DEF m

-----------------------------------------------------------------------------
(* The invariant.                                                          *)

LEMMA DefaultsType == ASSUME NEW r, NEW size PROVE Defaults(r, size) \in Memories
  <1>1. ASSUME NEW p \in Planes, NEW o \in Offsets PROVE Defaults(r, size)[p][o] \in SUBSET Bits
    <2> DEFINE first == TextMode(r) /\ p = 1 /\ o < size.size[1] * size.size[2]
               font == TextMode(r) /\ p = 2
    <2>1. Defaults(r, size)[p][o] =
            CASE first -> {0, 1, 2}
              [] font -> IF size.charSize[2] = 16 THEN {0, 7} ELSE {7}
              [] OTHER -> {}
      BY DEF Defaults
    <2> HIDE DEF first, font
    <2>2. {0, 1, 2} \in SUBSET Bits /\ {0, 7} \in SUBSET Bits /\ {7} \in SUBSET Bits
      BY DEF Bits
    <2>3. ~(first /\ font)
      BY 1 # 2 DEF first, font
    <2>4. CASE first
      BY <2>1, <2>2, <2>3, <2>4
    <2>5. CASE font
      BY <2>1, <2>2, <2>3, <2>5
    <2>6. CASE ~first /\ ~font
      BY <2>1, <2>6
    <2> QED
      BY <2>4, <2>5, <2>6
  <1>2. Defaults(r, size) = [p \in Planes |-> [o \in Offsets |-> Defaults(r, size)[p][o]]]
    BY DEF Defaults
  <1> QED
    BY <1>1, <1>2 DEF Memories

LEMMA FirstRenderer ==
  ASSUME NEW r
  PROVE  LET m == MatchPixBufRenderer(NewRenderer, r) IN
         /\ Renderer(m) /\ m.kind = (IF TextMode(r) THEN "text" ELSE "graphics")
         /\ m.low = 0 /\ m.high = 0
  <1> DEFINE k == IF TextMode(r) THEN "text" ELSE "graphics"
             m == MatchPixBufRenderer(NewRenderer, r)
  <1>1. m = [kind |-> k, low |-> 0, high |-> 0, canvas |-> <<300, 150>>, image |-> Blank]
    BY DEF MatchPixBufRenderer, NewRenderer
  <1>2. k \in {"text", "graphics"}
    OBVIOUS
  <1>3. 0 \in Pixels
    BY OffsetsAreAnInterval
  <1>4. Blank \in [Pixels -> SUBSET Bits]
    BY DEF Blank
  <1>5. 0 \notin {Null, Whole}
    BY DEF Null, Whole
  <1> HIDE DEF k, m
  <1>6. Renderer(m)
    BY <1>1, <1>2, <1>3, <1>4, <1>5, RendererShape
  <1> QED
    BY <1>1, <1>6 DEF k, m

LEMMA Initially == Init => IInv
  <1> SUFFICES ASSUME Init PROVE IInv
    OBVIOUS
  <1>1. PICK preset \in Presets :
          /\ regs = Preset(preset) /\ screen = Measured(regs) /\ planes = Defaults(regs, screen)
          /\ renderer = MatchPixBufRenderer(NewRenderer, regs)
    BY DEF Init
  <1>2. latch = Zero /\ halted = FALSE /\ written = {} /\ plain = TRUE /\ epoch = 0 /\ last = << >> /\ steps = 0
    BY DEF Init
  <1>3. regs \in Registers /\ RamEnable(regs) /\ (TextMode(regs) \/ Straight(regs))
    BY <1>1, PresetFacts
  <1>4. planes \in Memories /\ latch \in Latches
    BY <1>1, <1>2, DefaultsType DEF Zero, Latches
  <1>5. /\ Renderer(renderer) /\ renderer.kind = (IF TextMode(regs) THEN "text" ELSE "graphics")
        /\ renderer.low = 0 /\ renderer.high = 0
    BY <1>1, FirstRenderer, Matched
  <1>6. Set
    BY <1>1, <1>3, <1>5 DEF Set
  <1>7. Region(renderer.low, renderer.high, written)
    BY <1>2, <1>5 DEF Region, Null, Whole
  <1>8. Shown
    BY <1>2 DEF Shown, Shows
  <1>9. steps \in 0..MaxSteps /\ epoch \in 0..steps
    BY <1>2, StepsAssumption
  <1> QED
    BY <1>2, <1>3, <1>4, <1>5, <1>6, <1>7, <1>8, <1>9 DEF IInv

LEMMA Counted == ASSUME IInv, Running, steps' = steps + 1
                 PROVE  steps' \in 0..MaxSteps /\ epoch \in 0..steps' /\ epoch + 1 \in 0..steps'
  <1>1. steps \in 0..MaxSteps /\ epoch \in 0..steps /\ steps < MaxSteps
    BY DEF IInv, Running
  <1> QED
    BY <1>1, StepsAssumption

LEMMA KeptByMode ==
  ASSUME IInv, NEW preset \in Presets, LoadModePreset(preset) PROVE IInv'
  <1>1. /\ regs' = Preset(preset) /\ screen' = Measured(regs') /\ planes' = Defaults(regs', screen')
        /\ renderer' = MatchPixBufRenderer(renderer, regs') /\ written' = {} /\ plain' = TRUE
        /\ epoch' = epoch + 1 /\ steps' = steps + 1 /\ latch' = latch /\ halted' = halted /\ last' = last
        /\ Running
    BY DEF LoadModePreset
  <1>2. regs' \in Registers /\ RamEnable(regs') /\ (TextMode(regs') \/ Straight(regs'))
    BY <1>1, PresetFacts
  <1>3. planes' \in Memories
    BY <1>1, DefaultsType
  <1>4. /\ Renderer(renderer') /\ renderer'.kind = (IF TextMode(regs') THEN "text" ELSE "graphics")
        /\ renderer'.low = renderer.low /\ renderer'.high = renderer.high
    BY <1>1, Matched DEF IInv
  <1>5. Set'
    BY <1>1, <1>2, <1>4 DEF Set
  <1>6. Region(renderer'.low, renderer'.high, written')
    BY <1>1, <1>4 DEF IInv, Region, Running
  <1>7. Shown'
    BY <1>1 DEF Shown, Shows
  <1>8. steps' \in 0..MaxSteps /\ epoch' \in 0..steps'
    BY <1>1, Counted
  <1>9. /\ latch' \in Latches /\ halted' \in BOOLEAN /\ plain' \in BOOLEAN /\ written' \subseteq Offsets
        /\ last' \in {<< >>} \cup (Addresses \X Values)
    BY <1>1 DEF IInv
  <1> QED
    BY <1>2, <1>3, <1>4, <1>5, <1>6, <1>7, <1>8, <1>9 DEF IInv

LEMMA KeptBySetting ==
  ASSUME IInv, NEW s \in Settings, SetRegByIndex(s[1], s[2], s[3]) PROVE IInv'
  <1>1. /\ regs' = [regs EXCEPT ![s[1]][s[2]] = s[3]] /\ plain' = FALSE /\ steps' = steps + 1
        /\ planes' = planes /\ latch' = latch /\ screen' = screen /\ renderer' = renderer
        /\ halted' = halted /\ written' = written /\ epoch' = epoch /\ last' = last
        /\ Running
    BY DEF SetRegByIndex
  <1>2. s[1] \in {"seq", "crtc", "gc", "attr"} /\ s[3] \in Nat
    BY WritesAssumption
  <1>3. regs' \in Registers
    <2> DEFINE f == [regs[s[1]] EXCEPT ![s[2]] = s[3]]
    <2>1. regs' = [regs EXCEPT ![s[1]] = f]
      BY <1>1
    <2>2. ASSUME NEW D, regs[s[1]] \in [D -> Nat] PROVE f \in [D -> Nat]
      BY <1>2, <2>2
    <2> HIDE DEF f
    <2>3. regs \in Registers
      BY DEF IInv
    <2>4. CASE s[1] = "seq"
      <3>1. f \in [{1, 2, 4} -> Nat]
        BY <2>2, <2>3, <2>4 DEF Registers
      <3> QED
        BY <2>1, <2>3, <2>4, <3>1 DEF Registers
    <2>5. CASE s[1] = "crtc"
      <3>1. f \in [{1, 2, 7, 9} \cup 12..15 \cup 18..21 \cup {23} -> Nat]
        BY <2>2, <2>3, <2>5 DEF Registers
      <3> QED
        BY <2>1, <2>3, <2>5, <3>1 DEF Registers
    <2>6. CASE s[1] = "gc"
      <3>1. f \in [0..8 \ {2} -> Nat]
        BY <2>2, <2>3, <2>6 DEF Registers
      <3> QED
        BY <2>1, <2>3, <2>6, <3>1 DEF Registers
    <2>7. CASE s[1] = "attr"
      <3>1. f \in [{16, 18} -> Nat]
        BY <2>2, <2>3, <2>7 DEF Registers
      <3> QED
        BY <2>1, <2>3, <2>7, <3>1 DEF Registers
    <2> QED
      BY <1>2, <2>4, <2>5, <2>6, <2>7
  <1>4. steps' \in 0..MaxSteps /\ epoch' \in 0..steps'
    BY <1>1, Counted
  <1>5. Set' /\ Shown'
    BY <1>1 DEF Set, Shown
  <1>6. /\ planes' \in Memories /\ latch' \in Latches /\ Renderer(renderer') /\ halted' \in BOOLEAN
        /\ plain' \in BOOLEAN /\ written' \subseteq Offsets
        /\ last' \in {<< >>} \cup (Addresses \X Values)
        /\ ~halted' => Region(renderer'.low, renderer'.high, written')
    BY <1>1 DEF IInv
  <1> QED
    BY <1>3, <1>4, <1>5, <1>6 DEF IInv

LEMMA KeptByText ==
  ASSUME IInv, NEW address \in Addresses, NEW byte \in Values, WriteTextMode(address, byte) PROVE IInv'
  <1> DEFINE offset == OffsetOf(regs, address)
  <1>1. /\ planes' = [planes EXCEPT ![offset % 2][offset \div 2] = byte] /\ last' = <<address, byte>>
        /\ steps' = steps + 1 /\ offset \in Offsets /\ TextMode(regs) /\ Running
        /\ regs' = regs /\ latch' = latch /\ screen' = screen /\ renderer' = renderer
        /\ halted' = halted /\ written' = written /\ plain' = plain /\ epoch' = epoch
    BY DEF WriteTextMode, Writable, InWindow
  <1> HIDE DEF offset
  <1>2. byte \in SUBSET Bits
    BY WritesAssumption
  <1>3. planes' \in Memories
    BY <1>1, <1>2 DEF IInv, Memories
  <1>4. steps' \in 0..MaxSteps /\ epoch' \in 0..steps'
    BY <1>1, Counted
  <1>5. Set' /\ Shown'
    BY <1>1 DEF IInv, Set, Shown, Shows
  <1>6. /\ regs' \in Registers /\ latch' \in Latches /\ Renderer(renderer') /\ halted' \in BOOLEAN
        /\ plain' \in BOOLEAN /\ written' \subseteq Offsets
        /\ ~halted' => Region(renderer'.low, renderer'.high, written')
    BY <1>1 DEF IInv
  <1>7. last' \in {<< >>} \cup (Addresses \X Values)
    BY <1>1
  <1> QED
    BY <1>3, <1>4, <1>5, <1>6, <1>7 DEF IInv

LEMMA KeptByLatch ==
  ASSUME IInv, NEW address \in Addresses, LoadLatch(address) PROVE IInv'
  <1>1. /\ latch' = LatchAt(planes, OffsetOf(regs, address)) /\ OffsetOf(regs, address) \in Offsets
        /\ steps' = steps + 1 /\ Running /\ regs' = regs /\ planes' = planes /\ screen' = screen
        /\ renderer' = renderer /\ halted' = halted /\ written' = written /\ plain' = plain
        /\ epoch' = epoch /\ last' = last
    BY DEF LoadLatch, InWindow
  <1>2. latch' \in Latches
    BY <1>1 DEF IInv, Memories, Latches, LatchAt
  <1>3. steps' \in 0..MaxSteps /\ epoch' \in 0..steps'
    BY <1>1, Counted
  <1>4. Set' /\ (~halted' => Shown')
    BY <1>1 DEF IInv, Set, Shown
  <1>5. /\ regs' \in Registers /\ planes' \in Memories /\ Renderer(renderer') /\ halted' \in BOOLEAN
        /\ plain' \in BOOLEAN /\ written' \subseteq Offsets
        /\ last' \in {<< >>} \cup (Addresses \X Values)
        /\ ~halted' => Region(renderer'.low, renderer'.high, written')
    BY <1>1 DEF IInv
  <1> QED
    BY <1>2, <1>3, <1>4, <1>5 DEF IInv

LEMMA KeptByWrite ==
  ASSUME IInv, NEW address \in Addresses, NEW byte \in Values, WriteGraphicsMode(address, byte) PROVE IInv'
  <1> DEFINE offset == OffsetOf(regs, address)
             at     == PlaneOffset(regs, offset)
             shift  == 2 ^ AddressShiftCount(regs)
             pixel  == at * shift
             output == OutputDword(regs, latch, byte)
  <1>1. /\ planes' = [p \in Planes |-> IF p \in PlaneSelect(regs, offset)
                                        THEN [planes[p] EXCEPT ![at] = output[p]] ELSE planes[p]]
        /\ renderer' = MarkRegionAsDirty(renderer, pixel, pixel + 8) /\ written' = written \cup {at}
        /\ last' = <<address, byte>> /\ steps' = steps + 1 /\ offset \in Offsets /\ ~TextMode(regs)
        /\ Running /\ regs' = regs /\ latch' = latch /\ screen' = screen /\ halted' = halted
        /\ plain' = plain /\ epoch' = epoch
    BY DEF WriteGraphicsMode, Writable, InWindow
  <1>2. byte \in SUBSET Bits /\ at \in Offsets /\ shift \in {1, 2, 4, 8}
    BY <1>1, WritesAssumption, PlaneOffsetType, ShiftType DEF IInv
  <1>3. \A p \in Planes : output[p] \in SUBSET Bits
    BY <1>2, StoredBits DEF IInv
  <1> HIDE DEF output, offset
  <1>4. planes' \in Memories
    BY <1>1, <1>2, <1>3 DEF IInv, Memories
  <1>5. pixel \in Pixels /\ pixel + 8 \in Pixels /\ pixel < pixel + 8
    <2>1. at \in Nat /\ 8 * at + 8 \in Pixels
      BY <1>2, Numbers
    <2> HIDE DEF at, shift
    <2>2. pixel \in Nat /\ pixel + 8 <= 8 * at + 8
      BY <1>2, <2>1
    <2> HIDE DEF pixel
    <2>3. pixel + 8 \in Nat /\ pixel <= pixel + 8 /\ pixel < pixel + 8 /\ pixel <= 8 * at + 8
      BY <2>1, <2>2
    <2> QED
      BY <2>1, <2>2, <2>3, Numbers
  <1>6. /\ Renderer(renderer) /\ Region(renderer.low, renderer.high, written) /\ Shown
    BY <1>1 DEF IInv, Running
  <1> DEFINE beyond == pixel + 8
  <1> HIDE DEF pixel, beyond
  <1>7. /\ Renderer(renderer') /\ renderer'.kind = renderer.kind
        /\ renderer'.image = renderer.image /\ renderer'.canvas = renderer.canvas
        /\ renderer'.low \in Pixels /\ renderer'.high \in Pixels
        /\ renderer'.low <= pixel /\ beyond <= renderer'.high
        /\ renderer.low # Null => renderer'.low <= renderer.low /\ renderer.high <= renderer'.high
    BY <1>1, <1>5, <1>6, Marked DEF beyond
  <1>8. Region(renderer'.low, renderer'.high, written')
    <2> DEFINE lo == renderer'.low
               hi == renderer'.high
    <2>1. lo \in Nat /\ hi \in Nat /\ lo <= pixel /\ beyond <= hi /\ pixel \in Nat /\ beyond \in Nat
      BY <1>5, <1>7, Numbers DEF beyond
    <2>2. pixel < beyond
      BY <1>5 DEF beyond
    <2> HIDE DEF lo, hi
    <2>3. lo < hi
      BY <2>1, <2>2
    <2>4. Region(lo, hi, written')
      BY <2>1, <2>3 DEF Region, Null, Whole
    <2> QED
      BY <2>4 DEF lo, hi
  <1>9. Set'
    BY <1>1, <1>7 DEF IInv, Set
  <1>10. Shown'
    <2> SUFFICES ASSUME plain, renderer.kind = "graphics",
                        NEW p \in Pixels, PixelOffset(regs, p) \in written \cup {at}
                 PROVE  \/ renderer'.low <= p /\ p <= renderer'.high
                        \/ Pixel(regs, planes', p) = renderer.image[p] /\ screen.canvas = renderer.canvas
      BY <1>1, <1>7 DEF Shown, Shows
    <2>1. p \in Nat /\ \A q \in Pixels : q \in Int
      BY Numbers
    <2>2. CASE PixelOffset(regs, p) = at
      <3>1. Straight(regs)
        BY <1>1 DEF IInv, Set
      <3>2. pixel <= p /\ p <= beyond
        BY <1>2, <2>2, <3>1, MarkedPixels DEF pixel, beyond
      <3> DEFINE lo == renderer'.low
                 hi == renderer'.high
      <3>3. lo \in Int /\ hi \in Int /\ pixel \in Int /\ beyond \in Int
        <4>1. lo \in Pixels /\ hi \in Pixels /\ pixel \in Pixels /\ beyond \in Pixels
          BY <1>5, <1>7 DEF beyond
        <4> HIDE DEF lo, hi
        <4> QED
          BY <2>1, <4>1
      <3>4. lo <= pixel /\ beyond <= hi
        BY <1>7
      <3> HIDE DEF lo, hi
      <3>5. lo <= p /\ p <= hi
        BY <2>1, <3>2, <3>3, <3>4
      <3> QED
        BY <3>5 DEF lo, hi
    <2>3. CASE PixelOffset(regs, p) # at
      <3>1. \/ renderer.low <= p /\ p <= renderer.high
            \/ Pixel(regs, planes, p) = renderer.image[p] /\ screen.canvas = renderer.canvas
        BY <1>6, <2>3 DEF Shown, Shows
      <3>2. \A q \in Planes : PlaneByte(planes', q, PixelOffset(regs, p)) = PlaneByte(planes, q, PixelOffset(regs, p))
        BY <1>1, <2>3 DEF PlaneByte, IInv, Memories
      <3>3. Pixel(regs, planes', p) = Pixel(regs, planes, p)
        BY <3>2, PixelLocal
      <3>4. ASSUME renderer.low <= p, p <= renderer.high
            PROVE  renderer'.low <= p /\ p <= renderer'.high
        <4>1. renderer.low # Null
          BY <1>6, <2>1, <3>4 DEF Region, Null
        <4>2. renderer.low \in Int /\ renderer.high \in Int
          BY <1>6, <2>1 DEF Renderer, Null, Whole
        <4> DEFINE lo == renderer'.low
                   hi == renderer'.high
                   low == renderer.low
                   high == renderer.high
        <4>3. lo \in Int /\ hi \in Int
          <5>1. lo \in Pixels /\ hi \in Pixels
            BY <1>7
          <5> HIDE DEF lo, hi
          <5> QED
            BY <2>1, <5>1
        <4>4. lo <= low /\ high <= hi
          BY <1>7, <4>1
        <4>5. low <= p /\ p <= high /\ low \in Int /\ high \in Int
          BY <3>4, <4>2
        <4> HIDE DEF lo, hi, low, high
        <4>6. lo <= p /\ p <= hi
          BY <2>1, <4>3, <4>4, <4>5
        <4> QED
          BY <4>6 DEF lo, hi
      <3> QED
        BY <3>1, <3>3, <3>4
    <2> QED
      BY <2>2, <2>3
  <1>11. steps' \in 0..MaxSteps /\ epoch' \in 0..steps'
    BY <1>1, Counted
  <1>12. /\ regs' \in Registers /\ latch' \in Latches /\ halted' \in BOOLEAN /\ plain' \in BOOLEAN
         /\ written' \subseteq Offsets /\ last' \in {<< >>} \cup (Addresses \X Values)
    BY <1>1, <1>2 DEF IInv
  <1> QED
    BY <1>4, <1>7, <1>8, <1>9, <1>10, <1>11, <1>12 DEF IInv

LEMMA KeptByFrame == ASSUME IInv, Frame PROVE IInv'
  <1>1. /\ renderer' = Redraw(renderer) /\ ~halted /\ regs' = regs /\ planes' = planes /\ latch' = latch
        /\ screen' = screen /\ halted' = halted /\ written' = written /\ plain' = plain
        /\ epoch' = epoch /\ last' = last /\ steps' = steps
    BY DEF Frame
  <1>2. Renderer(renderer) /\ Region(renderer.low, renderer.high, written) /\ Shown
    BY <1>1 DEF IInv
  <1>3. Renderer(renderer') /\ renderer'.kind = renderer.kind
    BY <1>1, <1>2, RedrawnType
  <1>4. Region(renderer'.low, renderer'.high, written') /\ Shown'
    <2>1. CASE renderer.kind = "graphics"
      <3>1. /\ Region(renderer'.low, renderer'.high, written)
            /\ Shows(renderer, regs, planes, screen.canvas, written)
                 => Shows(renderer', regs, planes, screen.canvas, written)
        BY <1>1, <1>2, <2>1, RedrawnShows
      <3> QED
        BY <1>1, <1>2, <3>1 DEF Shown
    <2>2. CASE renderer.kind # "graphics"
      <3>1. renderer' = renderer
        BY <1>1, <2>2 DEF Redraw
      <3> QED
        BY <1>1, <1>2, <3>1 DEF Shown
    <2> QED
      BY <2>1, <2>2
  <1>5. Set'
    BY <1>1, <1>3 DEF IInv, Set
  <1>6. /\ regs' \in Registers /\ planes' \in Memories /\ latch' \in Latches /\ halted' \in BOOLEAN
        /\ plain' \in BOOLEAN /\ written' \subseteq Offsets /\ steps' \in 0..MaxSteps /\ epoch' \in 0..steps'
        /\ last' \in {<< >>} \cup (Addresses \X Values)
    BY <1>1 DEF IInv
  <1> QED
    BY <1>3, <1>4, <1>5, <1>6 DEF IInv

LEMMA KeptByLastFrame == ASSUME IInv, LastFrame PROVE IInv'
  <1> DEFINE marked == MarkWholeRegionAsDirty(renderer)
  <1>1. /\ renderer' = Redraw(marked) /\ regs' = regs /\ planes' = planes /\ latch' = latch
        /\ screen' = screen /\ halted' = TRUE /\ written' = written /\ plain' = plain
        /\ epoch' = epoch /\ last' = last /\ steps' = steps
    BY DEF LastFrame
  <1>2. Renderer(marked) /\ marked.kind = renderer.kind
    BY WholeType DEF IInv
  <1> HIDE DEF marked
  <1>3. Renderer(renderer') /\ renderer'.kind = renderer.kind
    BY <1>1, <1>2, RedrawnType
  <1>4. Set'
    BY <1>1, <1>3 DEF IInv, Set
  <1>5. /\ regs' \in Registers /\ planes' \in Memories /\ latch' \in Latches /\ halted' \in BOOLEAN
        /\ plain' \in BOOLEAN /\ written' \subseteq Offsets /\ steps' \in 0..MaxSteps /\ epoch' \in 0..steps'
        /\ last' \in {<< >>} \cup (Addresses \X Values)
    BY <1>1 DEF IInv
  <1> QED
    BY <1>1, <1>3, <1>4, <1>5 DEF IInv

LEMMA Inductive == Spec => []IInv
  <1>1. IInv /\ [Next]_vars => IInv'
    <2> SUFFICES ASSUME IInv, [Next]_vars PROVE IInv'
      OBVIOUS
    <2>1. ASSUME NEW preset \in Presets, LoadModePreset(preset) PROVE IInv'
      BY <2>1, KeptByMode
    <2>2. ASSUME NEW s \in Settings, SetRegByIndex(s[1], s[2], s[3]) PROVE IInv'
      BY <2>2, KeptBySetting
    <2>3. ASSUME NEW address \in Addresses, NEW byte \in Values,
                 WriteTextMode(address, byte) \/ WriteGraphicsMode(address, byte)
          PROVE  IInv'
      BY <2>3, KeptByText, KeptByWrite
    <2>4. ASSUME NEW address \in Addresses, LoadLatch(address) PROVE IInv'
      BY <2>4, KeptByLatch
    <2>5. CASE Frame
      BY <2>5, KeptByFrame
    <2>6. CASE LastFrame
      BY <2>6, KeptByLastFrame
    <2>7. CASE UNCHANGED vars
      BY <2>7 DEF vars, IInv, Set, Shown
    <2> QED
      BY <2>1, <2>2, <2>3, <2>4, <2>5, <2>6, <2>7 DEF Next
  <1> QED
    BY Initially, <1>1, PTL DEF Spec

-----------------------------------------------------------------------------
(* VGA.writeByte: for every value that the registers and the latch take,   *)
(* the rotation, set/reset, operation and masks that the code applies to   *)
(* double words store the bits that the hardware stores.                   *)
THEOREM BitsAlwaysStored == Spec => []BitsAreStored
  <1>1. IInv => BitsAreStored
    BY StoredBits, WritesAssumption DEF IInv, BitsAreStored
  <1> QED
    BY <1>1, Inductive, PTL

(* markRegionAsDirty, updateCanvasSize and redraw: whatever is written in  *)
(* whatever modes, with frames anywhere between, what the image of the     *)
(* graphics renderer lacks is in the region that its next frame draws.     *)
THEOREM CanvasAlwaysCatchesUp == Spec => []CanvasCatchesUp
  <1>1. IInv => CanvasCatchesUp
    <2> SUFFICES ASSUME IInv PROVE CanvasCatchesUp
      OBVIOUS
    <2>1. DOMAIN regs = {"misc", "seq", "crtc", "gc", "attr"}
      BY DEF IInv, Registers
    <2>2. TypeOK
      BY <2>1 DEF TypeOK, IInv, Renderer, Memories, Latches, Set
    <2>3. StaleIsDirty
      BY DEF StaleIsDirty, IInv, Shown, Shows
    <2> QED
      BY <2>2, <2>3 DEF CanvasCatchesUp
  <1> QED
    BY <1>1, Inductive, PTL

-----------------------------------------------------------------------------
(* The sizes of the modes of the BIOS.                                     *)

LEMMA CrtcFields ==
  ASSUME NEW hde, NEW shb, NEW overflow, NEW maxScan, NEW cursor, NEW vde, NEW offset,
         NEW underline, NEW svb, NEW control
  PROVE  LET c == Crtc(hde, shb, overflow, maxScan, cursor, vde, offset, underline, svb, control) IN
         /\ c[1] = hde /\ c[2] = shb /\ c[7] = overflow /\ c[9] = maxScan
         /\ c[18] = vde /\ c[21] = svb /\ c[23] = control
  BY DEF Crtc

LEMMA VerticalBits ==
  /\ Bit(31, 6) = 0 /\ Bit(31, 1) = 1 /\ Bit(31, 3) = 1
  /\ Bit(62, 6) = 0 /\ Bit(62, 1) = 1 /\ Bit(62, 3) = 1
  /\ Bit(79, 7) = 0 /\ Bit(64, 7) = 0 /\ Bit(65, 7) = 0
  /\ BitField(79, 0, 4) = 15 /\ BitField(64, 0, 4) = 0 /\ BitField(65, 0, 4) = 1
  /\ Bit(227, 0) = 1 /\ Bit(227, 1) = 1 /\ Bit(163, 0) = 1 /\ Bit(163, 1) = 1
  /\ Bit(65, 6) = 1 /\ Bit(1, 6) = 0
  <1>1. 2 ^ 5 = 32 /\ 2 ^ 7 = 128 /\ 2 ^ 6 = 64 /\ 2 ^ 3 = 8 /\ 2 ^ 1 = 2 /\ 2 ^ 0 = 1
    OBVIOUS
  <1>2. 4 - 0 + 1 = 5
    OBVIOUS
  <1>3. BitField(79, 0, 4) = 15 /\ BitField(64, 0, 4) = 0 /\ BitField(65, 0, 4) = 1
    BY <1>1, <1>2 DEF BitField
  <1> QED
    BY <1>1, <1>3 DEF Bit

LEMMA TextMeasure ==
  ASSUME NEW r, TextMode(r), NEW chars \in {40, 80}, r.crtc[1] = chars - 1, r.crtc[2] = chars,
         r.crtc[7] = 31, r.crtc[9] = 79, r.crtc[18] = 143, r.crtc[21] = 150
  PROVE  Measured(r).size = <<chars, 25>>
  <1>1. VerticalDisplayEnd(r) = 399 /\ VerticalBlankingStart(r) = 406
    BY VerticalBits DEF VerticalDisplayEnd, VerticalBlankingStart
  <1>2. Min({1 + r.crtc[1], r.crtc[2]}) = chars
    BY Extremes
  <1>3. Min({1 + VerticalDisplayEnd(r), VerticalBlankingStart(r)}) = 400
    BY <1>1, Extremes
  <1>4. Bit(r.crtc[9], 7) # 1 /\ BitField(r.crtc[9], 0, 4) + 1 = 16 /\ 400 \div 16 = 25
    BY VerticalBits
  <1> QED
    BY <1>2, <1>3, <1>4 DEF Measured

LEMMA GraphicsMeasure ==
  ASSUME NEW r, ~TextMode(r), r.crtc[1] = 79, r.crtc[2] = 80
  PROVE  /\ (/\ r.crtc[7] = 62 /\ r.crtc[9] = 64 /\ r.crtc[18] = 223 /\ r.crtc[21] = 231
             /\ r.crtc[23] = 227 /\ r.attr[16] = 1)
              => Measured(r).size = <<640, 480>>
         /\ (/\ r.crtc[7] = 31 /\ r.crtc[9] = 65 /\ r.crtc[18] = 143 /\ r.crtc[21] = 150
             /\ r.crtc[23] = 163 /\ r.attr[16] = 65)
              => Measured(r).size = <<320, 200>>
  <1>1. Min({1 + r.crtc[1], r.crtc[2]}) = 80
    BY Extremes
  <1>2. ASSUME r.crtc[7] = 62, r.crtc[9] = 64, r.crtc[18] = 223, r.crtc[21] = 231,
               r.crtc[23] = 227, r.attr[16] = 1
        PROVE  Measured(r).size = <<640, 480>>
    <2>1. VerticalDisplayEnd(r) = 479 /\ VerticalBlankingStart(r) = 487
      BY <1>2, VerticalBits DEF VerticalDisplayEnd, VerticalBlankingStart
    <2>2. Min({1 + VerticalDisplayEnd(r), VerticalBlankingStart(r)}) = 480
      BY <2>1, Extremes
    <2>3. ScanLineToRow(r, 480) = 480
      BY <1>2, VerticalBits DEF ScanLineToRow, Ceiling
    <2>4. ~Bit8(r)
      BY <1>2, VerticalBits DEF Bit8
    <2> QED
      BY <1>1, <2>2, <2>3, <2>4 DEF Measured
  <1>3. ASSUME r.crtc[7] = 31, r.crtc[9] = 65, r.crtc[18] = 143, r.crtc[21] = 150,
               r.crtc[23] = 163, r.attr[16] = 65
        PROVE  Measured(r).size = <<320, 200>>
    <2>1. VerticalDisplayEnd(r) = 399 /\ VerticalBlankingStart(r) = 406
      BY <1>3, VerticalBits DEF VerticalDisplayEnd, VerticalBlankingStart
    <2>2. Min({1 + VerticalDisplayEnd(r), VerticalBlankingStart(r)}) = 400
      BY <2>1, Extremes
    <2>3. ScanLineToRow(r, 400) = 200
      BY <1>3, VerticalBits DEF ScanLineToRow, Ceiling
    <2>4. Bit8(r)
      BY <1>3, VerticalBits DEF Bit8
    <2> QED
      BY <1>1, <2>2, <2>3, <2>4 DEF Measured
  <1> QED
    BY <1>2, <1>3

LEMMA TextSizes ==
  ASSUME NEW name \in {"m40x25", "m80x25"}
  PROVE  Measured(Preset(name)).size = IF name = "m40x25" THEN <<40, 25>> ELSE <<80, 25>>
  <1> DEFINE p == TextPresets[name]
             crtc == Crtc(p[2], p[3], p[4], p[5], p[6], p[7], p[8], p[9], p[10], 163)
             r == Preset(name)
             chars == IF name = "m40x25" THEN 40 ELSE 80
  <1>1. name \in TextNames
    BY DEF TextNames
  <1>2. r = [misc |-> 103, seq |-> Sequencer(p[1], 3, 2), crtc |-> crtc,
             gc |-> Graphics(0, 16, 14, 0), attr |-> Attr(12, 15)]
    BY <1>1, PresetNames DEF Preset
  <1>3. p[2] = chars - 1 /\ p[3] = chars /\ p[4] = 31 /\ p[5] = 79 /\ p[7] = 143 /\ p[10] = 150
    BY DEF TextPresets
  <1>4. TextMode(r)
    BY <1>1, TextPreset
  <1> HIDE DEF p, r
  <1>5. crtc[1] = p[2] /\ crtc[2] = p[3] /\ crtc[7] = p[4] /\ crtc[9] = p[5] /\ crtc[18] = p[7] /\ crtc[21] = p[10]
    BY CrtcFields
  <1> HIDE DEF crtc
  <1>6. r.crtc = crtc
    BY <1>2
  <1>7. chars \in {40, 80}
    OBVIOUS
  <1> HIDE DEF chars
  <1>8. Measured(r).size = <<chars, 25>>
    BY <1>3, <1>4, <1>5, <1>6, <1>7, TextMeasure
  <1> QED
    BY <1>8 DEF r, chars

LEMMA GraphicsSizes ==
  ASSUME NEW name \in {"m640x480x2", "m640x480x16", "m320x200x256"}
  PROVE  Measured(Preset(name)).size = IF name = "m320x200x256" THEN <<320, 200>> ELSE <<640, 480>>
  <1> DEFINE p == GraphicsPresets[name]
             crtc == Crtc(p[4], p[5], p[6], p[7], 0, p[8], p[9], p[10], p[11], p[12])
             r == Preset(name)
  <1>1. name \in GraphicsNames \ {"m320x200x4"} /\ name \notin DOMAIN TextPresets
    BY PresetNames DEF GraphicsNames, TextNames
  <1>2. ~TextMode(r) /\ r.attr[16] = p[17]
    BY <1>1, StraightModes, GraphicsPreset DEF Straight
  <1>3. r.crtc = crtc
    BY <1>1 DEF Preset
  <1>4. /\ p[4] = 79 /\ p[5] = 80
        /\ name = "m320x200x256" =>
             /\ p[6] = 31 /\ p[7] = 65 /\ p[8] = 143 /\ p[11] = 150 /\ p[12] = 163 /\ p[17] = 65
        /\ name # "m320x200x256" =>
             /\ p[6] = 62 /\ p[7] = 64 /\ p[8] = 223 /\ p[11] = 231 /\ p[12] = 227 /\ p[17] = 1
    <2>1. CASE name = "m640x480x2"
      BY <2>1 DEF GraphicsPresets
    <2>2. CASE name = "m640x480x16"
      BY <2>2 DEF GraphicsPresets
    <2>3. CASE name = "m320x200x256"
      BY <2>3 DEF GraphicsPresets
    <2> QED
      BY <2>1, <2>2, <2>3
  <1> HIDE DEF p, r
  <1>5. /\ crtc[1] = p[4] /\ crtc[2] = p[5] /\ crtc[7] = p[6] /\ crtc[9] = p[7]
        /\ crtc[18] = p[8] /\ crtc[21] = p[11] /\ crtc[23] = p[12]
    BY CrtcFields
  <1> HIDE DEF crtc
  <1>6. CASE name = "m320x200x256"
    <2>1. Measured(r).size = <<320, 200>>
      BY <1>2, <1>3, <1>4, <1>5, <1>6, GraphicsMeasure
    <2> QED
      BY <1>6, <2>1 DEF r
  <1>7. CASE name # "m320x200x256"
    <2>1. Measured(r).size = <<640, 480>>
      BY <1>2, <1>3, <1>4, <1>5, <1>7, GraphicsMeasure
    <2> QED
      BY <1>7, <2>1 DEF r
  <1> QED
    BY <1>6, <1>7

(* VGA.measureMode: in every mode that the BIOS offers, but mode 4, the    *)
(* registers of its preset measure to the size that the BIOS tells         *)
(* programs.                                                               *)
THEOREM ModesAlwaysMeasure == Spec => []ModesMeasure
  <1>1. IInv => ModesMeasure
    <2> SUFFICES ASSUME IInv, plain, NEW mode \in BiosModes, mode.code # 4, regs = Preset(mode.preset)
                 PROVE  screen.size = <<mode.w, mode.h>>
      BY DEF ModesMeasure
    <2>1. screen = Measured(Preset(mode.preset))
      BY DEF IInv, Set
    <2>2. \/ mode.preset = "m40x25" /\ mode.w = 40 /\ mode.h = 25
          \/ mode.preset = "m80x25" /\ mode.w = 80 /\ mode.h = 25
          \/ mode.preset \in {"m640x480x2", "m640x480x16"} /\ mode.w = 640 /\ mode.h = 480
          \/ mode.preset = "m320x200x256" /\ mode.w = 320 /\ mode.h = 200
      BY DEF BiosModes
    <2> QED
      BY <2>1, <2>2, TextSizes, GraphicsSizes
  <1> QED
    BY <1>1, Inductive, PTL

-----------------------------------------------------------------------------
(* Linear memory.                                                          *)

(* The plane and the offset in it that hold the byte at offset o of the    *)
(* window, of the registers of a preset.                                   *)
CellPlane(r, o) ==
  IF TextMode(r) THEN o % 2 ELSE IF Chain4(r) THEN o % 4 ELSE ReadMapSelect(r)

CellOffset(r, o) ==
  IF TextMode(r) THEN o \div 2 ELSE IF Chain4(r) THEN o - (o % 4) ELSE o

CellByte(r, pl, o) == pl[CellPlane(r, o)][CellOffset(r, o)]

LEMMA CellType ==
  ASSUME NEW r \in Registers, NEW o \in Offsets
  PROVE  CellPlane(r, o) \in Planes /\ CellOffset(r, o) \in Offsets
  <1>1. o \in Nat
    BY Numbers
  <1>2. /\ o % 2 \in Planes /\ o % 4 \in Planes /\ o \div 2 \in Nat /\ o \div 2 <= o
        /\ o - (o % 4) \in Nat /\ o - (o % 4) <= o
    BY <1>1, Divisions DEF Planes
  <1>3. o \div 2 \in Offsets /\ o - (o % 4) \in Offsets
    BY <1>2, OffsetsClosed
  <1>4. ReadMapSelect(r) \in Planes
    <2>1. r.gc[4] \in Nat
      BY DEF Registers
    <2> QED
      BY <2>1, FieldOfTwo, 0 + 1 = 1 DEF ReadMapSelect, Planes
  <1> QED
    BY <1>2, <1>3, <1>4 DEF CellPlane, CellOffset

(* No two offsets share a cell.                                            *)
LEMMA CellsDiffer ==
  ASSUME NEW r, NEW o \in Offsets, NEW q \in Offsets, CellPlane(r, o) = CellPlane(r, q),
         CellOffset(r, o) = CellOffset(r, q)
  PROVE  o = q
  <1>1. o \in Nat /\ q \in Nat
    BY Numbers
  <1>2. CASE TextMode(r)
    <2>1. o % 2 = q % 2 /\ o \div 2 = q \div 2
      BY <1>2 DEF CellPlane, CellOffset
    <2>2. o = (o \div 2) * 2 + (o % 2) /\ q = (q \div 2) * 2 + (q % 2)
      BY <1>1, Divisions
    <2> QED
      BY <2>1, <2>2
  <1>3. CASE ~TextMode(r) /\ Chain4(r)
    <2>1. o % 4 = q % 4 /\ o - (o % 4) = q - (q % 4)
      BY <1>3 DEF CellPlane, CellOffset
    <2>2. o % 4 \in 0..3 /\ q % 4 \in 0..3
      BY <1>1, Divisions
    <2> DEFINE a == o % 4
               b == q % 4
    <2> HIDE DEF a, b
    <2>3. a = b /\ o - a = q - b /\ a \in Int
      BY <2>1, <2>2 DEF a, b
    <2> QED
      BY <1>1, <2>3
  <1>4. CASE ~TextMode(r) /\ ~Chain4(r)
    BY <1>4 DEF CellOffset
  <1> QED
    BY <1>2, <1>3, <1>4

LEMMA ReadsCell ==
  ASSUME NEW r, TextMode(r) \/ Straight(r), NEW pl, NEW a
  PROVE  ReadByte(r, pl, a) = CellByte(r, pl, OffsetOf(r, a))
  <1>1. CASE TextMode(r)
    BY <1>1 DEF ReadByte, ReadTextMode, CellByte, CellPlane, CellOffset
  <1>2. CASE ~TextMode(r)
    <2>1. ReadMode(r) # 1 /\ ~HostOddEven(r)
      BY <1>2 DEF Straight
    <2> QED
      BY <1>2, <2>1 DEF ReadByte, ReadPlane, CellByte, CellPlane, CellOffset
  <1> QED
    BY <1>1, <1>2

(* The registers of a graphics preset pass a byte on as it is.             *)
LEMMA PassedOn ==
  ASSUME NEW r \in Registers, Straight(r), NEW l \in Latches, NEW byte \in SUBSET Bits, NEW p \in Planes
  PROVE  OutputDword(r, l, byte)[p] = byte
  <1>1. OutputDword(r, l, byte)[p] = {b \in Bits : StoredBit(r, l, byte, p, b)}
    BY StoredBits
  <1>2. ASSUME NEW b \in Bits PROVE StoredBit(r, l, byte, p, b) <=> b \in byte
    <2>1. (b + RotateCount(r)) % 8 = b
      <3>1. \A n \in 0..7 : (n + 0) % 8 = n
        OBVIOUS
      <3> QED
        BY <3>1 DEF Straight, Bits
    <2>2. OfferedBit(r, byte, p, b) <=> b \in byte
      BY <2>1 DEF OfferedBit, Straight
    <2>3. /\ WriteMode(r) # 1 /\ WriteMode(r) # 3 /\ LogicalOperation(r) = 0 /\ b \in Bitmask(r)
      BY DEF Straight
    <2>4. StoredBit(r, l, byte, p, b)
            <=> Combined(LogicalOperation(r), OfferedBit(r, byte, p, b), b \in l[p])
      BY <2>3, ZenonT(30) DEF StoredBit, Combined
    <2>5. \A y : \A x \in BOOLEAN : Combined(0, x, y) <=> x
      BY DEF Combined
    <2>6. OfferedBit(r, byte, p, b) \in BOOLEAN
      <3>1. OfferedBit(r, byte, p, b) = (b \in byte)
        BY <2>1 DEF OfferedBit, Straight
      <3> QED
        BY <3>1
    <2> QED
      BY <2>2, <2>3, <2>4, <2>5, <2>6
  <1> QED
    BY <1>1, <1>2

LEMMA NothingIsNoByte == \A byte \in SUBSET Bits : byte # NoByte
  <1>1. 8 \notin Bits
    BY DEF Bits
  <1> QED
    BY <1>1 DEF NoByte

(* What changes the cell of one offset only is a store.                    *)
LEMMA StoresOne ==
  ASSUME IInv, plain, NEW address \in Addresses, NEW byte \in Values, InWindow(regs, address),
         regs' = regs, plain' = plain, epoch' = epoch, last' = <<address, byte>>,
         \A q \in Offsets : CellByte(regs, planes', q) =
           IF q = OffsetOf(regs, address) THEN byte ELSE CellByte(regs, planes, q)
  PROVE  Linear!Store(address, byte)
  <1>1. regs \in Registers /\ planes \in Memories /\ (TextMode(regs) \/ Straight(regs)) /\ plain = TRUE
    BY DEF IInv, Set
  <1>2. \A a \in Addresses : InWindow(regs, a) =>
          /\ OffsetOf(regs, a) \in Offsets
          /\ ReadByte(regs, planes, a) = CellByte(regs, planes, OffsetOf(regs, a))
          /\ ReadByte(regs, planes', a) = CellByte(regs, planes', OffsetOf(regs, a))
    BY <1>1, ReadsCell DEF InWindow
  <1>3. Memory[address] # NoByte
    <2>1. Memory[address] = CellByte(regs, planes, OffsetOf(regs, address))
      BY <1>2 DEF Memory
    <2>2. CellByte(regs, planes, OffsetOf(regs, address)) \in SUBSET Bits
      BY <1>1, <1>2, CellType DEF CellByte, Memories
    <2> QED
      BY <2>1, <2>2, NothingIsNoByte
  <1>4. ASSUME NEW a \in Addresses, OffsetOf(regs, a) = OffsetOf(regs, address) PROVE a = address
    <2>1. a \in Int /\ address \in Int
      <3>1. \A b \in Addresses : b \in Int
        BY Numbers DEF Addresses
      <3> QED
        BY <3>1
    <2>2. Window(regs)[1] \in Int
      <3>1. BitField(regs.gc[6], 2, 3) \in 0..3
        <4>1. regs.gc[6] \in Nat
          BY <1>1 DEF Registers
        <4> QED
          BY <4>1, FieldOfTwo, 2 + 1 = 3
      <3> DEFINE k == BitField(regs.gc[6], 2, 3)
      <3>2. k \in {0, 1, 2, 3}
        BY <3>1
      <3> HIDE DEF k
      <3>3. MemoryMaps[1 + k][1] \in Int
        BY <3>2 DEF MemoryMaps
      <3> QED
        BY <3>3 DEF Window, k
    <2> DEFINE base == Window(regs)[1]
    <2>3. a - base = address - base /\ base \in Int
      BY <1>4, <2>2 DEF OffsetOf
    <2> HIDE DEF base
    <2> QED
      BY <2>1, <2>3
  <1>5. Memory' = [a \in Addresses |-> IF InWindow(regs, a) THEN ReadByte(regs, planes', a) ELSE NoByte]
    BY <1>1 DEF Memory
  <1>6. Memory = [a \in Addresses |-> IF InWindow(regs, a) THEN ReadByte(regs, planes, a) ELSE NoByte]
    BY <1>1 DEF Memory
  <1>7. ASSUME NEW a \in Addresses
        PROVE  Memory'[a] = IF a = address THEN byte ELSE Memory[a]
    <2>1. CASE a = address
      BY <1>2, <1>5, <2>1
    <2>2. CASE a # address /\ InWindow(regs, a)
      <3>1. OffsetOf(regs, a) # OffsetOf(regs, address)
        BY <1>4, <2>2
      <3>2. CellByte(regs, planes', OffsetOf(regs, a)) = CellByte(regs, planes, OffsetOf(regs, a))
        BY <1>2, <2>2, <3>1
      <3> QED
        BY <1>2, <1>5, <1>6, <2>2, <3>2
    <2>3. CASE a # address /\ ~InWindow(regs, a)
      BY <1>5, <1>6, <2>3
    <2> QED
      BY <2>1, <2>2, <2>3
  <1>8. Memory' = [Memory EXCEPT ![address] = byte]
    <2> DEFINE m == Memory
               n == Memory'
    <2>1. /\ m = [a \in Addresses |-> m[a]] /\ n = [a \in Addresses |-> n[a]]
          /\ \A a \in Addresses : n[a] = IF a = address THEN byte ELSE m[a]
      BY <1>5, <1>6, <1>7
    <2> HIDE DEF m, n
    <2>2. n = [m EXCEPT ![address] = byte]
      BY <2>1
    <2> QED
      BY <2>2 DEF m, n
  <1> QED
    BY <1>1, <1>3, <1>8 DEF Linear!Store

LEMMA TextStores ==
  ASSUME IInv, plain, NEW address \in Addresses, NEW byte \in Values, WriteTextMode(address, byte)
  PROVE  Linear!Store(address, byte)
  <1> DEFINE offset == OffsetOf(regs, address)
  <1>1. /\ planes' = [planes EXCEPT ![offset % 2][offset \div 2] = byte] /\ last' = <<address, byte>>
        /\ InWindow(regs, address) /\ offset \in Offsets /\ TextMode(regs)
        /\ regs' = regs /\ plain' = plain /\ epoch' = epoch
    BY DEF WriteTextMode, Writable, InWindow
  <1> HIDE DEF offset
  <1>2. regs \in Registers /\ planes \in Memories
    BY DEF IInv
  <1>3. ASSUME NEW q \in Offsets
        PROVE  CellByte(regs, planes', q) = IF q = offset THEN byte ELSE CellByte(regs, planes, q)
    <2> DEFINE i == CellPlane(regs, q)
               k == CellOffset(regs, q)
    <2>1. i \in Planes /\ k \in Offsets
      BY <1>2, CellType
    <2>2. CellPlane(regs, offset) = offset % 2 /\ CellOffset(regs, offset) = offset \div 2
      BY <1>1 DEF CellPlane, CellOffset
    <2>3. q = offset <=> (i = offset % 2 /\ k = offset \div 2)
      BY <1>1, <2>2, CellsDiffer
    <2> HIDE DEF i, k
    <2>4. planes'[i][k] = IF i = offset % 2 /\ k = offset \div 2 THEN byte ELSE planes[i][k]
      BY <1>1, <1>2, <2>1 DEF Memories
    <2> QED
      BY <2>3, <2>4 DEF CellByte, i, k
  <1> QED
    BY <1>1, <1>3, StoresOne DEF offset

LEMMA GraphicsStores ==
  ASSUME IInv, plain, NEW address \in Addresses, NEW byte \in Values, WriteGraphicsMode(address, byte)
  PROVE  Linear!Store(address, byte)
  <1> DEFINE offset == OffsetOf(regs, address)
             at     == PlaneOffset(regs, offset)
             output == OutputDword(regs, latch, byte)
             select == PlaneSelect(regs, offset)
  <1>1. /\ planes' = [p \in Planes |-> IF p \in select THEN [planes[p] EXCEPT ![at] = output[p]] ELSE planes[p]]
        /\ last' = <<address, byte>> /\ InWindow(regs, address) /\ offset \in Offsets /\ ~TextMode(regs)
        /\ regs' = regs /\ plain' = plain /\ epoch' = epoch
    BY DEF WriteGraphicsMode, Writable, InWindow
  <1>2. regs \in Registers /\ planes \in Memories /\ latch \in Latches /\ byte \in SUBSET Bits
    BY WritesAssumption DEF IInv
  <1>3. Straight(regs)
    BY <1>1 DEF IInv, Set
  <1>4. \A p \in Planes : output[p] = byte
    BY <1>2, <1>3, PassedOn
  <1>5. at = CellOffset(regs, offset) /\ CellPlane(regs, offset) \in select
    <2>1. OddEvenDisabled(regs)
      BY <1>3 DEF Straight
    <2>2. CellPlane(regs, offset) \in Planes
      BY <1>1, <1>2, CellType
    <2>3. CASE Chain4(regs)
      <3>1. MapMask(regs) = Planes
        BY <1>3, <2>3 DEF Straight
      <3> QED
        BY <1>1, <2>1, <2>2, <2>3, <3>1 DEF PlaneOffset, PlaneSelect, CellOffset, CellPlane
    <2>4. CASE ~Chain4(regs)
      <3>1. ReadMapSelect(regs) \in MapMask(regs)
        BY <1>3, <2>4 DEF Straight
      <3> QED
        BY <1>1, <2>1, <2>2, <2>4, <3>1 DEF PlaneOffset, PlaneSelect, CellOffset, CellPlane
    <2> QED
      BY <2>3, <2>4
  <1> HIDE DEF offset, at, output, select
  <1>6. ASSUME NEW q \in Offsets
        PROVE  CellByte(regs, planes', q) = IF q = offset THEN byte ELSE CellByte(regs, planes, q)
    <2> DEFINE i == CellPlane(regs, q)
               k == CellOffset(regs, q)
    <2>1. i \in Planes /\ k \in Offsets
      BY <1>2, CellType
    <2>2. q = offset => i \in select /\ k = at
      BY <1>5
    <2>3. i \in select /\ k = at => q = offset
      <3> SUFFICES ASSUME i \in select, k = at PROVE q = offset
        OBVIOUS
      <3>1. CASE Chain4(regs)
        <4>1. select \subseteq {offset % 4} /\ CellPlane(regs, offset) = offset % 4
          BY <1>1, <1>3, <3>1 DEF select, PlaneSelect, CellPlane, Straight
        <4>2. i = CellPlane(regs, offset) /\ k = CellOffset(regs, offset)
          BY <1>5, <4>1
        <4> QED
          BY <1>1, <4>2, CellsDiffer
      <3>2. CASE ~Chain4(regs)
        BY <1>1, <1>5, <3>2 DEF CellOffset
      <3> QED
        BY <3>1, <3>2
    <2> HIDE DEF i, k
    <2>4. planes'[i][k] = IF i \in select /\ k = at THEN byte ELSE planes[i][k]
      BY <1>1, <1>2, <1>4, <2>1 DEF Memories
    <2> QED
      BY <2>2, <2>3, <2>4 DEF CellByte, i, k
  <1> QED
    BY <1>1, <1>6, StoresOne DEF offset

LEMMA MemoryKept ==
  ASSUME regs' = regs, planes' = planes, plain' = plain PROVE Memory' = Memory
  BY DEF Memory

(* VGA.writeByte and readByte: to a program that leaves the registers as   *)
(* the mode has set them, the window is memory, in every preset: chain-4,  *)
(* planar and text.  The byte stored at an address is what the address     *)
(* reads, and no other address changes; frames, latches and reads change   *)
(* nothing.                                                                *)
THEOREM WindowIsMemory == Spec => IsLinearMemory
  <1>1. Init => Linear!Init
    BY DEF Init, Linear!Init
  <1>2. IInv /\ [Next]_vars => [Linear!Next]_<<Memory, plain, epoch, last>>
    <2> SUFFICES ASSUME IInv, [Next]_vars
                 PROVE  Linear!Next \/ UNCHANGED <<Memory, plain, epoch, last>>
      OBVIOUS
    <2>1. ASSUME NEW preset \in Presets, LoadModePreset(preset) PROVE Linear!Next
      <3>1. Linear!SwitchMode
        BY <2>1 DEF LoadModePreset, Linear!SwitchMode
      <3> QED
        BY <3>1 DEF Linear!Next
    <2>2. ASSUME NEW s \in Settings, SetRegByIndex(s[1], s[2], s[3]) PROVE Linear!Next
      <3>1. Linear!Distrusted
        BY <2>2 DEF SetRegByIndex, Linear!Distrusted
      <3> QED
        BY <3>1 DEF Linear!Next
    <2>3. ASSUME NEW address \in Addresses, NEW byte \in Values,
                 WriteTextMode(address, byte) \/ WriteGraphicsMode(address, byte)
          PROVE  Linear!Next
      <3>1. CASE plain
        <4>1. Linear!Store(address, byte)
          BY <2>3, <3>1, TextStores, GraphicsStores
        <4> QED
          BY <4>1 DEF Linear!Next
      <3>2. CASE ~plain
        <4>1. plain' = plain /\ epoch' = epoch
          BY <2>3 DEF WriteTextMode, WriteGraphicsMode
        <4>2. Linear!Distrusted
          BY <3>2, <4>1 DEF IInv, Linear!Distrusted
        <4> QED
          BY <4>2 DEF Linear!Next
      <3> QED
        BY <3>1, <3>2
    <2>4. ASSUME NEW address \in Addresses, LoadLatch(address)
          PROVE  UNCHANGED <<Memory, plain, epoch, last>>
      <3>1. regs' = regs /\ planes' = planes /\ plain' = plain /\ epoch' = epoch /\ last' = last
        BY <2>4 DEF LoadLatch
      <3> QED
        BY <3>1, MemoryKept
    <2>5. ASSUME Frame \/ LastFrame \/ UNCHANGED vars
          PROVE  UNCHANGED <<Memory, plain, epoch, last>>
      <3>1. regs' = regs /\ planes' = planes /\ plain' = plain /\ epoch' = epoch /\ last' = last
        BY <2>5 DEF Frame, LastFrame, vars
      <3> QED
        BY <3>1, MemoryKept
    <2> QED
      BY <2>1, <2>2, <2>3, <2>4, <2>5 DEF Next
  <1> QED
    BY <1>1, <1>2, Inductive, PTL DEF Spec, IsLinearMemory, Linear!Spec
=============================================================================
