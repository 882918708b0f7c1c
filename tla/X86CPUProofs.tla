---------------------------- MODULE X86CPUProofs ----------------------------
(***************************************************************************)
(* Proofs about X86CPU, for every size of segments, stack and words.  An   *)
(* instruction reads its prefixes and opcode, pushes or pops words and     *)
(* moves ip: a lemma for each tells which registers it leaves and what     *)
(* lies on the stack behind it, and an action is proved by following them. *)
(***************************************************************************)
EXTENDS X86CPU, TLAPS, SequenceTheorems, NaturalsInduction, WellFoundedInduction

Cpus ==
  [cs : Nat, ip : Int, sp : 0 .. Slots - 1, ax : Bit, cx : Int,
   di : 0 .. Word - 1, if : Bit, df : Bit, zf : Bit,
   instruction : Prefixes, segment : Prefixes, empty : BOOLEAN,
   stack : [0 .. Slots - 1 -> Int], data : [0 .. Word - 1 -> Bit],
   state : {"running", "thrown", "hung"}]

\* What a tick leaves before the bounds of the model are looked at.
Fits(c) == c \in Cpus /\ c.ip <= SegmentSize /\ c.cx <= Word - 1

Offsets == 0 .. SegmentSize - 1

Frames ==
  [kind : {"register", "flags", "all", "near", "far", "interrupt"}, words : Seq(Int),
   base : Nat, cs : Nat]

\* A selector as it is saved of a place.
Saved(selector, cs) == selector = cs % Segments

\* How many words a frame of a kind has, and what they may be.
WordsOf(f) ==
  /\ f.kind = "register"  => Len(f.words) = 1 /\ f.words[1] \in Bit
  /\ f.kind = "flags"     => Len(f.words) = 1 /\ f.words[1] \in Flags
  /\ f.kind = "all"       => /\ Len(f.words) = 4 /\ f.words[1] \in 0 .. Word - 1
                             /\ f.words[3] \in MinCx .. Word - 1 /\ f.words[4] \in Bit
  /\ f.kind = "near"      => Len(f.words) = 1 /\ f.words[1] \in Offsets
  /\ f.kind = "far"       => /\ Len(f.words) = 2 /\ f.words[1] \in Offsets
                             /\ Saved(f.words[2], f.cs)
  /\ f.kind = "interrupt" => /\ Len(f.words) = 3 /\ f.words[1] \in Offsets
                             /\ Saved(f.words[2], f.cs) /\ f.words[3] \in Flags

DepthOf(fs) == IF fs = << >> THEN 0 ELSE Extent(Head(fs))

\* Frames lie on each other, and the last one on nothing.
Nested(fs) ==
  /\ fs \in Seq(Frames)
  /\ \A i \in DOMAIN fs :
       /\ WordsOf(fs[i])
       /\ fs[i].base = IF i = Len(fs) THEN 0 ELSE Extent(fs[i + 1])
       /\ \A j \in DOMAIN fs : i < j => Extent(fs[j]) <= fs[i].base

\* Where sp is when n words are saved.
SpOf(n) == IF n = 0 THEN 0 ELSE Slots - n

\* The stack of c holds the words of the frames.
Carries(c, fs) ==
  /\ DepthOf(fs) <= Slots /\ c.sp = SpOf(DepthOf(fs))
  /\ \A i \in DOMAIN fs : \A k \in DOMAIN fs[i].words :
       c.stack[Slots - Extent(fs[i]) + k - 1] = fs[i].words[k]

\* The inductive invariant.
IInv ==
  /\ uses \in Programs
  /\ Fits(u) /\ u.ip >= MinIp /\ u.cx >= MinCx
  /\ Nested(frames) /\ Carries(u, frames)

\* c and d differ in the stack only.
SameButStack(c, d) ==
  /\ d.cs = c.cs /\ d.ip = c.ip /\ d.ax = c.ax /\ d.cx = c.cx /\ d.di = c.di
  /\ d.if = c.if /\ d.df = c.df /\ d.zf = c.zf
  /\ d.instruction = c.instruction /\ d.segment = c.segment /\ d.empty = c.empty
  /\ d.data = c.data /\ d.state = c.state

\* c and d differ in where they are in the code and in the prefixes only.
SameButCode(c, d) ==
  /\ d.sp = c.sp /\ d.ax = c.ax /\ d.cx = c.cx /\ d.di = c.di
  /\ d.if = c.if /\ d.df = c.df /\ d.zf = c.zf
  /\ d.stack = c.stack /\ d.data = c.data /\ d.state = c.state

-----------------------------------------------------------------------------
(* The words of the stack.                                                 *)

LEMMA SpModulo == ASSUME NEW n \in 0 .. Slots PROVE (Slots - n) % Slots = SpOf(n)
  <1>1. Slots \in Nat /\ Slots > 0
    BY X86CPUAssumption
  <1>2. CASE n = 0
    <2>1. Slots % Slots = 0
      BY <1>1
    <2> QED
      BY <1>1, <1>2, <2>1 DEF SpOf
  <1>3. CASE n # 0
    <2>1. Slots - n \in 0 .. Slots - 1
      BY <1>1, <1>3
    <2>2. \A m \in 0 .. Slots - 1 : m % Slots = m
      BY <1>1
    <2> QED
      BY <1>3, <2>1, <2>2 DEF SpOf
  <1> QED
    BY <1>2, <1>3

LEMMA PushWord ==
  ASSUME NEW c \in Cpus, NEW n \in 0 .. Slots - 1, c.sp = SpOf(n), NEW val \in Int
  PROVE  LET w == Push(c, val) IN
         /\ w \in Cpus /\ SameButStack(c, w) /\ w.sp = SpOf(n + 1)
         /\ Slots - n - 1 \in 0 .. Slots - 1 /\ w.stack[Slots - n - 1] = val
         /\ \A s \in 0 .. Slots - 1 : s >= Slots - n => w.stack[s] = c.stack[s]
  <1>1. Slots \in Nat /\ Slots > 0 /\ n \in Int /\ c.sp \in Int
    BY X86CPUAssumption DEF Cpus
  <1> DEFINE sp == ToUnsigned(c.sp - 1, Slots)
  <1>2. sp = Slots - n - 1 /\ sp = SpOf(n + 1) /\ sp \in 0 .. Slots - 1
    BY <1>1 DEF ToUnsigned, SpOf
  <1>3. Push(c, val) = [c EXCEPT !.sp = sp, !.stack[sp] = val]
    BY DEF Push
  <1> HIDE DEF sp
  <1> DEFINE w == [c EXCEPT !.sp = sp, !.stack[sp] = val]
  <1>4. w \in Cpus /\ SameButStack(c, w) /\ w.sp = sp
    BY <1>2 DEF Cpus, SameButStack
  <1>5. w.stack = [c.stack EXCEPT ![sp] = val] /\ c.stack \in [0 .. Slots - 1 -> Int]
    BY DEF Cpus
  <1>6. w.stack[sp] = val /\ \A s \in 0 .. Slots - 1 : s # sp => w.stack[s] = c.stack[s]
    BY <1>2, <1>5
  <1>7. Push(c, val) = w
    BY <1>3
  <1> HIDE DEF w
  <1>8. \A s \in 0 .. Slots - 1 : s >= Slots - n => w.stack[s] = c.stack[s]
    BY <1>1, <1>2, <1>6
  <1> QED
    BY <1>2, <1>4, <1>6, <1>7, <1>8

LEMMA PopWords ==
  ASSUME NEW c \in Cpus, NEW n \in 0 .. Slots, NEW m \in 1 .. n, c.sp = SpOf(n)
  PROVE  LET w == Popped(c, m) IN
         /\ w \in Cpus /\ SameButStack(c, w) /\ w.sp = SpOf(n - m)
         /\ \A s \in 0 .. Slots - 1 : s >= Slots - n + m => w.stack[s] = c.stack[s]
  <1>1. Slots \in Nat /\ Slots > 0 /\ n \in Int /\ m \in Int /\ c.sp \in Int /\ c.sp = Slots - n
    BY X86CPUAssumption DEF SpOf, Cpus
  <1> DEFINE sp == ToUnsigned(c.sp + m, Slots)
             stack == [s \in DOMAIN c.stack |-> IF (s - c.sp) % Slots < m THEN 0 ELSE c.stack[s]]
             w == [c EXCEPT !.sp = sp, !.stack = stack]
  <1>2. sp = SpOf(n - m) /\ sp \in 0 .. Slots - 1
    BY <1>1 DEF ToUnsigned, SpOf
  <1>3. Popped(c, m) = w
    BY DEF Popped
  <1>4. c.stack \in [0 .. Slots - 1 -> Int] /\ DOMAIN c.stack = 0 .. Slots - 1
    BY DEF Cpus
  <1>5. stack \in [0 .. Slots - 1 -> Int]
    <2> DEFINE S == 0 .. Slots - 1
               val(s) == IF (s - c.sp) % Slots < m THEN 0 ELSE c.stack[s]
    <2>1. ASSUME NEW s \in S PROVE val(s) \in Int
      <3>1. c.stack[s] \in Int
        BY <1>4
      <3> DEFINE b == (s - c.sp) % Slots < m
      <3> HIDE DEF b
      <3>2. (IF b THEN 0 ELSE c.stack[s]) \in Int
        BY <3>1
      <3> QED
        BY <3>2 DEF b
    <2>2. stack = [s \in S |-> val(s)]
      BY <1>4
    <2> HIDE DEF val, stack, S
    <2>3. stack \in [S -> Int]
      BY <2>1, <2>2
    <2> QED
      BY <2>3 DEF S
  <1>6. ASSUME NEW s \in 0 .. Slots - 1, s >= Slots - n + m PROVE stack[s] = c.stack[s]
    <2>1. s - c.sp \in 0 .. Slots - 1 /\ s - c.sp >= m
      BY <1>1, <1>6
    <2>2. \A a \in 0 .. Slots - 1 : a % Slots = a
      BY <1>1
    <2>3. (s - c.sp) % Slots = s - c.sp
      BY <2>1, <2>2
    <2>4. ~((s - c.sp) % Slots < m)
      BY <1>1, <2>1, <2>3
    <2> QED
      BY <1>4, <2>4
  <1> HIDE DEF sp, stack
  <1>7. w \in Cpus /\ SameButStack(c, w) /\ w.sp = sp /\ w.stack = stack
    BY <1>2, <1>5 DEF Cpus, SameButStack
  <1> QED
    BY <1>2, <1>3, <1>6, <1>7

-----------------------------------------------------------------------------
(* Frames that come and go.                                                *)

\* The frame on top lies from sp on.
LEMMA FrameOnTop ==
  ASSUME NEW c \in Cpus, NEW fs, Nested(fs), Carries(c, fs), fs # << >>
  PROVE  LET f == Head(fs) IN
         /\ f \in Frames /\ WordsOf(f) /\ DepthOf(fs) = f.base + Len(f.words)
         /\ f.words \in Seq(Int) /\ f.base \in Nat /\ Len(f.words) \in 1 .. DepthOf(fs)
         /\ DepthOf(fs) \in 1 .. Slots /\ c.sp = Slots - DepthOf(fs)
         /\ DepthOf(Tail(fs)) = f.base
         /\ \A k \in 1 .. Len(f.words) :
              /\ Slots - DepthOf(fs) + k - 1 \in 0 .. Slots - 1
              /\ c.stack[Slots - DepthOf(fs) + k - 1] = f.words[k]
  <1> DEFINE f == Head(fs)
  <1>1. Slots \in Nat /\ fs \in Seq(Frames) /\ Len(fs) \in Nat /\ Len(fs) > 0 /\ f = fs[1]
        /\ 1 \in DOMAIN fs /\ f \in Frames
    BY X86CPUAssumption DEF Nested
  <1>2. WordsOf(f) /\ f.base = IF 1 = Len(fs) THEN 0 ELSE Extent(fs[2])
    <2>1. WordsOf(fs[1]) /\ fs[1].base = IF 1 = Len(fs) THEN 0 ELSE Extent(fs[1 + 1])
      BY <1>1 DEF Nested
    <2> QED
      BY <1>1, <2>1
  <1>3. f.words \in Seq(Int) /\ f.base \in Nat /\ Len(f.words) \in Nat /\ Len(f.words) > 0
    <2>1. /\ f.words \in Seq(Int) /\ f.base \in Nat
          /\ f.kind \in {"register", "flags", "all", "near", "far", "interrupt"}
      BY <1>1 DEF Frames
    <2> HIDE DEF f
    <2>2. Len(f.words) = 1 \/ Len(f.words) = 2 \/ Len(f.words) = 3 \/ Len(f.words) = 4
      BY <1>2, <2>1, ZenonT(30) DEF WordsOf
    <2>3. Len(f.words) \in Nat /\ Len(f.words) > 0
      <3>1. \A n : n = 1 \/ n = 2 \/ n = 3 \/ n = 4 => n \in Nat /\ n > 0
        OBVIOUS
      <3> QED
        BY ONLY <2>2, <3>1, Zenon
    <2> QED
      BY <2>1, <2>3
  <1>4. DepthOf(fs) = f.base + Len(f.words) /\ DepthOf(fs) = Extent(f)
    BY <1>1 DEF DepthOf, Extent
  <1>5. DepthOf(fs) \in 1 .. Slots /\ c.sp = Slots - DepthOf(fs)
    BY <1>1, <1>3, <1>4 DEF Carries, SpOf
  <1>6. DepthOf(Tail(fs)) = f.base
    <2>1. CASE Len(fs) = 1
      <3>1. Tail(fs) \in Seq(Frames) /\ Len(Tail(fs)) = 0
        BY <1>1, <2>1, HeadTailProperties
      <3>2. Tail(fs) = << >>
        BY <3>1, EmptySeq
      <3> QED
        BY <1>2, <2>1, <3>2 DEF DepthOf
    <2>2. CASE Len(fs) # 1
      <3>1. Tail(fs) \in Seq(Frames) /\ Len(Tail(fs)) = Len(fs) - 1 /\ Len(fs) > 1
        BY <1>1, <2>2, HeadTailProperties
      <3>2. Tail(fs)[1] = fs[1 + 1]
        <4>1. 1 \in 1 .. Len(Tail(fs))
          BY <1>1, <3>1
        <4> QED
          BY <1>1, <4>1, HeadTailProperties
      <3>3. Tail(fs) # << >> /\ Head(Tail(fs)) = fs[2]
        <4> DEFINE gs == Tail(fs)
        <4>1. gs \in Seq(Frames) /\ Len(gs) > 0 /\ gs[1] = fs[2]
          BY <1>1, <3>1, <3>2
        <4> HIDE DEF gs
        <4>2. gs # << >> /\ Head(gs) = gs[1]
          BY <4>1
        <4> QED
          BY <4>1, <4>2 DEF gs
      <3> QED
        BY <1>2, <2>2, <3>3 DEF DepthOf
    <2> QED
      BY <2>1, <2>2
  <1>7. ASSUME NEW k \in 1 .. Len(f.words)
        PROVE  /\ Slots - DepthOf(fs) + k - 1 \in 0 .. Slots - 1
               /\ c.stack[Slots - DepthOf(fs) + k - 1] = f.words[k]
    <2>1. k \in DOMAIN f.words
      BY <1>3
    <2>2. c.stack[Slots - Extent(fs[1]) + k - 1] = fs[1].words[k]
      BY <1>1, <2>1 DEF Carries
    <2>3. Slots - DepthOf(fs) + k - 1 \in 0 .. Slots - 1
      <3>1. Len(f.words) \in Nat /\ DepthOf(fs) >= Len(f.words) /\ k \in 1 .. Len(f.words)
        BY <1>3, <1>4
      <3> HIDE DEF f
      <3> QED
        BY <1>1, <1>5, <3>1
    <2> QED
      BY <1>1, <1>4, <2>2, <2>3
  <1>8. Len(f.words) \in 1 .. DepthOf(fs)
    BY <1>3, <1>4
  <1> QED
    BY <1>1, <1>2, <1>3, <1>4, <1>5, <1>6, <1>7, <1>8, ZenonT(30)

\* Frames have an extent, and those below lie within it.
LEMMA Extents ==
  ASSUME NEW fs, Nested(fs), NEW i \in DOMAIN fs
  PROVE  /\ fs[i] \in Frames /\ fs[i].words \in Seq(Int) /\ fs[i].base \in Nat
         /\ Extent(fs[i]) = fs[i].base + Len(fs[i].words)
         /\ Extent(fs[i]) \in Nat /\ Extent(fs[i]) <= DepthOf(fs) /\ DepthOf(fs) \in Nat
  <1>1. fs \in Seq(Frames) /\ i \in 1 .. Len(fs) /\ Len(fs) \in Nat /\ fs # << >> /\ Head(fs) = fs[1]
        /\ 1 \in DOMAIN fs
    BY DEF Nested
  <1>2. fs[i] \in Frames /\ fs[1] \in Frames
    BY <1>1
  <1>3. /\ fs[i].words \in Seq(Int) /\ fs[i].base \in Nat
        /\ fs[1].words \in Seq(Int) /\ fs[1].base \in Nat
    BY <1>2 DEF Frames
  <1>4. i # 1 => Extent(fs[i]) <= fs[1].base
    BY <1>1 DEF Nested
  <1>5. /\ Extent(fs[i]) = fs[i].base + Len(fs[i].words) /\ Extent(fs[i]) \in Nat
        /\ Extent(fs[1]) \in Nat /\ fs[1].base <= Extent(fs[1])
    BY <1>3 DEF Extent
  <1>6. DepthOf(fs) = Extent(fs[1])
    BY <1>1 DEF DepthOf
  <1>7. Extent(fs[i]) <= Extent(fs[1])
    <2>1. CASE i = 1
      BY <1>5, <2>1
    <2>2. CASE i # 1
      BY <1>3, <1>4, <1>5, <2>2
    <2> QED
      BY <2>1, <2>2
  <1> QED
    BY <1>2, <1>3, <1>5, <1>6, <1>7

LEMMA FramePushed ==
  ASSUME NEW c \in Cpus, NEW fs, Nested(fs), Carries(c, fs),
         NEW f \in Frames, WordsOf(f), f.base = DepthOf(fs), f.base + Len(f.words) <= Slots,
         NEW w \in Cpus, w.sp = SpOf(f.base + Len(f.words)),
         \A s \in 0 .. Slots - 1 : s >= Slots - f.base => w.stack[s] = c.stack[s],
         \A k \in 1 .. Len(f.words) : w.stack[Slots - f.base - Len(f.words) + k - 1] = f.words[k]
  PROVE  Nested(<<f>> \o fs) /\ Carries(w, <<f>> \o fs)
  <1> DEFINE gs == <<f>> \o fs
  <1>1. /\ fs \in Seq(Frames) /\ Len(fs) \in Nat /\ gs \in Seq(Frames) /\ Len(gs) = Len(fs) + 1
        /\ gs[1] = f /\ \A i \in DOMAIN fs : gs[i + 1] = fs[i]
        /\ \A i \in DOMAIN gs : i = 1 \/ (i - 1 \in DOMAIN fs /\ gs[i] = fs[i - 1])
        /\ DOMAIN fs = 1 .. Len(fs) /\ DOMAIN gs = 1 .. Len(fs) + 1
    BY DEF Nested
  <1>2. f.base \in Nat /\ f.words \in Seq(Int) /\ Len(f.words) \in Nat
        /\ Extent(f) = f.base + Len(f.words) /\ Slots \in Nat
    BY X86CPUAssumption DEF Frames, Extent
  <1>3. gs # << >> /\ Head(gs) = f /\ DepthOf(gs) = Extent(f)
    BY <1>1 DEF DepthOf
  <1> HIDE DEF gs
  <1>4. ASSUME NEW i \in DOMAIN gs
        PROVE  /\ WordsOf(gs[i])
               /\ gs[i].base = IF i = Len(gs) THEN 0 ELSE Extent(gs[i + 1])
               /\ \A j \in DOMAIN gs : i < j => Extent(gs[j]) <= gs[i].base
    <2>1. CASE i = 1
      <3>1. gs[1].base = IF 1 = Len(gs) THEN 0 ELSE Extent(gs[2])
        <4>1. CASE Len(fs) = 0
          BY <1>1, <4>1 DEF DepthOf
        <4>2. CASE Len(fs) # 0
          <5>1. fs # << >> /\ Head(fs) = fs[1] /\ gs[2] = fs[1]
            BY <1>1, <4>2
          <5> QED
            BY <1>1, <4>2, <5>1 DEF DepthOf
        <4> QED
          BY <4>1, <4>2
      <3>2. ASSUME NEW j \in DOMAIN gs, 1 < j PROVE Extent(gs[j]) <= gs[1].base
        <4>1. j - 1 \in DOMAIN fs /\ gs[j] = fs[j - 1]
          BY <1>1, <3>2
        <4> QED
          BY <1>1, <4>1, Extents
      <3> QED
        BY <1>1, <2>1, <3>1, <3>2
    <2>2. CASE i # 1
      <3>1. i - 1 \in DOMAIN fs /\ gs[i] = fs[i - 1]
        BY <1>1, <2>2
      <3>2. /\ WordsOf(fs[i - 1])
            /\ fs[i - 1].base = IF i - 1 = Len(fs) THEN 0 ELSE Extent(fs[i - 1 + 1])
            /\ \A j \in DOMAIN fs : i - 1 < j => Extent(fs[j]) <= fs[i - 1].base
        BY <3>1 DEF Nested
      <3>3. i # Len(gs) => gs[i + 1] = fs[i - 1 + 1]
        <4>1. i \in 1 .. Len(fs) + 1
          BY <1>1
        <4>2. i # Len(gs) => i \in DOMAIN fs /\ i - 1 + 1 = i
          BY <1>1, <4>1
        <4> QED
          BY <1>1, <4>2
      <3>4. ASSUME NEW j \in DOMAIN gs, i < j PROVE Extent(gs[j]) <= gs[i].base
        <4>1. j - 1 \in DOMAIN fs /\ gs[j] = fs[j - 1] /\ i - 1 < j - 1
          BY <1>1, <3>4
        <4> QED
          BY <3>1, <3>2, <4>1
      <3>5. i = Len(gs) <=> i - 1 = Len(fs)
        BY <1>1
      <3> QED
        BY <3>1, <3>2, <3>3, <3>4, <3>5
    <2> QED
      BY <2>1, <2>2
  <1>5. ASSUME NEW i \in DOMAIN gs, NEW k \in DOMAIN gs[i].words
        PROVE  w.stack[Slots - Extent(gs[i]) + k - 1] = gs[i].words[k]
    <2>1. CASE i = 1
      <3>1. k \in 1 .. Len(f.words)
        BY <1>1, <1>2, <2>1
      <3>2. Slots - Extent(f) + k - 1 = Slots - f.base - Len(f.words) + k - 1
        BY <1>2, <3>1
      <3> QED
        BY <1>1, <2>1, <3>1, <3>2
    <2>2. CASE i # 1
      <3>1. i - 1 \in DOMAIN fs /\ gs[i] = fs[i - 1]
        BY <1>1, <2>2
      <3> DEFINE s == Slots - Extent(gs[i]) + k - 1
      <3>2. c.stack[s] = gs[i].words[k]
        BY <3>1 DEF Carries
      <3>3. /\ k \in 1 .. Len(gs[i].words) /\ Len(gs[i].words) \in Nat
            /\ Extent(gs[i]) = gs[i].base + Len(gs[i].words) /\ gs[i].base \in Nat
            /\ Extent(gs[i]) <= f.base
        <4>1. /\ fs[i - 1].words \in Seq(Int) /\ fs[i - 1].base \in Nat
              /\ Extent(fs[i - 1]) = fs[i - 1].base + Len(fs[i - 1].words)
              /\ Extent(fs[i - 1]) <= DepthOf(fs)
          BY <3>1, Extents
        <4>2. gs[i].words \in Seq(Int) /\ k \in DOMAIN gs[i].words
          BY <1>5, <3>1, <4>1
        <4>3. k \in 1 .. Len(gs[i].words) /\ Len(gs[i].words) \in Nat
          BY ONLY <4>2
        <4> QED
          BY <1>2, <3>1, <4>1, <4>3
      <3>4. s \in 0 .. Slots - 1 /\ s >= Slots - f.base
        <4> DEFINE l == Len(gs[i].words)
                   e == Extent(gs[i])
        <4>1. k \in 1 .. l /\ l \in Nat /\ e \in Nat /\ l <= e /\ e <= f.base
          BY <3>3
        <4> HIDE DEF l, e
        <4>2. Slots - e + k - 1 \in 0 .. Slots - 1 /\ Slots - e + k - 1 >= Slots - f.base
          BY <1>2, <4>1
        <4> QED
          BY <4>2 DEF e
      <3> HIDE DEF s
      <3>5. w.stack[s] = c.stack[s]
        BY <3>4
      <3> QED
        BY <3>2, <3>5 DEF s
    <2> QED
      BY <2>1, <2>2
  <1>6. Nested(gs)
    BY <1>1, <1>4 DEF Nested
  <1>7. Carries(w, gs)
    BY <1>2, <1>3, <1>5 DEF Carries
  <1> QED
    BY <1>6, <1>7 DEF gs

LEMMA FrameDropped ==
  ASSUME NEW c \in Cpus, NEW fs, Nested(fs), Carries(c, fs), fs # << >>,
         NEW w \in Cpus, w.sp = SpOf(Head(fs).base),
         \A s \in 0 .. Slots - 1 : s >= Slots - Head(fs).base => w.stack[s] = c.stack[s]
  PROVE  Nested(Tail(fs)) /\ Carries(w, Tail(fs))
  <1> DEFINE gs == Tail(fs)
  <1>1. /\ fs \in Seq(Frames) /\ Len(fs) \in Nat /\ gs \in Seq(Frames) /\ Len(gs) = Len(fs) - 1
        /\ DOMAIN gs = 1 .. Len(gs) /\ DOMAIN fs = 1 .. Len(fs)
        /\ \A i \in DOMAIN gs : i + 1 \in DOMAIN fs /\ gs[i] = fs[i + 1]
        /\ 1 \in DOMAIN fs /\ Head(fs) = fs[1] /\ Slots \in Nat
    BY X86CPUAssumption DEF Nested
  <1>2. DepthOf(gs) = Head(fs).base /\ Head(fs).base <= Slots
    <2>1. /\ DepthOf(gs) = Head(fs).base /\ DepthOf(fs) = Head(fs).base + Len(Head(fs).words)
          /\ Head(fs).base \in Nat /\ Len(Head(fs).words) \in 1 .. DepthOf(fs)
          /\ DepthOf(fs) \in 1 .. Slots
      BY FrameOnTop, ZenonT(30)
    <2> QED
      BY ONLY <1>1, <2>1
  <1> HIDE DEF gs
  <1>3. ASSUME NEW i \in DOMAIN gs
        PROVE  /\ WordsOf(gs[i])
               /\ gs[i].base = IF i = Len(gs) THEN 0 ELSE Extent(gs[i + 1])
               /\ \A j \in DOMAIN gs : i < j => Extent(gs[j]) <= gs[i].base
    <2>1. i + 1 \in DOMAIN fs /\ gs[i] = fs[i + 1]
      BY <1>1
    <2>2. /\ WordsOf(fs[i + 1])
          /\ fs[i + 1].base = IF i + 1 = Len(fs) THEN 0 ELSE Extent(fs[i + 1 + 1])
          /\ \A j \in DOMAIN fs : i + 1 < j => Extent(fs[j]) <= fs[i + 1].base
      BY <2>1 DEF Nested
    <2>3. i = Len(gs) <=> i + 1 = Len(fs)
      BY <1>1
    <2>4. i # Len(gs) => gs[i + 1] = fs[i + 1 + 1]
      BY <1>1
    <2>5. ASSUME NEW j \in DOMAIN gs, i < j PROVE Extent(gs[j]) <= gs[i].base
      <3>1. j + 1 \in DOMAIN fs /\ gs[j] = fs[j + 1] /\ i + 1 < j + 1
        BY <1>1, <2>5
      <3> QED
        BY <2>1, <2>2, <3>1
    <2> QED
      BY <2>1, <2>2, <2>3, <2>4, <2>5
  <1>4. ASSUME NEW i \in DOMAIN gs, NEW k \in DOMAIN gs[i].words
        PROVE  w.stack[Slots - Extent(gs[i]) + k - 1] = gs[i].words[k]
    <2>1. i + 1 \in DOMAIN fs /\ gs[i] = fs[i + 1] /\ 1 < i + 1
      BY <1>1
    <2> DEFINE s == Slots - Extent(gs[i]) + k - 1
    <2>2. c.stack[s] = gs[i].words[k]
      BY <2>1 DEF Carries
    <2>3. /\ k \in 1 .. Len(gs[i].words) /\ Len(gs[i].words) \in Nat
          /\ Extent(gs[i]) = gs[i].base + Len(gs[i].words) /\ gs[i].base \in Nat
      <3>1. /\ fs[i + 1].words \in Seq(Int) /\ fs[i + 1].base \in Nat
            /\ Extent(fs[i + 1]) = fs[i + 1].base + Len(fs[i + 1].words)
        BY <2>1, Extents
      <3>2. gs[i].words \in Seq(Int) /\ k \in DOMAIN gs[i].words
        BY <1>4, <2>1, <3>1
      <3>3. k \in 1 .. Len(gs[i].words) /\ Len(gs[i].words) \in Nat
        BY ONLY <3>2
      <3> QED
        BY <2>1, <3>1, <3>3
    <2>4. Extent(gs[i]) <= Head(fs).base /\ Head(fs).base \in Nat
      BY <1>1, <2>1, Extents DEF Nested
    <2>5. s \in 0 .. Slots - 1 /\ s >= Slots - Head(fs).base
      <3> DEFINE l == Len(gs[i].words)
                 e == Extent(gs[i])
                 b == Head(fs).base
      <3>1. k \in 1 .. l /\ l \in Nat /\ e \in Nat /\ l <= e /\ e <= b /\ b \in Nat /\ b <= Slots
        BY <1>2, <2>3, <2>4
      <3> HIDE DEF l, e, b
      <3>2. Slots - e + k - 1 \in 0 .. Slots - 1 /\ Slots - e + k - 1 >= Slots - b
        BY <1>1, <3>1
      <3> QED
        BY <3>2 DEF e, b
    <2> HIDE DEF s
    <2>6. w.stack[s] = c.stack[s]
      BY <2>5
    <2> QED
      BY <2>2, <2>6 DEF s
  <1>5. Nested(gs)
    BY <1>1, <1>3 DEF Nested
  <1>6. Carries(w, gs)
    BY <1>2, <1>4 DEF Carries
  <1> QED
    BY <1>5, <1>6 DEF gs

-----------------------------------------------------------------------------
(* Fetching, and words that are pushed and popped.                         *)

LEMMA Sizes ==
  /\ SegmentSize \in Nat /\ SegmentSize > 3 /\ Byte \in 1 .. SegmentSize
  /\ Segments \in Nat /\ Segments > 0 /\ Slots \in Nat /\ Slots > 0 /\ Word \in Nat /\ Word > 0
  /\ MinIp \in Int /\ 0 - SegmentSize <= MinIp /\ MinIp <= 0 /\ MinCx \in Int /\ MinCx <= 0
  BY X86CPUAssumption

LEMMA InSegment == ASSUME NEW a \in Int PROVE a % SegmentSize \in Offsets
  BY Sizes DEF Offsets

\* A selector that was truncated leads to the same segment unless cs had left its
\* width twice.
LEMMA InCode ==
  ASSUME NEW a \in Nat
  PROVE  /\ a % Segments \in 0 .. Segments - 1 /\ a % Segments \in Nat
         /\ a < 2 * Segments => CodeSegment(a % Segments) = CodeSegment(a)
  <1>1. a % Segments \in 0 .. Segments - 1
    BY Sizes
  <1>2. CASE a < Segments
    <2>1. a % Segments = a
      BY <1>2, Sizes
    <2> QED
      BY <1>1, <2>1, Sizes
  <1>3. CASE a >= Segments /\ a < 2 * Segments
    <2>1. a - Segments \in 0 .. Segments - 1 /\ a = 1 * Segments + (a - Segments)
      BY <1>3, Sizes
    <2>2. a % Segments = a - Segments
      BY <1>3, Sizes
    <2>3. CodeSegment(a) = a - Segments /\ CodeSegment(a - Segments) = a - Segments
      BY <1>3, <2>1, Sizes DEF CodeSegment, ToUnsigned
    <2> QED
      BY <1>1, <2>2, <2>3, Sizes
  <1> QED
    BY <1>1, <1>2, <1>3, Sizes

LEMMA Wraps ==
  ASSUME NEW a \in 0 - SegmentSize .. 2 * SegmentSize - 1
  PROVE  a % SegmentSize = ToUnsigned(a, SegmentSize)
  <1>1. CASE a \in 0 .. SegmentSize - 1
    BY <1>1, Sizes DEF ToUnsigned
  <1>2. CASE a >= SegmentSize
    <2>1. a % SegmentSize = a - SegmentSize
      BY <1>2, Sizes
    <2> QED
      BY <1>2, <2>1, Sizes DEF ToUnsigned
  <1>3. CASE a < 0
    <2>1. a % SegmentSize = a + SegmentSize
      BY <1>3, Sizes
    <2> QED
      BY <1>3, <2>1, Sizes DEF ToUnsigned
  <1> QED
    BY <1>1, <1>2, <1>3, Sizes

\* Where ip may be when an instruction begins.
Reach == MinIp .. SegmentSize

LEMMA FetchFits ==
  ASSUME NEW c \in Cpus, c.ip \in Reach, NEW size \in 1 .. 3
  PROVE  LET w == IncrementIP(c, size) IN
         /\ w \in Cpus /\ w.ip \in Reach /\ SameButCode(c, w)
         /\ w.instruction = c.instruction /\ w.segment = c.segment /\ w.empty = c.empty
         /\ w.ip % SegmentSize = ToUnsigned(c.ip + size, SegmentSize)
  <1> DEFINE ip == ToUnsigned(c.ip + size, SegmentSize)
             cs == c.cs + 1
             w1 == [c EXCEPT !.ip = ip, !.cs = cs]
             w2 == [c EXCEPT !.ip = c.ip + size]
  <1>1. c.ip \in Int /\ MinIp <= c.ip /\ c.ip <= SegmentSize /\ size \in Int
        /\ c.ip + size \in 0 - SegmentSize .. 2 * SegmentSize - 1
    BY Sizes DEF Reach
  <1>2. cs \in Nat
    BY DEF Cpus
  <1>3. (c.ip + size) % SegmentSize = ip
    BY <1>1, Wraps
  <1>4. CASE c.ip + size >= SegmentSize
    <2>1. ip = c.ip + size - SegmentSize /\ ip \in Reach /\ ip \in Offsets
      BY <1>1, <1>4, Sizes DEF ToUnsigned, Reach, Offsets
    <2>2. ip % SegmentSize = ip
      BY <2>1, Sizes DEF Offsets
    <2>3. IncrementIP(c, size) = w1
      BY <1>4 DEF IncrementIP
    <2> HIDE DEF ip, cs
    <2>4. w1 \in Cpus /\ SameButCode(c, w1) /\ w1.ip = ip
          /\ w1.instruction = c.instruction /\ w1.segment = c.segment /\ w1.empty = c.empty
      <3>1. ip \in Int
        BY <2>1, Sizes DEF Reach
      <3> QED
        BY <1>2, <3>1 DEF Cpus, SameButCode
    <2> HIDE DEF w1
    <2> QED
      BY <2>1, <2>2, <2>3, <2>4 DEF ip
  <1>5. CASE c.ip + size < SegmentSize
    <2>1. IncrementIP(c, size) = w2
      BY <1>1, <1>5, Sizes DEF IncrementIP
    <2>2. c.ip + size \in Reach /\ c.ip + size \in Int
      BY <1>1, <1>5, Sizes DEF Reach
    <2>3. w2 \in Cpus /\ SameButCode(c, w2) /\ w2.ip = c.ip + size
          /\ w2.instruction = c.instruction /\ w2.segment = c.segment /\ w2.empty = c.empty
      BY <2>2 DEF Cpus, SameButCode
    <2> HIDE DEF w2, ip
    <2> QED
      BY <1>3, <2>1, <2>2, <2>3 DEF ip
  <1> QED
    BY <1>1, <1>4, <1>5, Sizes

LEMMA DecodedFits ==
  ASSUME IInv, NEW p \in Prefixes
  PROVE  LET d == Decoded(p) IN d \in Cpus /\ d.ip \in Reach /\ SameButCode(u, d) /\ Fits(d)
  <1>1. u \in Cpus /\ u.ip \in Reach /\ u.ip \in Int /\ u.cx <= Word - 1 /\ 1 \in 1 .. 3
    BY Sizes DEF IInv, Fits, Reach, Cpus
  <1> DEFINE c == Prefixed(u, p)
             x == IncrementIP(u, 1)
  <1>2. x \in Cpus /\ x.ip \in Reach /\ SameButCode(u, x)
    BY <1>1, FetchFits
  <1>3. c \in Cpus /\ c.ip \in Reach /\ SameButCode(u, c)
    <2>1. CASE p = "none"
      BY <1>1, <2>1 DEF Prefixed, SameButCode
    <2>2. CASE p # "none"
      <3>1. c = [x EXCEPT !.instruction = "REP", !.empty = FALSE]
            \/ c = [x EXCEPT !.segment = p, !.empty = FALSE]
        BY <2>2 DEF Prefixed, Prefixes
      <3> HIDE DEF c, x
      <3>2. "REP" \in Prefixes
        BY DEF Prefixes
      <3> QED
        <4>1. CASE c = [x EXCEPT !.instruction = "REP", !.empty = FALSE]
          <5>1. c \in Cpus
            BY <1>2, <3>2, <4>1 DEF Cpus
          <5>2. c.ip = x.ip /\ SameButCode(u, c)
            BY <1>2, <4>1 DEF Cpus, SameButCode
          <5> QED
            BY <1>2, <5>1, <5>2
        <4>2. CASE c = [x EXCEPT !.segment = p, !.empty = FALSE]
          <5>1. c \in Cpus
            BY <1>2, <4>2 DEF Cpus
          <5>2. c.ip = x.ip /\ SameButCode(u, c)
            BY <1>2, <4>2 DEF Cpus, SameButCode
          <5> QED
            BY <1>2, <5>1, <5>2
        <4> QED
          BY <3>1, <4>1, <4>2
    <2> QED
      BY <2>1, <2>2
  <1> HIDE DEF c
  <1> DEFINE d == IncrementIP(c, 1)
  <1>4. d \in Cpus /\ d.ip \in Reach /\ SameButCode(c, d)
    BY <1>1, <1>3, FetchFits
  <1> HIDE DEF d
  <1>5. SameButCode(u, d)
    BY <1>3, <1>4 DEF SameButCode
  <1>6. Fits(d)
    BY <1>1, <1>4, <1>5 DEF Fits, SameButCode, Reach
  <1>7. Decoded(p) = d
    BY DEF Decoded, d, c
  <1> QED
    BY <1>4, <1>5, <1>6, <1>7

LEMMA FlagsFit == ASSUME NEW c \in Cpus PROVE FlagsOf(c) \in Flags
  BY DEF FlagsOf, Flags, Cpus, Bit

LEMMA FlagsComeBack ==
  ASSUME NEW c \in Cpus, NEW w \in Flags
  PROVE  LET x == WithFlags(c, w) IN
         /\ x \in Cpus /\ FlagsOf(x) = w
         /\ x.sp = c.sp /\ x.stack = c.stack /\ x.cs = c.cs /\ x.ip = c.ip /\ x.cx = c.cx
  <1> DEFINE a == (w \div 4) % 2
             b == (w \div 2) % 2
             z == w % 2
             x == [c EXCEPT !.if = a, !.df = b, !.zf = z]
  <1>1. a \in Bit /\ b \in Bit /\ z \in Bit /\ 4 * a + 2 * b + z = w
    BY DEF Flags, Bit
  <1>2. WithFlags(c, w) = x
    BY DEF WithFlags
  <1> HIDE DEF a, b, z
  <1>3. /\ x \in Cpus /\ x.if = a /\ x.df = b /\ x.zf = z
        /\ x.sp = c.sp /\ x.stack = c.stack /\ x.cs = c.cs /\ x.ip = c.ip /\ x.cx = c.cx
    BY <1>1 DEF Cpus
  <1> HIDE DEF x
  <1> QED
    BY <1>1, <1>2, <1>3 DEF FlagsOf

\* w is c with the words ws pushed, the last of them on top, when n are below.
Stacked(c, w, n, ws) ==
  /\ w \in Cpus /\ SameButStack(c, w) /\ w.sp = SpOf(n + Len(ws))
  /\ \A s \in 0 .. Slots - 1 : s >= Slots - n => w.stack[s] = c.stack[s]
  /\ \A k \in 1 .. Len(ws) : w.stack[Slots - n - Len(ws) + k - 1] = ws[k]

LEMMA StackOne ==
  ASSUME NEW c \in Cpus, NEW n \in Nat, n + 1 <= Slots, c.sp = SpOf(n), NEW a \in Int
  PROVE  Stacked(c, Push(c, a), n, <<a>>)
  <1> DEFINE w == Push(c, a)
  <1>1. n \in 0 .. Slots - 1
    BY Sizes
  <1>2. /\ w \in Cpus /\ SameButStack(c, w) /\ w.sp = SpOf(n + 1)
        /\ w.stack[Slots - n - 1] = a
        /\ \A s \in 0 .. Slots - 1 : s >= Slots - n => w.stack[s] = c.stack[s]
    BY <1>1, PushWord
  <1> HIDE DEF w
  <1>3. Len(<<a>>) = 1 /\ <<a>>[1] = a /\ \A k \in 1 .. 1 : k = 1
    OBVIOUS
  <1>4. Slots - n - 1 + 1 - 1 = Slots - n - 1
    BY Sizes
  <1> QED
    BY <1>2, <1>3, <1>4 DEF Stacked, w

\* One word more.
LEMMA StackMore ==
  ASSUME NEW c \in Cpus, NEW w, NEW n \in Nat, NEW ws \in Seq(Int), Stacked(c, w, n, ws),
         n + Len(ws) + 1 <= Slots, NEW a \in Int,
         NEW vs \in Seq(Int), Len(vs) = Len(ws) + 1, vs[1] = a,
         \A k \in 1 .. Len(ws) : vs[k + 1] = ws[k]
  PROVE  Stacked(c, Push(w, a), n, vs)
  <1> DEFINE m == n + Len(ws)
             x == Push(w, a)
  <1>1. m \in 0 .. Slots - 1 /\ w \in Cpus /\ w.sp = SpOf(m) /\ Len(ws) \in Nat
    BY Sizes DEF Stacked
  <1> HIDE DEF m
  <1>2. /\ x \in Cpus /\ SameButStack(w, x) /\ x.sp = SpOf(m + 1) /\ x.stack[Slots - m - 1] = a
        /\ \A s \in 0 .. Slots - 1 : s >= Slots - m => x.stack[s] = w.stack[s]
    BY <1>1, PushWord
  <1> HIDE DEF x
  <1>3. SameButStack(c, x)
    BY <1>2 DEF Stacked, SameButStack
  <1>4. ASSUME NEW s \in 0 .. Slots - 1, s >= Slots - n PROVE x.stack[s] = c.stack[s]
    <2>1. s >= Slots - m
      BY <1>1, <1>4, Sizes DEF m
    <2> QED
      BY <1>2, <1>4, <2>1 DEF Stacked
  <1>5. ASSUME NEW k \in 1 .. Len(vs) PROVE x.stack[Slots - n - Len(vs) + k - 1] = vs[k]
    <2>1. CASE k = 1
      <3>1. Slots - n - Len(vs) + k - 1 = Slots - m - 1
        BY <1>1, <2>1, Sizes DEF m
      <3> QED
        BY <1>2, <2>1, <3>1
    <2>2. CASE k # 1
      <3> DEFINE j == k - 1
                 s == Slots - n - Len(ws) + j - 1
      <3>1. j \in 1 .. Len(ws) /\ j + 1 = k /\ Slots - n - Len(vs) + k - 1 = s
        BY <1>1, <2>2, Sizes
      <3>2. s \in 0 .. Slots - 1 /\ s >= Slots - m
        <4>1. /\ m \in 0 .. Slots - 1 /\ m = n + Len(ws) /\ Len(ws) \in Nat /\ Slots \in Nat
              /\ j \in 1 .. Len(ws) /\ n \in Int
          BY <1>1, <3>1, Sizes DEF m
        <4> HIDE DEF m, j
        <4> QED
          BY ONLY <4>1 DEF s
      <3> HIDE DEF j
      <3>3. w.stack[s] = ws[j]
        BY <3>1 DEF Stacked
      <3> HIDE DEF s
      <3> QED
        BY <1>2, <3>1, <3>2, <3>3
    <2> QED
      BY <2>1, <2>2
  <1>6. m + 1 = n + Len(vs)
    BY <1>1 DEF m
  <1> QED
    BY <1>2, <1>3, <1>4, <1>5, <1>6 DEF Stacked, x

LEMMA StackTwo ==
  ASSUME NEW c \in Cpus, NEW n \in Nat, n + 2 <= Slots, c.sp = SpOf(n), NEW a \in Int, NEW b \in Int
  PROVE  Stacked(c, Push(Push(c, b), a), n, <<a, b>>)
  <1> DEFINE w  == Push(c, b)
             ws == <<b>>
             vs == <<a, b>>
  <1>1. Stacked(c, w, n, ws)
    BY Sizes, StackOne
  <1>2. /\ ws \in Seq(Int) /\ vs \in Seq(Int) /\ Len(ws) = 1 /\ Len(vs) = Len(ws) + 1
        /\ vs[1] = a /\ \A k \in 1 .. Len(ws) : vs[k + 1] = ws[k]
    OBVIOUS
  <1> HIDE DEF w, ws, vs
  <1>3. n + Len(ws) + 1 <= Slots
    BY <1>2
  <1> QED
    BY <1>1, <1>2, <1>3, StackMore DEF w, vs

LEMMA StackThree ==
  ASSUME NEW c \in Cpus, NEW n \in Nat, n + 3 <= Slots, c.sp = SpOf(n),
         NEW a \in Int, NEW b \in Int, NEW d \in Int
  PROVE  Stacked(c, Push(Push(Push(c, d), b), a), n, <<a, b, d>>)
  <1> DEFINE w  == Push(Push(c, d), b)
             ws == <<b, d>>
             vs == <<a, b, d>>
  <1>1. Stacked(c, w, n, ws)
    BY Sizes, StackTwo
  <1>2. /\ ws \in Seq(Int) /\ vs \in Seq(Int) /\ Len(ws) = 2 /\ Len(vs) = Len(ws) + 1
        /\ vs[1] = a /\ \A k \in 1 .. Len(ws) : vs[k + 1] = ws[k]
    OBVIOUS
  <1> HIDE DEF w, ws, vs
  <1>3. n + Len(ws) + 1 <= Slots
    BY <1>2
  <1> QED
    BY <1>1, <1>2, <1>3, StackMore DEF w, vs

LEMMA StackFour ==
  ASSUME NEW c \in Cpus, NEW n \in Nat, n + 4 <= Slots, c.sp = SpOf(n),
         NEW a \in Int, NEW b \in Int, NEW d \in Int, NEW e \in Int
  PROVE  Stacked(c, Push(Push(Push(Push(c, e), d), b), a), n, <<a, b, d, e>>)
  <1> DEFINE w  == Push(Push(Push(c, e), d), b)
             ws == <<b, d, e>>
             vs == <<a, b, d, e>>
  <1>1. Stacked(c, w, n, ws)
    BY Sizes, StackThree
  <1>2. /\ ws \in Seq(Int) /\ vs \in Seq(Int) /\ Len(ws) = 3 /\ Len(vs) = Len(ws) + 1
        /\ vs[1] = a /\ \A k \in 1 .. Len(ws) : vs[k + 1] = ws[k]
    OBVIOUS
  <1> HIDE DEF w, ws, vs
  <1>3. n + Len(ws) + 1 <= Slots
    BY <1>2
  <1> QED
    BY <1>1, <1>2, <1>3, StackMore DEF w, vs

\* What a return reads off the stack, and where it leaves sp.
LEMMA FrameRead ==
  ASSUME NEW c \in Cpus, NEW fs, Nested(fs), Carries(c, fs), fs # << >>
  PROVE  LET f == Head(fs)
             w == Popped(c, Len(f.words))
         IN /\ Top(c) = f.words[1]
            /\ \A m \in 1 .. Len(f.words) - 1 : Top(Popped(c, m)) = f.words[m + 1]
            /\ w \in Cpus /\ SameButStack(c, w) /\ Nested(Tail(fs)) /\ Carries(w, Tail(fs))
  <1> DEFINE f == Head(fs)
             l == Len(f.words)
             n == DepthOf(fs)
             w == Popped(c, l)
  <1>1. /\ n = f.base + l /\ f.base \in Nat /\ l \in 1 .. n /\ n \in 1 .. Slots /\ n \in 0 .. Slots
        /\ c.sp = Slots - n /\ c.sp = SpOf(n) /\ Slots \in Nat
        /\ \A k \in 1 .. l : /\ Slots - n + k - 1 \in 0 .. Slots - 1
                             /\ c.stack[Slots - n + k - 1] = f.words[k]
    <2>1. /\ n = f.base + l /\ f.base \in Nat /\ l \in 1 .. n /\ n \in 1 .. Slots /\ c.sp = Slots - n
          /\ \A k \in 1 .. l : /\ Slots - n + k - 1 \in 0 .. Slots - 1
                               /\ c.stack[Slots - n + k - 1] = f.words[k]
      BY FrameOnTop
    <2> HIDE DEF l, n, f
    <2>0. n \in 1 .. Slots
      BY <2>1
    <2>2. n \in 0 .. Slots /\ n # 0 /\ Slots \in Nat
      BY <2>0, Sizes
    <2>3. c.sp = SpOf(n)
      BY <2>1, <2>2 DEF SpOf
    <2> QED
      BY <2>1, <2>2, <2>3
  <1> HIDE DEF f, l, n
  <1>2. Top(c) = f.words[1]
    <2>1. 1 \in 1 .. l /\ Slots - n + 1 - 1 = Slots - n
      BY <1>1
    <2> QED
      BY <1>1, <2>1 DEF Top
  <1>3. ASSUME NEW m \in 1 .. l - 1 PROVE Top(Popped(c, m)) = f.words[m + 1]
    <2> DEFINE x == Popped(c, m)
    <2>0. l \in Nat /\ n \in Nat /\ 1 <= l /\ l <= n /\ n <= Slots /\ Slots \in Nat
      BY <1>1
    <2>1. m \in 1 .. n /\ m + 1 \in 1 .. l /\ n - m # 0
      BY <2>0
    <2>2. /\ x.sp = SpOf(n - m)
          /\ \A s \in 0 .. Slots - 1 : s >= Slots - n + m => x.stack[s] = c.stack[s]
      BY <1>1, <2>1, PopWords
    <2> HIDE DEF x
    <2>3. Slots - n + (m + 1) - 1 = Slots - n + m /\ n - m \in Int /\ Slots - (n - m) = Slots - n + m
      BY <2>0
    <2>4. Slots - n + m \in 0 .. Slots - 1 /\ c.stack[Slots - n + m] = f.words[m + 1]
      BY <1>1, <2>1, <2>3
    <2>5. x.sp = Slots - n + m
      <3>1. SpOf(n - m) = Slots - n + m
        BY <2>1, <2>3 DEF SpOf
      <3> QED
        BY <2>2, <3>1
    <2>6. x.stack[Slots - n + m] = c.stack[Slots - n + m]
      <3> DEFINE s == Slots - n + m
      <3>1. s \in 0 .. Slots - 1 /\ s >= s
        BY <2>0, <2>4
      <3> HIDE DEF s
      <3>2. s >= Slots - n + m
        BY <3>1 DEF s
      <3>3. x.stack[s] = c.stack[s]
        BY <2>2, <3>1, <3>2
      <3> QED
        BY <3>3 DEF s
    <2> QED
      BY <2>4, <2>5, <2>6 DEF Top, x
  <1>4. /\ w \in Cpus /\ SameButStack(c, w) /\ w.sp = SpOf(n - l)
        /\ \A s \in 0 .. Slots - 1 : s >= Slots - n + l => w.stack[s] = c.stack[s]
    BY <1>1, PopWords
  <1>5. n - l = f.base /\ Slots - n + l = Slots - f.base
    <2>1. n = f.base + l /\ f.base \in Nat /\ l \in Nat /\ n \in Nat /\ Slots \in Nat
      BY <1>1
    <2> QED
      BY ONLY <2>1
  <1> HIDE DEF w
  <1>6. Nested(Tail(fs)) /\ Carries(w, Tail(fs))
    BY <1>4, <1>5, FrameDropped DEF f
  <1> QED
    BY <1>2, <1>3, <1>4, <1>6 DEF w, l, f

-----------------------------------------------------------------------------
(* Ticks.                                                                  *)

\* c has what the frame f saved.
BackFrom(c, f) ==
  /\ f.kind = "near" => c.ip = f.words[1] /\ CodeSegment(c.cs) = CodeSegment(f.cs)
  /\ f.kind \in {"far", "interrupt"} =>
       /\ c.cs = f.words[2] /\ c.ip = f.words[1]
       /\ f.cs < 2 * Segments => CodeSegment(c.cs) = CodeSegment(f.cs)
  /\ f.kind = "interrupt" => FlagsOf(c) = f.words[3]
  /\ f.kind = "flags" => FlagsOf(c) = f.words[1]
  /\ f.kind = "register" => c.ax = f.words[1]
  /\ f.kind = "all" => c.di = f.words[1] /\ c.cx = f.words[3] /\ c.ax = f.words[4]

GivesBack == Len(frames') < Len(frames) => BackFrom(u', Head(frames))

\* Only an unknown opcode leaves prefixes to the next instruction.
KeepsPrefixes ==
  Unprefixed(u) /\ ~Unprefixed(u') /\ u'.state = "running" => \E p \in Prefixes : Undefined(p)

\* What is proved of a step.
Sound == IInv' /\ GivesBack /\ KeepsPrefixes

LEMMA Lengths ==
  ASSUME IInv
  PROVE  /\ frames \in Seq(Frames) /\ Len(frames) \in Nat
         /\ \A f \in Frames : Len(<<f>> \o frames) = Len(frames) + 1
  BY DEF IInv, Nested

LEMMA ClearedFits ==
  ASSUME NEW c, Fits(c)
  PROVE  LET w == Cleared(c) IN
         /\ Fits(w) /\ w.ip = c.ip /\ w.cx = c.cx /\ w.sp = c.sp /\ w.stack = c.stack
         /\ w.cs = c.cs /\ w.ax = c.ax /\ w.di = c.di /\ FlagsOf(w) = FlagsOf(c)
         /\ w.instruction = "none" /\ w.segment = "none"
  BY DEF Fits, Cleared, Cpus, Prefixes, FlagsOf

LEMMA CarriesSame ==
  ASSUME NEW c, NEW w, w.sp = c.sp, w.stack = c.stack, NEW fs, Carries(c, fs)
  PROVE  Carries(w, fs)
  BY DEF Carries

\* The stack is that of the tick before until the instruction is executed.
LEMMA Before ==
  ASSUME IInv, NEW p \in Prefixes
  PROVE  LET d == Decoded(p) IN
         /\ d \in Cpus /\ Fits(d) /\ d.ip \in Reach /\ SameButCode(u, d)
         /\ Nested(frames) /\ Carries(d, frames) /\ d.sp = SpOf(Depth)
         /\ Depth = DepthOf(frames) /\ Depth \in Nat
  <1> DEFINE d == Decoded(p)
  <1>1. d \in Cpus /\ Fits(d) /\ d.ip \in Reach /\ SameButCode(u, d)
    BY DecodedFits
  <1> HIDE DEF d
  <1>2. Nested(frames) /\ Carries(d, frames)
    BY <1>1, CarriesSame DEF IInv, SameButCode
  <1>3. Depth = DepthOf(frames)
    BY DEF Depth, DepthOf
  <1>4. Depth \in Nat
    <2>1. CASE frames = << >>
      BY <2>1 DEF Depth
    <2>2. CASE frames # << >>
      <3>1. DepthOf(frames) \in 1 .. Slots
        BY <1>1, <1>2, <2>2, FrameOnTop
      <3> QED
        BY <1>3, <3>1, Sizes
    <2> QED
      BY <2>1, <2>2
  <1> QED
    BY <1>1, <1>2, <1>3, <1>4 DEF Carries, d

LEMMA Executed ==
  ASSUME IInv, NEW i, NEW p \in Prefixes, NEW next, NEW fs, Executes(i, p, next, fs),
         Fits(next), Nested(fs), Carries(next, fs),
         Len(fs) < Len(frames) => BackFrom(next, Head(frames))
  PROVE  Sound
  <1> DEFINE d == Decoded(p)
             w == Cleared(next)
             x == [d EXCEPT !.state = "thrown"]
  <1>1. uses' \in Programs /\ next.ip >= MinIp /\ next.cx >= MinCx
    BY DEF IInv, Executes
  <1>2. CASE u' = x /\ frames' = frames
    <2>1. d \in Cpus /\ Fits(d) /\ d.ip \in Reach /\ SameButCode(u, d) /\ Nested(frames) /\ Carries(d, frames)
      BY Before
    <2> HIDE DEF d
    <2>2. Fits(x) /\ x.ip = d.ip /\ x.cx = d.cx /\ x.sp = d.sp /\ x.stack = d.stack /\ x.state = "thrown"
      BY <2>1 DEF Fits, Cpus
    <2> HIDE DEF x
    <2>3. Carries(x, frames)
      BY <2>1, <2>2, CarriesSame
    <2>4. x.ip >= MinIp /\ x.cx >= MinCx
      BY <2>1, <2>2, Sizes DEF IInv, SameButCode, Reach
    <2>5. IInv'
      BY <1>1, <1>2, <2>1, <2>2, <2>3, <2>4 DEF IInv
    <2> QED
      BY <1>2, <2>2, <2>5, Lengths DEF Sound, GivesBack, KeepsPrefixes
  <1>3. CASE u' = w /\ frames' = fs
    <2>1. /\ Fits(w) /\ w.ip = next.ip /\ w.cx = next.cx /\ w.sp = next.sp /\ w.stack = next.stack
          /\ w.cs = next.cs /\ w.ax = next.ax /\ w.di = next.di /\ FlagsOf(w) = FlagsOf(next)
          /\ Unprefixed(w)
      BY ClearedFits DEF Unprefixed
    <2> HIDE DEF w
    <2>2. Carries(w, fs)
      BY <2>1, CarriesSame
    <2>3. IInv'
      BY <1>1, <1>3, <2>1, <2>2 DEF IInv
    <2>4. GivesBack
      BY <1>3, <2>1 DEF GivesBack, BackFrom
    <2>5. KeepsPrefixes
      BY <1>3, <2>1 DEF KeepsPrefixes
    <2> QED
      BY <2>3, <2>4, <2>5 DEF Sound
  <1> QED
    BY <1>2, <1>3 DEF Executes

\* An instruction that leaves the stack alone.
LEMMA MovedOn ==
  ASSUME IInv, NEW i, NEW p \in Prefixes, NEW next, Executes(i, p, next, frames),
         Fits(next), next.sp = u.sp, next.stack = u.stack
  PROVE  Sound
  <1>1. Nested(frames) /\ Carries(next, frames)
    BY CarriesSame DEF IInv
  <1> QED
    BY <1>1, Executed, Lengths

LEMMA FrameFits ==
  ASSUME IInv, NEW kind \in {"register", "flags", "all", "near", "far", "interrupt"},
         NEW words \in Seq(Int), NEW cs \in Nat
  PROVE  LET f == Frame(kind, words, cs) IN
         /\ f \in Frames /\ f.kind = kind /\ f.words = words /\ f.cs = cs /\ f.base = Depth
  <1>1. Depth \in Nat
    BY Before DEF Prefixes
  <1> QED
    BY <1>1 DEF Frame, Frames

\* A frame is saved when its words have been pushed onto c.
LEMMA FrameLies ==
  ASSUME IInv, NEW f \in Frames, NEW c \in Cpus, c.sp = u.sp, c.stack = u.stack,
         NEW w, Stacked(c, w, Depth, f.words), f.base = Depth, WordsOf(f),
         Depth + Len(f.words) <= Slots,
         NEW next \in Cpus, next.sp = w.sp, next.stack = w.stack
  PROVE  Nested(<<f>> \o frames) /\ Carries(next, <<f>> \o frames)
  <1>1. Nested(frames) /\ Carries(c, frames) /\ Depth = DepthOf(frames)
    BY CarriesSame, Before DEF IInv, Prefixes
  <1>2. next.sp = SpOf(f.base + Len(f.words))
    BY DEF Stacked
  <1>3. \A s \in 0 .. Slots - 1 : s >= Slots - f.base => next.stack[s] = c.stack[s]
    BY DEF Stacked
  <1>4. \A k \in 1 .. Len(f.words) : next.stack[Slots - f.base - Len(f.words) + k - 1] = f.words[k]
    BY DEF Stacked
  <1> QED
    BY <1>1, <1>2, <1>3, <1>4, FramePushed

LEMMA SavedOn ==
  ASSUME IInv, NEW i, NEW p \in Prefixes, NEW next, NEW f \in Frames,
         Executes(i, p, next, <<f>> \o frames),
         NEW c \in Cpus, c.sp = u.sp, c.stack = u.stack,
         NEW w, Stacked(c, w, Depth, f.words), f.base = Depth, WordsOf(f),
         Depth + Len(f.words) <= Slots,
         Fits(next), next.sp = w.sp, next.stack = w.stack
  PROVE  Sound
  <1>1. Nested(<<f>> \o frames) /\ Carries(next, <<f>> \o frames)
    BY FrameLies DEF Fits
  <1>2. ~(Len(<<f>> \o frames) < Len(frames))
    BY Lengths
  <1> QED
    BY <1>1, <1>2, Executed

\* What a frame holds lies on the stack of the decoded instruction.
LEMMA ReadBack ==
  ASSUME IInv, NEW p \in Prefixes, frames # << >>
  PROVE  LET d == Decoded(p)
             f == Head(frames)
             w == Popped(d, Len(f.words))
         IN /\ d \in Cpus /\ Fits(d) /\ SameButCode(u, d)
            /\ f \in Frames /\ WordsOf(f) /\ Top(d) = f.words[1]
            /\ \A m \in 1 .. Len(f.words) - 1 : Top(Popped(d, m)) = f.words[m + 1]
            /\ w \in Cpus /\ SameButStack(d, w) /\ Fits(w)
            /\ Nested(Tail(frames)) /\ Carries(w, Tail(frames))
  <1> DEFINE d == Decoded(p)
             f == Head(frames)
             w == Popped(d, Len(f.words))
  <1>1. d \in Cpus /\ Fits(d) /\ SameButCode(u, d) /\ Nested(frames) /\ Carries(d, frames)
    BY Before
  <1> HIDE DEF d
  <1>2. f \in Frames /\ WordsOf(f)
    BY <1>1, FrameOnTop
  <1>3. /\ Top(d) = f.words[1]
        /\ \A m \in 1 .. Len(f.words) - 1 : Top(Popped(d, m)) = f.words[m + 1]
        /\ w \in Cpus /\ SameButStack(d, w) /\ Nested(Tail(frames)) /\ Carries(w, Tail(frames))
    BY <1>1, FrameRead
  <1> HIDE DEF w
  <1>4. Fits(w)
    BY <1>1, <1>3 DEF Fits, SameButStack
  <1> QED
    BY <1>1, <1>2, <1>3, <1>4 DEF d, w

LEMMA RestoredOn ==
  ASSUME IInv, NEW i, NEW p \in Prefixes, NEW next, frames # << >>,
         Executes(i, p, next, Tail(frames)), Fits(next),
         next.sp = Popped(Decoded(p), Len(Head(frames).words)).sp,
         next.stack = Popped(Decoded(p), Len(Head(frames).words)).stack,
         BackFrom(next, Head(frames))
  PROVE  Sound
  <1> DEFINE w == Popped(Decoded(p), Len(Head(frames).words))
  <1>1. Nested(Tail(frames)) /\ Carries(w, Tail(frames))
    BY ReadBack
  <1>2. next.sp = w.sp /\ next.stack = w.stack
    OBVIOUS
  <1> HIDE DEF w
  <1>3. Carries(next, Tail(frames))
    BY <1>1, <1>2, CarriesSame
  <1> QED
    BY <1>1, <1>3, Executed

-----------------------------------------------------------------------------
(* Instructions that leave the stack alone.                                *)

LEMMA JumpFits ==
  ASSUME NEW c, Fits(c), NEW r \in Relatives
  PROVE  LET w == RelativeJump(c, r) IN Fits(w) /\ SameButCode(c, w) /\ w.cs = c.cs
  <1> DEFINE ip == IF c.ip + r > SegmentSize THEN (c.ip + r) % Byte ELSE c.ip + r
  <1>1. r \in Int /\ c.ip \in Int /\ c \in Cpus
    BY X86CPUAssumption DEF Fits, Cpus
  <1>2. (c.ip + r) % Byte \in 0 .. Byte - 1
    BY <1>1, Sizes
  <1>3. ip \in Int /\ ip <= SegmentSize
    BY <1>1, <1>2, Sizes
  <1>4. RelativeJump(c, r) = [c EXCEPT !.ip = ip]
    BY DEF RelativeJump
  <1> HIDE DEF ip
  <1> QED
    BY <1>1, <1>3, <1>4 DEF Fits, Cpus, SameButCode

\* Fetching more of an instruction.
LEMMA FetchMore ==
  ASSUME NEW c, Fits(c), c.ip \in Reach, NEW size \in 1 .. 3
  PROVE  LET w == IncrementIP(c, size) IN Fits(w) /\ w.ip \in Reach /\ SameButCode(c, w)
  <1> DEFINE w == IncrementIP(c, size)
  <1>1. w \in Cpus /\ w.ip \in Reach /\ SameButCode(c, w)
    BY FetchFits DEF Fits
  <1> HIDE DEF w
  <1> QED
    BY <1>1, Sizes DEF w, Fits, SameButCode, Reach

LEMMA MovSound == ASSUME IInv, NEW p \in Prefixes, MOV(p) PROVE Sound
  <1> DEFINE d == Decoded(p)
  <1>1. d \in Cpus /\ Fits(d) /\ SameButCode(u, d)
    BY Before
  <1>2. ASSUME NEW v \in Bit, Executes("MOV", p, [d EXCEPT !.ax = v], frames) PROVE Sound
    <2> DEFINE next == [d EXCEPT !.ax = v]
    <2> HIDE DEF d
    <2>1. Fits(next) /\ next.sp = u.sp /\ next.stack = u.stack
      BY <1>1 DEF Fits, Cpus, SameButCode
    <2> HIDE DEF next
    <2> QED
      BY <1>2, <2>1, MovedOn DEF next
  <1>3. ASSUME NEW v \in 0 .. Word - 1, Executes("MOV", p, [d EXCEPT !.cx = v], frames) PROVE Sound
    <2> DEFINE next == [d EXCEPT !.cx = v]
    <2> HIDE DEF d
    <2>1. v \in Int /\ v <= Word - 1
      BY Sizes
    <2>2. Fits(next) /\ next.sp = u.sp /\ next.stack = u.stack
      BY <1>1, <2>1 DEF Fits, Cpus, SameButCode
    <2> HIDE DEF next
    <2> QED
      BY <1>3, <2>2, MovedOn DEF next
  <1>4. ASSUME NEW v \in 0 .. Word - 1, Executes("MOV", p, [d EXCEPT !.di = v], frames) PROVE Sound
    <2> DEFINE next == [d EXCEPT !.di = v]
    <2> HIDE DEF d
    <2>1. Fits(next) /\ next.sp = u.sp /\ next.stack = u.stack
      BY <1>1 DEF Fits, Cpus, SameButCode
    <2> HIDE DEF next
    <2> QED
      BY <1>4, <2>1, MovedOn DEF next
  <1> QED
    BY <1>2, <1>3, <1>4 DEF MOV

LEMMA FlagsSound ==
  ASSUME IInv, NEW p \in Prefixes, CMP(p) \/ SetIF(p) \/ SetDF(p)
  PROVE  Sound
  <1> DEFINE d == Decoded(p)
  <1>1. d \in Cpus /\ Fits(d) /\ SameButCode(u, d)
    BY Before
  <1>2. ASSUME NEW i, NEW v \in Bit,
               NEW next \in {[d EXCEPT !.zf = v], [d EXCEPT !.if = v], [d EXCEPT !.df = v]},
               Executes(i, p, next, frames)
        PROVE  Sound
    <2> HIDE DEF d
    <2>1. Fits(next) /\ next.sp = u.sp /\ next.stack = u.stack
      BY <1>1 DEF Fits, Cpus, SameButCode
    <2> QED
      BY <1>2, <2>1, MovedOn
  <1> QED
    BY <1>2 DEF CMP, SetIF, SetDF

LEMMA JumpsSound ==
  ASSUME IInv, NEW p \in Prefixes, JMP(p) \/ LOOP(p) \/ LOOPNE(p)
  PROVE  Sound
  <1> DEFINE d == Decoded(p)
             x == IncrementIP(d, 1)
             c == [x EXCEPT !.cx = @ - 1]
  <1>1. d \in Cpus /\ Fits(d) /\ d.ip \in Reach /\ SameButCode(u, d) /\ 1 \in 1 .. 3
    BY Before
  <1>2. Fits(x) /\ x.ip \in Reach /\ SameButCode(d, x)
    BY <1>1, FetchMore
  <1>3. Fits(c) /\ c.sp = x.sp /\ c.stack = x.stack
    <2> HIDE DEF d, x
    <2>1. x \in Cpus /\ x.cx \in Int /\ x.cx <= Word - 1 /\ x.ip <= SegmentSize /\ x.cx - 1 \in Int
      BY <1>2 DEF Fits, Cpus
    <2>2. c \in Cpus /\ c.ip = x.ip /\ c.cx = x.cx - 1 /\ c.sp = x.sp /\ c.stack = x.stack
      BY <2>1 DEF Cpus
    <2> QED
      BY <2>1, <2>2, Sizes DEF Fits
  <1>4. ASSUME NEW i, NEW r \in Relatives,
               NEW next \in {RelativeJump(x, r), RelativeJump(c, r), c},
               Executes(i, p, next, frames)
        PROVE  Sound
    <2> HIDE DEF c, x, d
    <2>1. Fits(next) /\ next.sp = u.sp /\ next.stack = u.stack
      BY <1>1, <1>2, <1>3, JumpFits DEF SameButCode
    <2> QED
      BY <1>4, <2>1, MovedOn
  <1> QED
    BY <1>4 DEF JMP, LOOP, LOOPNE, Looped

LEMMA DeviceSound == ASSUME IInv, NEW p \in Prefixes, INTDevice(p) PROVE Sound
  <1> DEFINE d == Decoded(p)
             x == IncrementIP(d, 1)
  <1>1. d \in Cpus /\ Fits(d) /\ d.ip \in Reach /\ SameButCode(u, d) /\ 1 \in 1 .. 3
    BY Before
  <1>2. Fits(x) /\ SameButCode(d, x)
    BY <1>1, FetchMore
  <1>3. PICK v \in Bit : Executes("INT", p, [x EXCEPT !.ax = v], frames)
    BY DEF INTDevice
  <1> HIDE DEF d, x
  <1> DEFINE next == [x EXCEPT !.ax = v]
  <1>4. Fits(next) /\ next.sp = u.sp /\ next.stack = u.stack
    BY <1>1, <1>2 DEF Fits, Cpus, SameButCode
  <1> HIDE DEF next
  <1> QED
    BY <1>3, <1>4, MovedOn DEF next

-----------------------------------------------------------------------------
(* Instructions that save.                                                 *)

LEMMA PushSound == ASSUME IInv, NEW p \in Prefixes, PUSH(p) \/ PUSHF(p) PROVE Sound
  <1> DEFINE d == Decoded(p)
  <1>1. d \in Cpus /\ Fits(d) /\ SameButCode(u, d) /\ d.sp = SpOf(Depth) /\ Depth \in Nat /\ u \in Cpus
    BY Before DEF IInv, Fits
  <1>2. ASSUME NEW i, NEW kind \in {"register", "flags"}, NEW val \in Int,
               Saves(i, p, 1, Push(d, val), Frame(kind, <<val>>, u.cs)),
               kind = "register" => val \in Bit,
               kind = "flags" => val \in Flags
        PROVE  Sound
    <2> HIDE DEF d
    <2> DEFINE ws == <<val>>
               f  == Frame(kind, ws, u.cs)
               w  == Push(d, val)
    <2>1. ws \in Seq(Int) /\ Len(ws) = 1 /\ ws[1] = val /\ u.cs \in Nat
      BY <1>1 DEF Cpus
    <2>2. Depth + 1 <= Slots
      BY <1>2 DEF Saves, Room
    <2>3. Stacked(d, w, Depth, ws)
      BY <1>1, <2>2, StackOne
    <2>4. Executes(i, p, w, <<f>> \o frames)
      BY <1>2 DEF Saves
    <2> HIDE DEF w, ws
    <2>5. f \in Frames /\ f.kind = kind /\ f.words = ws /\ f.base = Depth
      BY <2>1, FrameFits
    <2> HIDE DEF f
    <2>6. WordsOf(f)
      BY <1>2, <2>1, <2>5 DEF WordsOf
    <2>7. Fits(w)
      BY <1>1, <2>3 DEF Stacked, Fits, SameButStack
    <2> QED
      BY <1>1, <2>1, <2>2, <2>3, <2>4, <2>5, <2>6, <2>7, SavedOn DEF SameButCode
  <1>3. u.ax \in Bit /\ u.ax \in Int /\ FlagsOf(u) \in Flags /\ FlagsOf(u) \in Int
    <2>1. u.ax \in Bit
      BY <1>1 DEF Cpus
    <2>2. FlagsOf(u) \in Flags
      BY <1>1, FlagsFit
    <2> QED
      BY <2>1, <2>2 DEF Bit, Flags
  <1>4. CASE PUSH(p)
    BY <1>2, <1>3, <1>4 DEF PUSH
  <1>5. CASE PUSHF(p)
    BY <1>2, <1>3, <1>5 DEF PUSHF
  <1> QED
    BY <1>4, <1>5

LEMMA PushAllSound == ASSUME IInv, NEW p \in Prefixes, PUSHA(p) PROVE Sound
  <1> DEFINE d  == Decoded(p)
             cx == ToUnsigned(u.cx, Word)
             ws == <<u.di, u.sp, cx, u.ax>>
             f  == Frame("all", ws, u.cs)
             w  == Push(Push(Push(Push(d, u.ax), cx), u.sp), u.di)
  <1>1. d \in Cpus /\ Fits(d) /\ SameButCode(u, d) /\ d.sp = SpOf(Depth) /\ Depth \in Nat /\ u \in Cpus
    BY Before DEF IInv, Fits
  <1>2. Saves("PUSHA", p, 4, w, f)
    <2>1. d.ax = u.ax /\ d.cx = u.cx /\ d.sp = u.sp /\ d.di = u.di
      BY <1>1 DEF SameButCode
    <2>2. Saves("PUSHA", p, 4, Push(Push(Push(Push(d, d.ax), ToUnsigned(d.cx, Word)), d.sp), d.di), f)
      BY DEF PUSHA
    <2> HIDE DEF d, f
    <2> QED
      BY <2>1, <2>2
  <1>3. u.di \in 0 .. Word - 1 /\ u.sp \in Int /\ cx \in MinCx .. Word - 1 /\ u.ax \in Bit
    <2>1. u.di \in 0 .. Word - 1 /\ u.sp \in 0 .. Slots - 1 /\ u.ax \in Bit /\ u.cx \in Int
      BY <1>1 DEF Cpus
    <2>2. MinCx <= u.cx /\ u.cx <= Word - 1
      BY DEF IInv, Fits
    <2>3. cx \in MinCx .. Word - 1
      BY <2>1, <2>2, Sizes DEF ToUnsigned
    <2> QED
      BY <2>1, <2>3, Sizes
  <1>4. u.di \in Int /\ cx \in Int /\ u.ax \in Int
    BY <1>3, Sizes DEF Bit
  <1> HIDE DEF d, cx
  <1>5. ws \in Seq(Int) /\ Len(ws) = 4 /\ ws[1] = u.di /\ ws[3] = cx /\ ws[4] = u.ax
    BY <1>3, <1>4
  <1>6. Depth + 4 <= Slots
    BY <1>2 DEF Saves, Room
  <1>7. Stacked(d, w, Depth, ws)
    BY <1>1, <1>3, <1>4, <1>6, StackFour
  <1>8. Executes("PUSHA", p, w, <<f>> \o frames)
    BY <1>2 DEF Saves
  <1> HIDE DEF w, ws
  <1>9. f \in Frames /\ f.kind = "all" /\ f.words = ws /\ f.base = Depth
    <2>1. u.cs \in Nat
      BY <1>1 DEF Cpus
    <2> HIDE DEF f
    <2>2. f = Frame("all", ws, u.cs)
      BY DEF f
    <2> QED
      BY <2>1, <2>2, <1>5, FrameFits
  <1> HIDE DEF f
  <1>10. WordsOf(f)
    BY <1>3, <1>5, <1>9 DEF WordsOf
  <1>11. Fits(w)
    BY <1>1, <1>7 DEF Stacked, Fits, SameButStack
  <1> QED
    BY <1>1, <1>5, <1>6, <1>7, <1>8, <1>9, <1>10, <1>11, SavedOn DEF SameButCode

\* The address that CALL pushes is that behind the displacement.
LEMMA CallSound == ASSUME IInv, NEW p \in Prefixes, CALL(p) PROVE Sound
  <1> DEFINE d    == Decoded(p)
             back == IncrementIP(d, 2)
             val  == ToUnsigned(d.ip + 2, SegmentSize)
             w    == Push(d, val)
             x    == IncrementIP(w, 2)
  <1>1. d \in Cpus /\ Fits(d) /\ d.ip \in Reach /\ SameButCode(u, d) /\ d.sp = SpOf(Depth)
        /\ Depth \in Nat /\ 2 \in 1 .. 3 /\ d.ip \in Int
    BY Before DEF Fits, Cpus
  <1>2. back \in Cpus /\ Offset(back) = val
    BY <1>1, FetchFits DEF Offset
  <1>3. PICK r \in Relatives :
          Saves("CALL", p, 1, RelativeJump(x, r), Frame("near", <<Offset(back)>>, back.cs))
    BY DEF CALL, Called
  <1>4. val \in Offsets
    BY <1>2, InSegment DEF Offset, Cpus
  <1> HIDE DEF d, back, val
  <1> DEFINE ws == <<val>>
             f  == Frame("near", ws, back.cs)
             next == RelativeJump(x, r)
  <1>5. val \in Int /\ ws \in Seq(Int) /\ Len(ws) = 1 /\ ws[1] = val
    BY <1>4, Sizes DEF Offsets
  <1>6. Depth + 1 <= Slots
    BY <1>3 DEF Saves, Room
  <1>7. Stacked(d, w, Depth, ws)
    BY <1>1, <1>5, <1>6, StackOne
  <1>8. Executes("CALL", p, next, <<f>> \o frames)
    BY <1>2, <1>3 DEF Saves
  <1> HIDE DEF w
  <1>9. Fits(w) /\ w.ip \in Reach
    BY <1>1, <1>7 DEF Stacked, Fits, SameButStack
  <1>10. Fits(x) /\ SameButCode(w, x)
    BY <1>1, <1>9, FetchMore
  <1> HIDE DEF x
  <1>11. Fits(next) /\ SameButCode(x, next)
    BY <1>10, JumpFits
  <1> HIDE DEF next, ws
  <1>12. f \in Frames /\ f.kind = "near" /\ f.words = ws /\ f.base = Depth
    <2>1. back.cs \in Nat
      BY <1>2 DEF Cpus
    <2> HIDE DEF f
    <2>2. f = Frame("near", ws, back.cs)
      BY DEF f
    <2> QED
      BY <2>1, <2>2, <1>5, FrameFits
  <1> HIDE DEF f
  <1>13. WordsOf(f)
    BY <1>4, <1>5, <1>12 DEF WordsOf
  <1>14. next.sp = w.sp /\ next.stack = w.stack /\ d.sp = u.sp /\ d.stack = u.stack
    BY <1>1, <1>10, <1>11 DEF SameButCode
  <1> QED
    BY <1>1, <1>5, <1>6, <1>7, <1>8, <1>11, <1>12, <1>13, <1>14, SavedOn

LEMMA CallFarSound == ASSUME IInv, NEW p \in Prefixes, CALLF(p) PROVE Sound
  <1> DEFINE e    == Decoded(p)
             d    == IncrementIP(e, 3)
             ip   == Offset(d)
             cs   == Selector(d)
             ws   == <<ip, cs>>
             f    == Frame("far", ws, d.cs)
             w    == Push(Push(d, cs), ip)
             next == AbsoluteJump(w, 0, 0)
  <1>1. Fits(e) /\ e.ip \in Reach /\ SameButCode(u, e) /\ e.sp = SpOf(Depth) /\ Depth \in Nat
        /\ 3 \in 1 .. 3
    BY Before
  <1>2. Fits(d) /\ SameButCode(e, d)
    BY <1>1, FetchMore
  <1>3. Saves("CALLF", p, 2, next, f)
    BY DEF CALLF
  <1> HIDE DEF e, d
  <1>4. d \in Cpus /\ d.sp = u.sp /\ d.stack = u.stack /\ d.sp = SpOf(Depth) /\ d.cs \in Nat
        /\ d.ip \in Int
    BY <1>1, <1>2 DEF SameButCode, Fits, Cpus
  <1>5. ip \in Offsets /\ cs \in Nat /\ Saved(cs, d.cs)
    BY <1>4, InSegment, InCode DEF Offset, Selector, Saved
  <1> HIDE DEF ip, cs
  <1>6. ip \in Int /\ cs \in Int /\ ws \in Seq(Int) /\ Len(ws) = 2 /\ ws[1] = ip /\ ws[2] = cs
    BY <1>4, <1>5, Sizes DEF Offsets
  <1>7. Depth + 2 <= Slots
    BY <1>3 DEF Saves, Room
  <1>8. Stacked(d, w, Depth, ws)
    BY <1>1, <1>4, <1>6, <1>7, StackTwo
  <1>9. Executes("CALLF", p, next, <<f>> \o frames)
    BY <1>3 DEF Saves
  <1> HIDE DEF w, ws
  <1>10. Fits(next) /\ next.sp = w.sp /\ next.stack = w.stack
    <2>1. w \in Cpus /\ w.cx <= Word - 1
      BY <1>2, <1>8 DEF Stacked, SameButStack, Fits
    <2>2. 0 \in Nat /\ 0 \in Int /\ 0 <= SegmentSize
      BY Sizes
    <2> QED
      BY <2>1, <2>2 DEF AbsoluteJump, Fits, Cpus
  <1> HIDE DEF next
  <1>11. f \in Frames /\ f.kind = "far" /\ f.words = ws /\ f.base = Depth /\ f.cs = d.cs
    BY <1>4, <1>6, FrameFits
  <1> HIDE DEF f
  <1>12. WordsOf(f)
    BY <1>4, <1>5, <1>6, <1>11 DEF WordsOf
  <1> QED
    BY <1>4, <1>6, <1>7, <1>8, <1>9, <1>10, <1>11, <1>12, SavedOn

-----------------------------------------------------------------------------
(* Interrupts.                                                             *)

LEMMA InterruptFits ==
  ASSUME NEW c, Fits(c), NEW n \in Nat, n + 3 <= Slots, c.sp = SpOf(n),
         NEW cs \in Nat, NEW ip \in Offsets
  PROVE  LET w    == Push(Push(Push(c, FlagsOf(c)), cs), ip)
             next == Interrupted(c, cs, ip)
         IN /\ Stacked(c, w, n, <<ip, cs, FlagsOf(c)>>)
            /\ Fits(next) /\ next.sp = w.sp /\ next.stack = w.stack
  <1> DEFINE fl   == FlagsOf(c)
             w    == Push(Push(Push(c, fl), cs), ip)
             next == [w EXCEPT !.if = 0, !.ip = 0, !.cs = 0]
  <1>1. c \in Cpus /\ fl \in Flags /\ fl \in Int /\ cs \in Int /\ ip \in Int
    <2>1. c \in Cpus /\ fl \in Flags
      BY FlagsFit DEF Fits
    <2> QED
      BY <2>1, Sizes DEF Flags, Offsets
  <1> HIDE DEF fl
  <1>2. Stacked(c, w, n, <<ip, cs, fl>>)
    BY <1>1, StackThree
  <1>3. Interrupted(c, cs, ip) = next
    BY DEF Interrupted, AbsoluteJump, fl
  <1> HIDE DEF w
  <1>4. w \in Cpus /\ w.cx <= Word - 1
    BY <1>2 DEF Stacked, SameButStack, Fits
  <1>5. 0 \in Nat /\ 0 \in Int /\ 0 <= SegmentSize /\ 0 \in Bit
    BY Sizes DEF Bit
  <1>6. Fits(next) /\ next.sp = w.sp /\ next.stack = w.stack
    BY <1>4, <1>5 DEF Fits, Cpus
  <1> HIDE DEF next
  <1> QED
    BY <1>2, <1>3, <1>6 DEF w, fl

\* An interrupt saves flags, segment and offset, and its handler runs.
LEMMA InterruptLies ==
  ASSUME IInv, NEW c, Fits(c), SameButCode(u, c), c.sp = SpOf(Depth), Depth + 3 <= Slots,
         NEW place \in Nat, NEW cs \in Nat, Saved(cs, place), NEW ip \in Offsets
  PROVE  LET f    == Frame("interrupt", <<ip, cs, FlagsOf(u)>>, place)
             next == Interrupted(c, cs, ip)
         IN Fits(next) /\ Nested(<<f>> \o frames) /\ Carries(next, <<f>> \o frames) /\ f \in Frames
  <1> DEFINE fl   == FlagsOf(u)
             ws   == <<ip, cs, fl>>
             f    == Frame("interrupt", ws, place)
             w    == Push(Push(Push(c, FlagsOf(c)), cs), ip)
             next == Interrupted(c, cs, ip)
  <1>1. c \in Cpus /\ u \in Cpus /\ c.sp = u.sp /\ c.stack = u.stack /\ FlagsOf(c) = fl /\ Depth \in Nat
    BY Before DEF Fits, IInv, SameButCode, FlagsOf, Prefixes
  <1>2. fl \in Flags
    BY <1>1, FlagsFit
  <1> HIDE DEF fl
  <1>3. Stacked(c, w, Depth, ws) /\ Fits(next) /\ next.sp = w.sp /\ next.stack = w.stack
    <2>1. Fits(c) /\ Depth \in Nat /\ Depth + 3 <= Slots /\ c.sp = SpOf(Depth) /\ cs \in Nat /\ ip \in Offsets
      BY <1>1
    <2>2. /\ Stacked(c, w, Depth, <<ip, cs, FlagsOf(c)>>)
          /\ Fits(next) /\ next.sp = w.sp /\ next.stack = w.stack
      BY <2>1, InterruptFits
    <2> QED
      BY <1>1, <2>2
  <1> HIDE DEF w, next
  <1>4. fl \in Int /\ cs \in Int /\ ip \in Int
    BY <1>2, Sizes DEF Flags, Offsets
  <1>5. ws \in Seq(Int) /\ Len(ws) = 3 /\ ws[1] = ip /\ ws[2] = cs /\ ws[3] = fl
    BY <1>4
  <1> HIDE DEF ws
  <1>6. f \in Frames /\ f.kind = "interrupt" /\ f.words = ws /\ f.base = Depth /\ f.cs = place
    BY <1>5, FrameFits
  <1> HIDE DEF f
  <1>7. WordsOf(f)
    BY <1>2, <1>5, <1>6 DEF WordsOf
  <1>8. Nested(<<f>> \o frames) /\ Carries(next, <<f>> \o frames)
    BY <1>1, <1>3, <1>5, <1>6, <1>7, FrameLies DEF Fits
  <1> QED
    BY <1>3, <1>6, <1>8 DEF next, f, ws, fl

LEMMA InterruptSaved ==
  ASSUME IInv, NEW i, NEW p \in Prefixes, NEW c, Fits(c), SameButCode(u, c),
         c.sp = SpOf(Depth), NEW place \in Nat, NEW cs \in Nat, Saved(cs, place),
         NEW ip \in Offsets,
         Saves(i, p, 3, Interrupted(c, cs, ip), Frame("interrupt", <<ip, cs, FlagsOf(u)>>, place))
  PROVE  Sound
  <1> DEFINE f    == Frame("interrupt", <<ip, cs, FlagsOf(u)>>, place)
             next == Interrupted(c, cs, ip)
  <1>1. Depth + 3 <= Slots /\ Executes(i, p, next, <<f>> \o frames)
    BY DEF Saves, Room
  <1>2. Fits(next) /\ Nested(<<f>> \o frames) /\ Carries(next, <<f>> \o frames) /\ f \in Frames
    BY <1>1, InterruptLies
  <1> HIDE DEF f, next
  <1>3. ~(Len(<<f>> \o frames) < Len(frames))
    BY <1>2, Lengths
  <1> QED
    BY <1>1, <1>2, <1>3, Executed

LEMMA InterruptsSound ==
  ASSUME IInv, NEW p \in Prefixes, INT(p) \/ INT3(p) \/ DIV(p)
  PROVE  Sound
  <1> DEFINE e == Decoded(p)
             d == IncrementIP(e, 1)
  <1>1. Fits(e) /\ e.ip \in Reach /\ SameButCode(u, e) /\ e.sp = SpOf(Depth) /\ 1 \in 1 .. 3
    BY Before
  <1>2. Fits(d) /\ SameButCode(e, d)
    BY <1>1, FetchMore
  <1>3. /\ Fits(u) /\ Offset(u) \in Offsets /\ Offset(e) \in Offsets /\ Offset(d) \in Offsets
        /\ u.cs \in Nat /\ Selector(u) \in Nat /\ Saved(Selector(u), u.cs)
        /\ e.cs \in Nat /\ Selector(e) \in Nat /\ Saved(Selector(e), e.cs)
        /\ d.cs \in Nat /\ Selector(d) \in Nat /\ Saved(Selector(d), d.cs)
    <2> HIDE DEF e, d
    <2>1. Fits(u)
      BY DEF IInv
    <2> QED
      BY <1>1, <1>2, <2>1, InSegment, InCode DEF Offset, Selector, Saved, Fits, Cpus
  <1>4. SameButCode(u, d) /\ d.sp = SpOf(Depth)
    <2> HIDE DEF e, d
    <2> QED
      BY <1>1, <1>2 DEF SameButCode
  <1>5. CASE INT(p)
    <2>1. Saves("INT", p, 3, Interrupted(d, Selector(d), Offset(d)),
                Frame("interrupt", <<Offset(d), Selector(d), FlagsOf(u)>>, d.cs))
      BY <1>5 DEF INT
    <2> HIDE DEF e, d
    <2> QED
      BY <1>2, <1>3, <1>4, <2>1, InterruptSaved
  <1>6. CASE INT3(p)
    <2>1. CASE Executes("INT3", p, e, frames)
      <3> HIDE DEF e, d
      <3> QED
        BY <1>1, <2>1, MovedOn DEF SameButCode
    <2>2. CASE Saves("INT3", p, 3, Interrupted(e, Selector(e), Offset(e)),
                     Frame("interrupt", <<Offset(e), Selector(e), FlagsOf(u)>>, e.cs))
      <3> HIDE DEF e, d
      <3> QED
        BY <1>1, <1>3, <2>2, InterruptSaved
    <2> QED
      BY <1>6, <2>1, <2>2 DEF INT3
  <1>7. CASE DIV(p)
    <2>1. ASSUME NEW v \in Bit, NEW next \in {[d EXCEPT !.ax = v], d}, Executes("DIV", p, next, frames)
          PROVE  Sound
      <3> HIDE DEF e, d
      <3>1. Fits(next) /\ next.sp = u.sp /\ next.stack = u.stack
        BY <1>2, <1>4 DEF Fits, Cpus, SameButCode
      <3> QED
        BY <2>1, <3>1, MovedOn
    <2>2. CASE Saves("DIV", p, 3, Interrupted(d, Selector(u), Offset(u)),
                     Frame("interrupt", <<Offset(u), Selector(u), FlagsOf(u)>>, u.cs))
      <3> HIDE DEF e, d
      <3> QED
        BY <1>2, <1>3, <1>4, <2>2, InterruptSaved
    <2>3. 0 \in Bit
      BY DEF Bit
    <2> QED
      BY <1>7, <2>1, <2>2, <2>3 DEF DIV
  <1> QED
    BY <1>5, <1>6, <1>7

LEMMA UndefinedSound == ASSUME IInv, NEW p \in Prefixes, Undefined(p) PROVE Sound
  <1> DEFINE d    == Decoded(p)
             f    == Frame("interrupt", <<Offset(u), Selector(u), FlagsOf(u)>>, u.cs)
             next == Interrupted(d, Selector(u), Offset(u))
  <1>1. Fits(d) /\ d.ip \in Reach /\ SameButCode(u, d) /\ d.sp = SpOf(Depth) /\ Nested(frames)
        /\ Carries(d, frames)
    BY Before
  <1>2. uses' \in Programs /\ u.cx >= MinCx
    BY DEF IInv, Undefined
  <1>3. CASE u' = d /\ frames' = frames
    <2> HIDE DEF d
    <2>1. d.ip >= MinIp /\ d.cx >= MinCx
      BY <1>1, <1>2, Sizes DEF SameButCode, Reach
    <2>2. IInv'
      BY <1>1, <1>2, <1>3, <2>1 DEF IInv
    <2> QED
      BY <1>3, <2>2, Lengths DEF Sound, GivesBack, KeepsPrefixes
  <1>4. CASE Room(3) /\ u' = next /\ frames' = <<f>> \o frames
    <2>1. /\ Offset(u) \in Offsets /\ u.cs \in Nat
          /\ Selector(u) \in Nat /\ Saved(Selector(u), u.cs)
      BY InSegment, InCode DEF Offset, Selector, Saved, IInv, Fits, Cpus
    <2>2. Depth + 3 <= Slots
      BY <1>4 DEF Room
    <2> HIDE DEF d
    <2>3. Fits(next) /\ Nested(<<f>> \o frames) /\ Carries(next, <<f>> \o frames) /\ f \in Frames
      BY <1>1, <2>1, <2>2, InterruptLies
    <2>4. next.ip = 0 /\ next.cx = d.cx
      <3> DEFINE v == Push(Push(Push(d, FlagsOf(d)), Selector(u)), Offset(u))
      <3>1. Stacked(d, v, Depth, <<Offset(u), Selector(u), FlagsOf(d)>>)
        BY <1>1, <2>1, <2>2, InterruptFits, Before
      <3>2. next = [v EXCEPT !.if = 0, !.ip = 0, !.cs = 0]
        BY DEF Interrupted, AbsoluteJump
      <3> HIDE DEF v
      <3> QED
        BY <3>1, <3>2 DEF Stacked, SameButStack, Cpus
    <2> HIDE DEF f, next
    <2>5. next.ip >= MinIp /\ next.cx >= MinCx
      BY <1>1, <1>2, <2>4, Sizes DEF SameButCode
    <2>6. IInv'
      BY <1>2, <1>4, <2>3, <2>5 DEF IInv
    <2> QED
      BY <1>4, <2>3, <2>6, Lengths DEF Sound, GivesBack, KeepsPrefixes
  <1> QED
    BY <1>3, <1>4 DEF Undefined

\* The x87's opcode and its operand are fetched.
LEMMA CoprocessorSound == ASSUME IInv, X87Opcode PROVE Sound
  <1> DEFINE w == IncrementIP(u, 2)
  <1>1. Fits(u) /\ u.ip \in Reach /\ u.cx >= MinCx /\ 2 \in 1 .. 3 /\ Nested(frames) /\ Carries(u, frames)
    BY Sizes DEF IInv, Fits, Reach, Cpus
  <1>2. Fits(w) /\ w.ip \in Reach /\ SameButCode(u, w)
        /\ w.instruction = u.instruction /\ w.segment = u.segment
    BY <1>1, FetchMore, FetchFits DEF Fits
  <1>3. u' = w /\ frames' = frames /\ uses' \in Programs
    BY DEF X87Opcode, IInv
  <1> HIDE DEF w
  <1>4. Carries(w, frames) /\ w.ip >= MinIp /\ w.cx >= MinCx
    BY <1>1, <1>2, CarriesSame, Sizes DEF SameButCode, Reach
  <1>5. IInv'
    BY <1>1, <1>2, <1>3, <1>4 DEF IInv
  <1> QED
    BY <1>2, <1>3, <1>5, Lengths DEF Sound, GivesBack, KeepsPrefixes, Unprefixed

-----------------------------------------------------------------------------
(* Instructions that restore.                                              *)

\* What is on the stack of the decoded instruction, by the kind of frame.
LEMMA PopSound == ASSUME IInv, NEW p \in Prefixes, POP(p) \/ POPF(p) PROVE Sound
  <1> DEFINE d == Decoded(p)
             f == Head(frames)
             w == Popped(d, 1)
  <1>1. frames # << >> /\ f.kind \in {"register", "flags"}
    BY DEF POP, POPF, Restores, TopIs
  <1>2. /\ Top(d) = f.words[1] /\ WordsOf(f)
        /\ LET x == Popped(d, Len(f.words)) IN x \in Cpus /\ Fits(x)
    BY <1>1, ReadBack
  <1>3. Len(f.words) = 1
    BY <1>1, <1>2 DEF WordsOf
  <1>4. w \in Cpus /\ Fits(w)
    BY <1>2, <1>3
  <1>5. CASE POP(p)
    <2> DEFINE next == [w EXCEPT !.ax = Top(d)]
    <2>1. f.kind = "register" /\ Executes("PUSH", p, next, Tail(frames))
      BY <1>5 DEF POP, Restores, TopIs
    <2>2. Top(d) \in Bit
      BY <1>2, <2>1 DEF WordsOf
    <2> HIDE DEF d
    <2>3. Fits(next) /\ next.sp = w.sp /\ next.stack = w.stack /\ next.ax = Top(d)
      BY <1>4, <2>2 DEF Fits, Cpus
    <2> HIDE DEF next
    <2>4. BackFrom(next, f)
      BY <1>2, <2>1, <2>3 DEF BackFrom
    <2> QED
      BY <1>1, <1>3, <2>1, <2>3, <2>4, RestoredOn DEF d
  <1>6. CASE POPF(p)
    <2> DEFINE next == WithFlags(w, Top(d))
    <2>1. f.kind = "flags" /\ Executes("PUSHF", p, next, Tail(frames))
      BY <1>6 DEF POPF, Restores, TopIs
    <2>2. Top(d) \in Flags
      BY <1>2, <2>1 DEF WordsOf
    <2> HIDE DEF d, w
    <2>3. /\ next \in Cpus /\ FlagsOf(next) = Top(d) /\ next.sp = w.sp /\ next.stack = w.stack
          /\ next.ip = w.ip /\ next.cx = w.cx
      BY <1>4, <2>2, FlagsComeBack
    <2> HIDE DEF next
    <2>4. BackFrom(next, f) /\ Fits(next)
      BY <1>2, <1>4, <2>1, <2>3 DEF BackFrom, Fits
    <2> QED
      BY <1>1, <1>3, <2>1, <2>3, <2>4, RestoredOn DEF d, w
  <1> QED
    BY <1>5, <1>6

LEMMA PopAllSound == ASSUME IInv, NEW p \in Prefixes, POPA(p) PROVE Sound
  <1> DEFINE d == Decoded(p)
             f == Head(frames)
             w == Popped(d, 4)
             next == PopAll(d)
  <1>1. frames # << >> /\ f.kind = "all" /\ Executes("PUSHA", p, next, Tail(frames))
    BY DEF POPA, Restores, TopIs
  <1>2. /\ Top(d) = f.words[1] /\ WordsOf(f)
        /\ \A m \in 1 .. Len(f.words) - 1 : Top(Popped(d, m)) = f.words[m + 1]
        /\ LET x == Popped(d, Len(f.words)) IN x \in Cpus /\ Fits(x)
    BY <1>1, ReadBack
  <1>3. /\ Len(f.words) = 4 /\ f.words[1] \in 0 .. Word - 1
        /\ f.words[3] \in MinCx .. Word - 1 /\ f.words[4] \in Bit
    BY <1>1, <1>2 DEF WordsOf
  <1>4. w \in Cpus /\ Fits(w) /\ Top(Popped(d, 2)) = f.words[3] /\ Top(Popped(d, 3)) = f.words[4]
    <2>1. 2 \in 1 .. 4 - 1 /\ 3 \in 1 .. 4 - 1 /\ 2 + 1 = 3 /\ 3 + 1 = 4
      OBVIOUS
    <2> QED
      BY <1>2, <1>3, <2>1
  <1>5. next = [w EXCEPT !.di = f.words[1], !.cx = f.words[3], !.ax = f.words[4]]
    BY <1>2, <1>4 DEF PopAll
  <1>6. f.words[3] \in Int /\ f.words[3] <= Word - 1
    BY <1>3, Sizes
  <1> HIDE DEF w, d, next, f
  <1>7. /\ Fits(next) /\ next.sp = w.sp /\ next.stack = w.stack
        /\ next.di = f.words[1] /\ next.cx = f.words[3] /\ next.ax = f.words[4]
    BY <1>3, <1>4, <1>5, <1>6 DEF Fits, Cpus
  <1>8. BackFrom(next, f)
    BY <1>1, <1>7 DEF BackFrom
  <1> QED
    BY <1>1, <1>3, <1>7, <1>8, RestoredOn DEF d, w, f

\* A near return goes back to the segment of the call.
LEMMA ReturnSound == ASSUME IInv, NEW p \in Prefixes, RET(p) PROVE Sound
  <1> DEFINE d == Decoded(p)
             f == Head(frames)
             w == Popped(d, 1)
             next == [w EXCEPT !.ip = Top(d)]
  <1>1. frames # << >> /\ f.kind = "near" /\ CodeSegment(d.cs) = CodeSegment(f.cs)
        /\ Executes("CALL", p, next, Tail(frames))
    BY DEF RET, NearReturn, TopIs
  <1>2. /\ Top(d) = f.words[1] /\ WordsOf(f)
        /\ LET x == Popped(d, Len(f.words)) IN x \in Cpus /\ Fits(x) /\ SameButStack(d, x)
    BY <1>1, ReadBack
  <1>3. Len(f.words) = 1 /\ f.words[1] \in Offsets
    BY <1>1, <1>2 DEF WordsOf
  <1>4. w \in Cpus /\ Fits(w) /\ w.cs = d.cs
    BY <1>2, <1>3 DEF SameButStack
  <1>5. Top(d) \in Int /\ Top(d) <= SegmentSize
    BY <1>2, <1>3, Sizes DEF Offsets
  <1> HIDE DEF w, d
  <1>6. Fits(next) /\ next.sp = w.sp /\ next.stack = w.stack /\ next.ip = Top(d) /\ next.cs = w.cs
    BY <1>4, <1>5 DEF Fits, Cpus
  <1> HIDE DEF next
  <1>7. BackFrom(next, f)
    BY <1>1, <1>2, <1>4, <1>6 DEF BackFrom
  <1> QED
    BY <1>1, <1>3, <1>6, <1>7, RestoredOn DEF d, w

\* RET imm16 drops the frame behind that of the call, too.
LEMMA ReturnDroppingSound == ASSUME IInv, NEW p \in Prefixes, RETN(p) PROVE Sound
  <1> DEFINE d == Decoded(p)
             f == Head(frames)
             w == Popped(d, 1)
             gs == Tail(frames)
             g == Head(gs)
             x == Popped(w, 1)
             next == [x EXCEPT !.ip = Top(d)]
  <1>1. /\ frames # << >> /\ f.kind = "near" /\ CodeSegment(d.cs) = CodeSegment(f.cs)
        /\ Len(frames) > 1 /\ frames[2].kind = "register"
        /\ Executes("RETN", p, next, Tail(gs))
    BY DEF RETN, NearReturn, TopIs
  <1>2. /\ Top(d) = f.words[1] /\ WordsOf(f)
        /\ LET v == Popped(d, Len(f.words)) IN
           v \in Cpus /\ Fits(v) /\ SameButStack(d, v) /\ Nested(gs) /\ Carries(v, gs)
    BY <1>1, ReadBack
  <1>3. Len(f.words) = 1 /\ f.words[1] \in Offsets
    BY <1>1, <1>2 DEF WordsOf
  <1>4. w \in Cpus /\ Fits(w) /\ w.cs = d.cs /\ Nested(gs) /\ Carries(w, gs)
    BY <1>2, <1>3 DEF SameButStack
  <1>5. Top(d) \in Int /\ Top(d) <= SegmentSize
    BY <1>2, <1>3, Sizes DEF Offsets
  <1>6. gs # << >> /\ g = frames[2] /\ Len(Tail(gs)) < Len(frames)
    <2>1. frames \in Seq(Frames) /\ Len(frames) \in Nat
      BY Lengths
    <2>2. gs \in Seq(Frames) /\ Len(gs) = Len(frames) - 1 /\ 1 \in 1 .. Len(gs) /\ gs[1] = frames[1 + 1]
      <3>1. gs \in Seq(Frames) /\ Len(gs) = Len(frames) - 1
        BY <1>1, <2>1, HeadTailProperties
      <3>2. 1 \in 1 .. Len(gs)
        BY <1>1, <2>1, <3>1
      <3> QED
        BY <1>1, <2>1, <3>1, <3>2, HeadTailProperties
    <2> HIDE DEF gs
    <2>3. gs # << >> /\ Head(gs) = gs[1] /\ Len(Tail(gs)) = Len(gs) - 1
      BY <2>1, <2>2, HeadTailProperties
    <2> QED
      BY <1>1, <2>1, <2>2, <2>3
  <1> HIDE DEF w, d, gs
  <1>7. /\ WordsOf(g)
        /\ LET v == Popped(w, Len(g.words)) IN
           v \in Cpus /\ SameButStack(w, v) /\ Nested(Tail(gs)) /\ Carries(v, Tail(gs))
    BY <1>4, <1>6, FrameRead, FrameOnTop
  <1>8. Len(g.words) = 1
    BY <1>1, <1>6, <1>7 DEF WordsOf
  <1>9. x \in Cpus /\ SameButStack(w, x) /\ Nested(Tail(gs)) /\ Carries(x, Tail(gs))
    BY <1>7, <1>8
  <1> HIDE DEF x
  <1>10. Fits(next) /\ next.sp = x.sp /\ next.stack = x.stack /\ next.ip = Top(d) /\ next.cs = x.cs
    BY <1>4, <1>5, <1>9 DEF Fits, Cpus, SameButStack
  <1> HIDE DEF next
  <1>11. BackFrom(next, f) /\ Carries(next, Tail(gs))
    <2>1. BackFrom(next, f)
      BY <1>1, <1>2, <1>4, <1>9, <1>10 DEF BackFrom, SameButStack
    <2> QED
      BY <1>9, <1>10, <2>1, CarriesSame
  <1> QED
    BY <1>1, <1>9, <1>10, <1>11, Executed

LEMMA FarReturnSound == ASSUME IInv, NEW p \in Prefixes, RETF(p) PROVE Sound
  <1> DEFINE d == Decoded(p)
             f == Head(frames)
             w == Popped(d, 2)
             next == AbsoluteJump(w, Top(d), Top(Popped(d, 1)))
  <1>1. frames # << >> /\ f.kind = "far" /\ Executes("CALLF", p, next, Tail(frames))
    BY DEF RETF, Restores, TopIs
  <1>2. /\ Top(d) = f.words[1] /\ WordsOf(f)
        /\ \A m \in 1 .. Len(f.words) - 1 : Top(Popped(d, m)) = f.words[m + 1]
        /\ LET x == Popped(d, Len(f.words)) IN x \in Cpus /\ Fits(x)
    BY <1>1, ReadBack
  <1>3. Len(f.words) = 2 /\ f.words[1] \in Offsets /\ Saved(f.words[2], f.cs)
    BY <1>1, <1>2 DEF WordsOf
  <1>9. f.words[2] \in Nat /\ (f.cs < 2 * Segments => CodeSegment(f.words[2]) = CodeSegment(f.cs))
    <2>1. f.cs \in Nat
      BY <1>1, ReadBack DEF Frames
    <2> QED
      BY <1>3, <2>1, InCode DEF Saved
  <1>4. w \in Cpus /\ Fits(w) /\ Top(Popped(d, 1)) = f.words[2]
    <2>1. 1 \in 1 .. 2 - 1 /\ 1 + 1 = 2
      OBVIOUS
    <2> QED
      BY <1>2, <1>3, <2>1
  <1>5. f.words[1] \in Int /\ f.words[1] <= SegmentSize
    BY <1>3, Sizes DEF Offsets
  <1>6. next = [w EXCEPT !.ip = f.words[1], !.cs = f.words[2]]
    BY <1>2, <1>4 DEF AbsoluteJump
  <1> HIDE DEF w, d, f, next
  <1>7. /\ Fits(next) /\ next.sp = w.sp /\ next.stack = w.stack
        /\ next.ip = f.words[1] /\ next.cs = f.words[2]
    BY <1>4, <1>5, <1>6, <1>9 DEF Fits, Cpus
  <1>8. BackFrom(next, f)
    BY <1>1, <1>7, <1>9 DEF BackFrom
  <1> QED
    BY <1>1, <1>3, <1>7, <1>8, RestoredOn DEF d, w, f

LEMMA InterruptReturnSound == ASSUME IInv, NEW p \in Prefixes, IRET(p) PROVE Sound
  <1> DEFINE d == Decoded(p)
             f == Head(frames)
             w == Popped(d, 3)
             x == [w EXCEPT !.ip = f.words[1], !.cs = f.words[2]]
             next == WithFlags(x, f.words[3])
  <1>1. frames # << >> /\ f.kind = "interrupt" /\ Executes("IRET", p, PopInterrupt(d), Tail(frames))
    BY DEF IRET, Restores, TopIs
  <1>2. /\ Top(d) = f.words[1] /\ WordsOf(f)
        /\ \A m \in 1 .. Len(f.words) - 1 : Top(Popped(d, m)) = f.words[m + 1]
        /\ LET v == Popped(d, Len(f.words)) IN v \in Cpus /\ Fits(v)
    BY <1>1, ReadBack
  <1>3. /\ Len(f.words) = 3 /\ f.words[1] \in Offsets /\ Saved(f.words[2], f.cs)
        /\ f.words[3] \in Flags
    BY <1>1, <1>2 DEF WordsOf
  <1>10. f.words[2] \in Nat /\ (f.cs < 2 * Segments => CodeSegment(f.words[2]) = CodeSegment(f.cs))
    <2>1. f.cs \in Nat
      BY <1>1, ReadBack DEF Frames
    <2> QED
      BY <1>3, <2>1, InCode DEF Saved
  <1>4. w \in Cpus /\ Fits(w) /\ Top(Popped(d, 1)) = f.words[2] /\ Top(Popped(d, 2)) = f.words[3]
    <2>1. 1 \in 1 .. 3 - 1 /\ 2 \in 1 .. 3 - 1 /\ 1 + 1 = 2 /\ 2 + 1 = 3
      OBVIOUS
    <2> QED
      BY <1>2, <1>3, <2>1
  <1>5. f.words[1] \in Int /\ f.words[1] <= SegmentSize
    BY <1>3, Sizes DEF Offsets
  <1>6. PopInterrupt(d) = next
    BY <1>2, <1>4 DEF PopInterrupt, AbsoluteJump
  <1> HIDE DEF w, d, f
  <1>7. /\ Fits(x) /\ x.sp = w.sp /\ x.stack = w.stack /\ x.ip = f.words[1] /\ x.cs = f.words[2]
    BY <1>4, <1>5, <1>10 DEF Fits, Cpus
  <1> HIDE DEF x
  <1>8. /\ next \in Cpus /\ FlagsOf(next) = f.words[3] /\ next.sp = x.sp /\ next.stack = x.stack
        /\ next.cs = x.cs /\ next.ip = x.ip /\ next.cx = x.cx
    BY <1>3, <1>7, FlagsComeBack DEF Fits
  <1> HIDE DEF next
  <1>9. BackFrom(next, f) /\ Fits(next)
    BY <1>1, <1>7, <1>8, <1>10 DEF BackFrom, Fits
  <1> QED
    BY <1>1, <1>3, <1>6, <1>7, <1>8, <1>9, RestoredOn DEF d, w, f

-----------------------------------------------------------------------------
(* Numbers.                                                                *)

LEMMA Counting ==
  ASSUME NEW P, 0 \in P, \A n \in Nat : n \in P => n + 1 \in P
  PROVE  \A n \in Nat : n \in P
  <1> DEFINE S == {n \in Nat : n \notin P}
  <1>1. ASSUME S # {} PROVE FALSE
    <2>1. IsWellFoundedOn(OpToRel(<, Nat), Nat)
      BY NatLessThanWellFounded
    <2>2. PICK m \in S : \A n \in S : ~(<<n, m>> \in OpToRel(<, Nat))
      BY <1>1, <2>1, WFMin
    <2>3. m \in Nat /\ m \notin P /\ m # 0
      OBVIOUS
    <2> DEFINE n == m - 1
    <2>4. n \in Nat /\ n + 1 = m /\ n < m
      BY <2>3
    <2> HIDE DEF n
    <2>5. <<n, m>> \in OpToRel(<, Nat)
      BY <2>3, <2>4 DEF OpToRel
    <2>6. n \in P
      BY <2>2, <2>4, <2>5
    <2> QED
      BY <2>3, <2>4, <2>6
  <1> QED
    BY <1>1

LEMMA Quotient ==
  ASSUME NEW w \in Nat, w > 0, NEW a \in Int, NEW q \in Int, NEW r \in 0 .. w - 1, a = q * w + r
  PROVE  a % w = r
  OBVIOUS

LEMMA Division ==
  ASSUME NEW w \in Nat, w > 0, NEW a \in Int
  PROVE  (a % w) \in 0 .. w - 1 /\ a \div w \in Int /\ a = (a \div w) * w + (a % w)
  OBVIOUS

LEMMA ModuloStep ==
  ASSUME NEW w \in Nat, w > 0, NEW a \in Int
  PROVE  /\ (a + 1) % w = IF (a % w) + 1 >= w THEN (a % w) + 1 - w ELSE (a % w) + 1
         /\ (a - 1) % w = IF (a % w) - 1 < 0 THEN (a % w) - 1 + w ELSE (a % w) - 1
  <1> DEFINE q == a \div w
             r == a % w
  <1>1. q \in Int /\ r \in 0 .. w - 1 /\ a = q * w + r /\ r \in Int
    BY Division
  <1> HIDE DEF q, r
  <1>2. ASSUME r + 1 >= w PROVE (a + 1) % w = r + 1 - w
    <2>1. a + 1 = (q + 1) * w + 0 /\ 0 \in 0 .. w - 1 /\ q + 1 \in Int /\ r + 1 - w = 0 /\ a + 1 \in Int
      BY <1>1, <1>2
    <2>2. (a + 1) % w = 0
      BY <2>1, Quotient
    <2> QED
      BY <1>2, <2>1, <2>2
  <1>3. ASSUME r + 1 < w PROVE (a + 1) % w = r + 1
    <2> DEFINE s == r + 1
    <2>1. a + 1 = q * w + s /\ s \in 0 .. w - 1 /\ a + 1 \in Int
      BY <1>1, <1>3
    <2> HIDE DEF s
    <2>2. (a + 1) % w = s
      BY <1>1, <2>1, Quotient
    <2> QED
      BY <1>1, <1>3, <2>2 DEF s
  <1>4. ASSUME r - 1 < 0 PROVE (a - 1) % w = r - 1 + w
    <2> DEFINE s == w - 1
               p == q - 1
    <2>1. a - 1 = p * w + s /\ s \in 0 .. w - 1 /\ p \in Int /\ r - 1 + w = s /\ a - 1 \in Int
      BY <1>1, <1>4
    <2> HIDE DEF s, p
    <2>2. (a - 1) % w = s
      BY <2>1, Quotient
    <2> QED
      BY <1>4, <2>1, <2>2
  <1>5. ASSUME ~(r - 1 < 0) PROVE (a - 1) % w = r - 1
    <2> DEFINE s == r - 1
    <2>1. a - 1 = q * w + s /\ s \in 0 .. w - 1 /\ a - 1 \in Int
      BY <1>1, <1>5
    <2> HIDE DEF s
    <2>2. (a - 1) % w = s
      BY <1>1, <2>1, Quotient
    <2> QED
      BY <1>1, <1>5, <2>2 DEF s
  <1>6. (a + 1) % w = IF r + 1 >= w THEN r + 1 - w ELSE r + 1
    <2>1. r + 1 >= w \/ r + 1 < w
      BY <1>1
    <2>2. r + 1 < w => ~(r + 1 >= w)
      BY <1>1
    <2> QED
      BY <1>2, <1>3, <2>1, <2>2
  <1>7. (a - 1) % w = IF r - 1 < 0 THEN r - 1 + w ELSE r - 1
    BY <1>4, <1>5
  <1> QED
    BY <1>6, <1>7 DEF r

-----------------------------------------------------------------------------
(* Strings.                                                                *)

DirectionOf(c) == IF c.df = 1 THEN -1 ELSE 1
CellOf(c, k)   == (c.di + DirectionOf(c) * k) % Word

\* What n times STOS makes of c.
Filled(c, n) ==
  [c EXCEPT !.di = CellOf(c, n),
            !.data = [d \in 0 .. Word - 1 |->
                        IF \E k \in 0 .. n - 1 : d = CellOf(c, k) THEN c.ax ELSE c.data[d]]]

LEMMA CellNext ==
  ASSUME NEW c \in Cpus, NEW n \in Nat
  PROVE  /\ CellOf(c, n) \in 0 .. Word - 1 /\ CellOf(c, 0) = c.di
         /\ CellOf(c, n + 1) = ToUnsigned(IF c.df = 1 THEN CellOf(c, n) - 1 ELSE CellOf(c, n) + 1, Word)
  <1> DEFINE a == c.di + DirectionOf(c) * n
  <1>1. c.di \in 0 .. Word - 1 /\ c.di \in Int /\ c.df \in Bit
    BY Sizes DEF Cpus
  <1>2. a \in Int /\ CellOf(c, n) = a % Word
    BY <1>1 DEF DirectionOf, CellOf
  <1>3. CellOf(c, n + 1) = (IF c.df = 1 THEN a - 1 ELSE a + 1) % Word
    <2>1. c.di + DirectionOf(c) * (n + 1) = IF c.df = 1 THEN a - 1 ELSE a + 1
      BY <1>1 DEF DirectionOf
    <2> HIDE DEF a
    <2> QED
      BY <2>1 DEF CellOf
  <1>4. CellOf(c, 0) = c.di
    <2>1. c.di + DirectionOf(c) * 0 = c.di
      BY <1>1 DEF DirectionOf
    <2>2. c.di % Word = c.di
      BY <1>1, Sizes
    <2> QED
      BY <2>1, <2>2 DEF CellOf
  <1> HIDE DEF a
  <1> DEFINE b == a % Word
  <1>5. /\ b \in 0 .. Word - 1
        /\ (a + 1) % Word = IF b + 1 >= Word THEN b + 1 - Word ELSE b + 1
        /\ (a - 1) % Word = IF b - 1 < 0 THEN b - 1 + Word ELSE b - 1
    BY <1>2, Sizes, Division, ModuloStep
  <1> HIDE DEF b
  <1>6. CellOf(c, n) = b
    BY <1>2 DEF b
  <1>7. CASE c.df = 1
    <2>1. CellOf(c, n + 1) = (a - 1) % Word
      BY <1>3, <1>7
    <2>2. ~(b - 1 >= Word)
      BY <1>5, Sizes
    <2> QED
      BY <1>4, <1>5, <1>6, <1>7, <2>1, <2>2 DEF ToUnsigned
  <1>8. CASE c.df # 1
    <2>1. CellOf(c, n + 1) = (a + 1) % Word
      BY <1>3, <1>8
    <2>2. ~(b + 1 < 0)
      BY <1>5, Sizes
    <2>3. ToUnsigned(b + 1, Word) = IF b + 1 >= Word THEN b + 1 - Word ELSE b + 1
      <3>1. b \in Int /\ Word \in Int
        BY <1>5, Sizes
      <3> QED
        BY <2>2, <3>1 DEF ToUnsigned
    <2>4. CellOf(c, n + 1) = ToUnsigned(b + 1, Word)
      BY <1>5, <2>1, <2>3
    <2>5. CellOf(c, n) + 1 = b + 1 /\ CellOf(c, n) \in 0 .. Word - 1
      BY <1>5, <1>6
    <2>6. CellOf(c, n + 1) = ToUnsigned(CellOf(c, n) + 1, Word)
      BY <2>4, <2>5
    <2> QED
      BY <1>4, <1>8, <2>5, <2>6
  <1> QED
    BY <1>7, <1>8

LEMMA FilledFits ==
  ASSUME NEW c \in Cpus, NEW n \in Nat
  PROVE  LET w == Filled(c, n) IN
         /\ w \in Cpus /\ w.di = CellOf(c, n) /\ w.df = c.df /\ w.ax = c.ax
         /\ w.sp = c.sp /\ w.stack = c.stack /\ w.cx = c.cx /\ w.ip = c.ip
         /\ \A d \in 0 .. Word - 1 :
              w.data[d] = IF \E k \in 0 .. n - 1 : d = CellOf(c, k) THEN c.ax ELSE c.data[d]
  <1> DEFINE di == CellOf(c, n)
             val(d) == IF \E k \in 0 .. n - 1 : d = CellOf(c, k) THEN c.ax ELSE c.data[d]
             data == [d \in 0 .. Word - 1 |-> val(d)]
             w == [c EXCEPT !.di = di, !.data = data]
  <1>1. di \in 0 .. Word - 1
    BY CellNext
  <1>2. \A d \in 0 .. Word - 1 : val(d) \in Bit
    BY DEF Cpus
  <1>3. Filled(c, n) = w
    BY DEF Filled
  <1> HIDE DEF di, val
  <1>4. data \in [0 .. Word - 1 -> Bit]
    BY <1>2
  <1>5. \A d \in 0 .. Word - 1 : data[d] = val(d)
    OBVIOUS
  <1> HIDE DEF data
  <1>6. /\ w \in Cpus /\ w.di = di /\ w.df = c.df /\ w.ax = c.ax /\ w.data = data
        /\ w.sp = c.sp /\ w.stack = c.stack /\ w.cx = c.cx /\ w.ip = c.ip
    BY <1>1, <1>4 DEF Cpus
  <1> HIDE DEF w
  <1> QED
    BY <1>3, <1>5, <1>6 DEF di, val

LEMMA FilledNone == ASSUME NEW c \in Cpus PROVE Filled(c, 0) = c
  <1> DEFINE data == [d \in 0 .. Word - 1 |->
                        IF \E k \in 0 .. 0 - 1 : d = CellOf(c, k) THEN c.ax ELSE c.data[d]]
  <1>1. CellOf(c, 0) = c.di
    BY CellNext
  <1>2. data = c.data
    <2>1. \A k \in 0 .. 0 - 1 : FALSE
      OBVIOUS
    <2>2. c.data = [d \in 0 .. Word - 1 |-> c.data[d]]
      BY DEF Cpus
    <2> QED
      BY <2>1, <2>2
  <1>3. Filled(c, 0) = [c EXCEPT !.di = CellOf(c, 0), !.data = data]
    BY DEF Filled
  <1> HIDE DEF data
  <1>4. [c EXCEPT !.di = c.di, !.data = c.data] = c
    BY DEF Cpus
  <1> QED
    BY <1>1, <1>2, <1>3, <1>4

LEMMA FilledNext ==
  ASSUME NEW c \in Cpus, NEW n \in Nat
  PROVE  Stos(Filled(c, n)) = Filled(c, n + 1)
  <1> DEFINE m    == n + 1
             x    == Filled(c, n)
             old  == [d \in 0 .. Word - 1 |->
                        IF \E k \in 0 .. n - 1 : d = CellOf(c, k) THEN c.ax ELSE c.data[d]]
             new  == [d \in 0 .. Word - 1 |->
                        IF \E k \in 0 .. m - 1 : d = CellOf(c, k) THEN c.ax ELSE c.data[d]]
             here == CellOf(c, n)
             next == CellOf(c, m)
  <1>1. x = [c EXCEPT !.di = here, !.data = old]
    BY DEF Filled
  <1>2. Filled(c, m) = [c EXCEPT !.di = next, !.data = new]
    <2> HIDE DEF m
    <2> QED
      BY DEF Filled
  <1>3. [old EXCEPT ![here] = c.ax] = new
    <2>1. ASSUME NEW d \in 0 .. Word - 1
          PROVE  [old EXCEPT ![here] = c.ax][d] = new[d]
      <3>1. CASE d = here
        <4>1. \E k \in 0 .. m - 1 : d = CellOf(c, k)
          <5>1. n \in 0 .. m - 1
            OBVIOUS
          <5> QED
            BY <3>1, <5>1
        <4> QED
          BY <3>1, <4>1
      <3>2. CASE d # here
        <4>1. (\E k \in 0 .. m - 1 : d = CellOf(c, k)) <=> \E k \in 0 .. n - 1 : d = CellOf(c, k)
          <5>1. \A k \in 0 .. m - 1 : k = n \/ k \in 0 .. n - 1
            OBVIOUS
          <5>2. \A k \in 0 .. n - 1 : k \in 0 .. m - 1
            OBVIOUS
          <5> QED
            BY <3>2, <5>1, <5>2
        <4> QED
          BY <3>2, <4>1
      <3> QED
        BY <3>1, <3>2
    <2>2. DOMAIN old = 0 .. Word - 1 /\ DOMAIN new = 0 .. Word - 1
      OBVIOUS
    <2>3. new = [d \in 0 .. Word - 1 |-> new[d]]
      OBVIOUS
    <2> HIDE DEF old, new, here
    <2> QED
      BY <2>1, <2>2, <2>3
  <1>4. next = ToUnsigned(IF c.df = 1 THEN here - 1 ELSE here + 1, Word)
    BY CellNext
  <1> HIDE DEF old, new, here, next, m
  <1> DEFINE y == [x EXCEPT !.data[x.di] = x.ax]
  <1>5. y = [c EXCEPT !.di = here, !.data = new]
    BY <1>1, <1>3 DEF Cpus
  <1>6. Stos(x) = [y EXCEPT !.di = ToUnsigned(IF y.df = 1 THEN @ - 1 ELSE @ + 1, Word)]
    BY DEF Stos, DfIncrement
  <1> HIDE DEF y, x
  <1>7. Stos(x) = [c EXCEPT !.di = next, !.data = new]
    BY <1>4, <1>5, <1>6 DEF Cpus
  <1> QED
    BY <1>2, <1>7 DEF x, m

\* STOS repeated fills as many cells as cx says.
LEMMA StosFills ==
  ASSUME NEW c \in Cpus, c.cx \in Nat
  PROVE  StosTimes(c) = Filled(c, c.cx)
  <1> DEFINE m == c.cx
             Q(t) == t = [n \in 0 .. m |-> IF n = 0 THEN c ELSE Stos(t[n - 1])]
             f == [n \in 0 .. m |-> Filled(c, n)]
             times == CHOOSE t : Q(t)
  <1>1. StosTimes(c) = times[m]
    BY DEF StosTimes
  <1>2. Filled(c, 0) = c
    BY FilledNone
  <1>3. m \in Nat
    OBVIOUS
  <1> HIDE DEF m
  <1>4. Q(f)
    <2>1. ASSUME NEW n \in 0 .. m
          PROVE  f[n] = IF n = 0 THEN c ELSE Stos(f[n - 1])
      <3>1. CASE n = 0
        BY <1>2, <2>1, <3>1
      <3>2. CASE n # 0
        <4> DEFINE k == n - 1
        <4>1. k \in Nat /\ k \in 0 .. m /\ k + 1 = n
          BY <1>3, <3>2
        <4> HIDE DEF k
        <4>2. Stos(Filled(c, k)) = Filled(c, k + 1) /\ f[k] = Filled(c, k) /\ f[n] = Filled(c, n)
          BY <4>1, FilledNext
        <4> HIDE DEF f
        <4> QED
          BY <3>2, <4>1, <4>2 DEF k
      <3> QED
        BY <3>1, <3>2
    <2>2. f = [n \in 0 .. m |-> f[n]]
      OBVIOUS
    <2> HIDE DEF f
    <2> QED
      BY <2>1, <2>2
  <1> HIDE DEF Q, f
  <1>5. Q(times)
    BY <1>4
  <1> HIDE DEF times
  <1>6. /\ 0 \in 0 .. m => times[0] = c
        /\ \A n \in 0 .. m : n # 0 => times[n] = Stos(times[n - 1])
    BY <1>5 DEF Q
  <1> DEFINE P == {n \in Nat : n <= m => times[n] = Filled(c, n)}
  <1>7. 0 \in P
    BY <1>2, <1>3, <1>6
  <1>8. ASSUME NEW n \in Nat, n \in P PROVE n + 1 \in P
    <2>1. ASSUME n + 1 <= m PROVE times[n + 1] = Filled(c, n + 1)
      <3>1. n + 1 \in 0 .. m /\ n + 1 # 0 /\ n + 1 - 1 = n /\ n <= m
        BY <1>3, <2>1
      <3>2. times[n + 1] = Stos(times[n])
        BY <1>6, <3>1
      <3>3. times[n] = Filled(c, n)
        BY <1>8, <3>1
      <3> QED
        BY <3>2, <3>3, FilledNext
    <2> QED
      BY <2>1
  <1>9. m \in P
    <2> HIDE DEF P
    <2> QED
      BY <1>3, <1>7, <1>8, Counting
  <1> QED
    BY <1>1, <1>3, <1>9 DEF m

\* There are functions on 0 .. m that start with c and go on as F says.
Recurs(S, c, F) ==
  \A m \in Nat : \E f \in [0 .. m -> S] : f[0] = c /\ \A n \in 1 .. m : f[n] = F[n][f[n - 1]]

LEMMA Recursion ==
  ASSUME NEW S, NEW c \in S, NEW F \in [Nat -> [S -> S]]
  PROVE  Recurs(S, c, F)
  <1> DEFINE Good(m, f) == f[0] = c /\ \A n \in 1 .. m : f[n] = F[n][f[n - 1]]
             P == {m \in Nat : \E f \in [0 .. m -> S] : Good(m, f)}
  <1>1. 0 \in P
    <2> DEFINE f == [n \in 0 .. 0 |-> c]
    <2>1. f \in [0 .. 0 -> S]
      OBVIOUS
    <2>2. Good(0, f)
      <3>1. 0 \in 0 .. 0 /\ \A n \in 1 .. 0 : FALSE
        OBVIOUS
      <3> QED
        BY <3>1
    <2> HIDE DEF f, Good
    <2> QED
      BY <2>1, <2>2
  <1>2. ASSUME NEW m \in Nat, m \in P PROVE m + 1 \in P
    <2>1. PICK f \in [0 .. m -> S] : Good(m, f)
      BY <1>2
    <2> DEFINE last == F[m + 1][f[m]]
               g == [n \in 0 .. m + 1 |-> IF n = m + 1 THEN last ELSE f[n]]
    <2>2. last \in S /\ f[m] \in S
      <3>1. m \in 0 .. m /\ m + 1 \in Nat
        OBVIOUS
      <3>2. f[m] \in S
        BY <3>1
      <3>3. F[m + 1] \in [S -> S]
        BY <3>1
      <3> QED
        BY <3>2, <3>3
    <2> HIDE DEF last
    <2>3. g \in [0 .. m + 1 -> S]
      <3>1. \A n \in 0 .. m + 1 : n = m + 1 \/ n \in 0 .. m
        OBVIOUS
      <3> QED
        BY <2>2, <3>1
    <2>4. g[m + 1] = last /\ \A n \in 0 .. m : g[n] = f[n]
      <3>1. m + 1 \in 0 .. m + 1 /\ \A n \in 0 .. m : n \in 0 .. m + 1 /\ n # m + 1
        OBVIOUS
      <3> QED
        BY <3>1
    <2> HIDE DEF g
    <2>5. g[0] = c
      <3>1. 0 \in 0 .. m
        OBVIOUS
      <3> QED
        BY <2>1, <2>4, <3>1
    <2>6. ASSUME NEW n \in 1 .. m + 1 PROVE g[n] = F[n][g[n - 1]]
      <3>1. CASE n = m + 1
        <4>1. n - 1 = m /\ m \in 0 .. m
          BY <3>1
        <4> QED
          BY <2>4, <3>1, <4>1 DEF last
      <3>2. CASE n # m + 1
        <4>1. n \in 1 .. m /\ n \in 0 .. m /\ n - 1 \in 0 .. m
          BY <3>2
        <4>2. f[n] = F[n][f[n - 1]]
          BY <2>1, <4>1
        <4> QED
          BY <2>4, <4>1, <4>2
      <3> QED
        BY <3>1, <3>2
    <2>7. Good(m + 1, g)
      BY <2>5, <2>6
    <2> HIDE DEF Good
    <2>8. \E h \in [0 .. m + 1 -> S] : Good(m + 1, h)
      BY <2>3, <2>7
    <2> QED
      BY <2>8
  <1>3. \A m \in Nat : m \in P
    <2> HIDE DEF P
    <2> QED
      BY <1>1, <1>2, Counting
  <1> QED
    BY <1>3 DEF Recurs

ZfOf(c, k) == IF c.ax = c.data[CellOf(c, k)] THEN 1 ELSE 0

\* x is c after n steps of a repeated SCAS.
Scanned(c, zfVal, n, x) ==
  LET m == c.cx - x.cx IN
  /\ x \in Cpus /\ x.sp = c.sp /\ x.stack = c.stack /\ x.ip = c.ip
  /\ x.data = c.data /\ x.ax = c.ax /\ x.df = c.df
  /\ m \in 0 .. n /\ x.di = CellOf(c, m)
  /\ m < n => m > 0 /\ x.zf = zfVal
  /\ m > 0 => x.zf = ZfOf(c, m - 1)
  /\ \A k \in 0 .. m - 2 : ZfOf(c, k) # zfVal

\* One step.
ScanStep(n, x, zfVal) ==
  IF n > 1 /\ x.zf = zfVal THEN x ELSE [Scas(x) EXCEPT !.cx = @ - 1]

LEMMA ScasFits ==
  ASSUME NEW x \in Cpus
  PROVE  LET y == [Scas(x) EXCEPT !.cx = @ - 1] IN
         /\ y \in Cpus /\ y.sp = x.sp /\ y.stack = x.stack /\ y.ip = x.ip
         /\ y.data = x.data /\ y.ax = x.ax /\ y.df = x.df /\ y.cx = x.cx - 1
         /\ y.di = ToUnsigned(IF x.df = 1 THEN x.di - 1 ELSE x.di + 1, Word)
         /\ y.zf = IF x.ax = x.data[x.di] THEN 1 ELSE 0
         /\ Scas(x) \in Cpus /\ Scas(x).sp = x.sp /\ Scas(x).stack = x.stack
         /\ Scas(x).ip = x.ip /\ Scas(x).cx = x.cx
  <1> DEFINE zf == IF x.ax = x.data[x.di] THEN 1 ELSE 0
             di == ToUnsigned(IF x.df = 1 THEN x.di - 1 ELSE x.di + 1, Word)
             s  == [x EXCEPT !.zf = zf, !.di = di]
  <1>1. zf \in Bit /\ x.cx \in Int /\ x.cx - 1 \in Int
    BY DEF Bit, Cpus
  <1>2. di \in 0 .. Word - 1
    <2>1. x.di \in 0 .. Word - 1 /\ x.di \in Int
      BY Sizes DEF Cpus
    <2> QED
      BY <2>1, Sizes DEF ToUnsigned
  <1>3. Scas(x) = s
    BY DEF Scas, DfIncrement, Cpus
  <1> HIDE DEF zf, di
  <1>4. /\ s \in Cpus /\ s.sp = x.sp /\ s.stack = x.stack /\ s.ip = x.ip /\ s.cx = x.cx
        /\ s.data = x.data /\ s.ax = x.ax /\ s.df = x.df /\ s.di = di /\ s.zf = zf
    BY <1>1, <1>2 DEF Cpus
  <1> HIDE DEF s
  <1> DEFINE y == [s EXCEPT !.cx = s.cx - 1]
  <1>5. /\ y \in Cpus /\ y.sp = s.sp /\ y.stack = s.stack /\ y.ip = s.ip /\ y.cx = s.cx - 1
        /\ y.data = s.data /\ y.ax = s.ax /\ y.df = s.df /\ y.di = s.di /\ y.zf = s.zf
    BY <1>1, <1>4 DEF Cpus
  <1>6. [Scas(x) EXCEPT !.cx = @ - 1] = y
    BY <1>3
  <1> HIDE DEF y
  <1> QED
    BY <1>3, <1>4, <1>5, <1>6 DEF zf, di

LEMMA ScanNext ==
  ASSUME NEW c \in Cpus, c.cx \in Nat, NEW zfVal, NEW n \in Nat, NEW x, Scanned(c, zfVal, n, x)
  PROVE  Scanned(c, zfVal, n + 1, ScanStep(n + 1, x, zfVal))
  <1> DEFINE m == c.cx - x.cx
             y == [Scas(x) EXCEPT !.cx = @ - 1]
  <1>1. /\ x \in Cpus /\ x.cx \in Int /\ m \in 0 .. n /\ m \in Nat /\ x.di = CellOf(c, m)
        /\ x.sp = c.sp /\ x.stack = c.stack /\ x.ip = c.ip
        /\ x.data = c.data /\ x.ax = c.ax /\ x.df = c.df
        /\ m < n => m > 0 /\ x.zf = zfVal
        /\ m > 0 => x.zf = ZfOf(c, m - 1)
        /\ \A k \in 0 .. m - 2 : ZfOf(c, k) # zfVal
    BY DEF Scanned, Cpus
  <1>2. CASE n + 1 > 1 /\ x.zf = zfVal
    <2>1. ScanStep(n + 1, x, zfVal) = x
      BY <1>2 DEF ScanStep
    <2>2. m \in 0 .. n + 1 /\ m > 0
      BY <1>1, <1>2
    <2> QED
      BY <1>1, <1>2, <2>1, <2>2 DEF Scanned
  <1>3. CASE ~(n + 1 > 1 /\ x.zf = zfVal)
    <2>1. ScanStep(n + 1, x, zfVal) = y
      BY <1>3 DEF ScanStep
    <2>2. m = n
      BY <1>1, <1>3
    <2>3. /\ y \in Cpus /\ y.sp = x.sp /\ y.stack = x.stack /\ y.ip = x.ip
          /\ y.data = x.data /\ y.ax = x.ax /\ y.df = x.df /\ y.cx = x.cx - 1
          /\ y.di = ToUnsigned(IF x.df = 1 THEN x.di - 1 ELSE x.di + 1, Word)
          /\ y.zf = IF x.ax = x.data[x.di] THEN 1 ELSE 0
      BY <1>1, ScasFits
    <2> HIDE DEF y
    <2>4. y.di = CellOf(c, m + 1)
      BY <1>1, <2>3, CellNext
    <2>5. y.zf = ZfOf(c, m)
      BY <1>1, <2>3 DEF ZfOf
    <2>6. c.cx - y.cx = m + 1 /\ m + 1 \in 0 .. n + 1 /\ ~(m + 1 < n + 1) /\ m + 1 - 1 = m
      BY <1>1, <2>2, <2>3
    <2>7. ASSUME NEW k \in 0 .. m + 1 - 2 PROVE ZfOf(c, k) # zfVal
      <3>1. CASE k = m - 1
        <4>1. m > 0 /\ n + 1 > 1
          BY <1>1, <2>2, <3>1
        <4> QED
          BY <1>1, <1>3, <3>1, <4>1
      <3>2. CASE k # m - 1
        <4>1. k \in 0 .. m - 2
          BY <1>1, <3>2
        <4> QED
          BY <1>1, <4>1
      <3> QED
        BY <3>1, <3>2
    <2> HIDE DEF m
    <2>8. Scanned(c, zfVal, n + 1, y)
      BY <1>1, <2>3, <2>4, <2>5, <2>6, <2>7 DEF Scanned
    <2> QED
      BY <2>1, <2>8
  <1> QED
    BY <1>2, <1>3

\* SCAS repeated stops behind the first cell that decides.
LEMMA ScanStops ==
  ASSUME NEW c \in Cpus, c.cx \in Nat, NEW zfVal
  PROVE  Scanned(c, zfVal, c.cx, RepZF(c, zfVal))
  <1> DEFINE m == c.cx
             Q(t) == t = [n \in 0 .. m |->
                            IF n = 0 THEN c
                            ELSE IF n > 1 /\ t[n - 1].zf = zfVal THEN t[n - 1]
                            ELSE [Scas(t[n - 1]) EXCEPT !.cx = @ - 1]]
             times == CHOOSE t : Q(t)
             F == [n \in Nat |-> [x \in Cpus |-> ScanStep(n, x, zfVal)]]
  <1>1. RepZF(c, zfVal) = times[m]
    BY DEF RepZF
  <1>2. m \in Nat
    OBVIOUS
  <1> HIDE DEF m
  <1>3. F \in [Nat -> [Cpus -> Cpus]]
    <2>1. ASSUME NEW n \in Nat, NEW x \in Cpus PROVE ScanStep(n, x, zfVal) \in Cpus
      BY ScasFits DEF ScanStep
    <2> QED
      BY <2>1
  <1>4. \A n \in Nat : \A x \in Cpus : F[n][x] = ScanStep(n, x, zfVal)
    OBVIOUS
  <1> HIDE DEF F
  <1>5. PICK f \in [0 .. m -> Cpus] : f[0] = c /\ \A n \in 1 .. m : f[n] = F[n][f[n - 1]]
    <2>1. c \in Cpus
      OBVIOUS
    <2>2. Recurs(Cpus, c, F)
      BY <1>3, <2>1, Recursion
    <2> QED
      BY <1>2, <2>2 DEF Recurs
  <1>6. Q(f)
    <2>1. ASSUME NEW n \in 0 .. m, n # 0
          PROVE  f[n] = IF n > 1 /\ f[n - 1].zf = zfVal THEN f[n - 1]
                        ELSE [Scas(f[n - 1]) EXCEPT !.cx = @ - 1]
      <3>1. n \in 1 .. m /\ n - 1 \in 0 .. m /\ n \in Nat
        BY <1>2, <2>1
      <3>2. f[n] = F[n][f[n - 1]] /\ f[n - 1] \in Cpus
        BY <1>5, <3>1
      <3>3. f[n] = ScanStep(n, f[n - 1], zfVal)
        BY <1>4, <3>1, <3>2
      <3> QED
        BY <3>3 DEF ScanStep
    <2>2. f = [n \in 0 .. m |-> f[n]]
      OBVIOUS
    <2> QED
      BY <1>5, <2>1, <2>2
  <1> HIDE DEF Q
  <1>7. Q(times)
    BY <1>6
  <1> HIDE DEF times
  <1>8. ASSUME NEW n \in 0 .. m
        PROVE  times[n] = IF n = 0 THEN c ELSE ScanStep(n, times[n - 1], zfVal)
    BY <1>7 DEF Q, ScanStep
  <1> DEFINE P == {n \in Nat : n <= m => Scanned(c, zfVal, n, times[n])}
  <1>9. 0 \in P
    <2>1. Scanned(c, zfVal, 0, c)
      <3>1. CellOf(c, 0) = c.di /\ c.cx \in Int
        BY CellNext DEF Cpus
      <3>2. c.cx - c.cx = 0
        BY <3>1
      <3> QED
        BY <3>1, <3>2 DEF Scanned
    <2>2. times[0] = c
      BY <1>2, <1>8
    <2> QED
      BY <2>1, <2>2
  <1>10. ASSUME NEW n \in Nat, n \in P PROVE n + 1 \in P
    <2>1. ASSUME n + 1 <= m PROVE Scanned(c, zfVal, n + 1, times[n + 1])
      <3>1. n + 1 \in 0 .. m /\ n + 1 # 0 /\ n + 1 - 1 = n /\ n <= m
        BY <1>2, <2>1
      <3>2. times[n + 1] = ScanStep(n + 1, times[n], zfVal)
        BY <1>8, <3>1
      <3>3. Scanned(c, zfVal, n, times[n])
        BY <1>10, <3>1
      <3> QED
        BY <3>2, <3>3, ScanNext
    <2> QED
      BY <2>1
  <1>11. m \in P
    <2> HIDE DEF P
    <2> QED
      BY <1>2, <1>9, <1>10, Counting
  <1> QED
    BY <1>1, <1>2, <1>11 DEF m

\* What REP STOS leaves.
LEMMA RepFits ==
  ASSUME NEW c, Fits(c), c.cx \in Nat
  PROVE  LET w == Rep(c) IN
         /\ Fits(w) /\ w.cx = 0 /\ w.di = CellOf(c, c.cx)
         /\ w.sp = c.sp /\ w.stack = c.stack /\ w.ip = c.ip
         /\ \A d \in 0 .. Word - 1 :
              w.data[d] = IF \E k \in 0 .. c.cx - 1 : d = CellOf(c, k) THEN c.ax ELSE c.data[d]
  <1> DEFINE x == Filled(c, c.cx)
             w == [x EXCEPT !.cx = 0]
  <1>1. Rep(c) = w /\ c \in Cpus
    BY StosFills DEF Rep, Fits
  <1>2. /\ x \in Cpus /\ x.di = CellOf(c, c.cx)
        /\ x.sp = c.sp /\ x.stack = c.stack /\ x.cx = c.cx /\ x.ip = c.ip
        /\ \A d \in 0 .. Word - 1 :
             x.data[d] = IF \E k \in 0 .. c.cx - 1 : d = CellOf(c, k) THEN c.ax ELSE c.data[d]
    BY <1>1, FilledFits
  <1> HIDE DEF x
  <1>3. /\ w \in Cpus /\ w.cx = 0 /\ w.di = x.di /\ w.data = x.data
        /\ w.sp = x.sp /\ w.stack = x.stack /\ w.ip = x.ip
    BY <1>2 DEF Cpus
  <1> HIDE DEF w
  <1>4. Fits(w)
    BY <1>2, <1>3, Sizes DEF Fits
  <1> QED
    BY <1>1, <1>2, <1>3, <1>4

\* A string instruction touches neither sp nor the stack.
LEMMA StringOn ==
  ASSUME IInv, NEW i, NEW p \in Prefixes, NEW once, NEW repeated, StringTick(i, p, once, repeated),
         \A c \in {once, repeated} :
           c = once \/ Decoded(p).cx >= 0 =>
             Fits(c) /\ c.sp = u.sp /\ c.stack = u.stack /\ c.ip >= MinIp /\ c.cx >= MinCx
  PROVE  Sound
  <1> DEFINE d == Decoded(p)
             h == [d EXCEPT !.state = "hung"]
  <1>1. Fits(d) /\ d.ip \in Reach /\ SameButCode(u, d) /\ Nested(frames) /\ Carries(u, frames)
        /\ d.cx \in Int
    BY Before DEF IInv, Fits, Cpus
  <1>2. uses' \in Programs /\ frames' = frames /\ u.cx >= MinCx
    BY DEF StringTick, IInv
  <1>3. ASSUME NEW w, u' = w, Fits(w), w.sp = u.sp, w.stack = u.stack, w.ip >= MinIp, w.cx >= MinCx,
               Unprefixed(w) \/ w.state # "running"
        PROVE  Sound
    <2>1. Carries(w, frames)
      BY <1>1, <1>3, CarriesSame
    <2>2. IInv'
      BY <1>1, <1>2, <1>3, <2>1 DEF IInv
    <2> QED
      BY <1>2, <1>3, <2>2, Lengths DEF Sound, GivesBack, KeepsPrefixes
  <1>4. ASSUME NEW c, u' = Cleared(c), Fits(c), c.sp = u.sp, c.stack = u.stack, c.ip >= MinIp, c.cx >= MinCx
        PROVE  Sound
    <2> DEFINE w == Cleared(c)
    <2>1. /\ Fits(w) /\ w.ip = c.ip /\ w.cx = c.cx /\ w.sp = c.sp /\ w.stack = c.stack /\ Unprefixed(w)
      BY <1>4, ClearedFits DEF Unprefixed
    <2> HIDE DEF w
    <2> QED
      BY <1>3, <1>4, <2>1 DEF w
  <1>5. CASE u' = h
    <2> HIDE DEF d
    <2>1. Fits(h) /\ h.sp = u.sp /\ h.stack = u.stack /\ h.ip = d.ip /\ h.cx = u.cx /\ h.state = "hung"
      BY <1>1 DEF Fits, Cpus, SameButCode
    <2> HIDE DEF h
    <2>2. h.ip >= MinIp
      BY <1>1, <2>1, Sizes DEF Reach
    <2> QED
      BY <1>2, <1>3, <1>5, <2>1, <2>2
  <1>6. CASE u' = Cleared(once)
    BY <1>4, <1>6
  <1>7. CASE d.cx >= 0 /\ u' = Cleared(repeated)
    BY <1>4, <1>7
  <1>8. ~(d.cx < 0) => d.cx >= 0
    <2> HIDE DEF d
    <2> QED
      BY <1>1
  <1> QED
    BY <1>5, <1>6, <1>7, <1>8 DEF StringTick

LEMMA StosSound == ASSUME IInv, NEW p \in Prefixes, STOS(p) PROVE Sound
  <1> DEFINE d == Decoded(p)
  <1>1. d \in Cpus /\ Fits(d) /\ d.ip \in Reach /\ SameButCode(u, d) /\ d.cx \in Int /\ d.ip \in Int
    BY Before DEF Fits, Cpus
  <1>2. d.ip >= MinIp /\ d.cx >= MinCx
    <2> HIDE DEF d
    <2> QED
      BY <1>1, Sizes DEF IInv, SameButCode, Reach
  <1>3. StringTick("STOS", p, Stos(d), Rep(d))
    BY DEF STOS
  <1> HIDE DEF d
  <1> DEFINE once == Stos(d)
             repeated == Rep(d)
  <1>4. Fits(once) /\ once.sp = u.sp /\ once.stack = u.stack /\ once.ip = d.ip /\ once.cx = d.cx
    <2>1. once = Filled(d, 1)
      <3>1. Stos(Filled(d, 0)) = Filled(d, 0 + 1) /\ Filled(d, 0) = d
        BY <1>1, FilledNone, FilledNext
      <3> QED
        BY <3>1
    <2> HIDE DEF once
    <2> QED
      BY <1>1, <2>1, FilledFits DEF Fits, SameButCode
  <1>5. ASSUME d.cx >= 0
        PROVE  /\ Fits(repeated) /\ repeated.sp = u.sp /\ repeated.stack = u.stack
               /\ repeated.ip = d.ip /\ repeated.cx = 0
    <2>1. d.cx \in Nat
      BY <1>1, <1>5
    <2> QED
      BY <1>1, <2>1, RepFits DEF SameButCode
  <1> HIDE DEF once, repeated
  <1>6. \A c \in {once, repeated} :
          c = once \/ d.cx >= 0 =>
            Fits(c) /\ c.sp = u.sp /\ c.stack = u.stack /\ c.ip >= MinIp /\ c.cx >= MinCx
    BY <1>2, <1>4, <1>5, Sizes
  <1> QED
    BY <1>3, <1>6, StringOn DEF d, once, repeated

LEMMA ScasSound == ASSUME IInv, NEW p \in Prefixes, SCAS(p) PROVE Sound
  <1> DEFINE d == Decoded(p)
             zfVal == IF d.instruction = "REPNE" THEN 1 ELSE 0
  <1>1. d \in Cpus /\ Fits(d) /\ d.ip \in Reach /\ SameButCode(u, d) /\ d.cx \in Int /\ d.ip \in Int
    BY Before DEF Fits, Cpus
  <1>2. d.ip >= MinIp /\ d.cx >= MinCx /\ d.cx <= Word - 1
    <2> HIDE DEF d
    <2> QED
      BY <1>1, Sizes DEF IInv, SameButCode, Reach, Fits
  <1>3. StringTick("SCAS", p, Scas(d), RepZF(d, zfVal))
    BY DEF SCAS
  <1> HIDE DEF d, zfVal
  <1> DEFINE once == Scas(d)
             repeated == RepZF(d, zfVal)
  <1>4. Fits(once) /\ once.sp = u.sp /\ once.stack = u.stack /\ once.ip = d.ip /\ once.cx = d.cx
    BY <1>1, ScasFits DEF Fits, SameButCode
  <1>5. ASSUME d.cx >= 0
        PROVE  /\ Fits(repeated) /\ repeated.sp = u.sp /\ repeated.stack = u.stack
               /\ repeated.ip = d.ip /\ repeated.cx >= MinCx
    <2>1. d.cx \in Nat
      BY <1>1, <1>5
    <2>2. Scanned(d, zfVal, d.cx, repeated)
      BY <1>1, <2>1, ScanStops
    <2> HIDE DEF repeated
    <2>3. /\ repeated \in Cpus /\ repeated.sp = d.sp /\ repeated.stack = d.stack /\ repeated.ip = d.ip
          /\ repeated.cx \in Int /\ d.cx - repeated.cx \in 0 .. d.cx
      BY <2>2 DEF Scanned, Cpus
    <2>4. repeated.cx >= 0 /\ repeated.cx <= d.cx
      BY <2>1, <2>3
    <2> QED
      BY <1>1, <1>2, <2>3, <2>4, Sizes DEF Fits, SameButCode
  <1> HIDE DEF once, repeated
  <1>6. \A c \in {once, repeated} :
          c = once \/ d.cx >= 0 =>
            Fits(c) /\ c.sp = u.sp /\ c.stack = u.stack /\ c.ip >= MinIp /\ c.cx >= MinCx
    BY <1>2, <1>4, <1>5
  <1> QED
    BY <1>3, <1>6, StringOn DEF d, once, repeated, zfVal

-----------------------------------------------------------------------------
(* The theorems.                                                           *)

LEMMA InitSound == Init => IInv
  <1> SUFFICES ASSUME Init PROVE IInv
    OBVIOUS
  <1>1. u \in Cpus
    <2>1. 0 \in Nat /\ 0 \in 0 .. Slots - 1 /\ 0 \in 0 .. Word - 1 /\ 0 \in Int /\ 0 \in Bit
          /\ "none" \in Prefixes
      BY Sizes DEF Bit, Prefixes
    <2> DEFINE S == 0 .. Slots - 1
               D == 0 .. Word - 1
               stack == [s \in S |-> 0]
               data == [d \in D |-> 0]
    <2>2. stack \in [S -> Int] /\ data \in [D -> Bit]
      BY <2>1
    <2>3. u = [cs |-> 0, ip |-> 0, sp |-> 0, ax |-> 0, cx |-> 0, di |-> 0,
               if |-> 0, df |-> 0, zf |-> 0,
               instruction |-> "none", segment |-> "none", empty |-> TRUE,
               stack |-> stack, data |-> data, state |-> "running"]
      BY DEF Init
    <2> HIDE DEF stack, data
    <2> QED
      BY <2>1, <2>2, <2>3 DEF Cpus
  <1>2. u.ip = 0 /\ u.cx = 0 /\ u.sp = 0 /\ frames = << >> /\ uses \in Programs
    BY DEF Init
  <1>3. Fits(u) /\ u.ip >= MinIp /\ u.cx >= MinCx
    BY <1>1, <1>2, Sizes DEF Fits
  <1>4. Nested(frames) /\ Carries(u, frames)
    BY <1>2, Sizes DEF Nested, Carries, DepthOf, SpOf
  <1> QED
    BY <1>2, <1>3, <1>4 DEF IInv

LEMMA StepSound == IInv /\ [Next]_vars => Sound \/ UNCHANGED vars
  <1> SUFFICES ASSUME IInv, Next PROVE Sound
    OBVIOUS
  <1>1. CASE X87Opcode
    BY <1>1, CoprocessorSound
  <1>2. ASSUME NEW p \in Prefixes,
               \/ MOV(p) \/ CMP(p) \/ SetIF(p) \/ SetDF(p)
               \/ JMP(p) \/ LOOP(p) \/ LOOPNE(p) \/ INTDevice(p)
        PROVE  Sound
    BY <1>2, MovSound, FlagsSound, JumpsSound, DeviceSound
  <1>3. ASSUME NEW p \in Prefixes,
               \/ PUSH(p) \/ PUSHF(p) \/ PUSHA(p) \/ CALL(p) \/ CALLF(p)
               \/ INT(p) \/ INT3(p) \/ DIV(p) \/ Undefined(p)
        PROVE  Sound
    BY <1>3, PushSound, PushAllSound, CallSound, CallFarSound, InterruptsSound, UndefinedSound
  <1>4. ASSUME NEW p \in Prefixes,
               \/ POP(p) \/ POPF(p) \/ POPA(p) \/ RET(p) \/ RETN(p) \/ RETF(p) \/ IRET(p)
               \/ STOS(p) \/ SCAS(p)
        PROVE  Sound
    BY <1>4, PopSound, PopAllSound, ReturnSound, ReturnDroppingSound, FarReturnSound,
       InterruptReturnSound, StosSound, ScasSound
  <1> QED
    BY <1>1, <1>2, <1>3, <1>4 DEF Next

LEMMA Invariance == Spec => []IInv
  <1>1. IInv /\ [Next]_vars => IInv'
    <2>1. CASE UNCHANGED vars
      BY <2>1 DEF vars, IInv, Fits, Carries
    <2> QED
      BY <2>1, StepSound DEF Sound
  <1> QED
    BY <1>1, InitSound, PTL DEF Spec

LEMMA InvariantSuffices == IInv => StackIntact
  <1> SUFFICES ASSUME IInv PROVE StackIntact
    OBVIOUS
  <1>1. u \in Cpus /\ Carries(u, frames) /\ Nested(frames) /\ FlagsOf(u) \in Flags
    BY FlagsFit DEF IInv, Fits
  <1>2. Depth = DepthOf(frames) /\ Depth \in Nat /\ Depth <= Slots /\ Depth \in 0 .. Slots
    <2>1. Depth = DepthOf(frames) /\ Depth \in Nat
      BY Before DEF Prefixes
    <2> QED
      BY <1>1, <2>1, Sizes DEF Carries
  <1>3. u.ip \in MinIp .. SegmentSize /\ u.cx \in MinCx .. Word - 1
    <2>1. u.ip \in Int /\ u.cx \in Int
      BY <1>1 DEF Cpus
    <2> QED
      BY <2>1, Sizes DEF IInv, Fits
  <1>4. TypeOK
    <2>1. uses \in Programs
      BY DEF IInv
    <2> QED
      BY <1>1, <1>2, <1>3, <2>1 DEF TypeOK, Cpus
  <1>5. FramesIntact
    <2>1. u.sp = (Slots - Depth) % Slots
      BY <1>1, <1>2, SpModulo DEF Carries
    <2> QED
      BY <1>1, <2>1 DEF FramesIntact, Carries
  <1> QED
    BY <1>4, <1>5 DEF StackIntact

\* What a program has saved with PUSH, PUSHF, PUSHA, CALL, CALL FAR or through an
\* interrupt or a fault lies on the stack as it was saved, in its order, and sp
\* (X86Stack.ts) is where it has been pushed to, whatever has run since and
\* wherever ip overflows its segment and sp its own.
THEOREM StackStaysIntact == Spec => []StackIntact
  BY Invariance, InvariantSuffices, PTL

\* RET, RETF, IRET, POP, POPF and POPA give back what was saved: the address, the
\* flags and the registers (X86InstructionSet.ts, X86Stack.ts).
THEOREM WhatWasSavedComesBack == Spec => SavedComesBack
  <1>1. IInv /\ [Next]_vars =>
          [Len(frames') < Len(frames) => BackFrom(u', Head(frames))]_vars
    BY StepSound DEF Sound, GivesBack
  <1>2. (Len(frames') < Len(frames) => BackFrom(u', Head(frames)))
        => (Len(frames') < Len(frames) =>
              LET f == Head(frames) IN
              /\ f.kind = "near" => u'.ip = f.words[1] /\ CodeSegment(u'.cs) = CodeSegment(f.cs)
              /\ f.kind \in {"far", "interrupt"} =>
                   /\ u'.cs = f.words[2] /\ u'.ip = f.words[1]
                   /\ f.cs < 2 * Segments => CodeSegment(u'.cs) = CodeSegment(f.cs)
              /\ f.kind = "interrupt" => FlagsOf(u') = f.words[3]
              /\ f.kind = "flags" => FlagsOf(u') = f.words[1]
              /\ f.kind = "register" => u'.ax = f.words[1]
              /\ f.kind = "all" => u'.di = f.words[1] /\ u'.cx = f.words[3] /\ u'.ax = f.words[4])
    BY DEF BackFrom
  <1> QED
    BY <1>1, <1>2, Invariance, PTL DEF Spec, SavedComesBack

\* Every instruction clears its prefixes, also the repeated ones (prefixes.clear()
\* at the end of tick in X86CPU.ts); only an unknown opcode, which leaves the
\* tick early, hands its own to the first instruction of its handler.
THEOREM PrefixesAreOwn == Spec => OwnPrefixes
  <1>1. IInv /\ [Next]_vars =>
          [Unprefixed(u) /\ ~Unprefixed(u') /\ u'.state = "running" =>
             \E p \in Prefixes : Undefined(p)]_vars
    BY StepSound DEF Sound, KeepsPrefixes
  <1> QED
    BY <1>1, Invariance, PTL DEF Spec, OwnPrefixes

LEMMA CellsSame ==
  ASSUME NEW c, SameButCode(u, c), NEW k
  PROVE  CellOf(c, k) = Cell(k) /\ c.ax = u.ax /\ c.data = u.data /\ c.cx = u.cx
  BY DEF SameButCode, CellOf, Cell, DirectionOf, Direction

LEMMA RepFillsStep ==
  ASSUME IInv, NEW p \in Prefixes, STOS(p), Repeats(Decoded(p)), u.cx >= 0
  PROVE  /\ u'.cx = 0 /\ u'.di = Cell(u.cx)
         /\ \A d \in 0 .. Word - 1 :
              u'.data[d] = IF \E k \in 0 .. u.cx - 1 : d = Cell(k) THEN u.ax ELSE u.data[d]
  <1> DEFINE c == Decoded(p)
             x == Rep(c)
             w == Cleared(x)
  <1>1. Fits(c) /\ SameButCode(u, c) /\ c.cx = u.cx /\ c.cx \in Nat
    <2>1. Fits(c) /\ SameButCode(u, c)
      BY Before
    <2> HIDE DEF c
    <2> QED
      BY <2>1 DEF Fits, SameButCode, Cpus
  <1>2. u' = w
    <2>1. ~(c.cx < 0)
      BY <1>1
    <2> QED
      BY <2>1 DEF STOS, StringTick
  <1> HIDE DEF c
  <1>3. /\ Fits(x) /\ x.cx = 0 /\ x.di = CellOf(c, c.cx)
        /\ \A d \in 0 .. Word - 1 :
             x.data[d] = IF \E k \in 0 .. c.cx - 1 : d = CellOf(c, k) THEN c.ax ELSE c.data[d]
    BY <1>1, RepFits
  <1> HIDE DEF x
  <1>4. w.cx = x.cx /\ w.di = x.di /\ w.data = x.data
    BY <1>3 DEF Cleared, Fits, Cpus
  <1> HIDE DEF w
  <1>5. \A k : CellOf(c, k) = Cell(k)
    BY <1>1, CellsSame
  <1>6. c.ax = u.ax /\ c.data = u.data
    BY <1>1, CellsSame
  <1> QED
    BY <1>1, <1>2, <1>3, <1>4, <1>5, <1>6

LEMMA RepeScansStep ==
  ASSUME IInv, SCAS("REP"), u.cx >= 0
  PROVE  ScansUntil(0)
  <1> DEFINE c == Decoded("REP")
             x == RepZF(c, 0)
             w == Cleared(x)
  <1>0. "REP" \in Prefixes
    BY DEF Prefixes
  <1>1. Fits(c) /\ c \in Cpus /\ SameButCode(u, c) /\ c.cx = u.cx /\ c.cx \in Nat
    <2>1. Fits(c) /\ SameButCode(u, c)
      BY <1>0, Before
    <2> HIDE DEF c
    <2> QED
      BY <2>1 DEF Fits, SameButCode, Cpus
  <1>2. c.instruction = "REP"
    <2> DEFINE a == IncrementIP(u, 1)
               b == [a EXCEPT !.instruction = "REP", !.empty = FALSE]
    <2>1. u \in Cpus /\ u.ip \in Reach /\ 1 \in 1 .. 3
      BY Sizes DEF IInv, Fits, Reach, Cpus
    <2>2. a \in Cpus /\ a.ip \in Reach
      BY <2>1, FetchFits
    <2>3. c = IncrementIP(b, 1)
      BY DEF Decoded, Prefixed
    <2> HIDE DEF a, c
    <2>4. b \in Cpus /\ b.ip \in Reach /\ b.instruction = "REP"
      BY <1>0, <2>2 DEF Cpus
    <2> HIDE DEF b
    <2> QED
      BY <2>1, <2>3, <2>4, FetchFits
  <1>3. u' = w
    <2>1. ~(c.cx < 0) /\ Repeats(c) /\ c.instruction # "REPNE"
      BY <1>1, <1>2 DEF Repeats
    <2> QED
      BY <2>1 DEF SCAS, StringTick
  <1> HIDE DEF c
  <1>4. Scanned(c, 0, c.cx, x)
    BY <1>1, ScanStops
  <1> HIDE DEF x
  <1>5. w.cx = x.cx /\ w.di = x.di /\ w.zf = x.zf /\ x.cx \in Int
    BY <1>4 DEF Cleared, Scanned, Cpus
  <1> HIDE DEF w
  <1>6. \A k : CellOf(c, k) = Cell(k)
    BY <1>1, CellsSame
  <1>7. \A k : ZfOf(c, k) = IF u.ax = u.data[Cell(k)] THEN 1 ELSE 0
    BY <1>1, CellsSame DEF ZfOf
  <1> DEFINE n == u.cx - u'.cx
  <1>8. n = c.cx - x.cx
    BY <1>1, <1>3, <1>5
  <1>9. /\ n \in 0 .. u.cx /\ u'.di = Cell(n)
        /\ n < u.cx => n > 0 /\ u'.zf = 0
        /\ n > 0 => u'.zf = ZfOf(c, n - 1)
        /\ \A k \in 0 .. n - 2 : ZfOf(c, k) # 0
    <2> HIDE DEF n
    <2> QED
      BY <1>1, <1>3, <1>4, <1>5, <1>6, <1>8 DEF Scanned
  <1> HIDE DEF n
  <1>10. /\ n \in 0 .. u.cx /\ u'.di = Cell(n)
         /\ n < u.cx => n > 0 /\ u'.zf = 0
         /\ n > 0 => u'.zf = IF u.ax = u.data[Cell(n - 1)] THEN 1 ELSE 0
         /\ \A k \in 0 .. n - 2 : (IF u.ax = u.data[Cell(k)] THEN 1 ELSE 0) # 0
    BY <1>7, <1>9
  <1> QED
    BY <1>10 DEF ScansUntil, n

\* REP STOS fills cx cells in the direction of df and around the end of the
\* segment, and no other; REPE SCAS stops behind the first cell that differs
\* (rep, repZF and dfIncrement in X86CPU.ts), for every size of a segment.
THEOREM RepetitionsAreCounted == Spec => RepeatsAreCounted
  <1>1. IInv /\ [Next]_vars =>
          [\A p \in Prefixes :
             STOS(p) /\ Repeats(Decoded(p)) /\ u.cx >= 0 =>
               /\ u'.cx = 0 /\ u'.di = Cell(u.cx)
               /\ \A d \in 0 .. Word - 1 :
                    u'.data[d] = IF \E k \in 0 .. u.cx - 1 : d = Cell(k) THEN u.ax ELSE u.data[d]]_vars
    BY RepFillsStep
  <1>2. IInv /\ [Next]_vars => [SCAS("REP") /\ u.cx >= 0 => ScansUntil(0)]_vars
    BY RepeScansStep
  <1> QED
    BY <1>1, <1>2, Invariance, PTL DEF Spec, RepeatsAreCounted, RepFills, RepeScans
=============================================================================
