------------------------------- MODULE X86CPU -------------------------------
(***************************************************************************)
(* The processor core (X86CPU.ts, X86InstructionSet.ts, X86Stack.ts and    *)
(* the faults of X86ALU.ts): prefixes, the stack and what is saved on it,  *)
(* calls, interrupts, faults that repeat their instruction, loops and      *)
(* repeated string instructions.                                           *)
(*                                                                         *)
(* An action is a tick: prefix and opcode are fetched, the instruction is  *)
(* executed, the prefixes are cleared.  Which instruction is found at      *)
(* cs:ip is left open, but for what every program keeps: it pops what it   *)
(* has pushed and returns from where it was called (frames).  Sizes are    *)
(* parameters: the stack counts in words, code segments follow each other  *)
(* a segment apart, data are the bytes of one segment that differ or not.  *)
(***************************************************************************)
EXTENDS Integers, Sequences

CONSTANTS
  SegmentSize,  \* 0x10000: ip overflows there
  Segments,     \* 0x10000 for cs, in steps of the 0x1000 paragraphs between code segments
  Slots,        \* words in the stack segment
  Word,         \* 0x10000: values of cx and di
  Byte,         \* 0x100
  Relatives,    \* displacements of jumps
  MinIp, MinCx, \* bounds: how far ip and cx go below zero
  MaxCs,        \* bound: past which cs no more ticks are made
  MaxFrames,    \* bound: what is saved at a time
  Programs      \* what programs contain: sets of instructions and prefixes

ASSUME X86CPUAssumption ==
  /\ SegmentSize \in Nat /\ SegmentSize > 3 /\ Byte \in 1 .. SegmentSize
  /\ Segments \in Nat \ {0} /\ Slots \in Nat \ {0} /\ Word \in Nat \ {0}
  /\ Relatives \subseteq Int /\ MaxFrames \in Nat
  /\ MinIp \in 0 - SegmentSize .. 0 /\ MinCx \in Int /\ MinCx <= 0
  /\ MaxCs \in Nat

Prefixes == {"none", "REP", "REPNE", "segment"}
Flags    == 0 .. 7
Bit      == {0, 1}

VARIABLES
  uses,   \* the instructions of the running program
  u,      \* registers, prefixes and memory
  frames  \* history: what the program has saved on the stack, the last first

vars == <<uses, u, frames>>

-----------------------------------------------------------------------------
(* Registers, prefixes, stack.                                             *)

\* toUnsignedNumber takes the range off or adds it once.
ToUnsigned(n, range) == IF n >= range THEN n - range ELSE IF n < 0 THEN n + range ELSE n

\* incrementIP: the next segment follows where ip overflows; cs is not masked,
\* and leaves its width behind the last one.
IncrementIP(c, size) ==
  IF c.ip + size >= SegmentSize
  THEN [c EXCEPT !.ip = ToUnsigned(@ + size, SegmentSize), !.cs = @ + 1]
  ELSE [c EXCEPT !.ip = @ + size]

\* getMemAddress: the segment that is fetched from.
CodeSegment(cs) == ToUnsigned(cs, Segments)

\* relativeJump: ip may go below zero, and up to the size of a segment.
RelativeJump(c, relative) ==
  LET ip == c.ip + relative IN
  [c EXCEPT !.ip = IF ip > SegmentSize THEN ip % Byte ELSE ip]

AbsoluteJump(c, ip, cs) == [c EXCEPT !.ip = ip, !.cs = cs]

\* flags as a word: if, df, zf.
FlagsOf(c) == 4 * c.if + 2 * c.df + c.zf

WithFlags(c, w) == [c EXCEPT !.if = (w \div 4) % 2, !.df = (w \div 2) % 2, !.zf = w % 2]

\* push
Push(c, val) ==
  LET sp == ToUnsigned(c.sp - 1, Slots) IN [c EXCEPT !.sp = sp, !.stack[sp] = val]

\* pop: what is read, and the unit after n words; words below sp are dead, and
\* forgotten here.
Top(c) == c.stack[c.sp]

Popped(c, n) ==
  [c EXCEPT !.sp = ToUnsigned(@ + n, Slots),
            !.stack = [s \in DOMAIN @ |-> IF (s - c.sp) % Slots < n THEN 0 ELSE @[s]]]

\* The prefix REPNE is filed as a segment (X86_PREFIXES, X86_PREFIX_LABEL_MAP).
Prefixed(c, p) ==
  CASE p = "none"                 -> c
    [] p = "REP"                  -> [IncrementIP(c, 1) EXCEPT !.instruction = "REP", !.empty = FALSE]
    [] p \in {"REPNE", "segment"} -> [IncrementIP(c, 1) EXCEPT !.segment = p, !.empty = FALSE]

\* Prefix and opcode are fetched.
Decoded(p) == IncrementIP(Prefixed(u, p), 1)

\* Mutant of Cleared: REP is left for the next instruction.
ClearedSegment(c) == [c EXCEPT !.segment = "none", !.empty = TRUE]

\* prefixes.clear()
Cleared(c) == [c EXCEPT !.instruction = "none", !.segment = "none", !.empty = TRUE]

Repeats(c) == c.instruction = "REP" \/ c.instruction = "REPNE"

-----------------------------------------------------------------------------
(* What the program saves.                                                 *)

\* How many words are saved up to and with a frame, or with the last one.
Extent(f) == f.base + Len(f.words)
Depth     == IF frames = << >> THEN 0 ELSE Extent(Head(frames))

\* A frame: the words it takes on the stack from sp up, how many are saved below
\* it, and the code segment that a return from it leads to.
Frame(kind, words, cs) == [kind |-> kind, words |-> words, base |-> Depth, cs |-> cs]

TopIs(kind) == frames # << >> /\ Head(frames).kind = kind

\* A program does not push more than the stack segment holds.
Room(n) == Depth + n <= Slots /\ Len(frames) < MaxFrames

\* ip and cs, truncated as the two bytes that are written to memory.
Offset(c)   == c.ip % SegmentSize
Selector(c) == c.cs % Segments

-----------------------------------------------------------------------------
(* A tick.                                                                 *)

Ticks(i, p) ==
  /\ u.state = "running" /\ i \in uses /\ u.cs <= MaxCs
  /\ p = "none" \/ p \in uses

\* An instruction other than one on strings: a REP before it throws.
Executes(i, p, next, saved) ==
  /\ Ticks(i, p)
  /\ next.ip >= MinIp /\ next.cx >= MinCx
  /\ IF Repeats(Decoded(p))
       THEN u' = [Decoded(p) EXCEPT !.state = "thrown"] /\ UNCHANGED frames
       ELSE u' = Cleared(next) /\ frames' = saved
  /\ UNCHANGED uses

Saves(i, p, n, next, frame) == Room(n) /\ Executes(i, p, next, <<frame>> \o frames)

Restores(i, p, kind, next) == TopIs(kind) /\ Executes(i, p, next, Tail(frames))

Init ==
  /\ uses \in Programs /\ frames = << >>
  /\ u = [cs |-> 0, ip |-> 0, sp |-> 0, ax |-> 0, cx |-> 0, di |-> 0,
          if |-> 0, df |-> 0, zf |-> 0,
          instruction |-> "none", segment |-> "none", empty |-> TRUE,
          stack |-> [s \in 0 .. Slots - 1 |-> 0], data |-> [d \in 0 .. Word - 1 |-> 0],
          state |-> "running"]

\* MOV, CMP and the rest that touches neither stack nor ip.
MOV(p) ==
  \/ \E v \in Bit : Executes("MOV", p, [Decoded(p) EXCEPT !.ax = v], frames)
  \/ \E v \in 0 .. Word - 1 :
       \/ Executes("MOV", p, [Decoded(p) EXCEPT !.cx = v], frames)
       \/ Executes("MOV", p, [Decoded(p) EXCEPT !.di = v], frames)

CMP(p) == \E v \in Bit : Executes("CMP", p, [Decoded(p) EXCEPT !.zf = v], frames)

\* CLI, STI, CLD, STD
SetIF(p) == \E v \in Bit : Executes("STI", p, [Decoded(p) EXCEPT !.if = v], frames)
SetDF(p) == \E v \in Bit : Executes("STD", p, [Decoded(p) EXCEPT !.df = v], frames)

PUSH(p) == Saves("PUSH", p, 1, Push(Decoded(p), u.ax), Frame("register", <<u.ax>>, u.cs))

POP(p) == LET d == Decoded(p) IN
  Restores("PUSH", p, "register", [Popped(d, 1) EXCEPT !.ax = Top(d)])

PUSHF(p) == Saves("PUSHF", p, 1, Push(Decoded(p), FlagsOf(u)), Frame("flags", <<FlagsOf(u)>>, u.cs))

POPF(p) == LET d == Decoded(p) IN
  Restores("PUSHF", p, "flags", WithFlags(Popped(d, 1), Top(d)))

\* ax, cx, sp and di stand for the eight registers; sp is the one before.
PUSHA(p) ==
  LET d == Decoded(p) IN
  Saves("PUSHA", p, 4, Push(Push(Push(Push(d, d.ax), ToUnsigned(d.cx, Word)), d.sp), d.di),
        Frame("all", <<u.di, u.sp, ToUnsigned(u.cx, Word), u.ax>>, u.cs))

\* sp is skipped.
PopAll(d) ==
  [Popped(d, 4) EXCEPT !.di = Top(d), !.cx = Top(Popped(d, 2)), !.ax = Top(Popped(d, 3))]

POPA(p) == Restores("PUSHA", p, "all", PopAll(Decoded(p)))

-----------------------------------------------------------------------------
(* Calls.                                                                  *)

\* Mutant of Called: the address pushed is that of the displacement.
CalledAtDisplacement(d, relative) ==
  RelativeJump(IncrementIP(Push(d, ToUnsigned(d.ip, SegmentSize)), 2), relative)

\* CALL near: the return address is computed before the displacement is fetched.
Called(d, relative) ==
  RelativeJump(IncrementIP(Push(d, ToUnsigned(d.ip + 2, SegmentSize)), 2), relative)

CALL(p) ==
  LET back == IncrementIP(Decoded(p), 2) IN
  \E r \in Relatives :
    Saves("CALL", p, 1, Called(Decoded(p), r), Frame("near", <<Offset(back)>>, back.cs))

\* CALL FAR through memory (FF /3).
CALLF(p) ==
  LET d == IncrementIP(Decoded(p), 3) IN
  Saves("CALLF", p, 2, AbsoluteJump(Push(Push(d, Selector(d)), Offset(d)), 0, 0),
        Frame("far", <<Offset(d), Selector(d)>>, d.cs))

\* A near return is made in the segment of the call; cs is looked at behind the
\* opcode, since fetching the last byte of a segment moves it on.
NearReturn(p) ==
  TopIs("near") /\ CodeSegment(Decoded(p).cs) = CodeSegment(Head(frames).cs)

RET(p) == LET d == Decoded(p) IN
  NearReturn(p) /\ Executes("CALL", p, [Popped(d, 1) EXCEPT !.ip = Top(d)], Tail(frames))

\* RET imm16 drops the word that was pushed before the call.
RETN(p) == LET d == Decoded(p) IN
  /\ NearReturn(p) /\ Len(frames) > 1 /\ frames[2].kind = "register"
  /\ Executes("RETN", p, [Popped(Popped(d, 1), 1) EXCEPT !.ip = Top(d)], Tail(Tail(frames)))

RETF(p) == LET d == Decoded(p) IN
  Restores("CALLF", p, "far", AbsoluteJump(Popped(d, 2), Top(d), Top(Popped(d, 1))))

-----------------------------------------------------------------------------
(* Interrupts.                                                             *)

\* interrupt through the vector table, whose entries all lead to 0:0.
Interrupted(c, cs, ip) ==
  AbsoluteJump([Push(Push(Push(c, FlagsOf(c)), cs), ip) EXCEPT !.if = 0], 0, 0)

\* A software interrupt returns behind its instruction.
INT(p) ==
  LET d == IncrementIP(Decoded(p), 1) IN
  Saves("INT", p, 3, Interrupted(d, Selector(d), Offset(d)),
        Frame("interrupt", <<Offset(d), Selector(d), FlagsOf(u)>>, d.cs))

\* One that a device has attached is a call into the emulator.
INTDevice(p) ==
  \E v \in Bit : Executes("INT", p, [IncrementIP(Decoded(p), 1) EXCEPT !.ax = v], frames)

\* INT3 raises a maskable trap.
INT3(p) ==
  LET d == Decoded(p) IN
  \/ u.if = 0 /\ Executes("INT3", p, d, frames)
  \/ u.if = 1 /\ Saves("INT3", p, 3, Interrupted(d, Selector(d), Offset(d)),
                       Frame("interrupt", <<Offset(d), Selector(d), FlagsOf(u)>>, d.cs))

\* DIV: dividing by zero is a maskable fault, which repeats the instruction from
\* its first prefix (instructionStartAddress).
DIV(p) ==
  LET d == IncrementIP(Decoded(p), 1) IN
  \/ \E v \in Bit : Executes("DIV", p, [d EXCEPT !.ax = v], frames)
  \/ u.if = 0 /\ Executes("DIV", p, d, frames)
  \/ u.if = 1 /\ Saves("DIV", p, 3, Interrupted(d, Selector(u), Offset(u)),
                       Frame("interrupt", <<Offset(u), Selector(u), FlagsOf(u)>>, u.cs))

\* An unknown opcode leaves the tick before the prefixes are looked at or cleared.
Undefined(p) ==
  /\ Ticks("UD", p)
  /\ LET d == Decoded(p) IN
     \/ u.if = 0 /\ u' = d /\ UNCHANGED frames
     \/ /\ u.if = 1 /\ Room(3)
        /\ u' = Interrupted(d, Selector(u), Offset(u))
        /\ frames' = <<Frame("interrupt", <<Offset(u), Selector(u), FlagsOf(u)>>, u.cs)>> \o frames
  /\ UNCHANGED uses

\* The opcode of the x87 is looked for before any prefix, and leaves the tick too.
X87Opcode ==
  /\ Ticks("X87", "none") /\ u' = IncrementIP(u, 2)
  /\ UNCHANGED <<uses, frames>>

\* Mutant of PopInterrupt: the flags stay on the stack.
PopInterruptFar(d) == AbsoluteJump(Popped(d, 2), Top(d), Top(Popped(d, 1)))

\* ip, cs and flags, in the order of Object.assign.
PopInterrupt(d) ==
  WithFlags(AbsoluteJump(Popped(d, 3), Top(d), Top(Popped(d, 1))), Top(Popped(d, 2)))

IRET(p) == Restores("IRET", p, "interrupt", PopInterrupt(Decoded(p)))

-----------------------------------------------------------------------------
(* Jumps, loops and strings.                                               *)

\* JMP and a conditional jump that is taken.
JMP(p) == \E r \in Relatives : Executes("JMP", p, RelativeJump(IncrementIP(Decoded(p), 1), r), frames)

\* LOOP: cx is decremented as a number, not as a word; LOOPNE looks at zf too.
Looped(d, r, stop) ==
  LET c == [IncrementIP(d, 1) EXCEPT !.cx = @ - 1] IN
  IF c.cx # 0 /\ ~stop THEN RelativeJump(c, r) ELSE c

LOOP(p) == \E r \in Relatives : Executes("LOOP", p, Looped(Decoded(p), r, FALSE), frames)

LOOPNE(p) == \E r \in Relatives : Executes("LOOP", p, Looped(Decoded(p), r, u.zf = 1), frames)

\* dfIncrement
DfIncrement(c) == [c EXCEPT !.di = ToUnsigned(IF c.df = 1 THEN @ - 1 ELSE @ + 1, Word)]

\* STOS stands for the instructions that REP repeats, SCAS for those that look at zf.
Stos(c) == DfIncrement([c EXCEPT !.data[c.di] = c.ax])
Scas(c) == DfIncrement([c EXCEPT !.zf = IF c.ax = c.data[c.di] THEN 1 ELSE 0])

\* rep
StosTimes(c) ==
  LET times[n \in 0 .. c.cx] == IF n = 0 THEN c ELSE Stos(times[n - 1]) IN times[c.cx]

Rep(c) == [StosTimes(c) EXCEPT !.cx = 0]

\* Mutant of RepZF: zf is looked at before cx is decremented.
RepZFBefore(c, zfVal) ==
  LET times[n \in 0 .. c.cx] ==
        IF n = 0 THEN c
        ELSE IF n > 1 /\ times[n - 1].zf = zfVal THEN times[n - 1]
        ELSE LET s == Scas(times[n - 1]) IN IF s.zf = zfVal THEN s ELSE [s EXCEPT !.cx = @ - 1]
  IN times[c.cx]

\* repZF: stops when zf is zfVal.
RepZF(c, zfVal) ==
  LET times[n \in 0 .. c.cx] ==
        IF n = 0 THEN c
        ELSE IF n > 1 /\ times[n - 1].zf = zfVal THEN times[n - 1]
        ELSE [Scas(times[n - 1]) EXCEPT !.cx = @ - 1]
  IN times[c.cx]

\* A counter below zero never gets to zero.
StringTick(i, p, once, repeated) ==
  /\ Ticks(i, p) /\ UNCHANGED <<uses, frames>>
  /\ LET d == Decoded(p) IN
     u' = IF ~Repeats(d) THEN Cleared(once)
          ELSE IF d.cx < 0 THEN [d EXCEPT !.state = "hung"] ELSE Cleared(repeated)

STOS(p) == StringTick("STOS", p, Stos(Decoded(p)), Rep(Decoded(p)))

SCAS(p) ==
  StringTick("SCAS", p, Scas(Decoded(p)),
             RepZF(Decoded(p), IF Decoded(p).instruction = "REPNE" THEN 1 ELSE 0))

-----------------------------------------------------------------------------
Next ==
  \/ X87Opcode
  \/ \E p \in Prefixes :
       \/ MOV(p) \/ CMP(p) \/ SetIF(p) \/ SetDF(p)
       \/ PUSH(p) \/ POP(p) \/ PUSHF(p) \/ POPF(p) \/ PUSHA(p) \/ POPA(p)
       \/ CALL(p) \/ CALLF(p) \/ RET(p) \/ RETN(p) \/ RETF(p)
       \/ INT(p) \/ INTDevice(p) \/ INT3(p) \/ DIV(p) \/ Undefined(p) \/ IRET(p)
       \/ JMP(p) \/ LOOP(p) \/ LOOPNE(p) \/ STOS(p) \/ SCAS(p)

Spec == Init /\ [][Next]_vars
-----------------------------------------------------------------------------
(* Properties.                                                             *)

\* Registers stay in their ranges, but for cs, ip and cx, which count as numbers;
\* the frames never outgrow the stack.
TypeOK ==
  /\ uses \in Programs /\ Depth <= Slots
  /\ u.cs \in Nat /\ u.ip \in MinIp .. SegmentSize
  /\ u.sp \in 0 .. Slots - 1 /\ u.cx \in MinCx .. Word - 1 /\ u.di \in 0 .. Word - 1
  /\ u.ax \in Bit /\ FlagsOf(u) \in Flags
  /\ u.instruction \in Prefixes /\ u.segment \in Prefixes /\ u.empty \in BOOLEAN
  /\ DOMAIN u.stack = 0 .. Slots - 1 /\ u.data \in [0 .. Word - 1 -> Bit]
  /\ u.state \in {"running", "thrown", "hung"}

\* What a program, its subroutines and its handlers have saved is on the stack
\* in the order the 8086 defines, and the address of a call or a trap is that of
\* the next instruction, of a fault that of the instruction, also where ip
\* overflows its segment and sp its own (CALL, interrupt, PUSHA).
FramesIntact ==
  /\ u.sp = (Slots - Depth) % Slots
  /\ \A i \in DOMAIN frames : \A k \in DOMAIN frames[i].words :
       u.stack[Slots - Extent(frames[i]) + k - 1] = frames[i].words[k]

\* Whatever nests, and wherever the stack wraps, the words that the program
\* saved lie on the stack untouched, and the registers but cs, ip and cx stay in
\* their widths.
StackIntact == TypeOK /\ FramesIntact

\* Popping a frame gives back what it saved, whatever ran meanwhile: registers,
\* flags, and where the program goes on (RET, RETF, IRET, POPA, POPF).  cs itself
\* comes back as it was truncated, and leads to the segment it was saved in
\* unless cs had left its width twice (incrementIP, getMemAddress).
SavedComesBack ==
  [][Len(frames') < Len(frames) =>
       LET f == Head(frames) IN
       /\ f.kind = "near" => u'.ip = f.words[1] /\ CodeSegment(u'.cs) = CodeSegment(f.cs)
       /\ f.kind \in {"far", "interrupt"} =>
            /\ u'.cs = f.words[2] /\ u'.ip = f.words[1]
            /\ f.cs < 2 * Segments => CodeSegment(u'.cs) = CodeSegment(f.cs)
       /\ f.kind = "interrupt" => FlagsOf(u') = f.words[3]
       /\ f.kind = "flags" => FlagsOf(u') = f.words[1]
       /\ f.kind = "register" => u'.ax = f.words[1]
       /\ f.kind = "all" => u'.di = f.words[1] /\ u'.cx = f.words[3] /\ u'.ax = f.words[4]]_vars

Unprefixed(c) == c.instruction = "none" /\ c.segment = "none"

\* No instruction leaves its prefixes to the next, but an unknown opcode, whose
\* handler runs its first instruction with them (the early return in tick).
OwnPrefixes ==
  [][Unprefixed(u) /\ ~Unprefixed(u') /\ u'.state = "running" =>
       \E p \in Prefixes : Undefined(p)]_vars

Direction == IF u.df = 1 THEN -1 ELSE 1
Cell(k)   == (u.di + Direction * k) % Word

\* REP STOS fills cx cells from di on, in the direction of df and around the end
\* of the segment, and no other (rep, dfIncrement).
RepFills ==
  [][\A p \in Prefixes :
       STOS(p) /\ Repeats(Decoded(p)) /\ u.cx >= 0 =>
         /\ u'.cx = 0 /\ u'.di = Cell(u.cx)
         /\ \A d \in 0 .. Word - 1 :
              u'.data[d] = IF \E k \in 0 .. u.cx - 1 : d = Cell(k) THEN u.ax ELSE u.data[d]]_vars

\* A scan stops behind the first cell for which zf is zfVal, or when cx is
\* counted down, and tells by zf which it was.
ScansUntil(zfVal) ==
  LET n == u.cx - u'.cx
      Zf(k) == IF u.ax = u.data[Cell(k)] THEN 1 ELSE 0
  IN /\ n \in 0 .. u.cx /\ u'.di = Cell(n)
     /\ n < u.cx => n > 0 /\ u'.zf = zfVal
     /\ n > 0 => u'.zf = Zf(n - 1)
     /\ \A k \in 0 .. n - 2 : Zf(k) # zfVal

\* REPE SCAS finds the first cell that differs (repZF).
RepeScans ==
  [][SCAS("REP") /\ u.cx >= 0 => ScansUntil(0)]_vars

\* A repeated instruction goes on exactly as long as its counter, and for SCAS
\* the flag, tells it to.
RepeatsAreCounted == RepFills /\ RepeScans

=============================================================================
