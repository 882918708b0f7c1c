----------------------------- MODULE X86Execution -----------------------------
(***************************************************************************)
(* The execution of one instruction from its bytes: prefixes, the ModRM    *)
(* byte and its address (parseRmByte), and the data opcodes of             *)
(* X86InstructionSet and X86ALU.                                           *)
(*                                                                         *)
(* A machine is a record of the registers r, the flags f, the memory mem   *)
(* (the bytes written, over the contents Memory(a) of the others), the     *)
(* bytes of the instruction, the number of those fetched so far, the       *)
(* segment override and the fault the instruction ended with.              *)
(***************************************************************************)
EXTENDS X86ALU, Sequences, TLC

Names(size) ==
    IF size = 1 THEN <<"al", "cl", "dl", "bl", "ah", "ch", "dh", "bh">>
    ELSE <<"ax", "cx", "dx", "bx", "sp", "bp", "si", "di">>
SegmentNames == <<"es", "cs", "ss", "ds">>

Low == "al" :> "ax" @@ "bl" :> "bx" @@ "cl" :> "cx" @@ "dl" :> "dx"
High == "ah" :> "ax" @@ "bh" :> "bx" @@ "ch" :> "cx" @@ "dh" :> "dx"

\* X86RegsStore: the byte registers are halves of the word registers.
Get(m, name) ==
    CASE name \in DOMAIN Low -> m.r[Low[name]] % 256
      [] name \in DOMAIN High -> (m.r[High[name]] \div 256) % 256
      [] OTHER -> m.r[name]
Set(m, name, value) ==
    CASE name \in DOMAIN Low -> [m EXCEPT !.r[Low[name]] = 256 * ((@ \div 256) % 256) + (value % 256)]
      [] name \in DOMAIN High -> [m EXCEPT !.r[High[name]] = (@ % 256) + 256 * (value % 256)]
      [] OTHER -> [m EXCEPT !.r[name] = value]

\* The contents of memory before any write: neighbours differ.
Memory(a) == (37 * a + 11) % 251

ByteAt(m, a) == IF a \in DOMAIN m.mem THEN m.mem[a] ELSE Memory(a)
ReadMem(m, a, size) == IF size = 1 THEN ByteAt(m, a) ELSE ByteAt(m, a) + 256 * ByteAt(m, a + 1)
WriteMem(m, a, size, value) ==
    [m EXCEPT !.mem = (IF size = 1 THEN a :> (value % 256) ELSE a :> (value % 256) @@ (a + 1) :> ((value \div 256) % 256)) @@ @]

\* fetchOpcode; the byte after the instruction is a NOP.
Nop == 144
CodeAt(m, i) == IF i \in DOMAIN m.code THEN m.code[i] ELSE Nop
Fetch(m, size) == IF size = 1 THEN CodeAt(m, m.pos + 1) ELSE CodeAt(m, m.pos + 1) + 256 * CodeAt(m, m.pos + 2)
Fetched(m, size) == [m EXCEPT !.pos = @ + size]
Signed(n, size) == IF MSbit(n, size) = 1 THEN n - Modulus(size) ELSE n

Extended(n, size, target) == IF target > size /\ MSbit(n, size) = 1 THEN 65280 + n ELSE n

(***************************************************************************)
(* parseRmByte: the operand named by the ModRM byte at m, and the machine  *)
(* after the byte and the displacement.                                    *)
(***************************************************************************)
Base(m, rm) ==
    CASE rm = 0 -> m.r["bx"] + m.r["si"]
      [] rm = 1 -> m.r["bx"] + m.r["di"]
      [] rm = 2 -> m.r["bp"] + m.r["si"]
      [] rm = 3 -> m.r["bp"] + m.r["di"]
      [] rm = 4 -> m.r["si"]
      [] rm = 5 -> m.r["di"]
      [] rm = 6 -> m.r["bp"]
      [] rm = 7 -> m.r["bx"]

DisplacementSize(mod, rm) == IF mod = 0 /\ rm = 6 THEN 2 ELSE mod

SegmentFor(m, mod, rm) ==
    IF rm \in {2, 3, 6} /\ ~(mod = 0 /\ rm = 6) /\ m.segment = "ds" THEN "ss" ELSE m.segment

\* LEA asks for the address without a segment ("none").
PhysicalAddress(m, segment, offset) ==
    IF segment = "none" THEN offset ELSE 16 * m.r[segment] + Unsigned(offset, 2)

Operand(m, size) ==
    LET byte == Fetch(m, 1)
        mod == byte \div 64
        rm == byte % 8
        after == Fetched(m, 1)
        bytes == DisplacementSize(mod, rm)
        disp == IF bytes = 0 THEN 0 ELSE Signed(Fetch(after, bytes), bytes)
        offset == IF mod = 0 /\ rm = 6 THEN Fetch(after, 2) ELSE Base(m, rm) + disp
    IN IF mod = 3 THEN [m |-> after, isReg |-> TRUE, name |-> Names(size)[rm + 1], address |-> 0, reg |-> (byte \div 8) % 8]
       ELSE [m |-> Fetched(after, bytes), isReg |-> FALSE, name |-> "none", reg |-> (byte \div 8) % 8,
             address |-> PhysicalAddress(m, SegmentFor(m, mod, rm), offset)]

Read(o, size) == IF o.isReg THEN Get(o.m, o.name) ELSE ReadMem(o.m, o.address, size)
Write(m, o, size, value) == IF o.isReg THEN Set(m, o.name, value) ELSE WriteMem(m, o.address, size, value)
RegField(o, size) == Names(size)[o.reg + 1]

Fault(m, fault) == [m EXCEPT !.fault = fault]
WithFlags(m, flags) == [m EXCEPT !.f = flags]

(***************************************************************************)
(* Opcodes.                                                                *)
(***************************************************************************)
Operators == <<"add", "or", "adc", "sbb", "and", "sub", "xor", "cmp">>

\* The result of an operator goes where its left operand came from.
Finish(m, o, size, e) == WithFlags(Write(m, o, size, e.value), e.flags)
FinishInto(m, name, e) == WithFlags(Set(m, name, e.value), e.flags)

\* r/m, reg
IntoOperand(m, o, op, size) ==
    Finish(o.m, o, size, Exec(op, Read(o, size), Get(o.m, RegField(o, size)), m.f, size))

\* reg, r/m: the form with two registers has its operands exchanged.
IntoRegister(m, o, op, size) ==
    LET l == IF o.isReg THEN Get(o.m, o.name) ELSE Get(o.m, RegField(o, size))
        r == IF o.isReg THEN Get(o.m, RegField(o, size)) ELSE Read(o, size)
    IN FinishInto(o.m, RegField(o, size), Exec(op, l, r, m.f, size))

IntoAccumulator(m, op, size) ==
    FinishInto(Fetched(m, size), Names(size)[1], Exec(op, Get(m, Names(size)[1]), Fetch(m, size), m.f, size))

\* 0x80, 0x81 and 0x83: source is the size of the immediate.
Immediate(m, o, size, source) ==
    Finish(Fetched(o.m, source), o, size,
           Exec(Operators[o.reg + 1], Read(o, size), Extended(Fetch(o.m, source), source, size), m.f, size))

ArithmeticOpcode(m, opcode) ==
    LET op == Operators[(opcode \div 8) + 1]
        size == (opcode % 2) + 1
    IN CASE opcode % 8 \in {0, 1} -> IntoOperand(m, Operand(m, size), op, size)
         [] opcode % 8 \in {2, 3} -> IntoRegister(m, Operand(m, size), op, size)
         [] opcode % 8 \in {4, 5} -> IntoAccumulator(m, op, size)

\* TEST of 0x84, 0x85, 0xA8 and 0xA9 measures its flags on a byte.
Test(m, o, size) == WithFlags(o.m, Exec("and", Read(o, size), Get(o.m, RegField(o, size)), m.f, 1).flags)
TestAccumulator(m, size) ==
    WithFlags(Fetched(m, size), Exec("and", Get(m, Names(size)[1]), Fetch(m, size), m.f, 1).flags)

MulByte(m, value) ==
    LET ax == Get(m, "al") * value
    IN WithFlags(Set(m, "ax", ax), [m.f EXCEPT !.cf = Flag(ax % 256 # 0), !.of = Flag(ax % 256 # 0)])
MulWord(m, value) ==
    LET dx == HighWord(m.r["ax"], value)
    IN WithFlags(Set(Set(m, "ax", LowWord(m.r["ax"], value)), "dx", dx),
                 [m.f EXCEPT !.cf = Flag(dx # 0), !.of = Flag(dx # 0)])

\* 0xF6 and 0xF7 (rmByteMultiplierParse); IMUL and the divisions are not modelled here.
Multiplier(m, o, size) ==
    CASE o.reg \in {0, 1} -> WithFlags(Fetched(o.m, size), Exec("and", Read(o, size), Fetch(o.m, size), m.f, size).flags)
      [] o.reg = 2 -> Write(o.m, o, size, Modulus(size) - 1 - Read(o, size))
      [] o.reg = 3 -> Finish(o.m, o, size, Exec("sub", 0, Read(o, size), m.f, size))
      [] o.reg = 4 -> IF size = 1 THEN MulByte(o.m, Read(o, size)) ELSE MulWord(o.m, Read(o, size))
      [] OTHER -> Fault(o.m, "not modelled")

\* 0xFE and 0xFF: INC, DEC, and JMP through a word.
IncDecJump(m, o, size) ==
    CASE o.reg \in {0, 1} -> Finish(o.m, o, size, Exec(IF o.reg = 1 THEN "dec" ELSE "inc", Read(o, size), 0, m.f, size))
      [] o.reg = 4 -> [o.m EXCEPT !.jump = Read(o, size)]
      [] OTHER -> Fault(o.m, "not modelled")
StepRegister(m, op, k) == FinishInto(m, Names(2)[k], Exec(op, Get(m, Names(2)[k]), 0, m.f, 2))

MovIntoOperand(o, size) == Write(o.m, o, size, Get(o.m, RegField(o, size)))
MovIntoRegister(o, size) == Set(o.m, RegField(o, size), Read(o, size))
MovFromSegment(o) == Write(o.m, o, 2, Get(o.m, SegmentNames[o.reg + 1]))
MovIntoSegment(o) == Set(o.m, SegmentNames[o.reg + 1], Read(o, 2))

\* 0xA0..0xA3: the offset is the word after the opcode.
Moffs(m, opcode) ==
    LET size == (opcode % 2) + 1
        address == PhysicalAddress(m, m.segment, Fetch(m, 2))
        after == Fetched(m, 2)
    IN IF opcode < 162 THEN Set(after, Names(size)[1], ReadMem(m, address, size))
       ELSE WriteMem(after, address, size, Get(m, Names(size)[1]))

\* 0xC6 and 0xC7: the form with a register is not implemented.
MovImmediate(o, size) ==
    IF o.isReg THEN Fault(o.m, "error") ELSE WriteMem(Fetched(o.m, size), o.address, size, Fetch(o.m, size))

Lea(o) == Set(o.m, RegField(o, 2), o.address)

\* 0x87 stops on xchg bx, bx and dx, dx for the debugger; memory operands are not implemented.
Xchg(m, o) ==
    LET reg == RegField(o, 2)
    IN CASE Fetch(m, 1) \in {219, 210} -> Fetched(m, 1)
         [] Fetch(m, 1) \notin {219, 210} /\ ~o.isReg -> Fault(o.m, "error")
         [] OTHER -> Set(Set(o.m, reg, Get(m, o.name)), o.name, Get(m, reg))
XchgAccumulator(m, k) == Set(Set(m, Names(2)[k], m.r["ax"]), "ax", Get(m, Names(2)[k]))

\* 0xC0..0xD3 (switchRMOpcodeInstruction): the count is an immediate, 1 or cl.
ShiftOpcode(m, o, opcode, size) ==
    LET immediate == opcode \in {192, 193}
        times == CASE immediate -> Fetch(o.m, 1) [] opcode \in {208, 209} -> 1 [] OTHER -> Get(m, "cl")
        op == CASE o.reg = 0 -> "rol" [] o.reg = 4 -> "shl" [] o.reg = 5 -> "shr"
    IN IF o.reg \notin {0, 4, 5} THEN Fault(o.m, "not modelled")
       ELSE Finish(IF immediate THEN Fetched(o.m, 1) ELSE o.m, o, size, Shift(op, Read(o, size), times, m.f, size))

\* relativeJump, taken on a condition.
Relative(m, size, taken) ==
    LET after == Fetched(m, size)
        target == m.r["ip"] + after.pos + Signed(Fetch(m, size), size)
    IN IF taken THEN [after EXCEPT !.jump = IF target > 65536 THEN target % 256 ELSE target] ELSE after

\* The opcodes followed by a ModRM byte whose operand is o.
OperandOpcode(m, o, opcode, size) ==
    CASE opcode \in 128..129 -> Immediate(m, o, size, size)
      [] opcode = 131 -> Immediate(m, o, 2, 1)
      [] opcode \in 132..133 -> Test(m, o, size)
      [] opcode = 135 -> Xchg(m, o)
      [] opcode \in 136..137 -> MovIntoOperand(o, size)
      [] opcode \in 138..139 -> MovIntoRegister(o, size)
      [] opcode = 140 -> MovFromSegment(o)
      [] opcode = 142 -> MovIntoSegment(o)
      [] opcode \in {192, 193} \cup 208..211 -> ShiftOpcode(m, o, opcode, size)
      [] opcode \in 198..199 -> MovImmediate(o, size)
      [] opcode \in 246..247 -> Multiplier(m, o, size)
      [] opcode \in 254..255 -> IncDecJump(m, o, size)
WordOperands == {140, 142}
OperandOpcodes == (128..142 \ {130, 134, 141}) \cup {192, 193} \cup 198..199 \cup 208..211 \cup 246..247 \cup 254..255

Opcode(m, opcode) ==
    CASE opcode < 64 /\ opcode % 8 < 6 -> ArithmeticOpcode(m, opcode)
      [] opcode \in OperandOpcodes ->
           LET size == IF opcode \in WordOperands THEN 2 ELSE (opcode % 2) + 1
           IN OperandOpcode(m, Operand(m, size), opcode, size)
      [] opcode \in 64..71 -> StepRegister(m, "inc", opcode - 63)
      [] opcode \in 72..79 -> StepRegister(m, "dec", opcode - 71)
      [] opcode = 116 -> Relative(m, 1, m.f.zf = 1)
      [] opcode = 117 -> Relative(m, 1, m.f.zf = 0)
      [] opcode = 141 -> Lea(Operand([m EXCEPT !.segment = "none"], 2))
      [] opcode \in 144..151 -> XchgAccumulator(m, opcode - 143)
      [] opcode \in 160..163 -> Moffs(m, opcode)
      [] opcode \in 168..169 -> TestAccumulator(m, opcode - 167)
      [] opcode \in 176..183 -> Set(Fetched(m, 1), Names(1)[opcode - 175], Fetch(m, 1))
      [] opcode \in 184..191 -> Set(Fetched(m, 2), Names(2)[opcode - 183], Fetch(m, 2))
      [] opcode = 233 -> Relative(m, 2, TRUE)
      [] opcode = 235 -> Relative(m, 1, TRUE)
      [] OTHER -> Fault(m, "invalid opcode")

TwoByteOpcode(m, opcode) ==
    CASE opcode = 132 -> Relative(m, 2, m.f.zf = 1)
      [] opcode = 133 -> Relative(m, 2, m.f.zf = 0)
      [] OTHER -> Fault(m, "invalid opcode")

\* Segment prefixes, then the opcode (tick).
Overrides == 38 :> "es" @@ 46 :> "cs" @@ 54 :> "ss" @@ 62 :> "ds"
RECURSIVE Ticked(_)
Ticked(m) ==
    LET byte == Fetch(m, 1)
        next == Fetched(m, 1)
    IN CASE byte \in DOMAIN Overrides -> Ticked([next EXCEPT !.segment = Overrides[byte]])
         [] byte = 15 -> TwoByteOpcode(Fetched(next, 1), Fetch(next, 1))
         [] OTHER -> Opcode(next, byte)

\* The machine after the instruction in code.
NoJump == -1
Tick(m, code) ==
    LET advance(end) == [end EXCEPT !.r["ip"] = IF end.jump = NoJump THEN @ + end.pos ELSE end.jump]
    IN advance(Ticked([m EXCEPT !.code = code, !.pos = 0, !.segment = "ds", !.jump = NoJump, !.fault = "none"]))
=============================================================================
