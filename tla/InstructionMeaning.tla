-------------------------- MODULE InstructionMeaning --------------------------
(***************************************************************************)
(* What a line of assembly means, without encoding it: an abstract syntax  *)
(* of instructions, the tokens it is written with, the lines the 8086      *)
(* accepts, and the effect of a line on a machine.  This is the reference  *)
(* the assembler and the CPU are compared with, it models no code.         *)
(***************************************************************************)
EXTENDS InstructionEncoding, X86Execution

(***************************************************************************)
(* Expressions are trees of literals, the label, sums, differences,        *)
(* products and shifts; they are written with the brackets they need.      *)
(***************************************************************************)
NoTree == [t |-> "none"]
Lit(n) == [t |-> "lit", n |-> n]
Sym == [t |-> "sym"]
Neg(e) == [t |-> "neg", e |-> e]
Bin(op, l, r) == [t |-> "bin", op |-> op, l |-> l, r |-> r]

Strength(e) == CASE e.t = "bin" -> Priority[e.op] [] e.t = "neg" -> 2 [] OTHER -> 4
Bracketed(toks, condition) == IF condition THEN <<Op("(")>> \o toks \o <<Op(")")>> ELSE toks

RECURSIVE WrittenTree(_)
WrittenTree(e) ==
    CASE e.t = "lit" -> <<Number(e.n)>>
      [] e.t = "sym" -> <<Name("label")>>
      [] e.t = "neg" -> <<Op("-")>> \o Bracketed(WrittenTree(e.e), Strength(e.e) <= 2)
      [] e.t = "bin" -> Bracketed(WrittenTree(e.l), Strength(e.l) < Priority[e.op]) \o <<Op(e.op)>>
                          \o Bracketed(WrittenTree(e.r), Strength(e.r) <= Priority[e.op])

RECURSIVE TreeValue(_, _)
TreeValue(e, label) ==
    CASE e.t = "none" -> 0
      [] e.t = "lit" -> e.n
      [] e.t = "sym" -> label
      [] e.t = "neg" -> -TreeValue(e.e, label)
      [] e.t = "bin" -> CASE e.op = "+" -> TreeValue(e.l, label) + TreeValue(e.r, label)
                          [] e.op = "-" -> TreeValue(e.l, label) - TreeValue(e.r, label)
                          [] e.op = "*" -> TreeValue(e.l, label) * TreeValue(e.r, label)
                          [] e.op = "<<" -> TreeValue(e.l, label) * 2^TreeValue(e.r, label)

(***************************************************************************)
(* Operands: registers, immediates and memory, with a size or without.     *)
(***************************************************************************)
R(r) == [k |-> "reg", r |-> r, e |-> NoTree, size |-> 0, sreg |-> None, regs |-> <<>>]
I(e) == [R(None) EXCEPT !.k = "imm", !.e = e]
SegM(sreg, regs, e) == [R(None) EXCEPT !.k = "mem", !.e = e, !.sreg = sreg, !.regs = regs]
M(regs, e) == SegM(None, regs, e)
Sized(o, size) == [o EXCEPT !.size = size]

WrittenRegs(regs) ==
    CASE regs = <<>> -> <<>>
      [] Len(regs) = 1 -> <<Register(regs[1])>>
      [] OTHER -> <<Register(regs[1]), Op("+"), Register(regs[2])>>
WrittenDisp(o) ==
    CASE o.e = NoTree -> <<>>
      [] o.e # NoTree /\ (o.regs = <<>> \/ o.e.t = "neg") -> WrittenTree(o.e)
      [] OTHER -> <<Op("+")>> \o WrittenTree(o.e)
WrittenSreg(o) == IF o.sreg = None THEN <<>> ELSE <<Register(o.sreg), Op(":")>>

Written(o) ==
    (IF o.size = 0 THEN <<>> ELSE <<Size(o.size)>>)
    \o (CASE o.k = "reg" -> <<Register(o.r)>>
          [] o.k = "imm" /\ o.e.t = "lit" -> <<Number(o.e.n)>>
          [] o.k = "imm" /\ o.e.t # "lit" -> <<Expression(WrittenTree(o.e))>>
          [] o.k = "mem" -> <<Phrase(WrittenSreg(o) \o WrittenRegs(o.regs) \o WrittenDisp(o))>>)

WrittenLine(line) == FlattenSeq([i \in DOMAIN line.operands |-> Written(line.operands[i])])

(***************************************************************************)
(* The lines of the 8086.                                                  *)
(***************************************************************************)
Jumps == {"jmp", "jz", "jnz"}
Shifts == {"rol", "shl", "shr"}
Unaries == {"inc", "dec", "not", "neg", "mul"}

SizeOf(o) == IF o.k = "reg" THEN RegisterSize(o.r) ELSE o.size
OperandSizes(line) == {SizeOf(line.operands[i]) : i \in DOMAIN line.operands} \ {0}
LineSize(line) ==
    LET first == SizeOf(line.operands[1])
    IN IF line.op \in Shifts /\ first # 0 THEN first ELSE Max({0} \cup OperandSizes(line))

KnownAddress(o) ==
    LET set == ToSet(o.regs)
    IN \/ o.regs = <<>> /\ o.e # NoTree
       \/ Len(o.regs) = 1 /\ set \subseteq {"bx", "bp", "si", "di"}
       \/ Len(o.regs) = 2 /\ Cardinality(set \cap {"bx", "bp"}) = 1 /\ Cardinality(set \cap {"si", "di"}) = 1

SizesAgree(line) ==
    /\ LineSize(line) # 0
    /\ \A i \in DOMAIN line.operands :
         LET o == line.operands[i]
         IN /\ o.k \in {"reg", "mem"} /\ SizeOf(o) # 0 => SizeOf(o) = LineSize(line)
            /\ o.k = "imm" => Magnitude(TreeValue(o.e, line.label)) < 256^LineSize(line)

IsSegment(o) == o.k = "reg" /\ o.r \in DOMAIN Segments
Kinds(line) == [i \in DOMAIN line.operands |-> line.operands[i].k]

AcceptedKinds(line) ==
    CASE line.op \in Jumps -> {<<"imm">>} \cup (IF line.op = "jmp" THEN {<<"reg">>, <<"mem">>} ELSE {})
      [] line.op \in Unaries -> {<<"reg">>, <<"mem">>}
      [] line.op = "lea" -> {<<"reg", "mem">>}
      [] line.op = "xchg" -> {<<"reg", "reg">>, <<"reg", "mem">>, <<"mem", "reg">>}
      [] OTHER -> {<<"reg", "reg">>, <<"reg", "mem">>, <<"mem", "reg">>, <<"reg", "imm">>, <<"mem", "imm">>}

ValidShift(line) ==
    /\ SizeOf(line.operands[1]) # 0
    /\ \/ line.operands[2] = R("cl")
       \/ line.operands[2].k = "imm" /\ Magnitude(TreeValue(line.operands[2].e, line.label)) < 256

Valid(line) ==
    /\ Kinds(line) \in AcceptedKinds(line)
    /\ \A i \in DOMAIN line.operands : line.operands[i].k = "mem" =>
         KnownAddress(line.operands[i]) /\ (line.prefixes = <<>> \/ line.operands[i].sreg = None)
    /\ CASE line.op \in Jumps -> OperandSizes(line) \subseteq {Word}
         [] line.op \in Shifts -> ValidShift(line)
         [] OTHER -> SizesAgree(line)
    /\ line.op # "mov" => \A i \in DOMAIN line.operands : ~IsSegment(line.operands[i])
    /\ line.op = "mov" /\ (\E i \in 1..2 : IsSegment(line.operands[i]))
         => /\ line.operands[2].k # "imm"
            /\ ~(IsSegment(line.operands[1]) /\ IsSegment(line.operands[2]))
    /\ line.op = "lea" => LineSize(line) = Word

(***************************************************************************)
(* The effect of a line.  Numbers wrap around at the size of the line.     *)
(***************************************************************************)
SumOf(m, regs) == FoldLeft(LAMBDA sum, r : sum + m.r[r], 0, regs)
Offset(m, line, o) == (SumOf(m, o.regs) + TreeValue(o.e, line.label)) % 65536
OverrideOf(line, o) == IF line.prefixes # <<>> THEN Last(line.prefixes) ELSE o.sreg
SegmentOf(line, o) ==
    CASE OverrideOf(line, o) # None -> OverrideOf(line, o)
      [] OverrideOf(line, o) = None /\ Contains(o.regs, "bp") -> "ss"
      [] OTHER -> "ds"
Place(m, line, o) == 16 * m.r[SegmentOf(line, o)] + Offset(m, line, o)

Value(m, line, i, size) ==
    LET o == line.operands[i]
    IN CASE o.k = "reg" -> Get(m, o.r)
         [] o.k = "imm" -> TreeValue(o.e, line.label) % Modulus(size)
         [] o.k = "mem" -> ReadMem(m, Place(m, line, o), size)

Stored(m, line, i, size, value) ==
    LET o == line.operands[i]
    IN IF o.k = "reg" THEN Set(m, o.r, value) ELSE WriteMem(m, Place(m, line, o), size, value)

\* The exact result of an operation, and the one that fits in size bytes.
Exact(op, l, r, cf) ==
    CASE op = "add" -> l + r
      [] op = "adc" -> l + r + cf
      [] op \in {"sub", "cmp"} -> l - r
      [] op = "sbb" -> l - r - cf
      [] op \in {"and", "test"} -> l & r
      [] op = "or" -> l | r
      [] op = "xor" -> l ^^ r
      [] op = "inc" -> l + 1
      [] op = "dec" -> l - 1
      [] op = "neg" -> 0 - l
      [] op = "not" -> -1 - l
      [] op = "shl" -> l * 2^r
      [] op = "shr" -> l \div 2^r
      [] op = "mov" -> r

Result(m, line) ==
    LET size == LineSize(line)
        r == IF Len(line.operands) = 2 THEN Value(m, line, 2, size) ELSE 0
    IN Exact(line.op, Value(m, line, 1, size), r, m.f.cf) % Modulus(size)

Rotated(l, times, size) ==
    LET k == times % (8 * size)
    IN ((l * 2^k) % Modulus(size)) + (l \div 2^((8 * size) - k))

Multiplied(m, line) ==
    LET product == Get(m, Names(LineSize(line))[1]) * Value(m, line, 1, LineSize(line))
    IN IF LineSize(line) = Byte THEN Set(m, "ax", product)
       ELSE Set(Set(m, "ax", product % 65536), "dx", product \div 65536)

Taken(m, op) == CASE op = "jmp" -> TRUE [] op = "jz" -> m.f.zf = 1 [] op = "jnz" -> m.f.zf = 0

\* The registers and the memory after the line; end is the address of the byte after the line.
Effect(m, line, end) ==
    LET size == LineSize(line)
        next == [m EXCEPT !.r["ip"] = end]
    IN CASE line.op \in Jumps -> IF Taken(m, line.op) THEN [m EXCEPT !.r["ip"] = Value(m, line, 1, Word)] ELSE next
         [] line.op \in {"cmp", "test"} -> next
         [] line.op = "lea" -> Set(next, line.operands[1].r, Offset(m, line, line.operands[2]))
         [] line.op = "xchg" -> Stored(Stored(next, line, 1, size, Value(m, line, 2, size)),
                                       line, 2, size, Value(m, line, 1, size))
         [] line.op = "mul" -> Multiplied(next, line)
         [] line.op = "rol" -> Stored(next, line, 1, size, Rotated(Value(m, line, 1, size), Value(m, line, 2, Byte), size))
         [] OTHER -> Stored(next, line, 1, size, Result(m, line))
=============================================================================
