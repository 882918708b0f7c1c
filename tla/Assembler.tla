------------------------------ MODULE Assembler ------------------------------
(***************************************************************************)
(* One instruction on its way from its tokens to its effect: its arguments *)
(* are parsed, a schema is chosen for them, bytes are emitted; the passes  *)
(* repeat with the addresses of the labels until the size settles, and the *)
(* CPU executes the bytes.                                                 *)
(***************************************************************************)
EXTENDS InstructionMeaning

CONSTANTS
    Lines,     \* the lines considered: records of op, prefixes, operands, at, ahead and label
    Machines   \* the states of the machine it may run on

VARIABLES
    line,      \* the line, at its address
    machine,   \* the machine before the instruction is executed
    now,       \* the machine after it
    stage,     \* "parse", "match", "encode", "run", "done" or "failed"
    pass,      \* the pass over the line
    args,      \* its arguments
    schema,    \* the chosen schema
    sizes,     \* the number of bytes after each pass
    bytes,     \* the bytes of the last pass
    error      \* why the line was rejected
vars == <<line, machine, now, stage, pass, args, schema, sizes, bytes, error>>

\* A label ahead of the line moves with the bytes between them.
LabelAddress == IF line.ahead THEN line.at + Len(bytes) + line.label ELSE line.label
KnownLabels == IF pass = 1 THEN NoResolver ELSE "label" :> LabelAddress

\* The line with its label at its place.
Placed == [line EXCEPT !.label = LabelAddress]

\* The address the matchers measure from: none in the first pass, which is taken for 0.
MatchAddress == IF pass = 1 THEN 0 ELSE line.at

\* The prefixes written before the instruction: segments, whose override they are.
LinePrefixes == [i \in DOMAIN line.prefixes |-> SregPrefix[line.prefixes[i]]]

NoSchema == Plain(<<>>, 0, "i", 0)

NoMachine == [r |-> <<>>, f |-> [cf |-> 0, pf |-> 0, zf |-> 0, sf |-> 0, of |-> 0], mem |-> <<>>, code |-> <<>>,
              pos |-> 0, segment |-> "ds", jump |-> NoJump, fault |-> "none"]

Init ==
    /\ line \in Lines
    /\ machine = NoMachine
    /\ now = NoMachine
    /\ stage = "parse"
    /\ pass = 1
    /\ args = <<>>
    /\ schema = NoSchema
    /\ sizes = <<>>
    /\ bytes = <<>>
    /\ error = "none"

Fail(code) ==
    /\ error' = code
    /\ stage' = "failed"
    /\ UNCHANGED <<line, machine, now, pass, args, schema, sizes, bytes>>

Parse ==
    /\ stage = "parse"
    /\ \E parsed \in {ParseArgs(WrittenLine(line), KnownLabels, line.op \in Jumps)} :
          \/ parsed.code # "ok" /\ Fail(parsed.code)
          \/ /\ parsed.code = "ok"
             /\ args' = parsed.args
             /\ stage' = "match"
             /\ UNCHANGED <<line, machine, now, pass, schema, sizes, bytes, error>>

Match ==
    /\ stage = "match"
    /\ \E fitting \in {MatchingSchemas(Instructions[line.op], args, MatchAddress)} :
          \/ fitting = {} /\ Fail("UNKNOWN_COMPILER_INSTRUCTION")
          \/ /\ fitting # {}
             /\ schema' = BestSchema(Instructions[line.op], fitting)
             /\ stage' = "encode"
             /\ UNCHANGED <<line, machine, now, pass, args, sizes, bytes, error>>

\* Only a line without labels, and not a jump, keeps the bytes of the first pass.
IsConstantSize ==
    /\ line.op \notin Jumps
    /\ \A i \in DOMAIN args : args[i].type # "label" /\ (args[i].type = "mem" => args[i].mem.resolved)

Settled == (pass = 1 /\ IsConstantSize) \/ (pass > 1 /\ Len(bytes') = Len(bytes))

Encode ==
    /\ stage = "encode"
    /\ \E code \in {CompileError(schema, args, LinePrefixes)} :
          \/ code # "ok" /\ Fail(code)
          \/ /\ code = "ok"
             /\ bytes' = Compile(schema, args, LinePrefixes, line.at)
             /\ sizes' = Append(sizes, Len(bytes'))
             /\ stage' = IF Settled THEN "run" ELSE "parse"
             /\ pass' = IF Settled THEN pass ELSE pass + 1
             /\ UNCHANGED <<line, machine, now, args, schema, error>>

Run ==
    /\ stage = "run"
    /\ \E m \in Machines :
         /\ machine' = [m EXCEPT !.r["ip"] = line.at]
         /\ now' = Tick(machine', bytes)
    /\ stage' = "done"
    /\ UNCHANGED <<line, pass, args, schema, sizes, bytes, error>>

Next == Parse \/ Match \/ Encode \/ Run

Spec == Init /\ [][Next]_vars

(***************************************************************************)
(* Where the code is known to differ from the 8086, line by line.  What    *)
(* differs is stated in the README; every other line is held to its        *)
(* meaning.                                                                *)
(***************************************************************************)
OperandIs(i, kind) == i \in DOMAIN line.operands /\ line.operands[i].k = kind
SomeMem == {i \in DOMAIN line.operands : line.operands[i].k = "mem"}

\* [bp] alone, a conditional jump of 129 bytes, and a shift of a word in memory by a number:
\* WORD before the address is taken for the size of the count too.
Rejected ==
    \/ \E i \in SomeMem : line.operands[i].regs = <<"bp">> /\ line.operands[i].e = NoTree
    \/ line.op \in {"jz", "jnz"} /\ LabelAddress - line.at = 129
    \/ line.op \in Shifts /\ OperandIs(1, "mem") /\ OperandIs(2, "imm") /\ line.operands[1].size = Word

\* XCHG with memory and of bytes, which the CPU does not implement.
NotImplemented == line.op = "xchg" /\ (SomeMem # {} \/ LineSize(line) = Byte)

\* TEST of a register with memory is encoded as a test of the register with itself.
TestedItself == line.op = "test" /\ OperandIs(1, "reg") /\ OperandIs(2, "mem")

\* A rotated word keeps the bits that left it, and LEA an address beyond 16 bits.
Unmasked ==
    \/ line.op = "rol" /\ OperandIs(1, "reg") /\ LineSize(line) = Word
    \/ line.op = "lea" /\ SumOf(machine, line.operands[2].regs) + TreeValue(line.operands[2].e, LabelAddress) \notin 0..65535

\* DS written before an address with bp is not told from no segment.
OverridesSS ==
    \E i \in SomeMem : OverrideOf(line, line.operands[i]) = "ds" /\ Contains(line.operands[i].regs, "bp")

\* The matcher of a short jump does not count the prefixes: the distance leaves its byte and changes sign.
OutOfReach ==
    /\ line.op \in Jumps
    /\ schema.kind = "r"
    /\ schema.count = 1
    /\ LabelAddress - line.at - Len(bytes) < -128

Deviates == NotImplemented \/ TestedItself \/ Unmasked \/ OverridesSS \/ OutOfReach

(***************************************************************************)
(* Properties.                                                             *)
(***************************************************************************)
Words == 0..65535
FitsMachine(m) == /\ \A r \in DOMAIN m.r : m.r[r] \in Words
                  /\ \A a \in DOMAIN m.mem : m.mem[a] \in 0..255
                  /\ m.f \in Flags

\* The bytes are bytes, and outside the unmasked results the machine after the instruction is one of 16 bit registers.
TypeOK ==
    /\ stage \in {"parse", "match", "encode", "run", "done", "failed"}
    /\ pass \in 1..4
    /\ \A i \in DOMAIN bytes : bytes[i] \in 0..255
    /\ FitsMachine(machine)
    /\ stage = "done" /\ ~Unmasked => FitsMachine(now)

Succeeded == stage = "done" /\ ~Deviates

\* Registers, memory and ip after the bytes were executed are what the line means: the
\* parser, the choice of the schema, the encoder and the CPU agree on every operand
\* (ASTInstruction, BinaryInstruction.compile, parseRmByte and X86InstructionSet).
RunsAsWritten ==
    LET ends(meant) ==
            /\ now.fault = "none"
            /\ now.r = meant.r
            /\ \A a \in DOMAIN now.mem \cup DOMAIN meant.mem : ByteAt(now, a) = ByteAt(meant, a)
    IN Succeeded => ends(Effect(machine, Placed, line.at + Len(bytes)))

Carry(op, l, r, size, cf) ==
    CASE op \in {"add", "adc"} -> Exact(op, l, r, cf) >= Modulus(size)
      [] op \in {"sub", "cmp", "sbb", "neg"} -> Exact(op, l, r, cf) < 0
      [] op \in {"and", "or", "xor", "test"} -> FALSE
      [] op = "shl" -> r <= 8 * size /\ Bit((8 * size) - r, l) = 1
      [] op = "shr" -> Bit(r - 1, l) = 1
      [] op = "rol" -> Bit((8 * size) - (r % (8 * size)), l) = 1
      [] OTHER -> cf = 1

Arithmetical == {"add", "adc", "sub", "sbb", "cmp", "neg", "and", "or", "xor", "test", "inc", "dec", "shl", "shr"}
Untouched == {"mov", "lea", "xchg", "not", "jmp", "jz", "jnz"}

\* TEST measures the flags of a word on its low byte, but for the form with an immediate and no accumulator.
TestsAWord == line.op = "test" /\ LineSize(line) = Word /\ bytes[1] \in {132, 133, 168, 169}

\* The flags a conditional jump reads after the instruction are the ones of its result: zf,
\* sf and cf of arithmetic, of of INC, DEC and the logic operators, pf of bytes (X86ALU.exec
\* and the shifts of X86CPU); instructions that set no flags leave them alone.
FlagsAreArithmetic ==
    (Succeeded /\ ~TestsAWord) =>
        LET size == LineSize(line)
            l == Value(machine, Placed, 1, size)
            r == IF Len(line.operands) = 2 THEN Value(machine, Placed, 2, size) ELSE 0
            result == Result(machine, Placed)
        IN /\ line.op \in Untouched => now.f = machine.f
           /\ line.op \in Arithmetical => /\ (now.f.zf = 1) = (result = 0)
                                          /\ now.f.sf = MSbit(result, size)
                                          /\ size = Byte => now.f.pf = Parity(result)
           /\ line.op \in Arithmetical \cup {"rol"} =>
                (now.f.cf = 1) = Carry(line.op, l, r, size, machine.f.cf)
           /\ line.op \in {"inc", "dec"} => (now.f.of = 1) = (l = (Modulus(size) \div 2) - (IF line.op = "inc" THEN 1 ELSE 0))
           /\ line.op \in {"and", "or", "xor"} => now.f.of = 0

\* A line is rejected exactly when the 8086 has no such instruction, but for the named
\* gaps: nothing valid is lost between the parser, the table and the encoder, and no
\* operand that does not fit is cut silently.
VerdictIsRight ==
    /\ stage = "failed" => ~Valid(Placed) \/ Rejected
    /\ stage = "done" => Valid(Placed)

\* The assembler answers right: it refuses what does not fit, and what it accepts
\* comes out as bytes that leave the machine in a state of an 8086.
AnswerIsRight == TypeOK /\ VerdictIsRight

\* The passes over a line move its size one way, so that its labels settle: a jump only
\* grows, from the short form the first pass assumes, and any other line only shrinks into
\* the room the first pass left, but for the segment prefix that only a resolved address has.
SizesMoveOneWay ==
    LET prefix == IF \E k \in SomeMem : line.operands[k].sreg # None THEN 1 ELSE 0
    IN \A i, k \in DOMAIN sizes : i < k =>
         IF line.op \in Jumps THEN sizes[i] <= sizes[k] ELSE sizes[k] <= sizes[i] + (IF i = 1 THEN prefix ELSE 0)
=============================================================================
