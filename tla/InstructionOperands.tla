------------------------- MODULE InstructionOperands -------------------------
(***************************************************************************)
(* The operands of an instruction: how their tokens become arguments       *)
(* (ASTInstruction.parseInstructionArgsTokens), what a memory phrase       *)
(* describes (ASTInstructionMemPtrArg), and which matcher of the           *)
(* instruction table accepts an argument (ASTInstructionArgMatchers).      *)
(*                                                                         *)
(* A token of an operand list is a register, a number, an expression, a    *)
(* memory phrase or a size override.  names maps the labels known to the   *)
(* resolver to their addresses; without a resolver it is NoResolver.       *)
(***************************************************************************)
EXTENDS MathExpression

NoResolver == <<>>
None == "none"

Byte == 1
Word == 2

\* COMPILER_REGISTERS_SET
Registers8 == "al" :> 0 @@ "cl" :> 1 @@ "dl" :> 2 @@ "bl" :> 3 @@ "ah" :> 4 @@ "ch" :> 5 @@ "dh" :> 6 @@ "bh" :> 7
Registers16 == "ax" :> 0 @@ "cx" :> 1 @@ "dx" :> 2 @@ "bx" :> 3 @@ "sp" :> 4 @@ "bp" :> 5 @@ "si" :> 6 @@ "di" :> 7
Segments == "es" :> 0 @@ "cs" :> 1 @@ "ss" :> 2 @@ "ds" :> 3
RegisterIndex == Registers8 @@ Registers16 @@ Segments
RegisterSize(r) == IF r \in DOMAIN Registers8 THEN Byte ELSE Word

Register(r) == [t |-> "reg", r |-> r]
Expression(toks) == [t |-> "expr", toks |-> toks]
Phrase(toks) == [t |-> "phrase", toks |-> toks]
Size(n) == [t |-> "size", n |-> n]

(***************************************************************************)
(* Sizes of numbers (numberByteSize.ts).                                   *)
(***************************************************************************)
Magnitude(n) == IF n < 0 THEN -n ELSE n

NumberByteSize(n) == CHOOSE k \in 1..4 : /\ k < 4 => Magnitude(n) < 256^k
                                         /\ k > 1 => Magnitude(n) >= 256^(k - 1)
SignedNumberByteSize(n) == NumberByteSize(2 * Magnitude(n))
RoundToPowerOfTwo(k) == IF k = 3 THEN 4 ELSE k

\* toUnsignedNumber wraps a number around once.
ToUnsigned(n, size) == IF n > 256^size - 1 THEN n - 256^size
                       ELSE IF n < 0 THEN n + 256^size ELSE n

\* signExtend gives a negative 32 bit number when the target has four bytes.
SignExtend(n, size, target) ==
    IF target <= size THEN n
    ELSE IF (n \div 128) % 2 = 0 THEN n % 256
    ELSE IF target = Word THEN 65280 + (n % 256)
    ELSE (n % 256) - 256

(***************************************************************************)
(* The description of a memory phrase (parseMemExpression).                *)
(***************************************************************************)
IsRegister(toks, i) == i \in DOMAIN toks /\ toks[i].t = "reg"
IsOp(toks, i, op) == i \in DOMAIN toks /\ toks[i] = Op(op)
Without(toks, i, n) == SubSeq(toks, 1, i - 1) \o SubSeq(toks, i + n, Len(toks))

Scaled(m, i) ==
    LET register == IF IsRegister(m.toks, i) THEN m.toks[i] ELSE m.toks[i + 2]
        factor == IF IsRegister(m.toks, i) THEN m.toks[i + 2] ELSE m.toks[i]
    IN CASE m.scale # 0 -> [m EXCEPT !.code = "SCALE_IS_ALREADY_DEFINED"]
         [] m.scale = 0 /\ factor \notin {Number(k) : k \in {1, 2, 4, 8}} -> [m EXCEPT !.code = "INCORRECT_SCALE"]
         [] OTHER -> [m EXCEPT !.scale = factor.n, !.index = register.r, !.toks = Without(@, i, 3)]

Based(m, i) ==
    LET rest == [m EXCEPT !.toks = Without(@, i, 1)]
    IN CASE m.reg = None -> [rest EXCEPT !.reg = m.toks[i].r]
         [] m.reg # None /\ m.scale # 0 -> [m EXCEPT !.code = "INCORRECT_MEM_EXPRESSION"]
         [] m.reg # None /\ m.scale = 0 /\ m.reg2 # None -> [m EXCEPT !.code = "IMPOSSIBLE_MEM_REG"]
         [] OTHER -> [rest EXCEPT !.reg2 = m.toks[i].r]

\* Registers are taken out of the phrase wherever they stand, their signs stay behind.
RECURSIVE EatRegisters(_, _)
EatRegisters(m, i) ==
    IF m.code # "ok" \/ i > Len(m.toks) THEN m
    ELSE IF i = 1 /\ IsRegister(m.toks, 1) /\ IsOp(m.toks, 2, ":")
           THEN EatRegisters([m EXCEPT !.sreg = m.toks[1].r, !.toks = Without(@, 1, 2)], 1)
    ELSE IF IsOp(m.toks, i + 1, "*") /\ (IsRegister(m.toks, i) \/ IsRegister(m.toks, i + 2))
           THEN EatRegisters(Scaled(m, i), i)
    ELSE IF IsRegister(m.toks, i) THEN EatRegisters(Based(m, i), i)
    ELSE EatRegisters(m, i + 1)

NoDescription == [toks |-> <<>>, sreg |-> None, reg |-> None, reg2 |-> None, index |-> None, scale |-> 0,
                  hasDisp |-> FALSE, disp |-> 0, resolved |-> FALSE, code |-> "ok"]

HasOperand(toks) == \E i \in DOMAIN toks : toks[i].t # "op"

\* What the registers leave behind is the displacement; without a resolver a phrase
\* that names a label is not described yet.
Displaced(m, disp, names) ==
    CASE disp.code = "ok" -> [m EXCEPT !.hasDisp = TRUE, !.disp = disp.n]
      [] disp.code = "UNKNOWN_KEYWORD" /\ names = NoResolver -> NoDescription
      [] OTHER -> [m EXCEPT !.code = disp.code]

DescribeRest(m, names) ==
    IF m.code = "ok" /\ HasOperand(m.toks) THEN Displaced(m, Evaluate(m.toks, names), names) ELSE m

DescribeMem(toks, names) == DescribeRest(EatRegisters([NoDescription EXCEPT !.toks = toks, !.resolved = TRUE], 1), names)

DispByteSize(m) == IF m.hasDisp THEN NumberByteSize(m.disp) ELSE 0

(***************************************************************************)
(* The arguments.                                                          *)
(***************************************************************************)
\* code tells why an expression or a memory phrase has no value.
Arg(type, size) ==
    [type |-> type, r |-> None, n |-> 0, size |-> size, explicit |-> FALSE, mem |-> NoDescription, code |-> "ok"]

\* NumberToken and ASTInstructionNumberArg: the override replaces the size of the number.
NumberArg(n, override) ==
    [Arg("num", IF override = 0 THEN RoundToPowerOfTwo(NumberByteSize(n)) ELSE override) EXCEPT
        !.n = n, !.explicit = override # 0]

\* Labels are put in the place of expressions before the arguments are parsed (assignLabelsToTokens).
ExpressionArg(value, names, override) ==
    IF value.code = "ok" THEN NumberArg(value.n, override)
    ELSE [Arg("label", override) EXCEPT
            !.code = IF value.code = "UNKNOWN_KEYWORD" /\ names = NoResolver THEN "ok" ELSE value.code]

MemArg(mem, size, override) == [Arg("mem", size) EXCEPT !.explicit = override # 0, !.mem = mem, !.code = mem.code]

MemSize(s, toks, i, jump) ==
    LET registers == {k \in DOMAIN s.args : s.args[k].type = "reg"}
    IN CASE s.override # 0 -> s.override
         [] s.override = 0 /\ jump -> Word
         [] s.override = 0 /\ ~jump /\ s.args = <<>> /\ IsRegister(toks, i + 1) -> RegisterSize(toks[i + 1].r)
         [] s.override = 0 /\ ~jump /\ registers # {} -> s.args[Min(registers)].size
         [] OTHER -> 0

ParsedArg(s, toks, i, names, jump) ==
    CASE toks[i].t = "reg" -> [Arg("reg", RegisterSize(toks[i].r)) EXCEPT !.r = toks[i].r]
      [] toks[i].t = "num" -> NumberArg(toks[i].n, s.override)
      [] toks[i].t = "expr" -> ExpressionArg(Evaluate(toks[i].toks, names), names, s.override)
      [] toks[i].t = "phrase" -> MemArg(DescribeMem(toks[i].toks, names), MemSize(s, toks, i, jump), s.override)

\* What can be wrong with an argument when it is parsed.
ArgError(s, arg) ==
    CASE arg.type = "mem" /\ arg.size = 0 /\ s.args # <<>> -> "MISSING_MEM_OPERAND_SIZE"
      [] arg.type = "num" /\ s.override # 0 /\ NumberByteSize(arg.n) > s.override -> "EXCEEDING_CASTED_NUMBER_SIZE"
      [] arg.type = "num" /\ s.args # <<>> /\ Last(s.args).type \in {"reg", "num"} /\ arg.size > Last(s.args).size ->
             "OPERAND_SIZES_MISMATCH"
      [] OTHER -> arg.code

WithArg(s, arg) ==
    IF ArgError(s, arg) # "ok" THEN [s EXCEPT !.code = ArgError(s, arg)]
    ELSE [s EXCEPT !.args = Append(@, arg), !.max = IF arg.type \in {"mem", "reg"} THEN Max({@, arg.size}) ELSE @]

ParsedToken(s, toks, i, names, jump) ==
    IF toks[i].t = "size" THEN [s EXCEPT !.override = toks[i].n] ELSE WithArg(s, ParsedArg(s, toks, i, names, jump))

RECURSIVE ParsedTo(_, _, _, _)
ParsedTo(toks, i, names, jump) ==
    IF i = 0 THEN [args |-> <<>>, override |-> 0, max |-> 0, code |-> "ok"]
    ELSE LET s == ParsedTo(toks, i - 1, names, jump)
         IN IF s.code = "ok" THEN ParsedToken(s, toks, i, names, jump) ELSE s

\* The size of every memory argument is the override, or else the largest size seen.
SizedArgs(s) ==
    LET HasMem == \E k \in DOMAIN s.args : s.args[k].type = "mem"
        size == IF s.override # 0 THEN s.override ELSE s.max
    IN CASE s.code # "ok" -> s
         [] s.code = "ok" /\ s.max # 0 /\ s.override # 0 /\ (s.override > s.max \/ (HasMem /\ s.override # s.max)) ->
                [s EXCEPT !.code = "OPERAND_SIZES_MISMATCH"]
         [] s.code = "ok" /\ HasMem /\ size = 0 -> [s EXCEPT !.code = "MEM_OPERAND_SIZE_NOT_SPECIFIED"]
         [] OTHER -> [s EXCEPT !.args = [k \in DOMAIN s.args |->
                                            IF s.args[k].type = "mem" THEN [s.args[k] EXCEPT !.size = size] ELSE s.args[k]]]

ParseArgs(toks, names, jump) == SizedArgs(ParsedTo(toks, Len(toks), names, jump))

(***************************************************************************)
(* The matchers (matchers.ts, ASTInstructionArgMatchers.ts).               *)
(***************************************************************************)
IsMem(arg, size) == arg.type = "mem" /\ (IF arg.explicit THEN arg.size = size ELSE arg.size <= size)
IsReg(arg, size) == arg.type = "reg" /\ arg.r \notin DOMAIN Segments /\ RegisterSize(arg.r) = size
IsImm(arg, size) == arg.type = "label" \/ (arg.type = "num" /\ arg.size <= size)
IsMoffs(arg) == arg.type = "mem" /\ arg.mem.reg = None /\ arg.mem.scale = 0 /\ arg.mem.hasDisp /\ DispByteSize(arg.mem) <= 2

\* immCanBeImplicitSignExtendedToByte
IsSignExtended(arg) ==
    LET target == Max({arg.size, Word})
        original == ToUnsigned(arg.n, target)
        extended == SignExtend(original, Byte, RoundToPowerOfTwo(SignedNumberByteSize(arg.n)))
    IN arg.type = "num" /\ ToUnsigned(extended, target) = original

\* The distance is measured from the end of the displacement, without the opcode.
IsRelLabel(arg, size, address) ==
    \/ arg.type = "label"
    \/ arg.type = "num" /\ RoundToPowerOfTwo(SignedNumberByteSize(arg.n - address - size)) = size

Matches(matcher, arg, address) ==
    CASE matcher = "rmb" -> IsReg(arg, Byte) \/ IsMem(arg, Byte)
      [] matcher = "rmw" -> IsReg(arg, Word) \/ IsMem(arg, Word)
      [] matcher = "rb" -> IsReg(arg, Byte)
      [] matcher = "rw" -> IsReg(arg, Word)
      [] matcher = "mw" -> IsMem(arg, Word)
      [] matcher = "sr" -> arg.type = "reg" /\ arg.r \in DOMAIN Segments
      [] matcher = "ib" -> IsImm(arg, Byte)
      [] matcher = "iw" -> IsImm(arg, Word)
      [] matcher = "moffs" -> IsMoffs(arg)
      [] matcher = "sign_extended_ib_to_iw" -> IsSignExtended(arg)
      [] matcher = "sl" -> IsRelLabel(arg, Byte, address)
      [] matcher = "ll" -> IsRelLabel(arg, Word, address)
      [] matcher = "np" -> arg.type \in {"label", "num"}
      [] matcher = "1" -> arg.type = "num" /\ arg.n = 1
      [] OTHER -> arg.type = "reg" /\ arg.r = matcher

IsRMSchemaArg(matcher) == matcher \in {"rmb", "rmw", "mw", "moffs"}
=============================================================================
