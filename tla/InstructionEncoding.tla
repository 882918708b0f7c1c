------------------------- MODULE InstructionEncoding -------------------------
(***************************************************************************)
(* The instruction table (binaryInstructionsDefs.json), the choice of a    *)
(* schema for the arguments (findMatchingInstructionSchemas) and the bytes *)
(* emitted for it (BinaryInstruction.compile) in 16 bit mode.              *)
(***************************************************************************)
EXTENDS InstructionOperands

InfiniteSize == 8   \* stands for the Infinity of a mod that does not limit the displacement

(***************************************************************************)
(* A schema: the matchers of its arguments, the opcode bytes, the field of *)
(* the ModRM byte (8: the register argument, 0..7: an extension, 9: there  *)
(* is no such byte), the displacement bytes, and the last tokens: count    *)
(* bytes of an immediate ("i") or of a relative address ("r").             *)
(***************************************************************************)
Slash(args, op, rm, kind, count) ==
    [args |-> args, op |-> op, rm |-> rm, disp |-> IF rm = 9 /\ ~Contains(args, "moffs") THEN 0 ELSE 2,
     kind |-> kind, count |-> count]
MR(args, op) == Slash(args, <<op>>, 8, "i", 0)
Plain(args, op, kind, count) == Slash(args, <<op>>, 9, kind, count)

SchemaSize(schema) == Len(schema.op) + (IF schema.rm = 9 THEN 0 ELSE 1) + schema.disp + schema.count

Arithmetic == <<"add", "or", "adc", "sbb", "and", "sub", "xor", "cmp">>
ArithmeticSchemas(k) ==
    <<MR(<<"rmb", "rb">>, 8 * k), MR(<<"rmw", "rw">>, 8 * k + 1), MR(<<"rb", "rmb">>, 8 * k + 2),
      MR(<<"rw", "rmw">>, 8 * k + 3), Plain(<<"al", "ib">>, 8 * k + 4, "i", 1), Plain(<<"ax", "iw">>, 8 * k + 5, "i", 2),
      Slash(<<"rmb", "ib">>, <<128>>, k, "i", 1), Slash(<<"rmw", "iw">>, <<129>>, k, "i", 2),
      Slash(<<"rmw", "sign_extended_ib_to_iw">>, <<131>>, k, "i", 1)>>

Names8 == <<"al", "cl", "dl", "bl", "ah", "ch", "dh", "bh">>
Names16 == <<"ax", "cx", "dx", "bx", "sp", "bp", "si", "di">>

MovSchemas ==
    <<MR(<<"rmb", "rb">>, 136), MR(<<"rmw", "rw">>, 137), MR(<<"rb", "rmb">>, 138), MR(<<"rw", "rmw">>, 139),
      MR(<<"rmw", "sr">>, 140), MR(<<"sr", "rmw">>, 142),
      Plain(<<"al", "moffs">>, 160, "i", 0), Plain(<<"ax", "moffs">>, 161, "i", 0),
      Plain(<<"moffs", "al">>, 162, "i", 0), Plain(<<"moffs", "ax">>, 163, "i", 0)>>
    \o [k \in 1..8 |-> Plain(<<Names8[k], "ib">>, 175 + k, "i", 1)]
    \o [k \in 1..8 |-> Plain(<<Names16[k], "iw">>, 183 + k, "i", 2)]
    \o <<Slash(<<"rmb", "ib">>, <<198>>, 8, "i", 1), Slash(<<"rmw", "iw">>, <<199>>, 8, "i", 2)>>

Unary(rm) == <<Slash(<<"rmb">>, <<246>>, rm, "i", 0), Slash(<<"rmw">>, <<247>>, rm, "i", 0)>>
StepSchemas(plus, rm) == [k \in 1..8 |-> Plain(<<Names16[k]>>, plus + k - 1, "i", 0)]
                           \o <<Slash(<<"rmb">>, <<254>>, rm, "i", 0), Slash(<<"rmw">>, <<255>>, rm, "i", 0)>>
ShiftSchemas(rm) ==
    <<Slash(<<"rmb", "ib">>, <<192>>, rm, "i", 1), Slash(<<"rmw", "ib">>, <<193>>, rm, "i", 1),
      Slash(<<"rmb", "1">>, <<208>>, rm, "i", 0), Slash(<<"rmw", "1">>, <<209>>, rm, "i", 0),
      Slash(<<"rmb", "cl">>, <<210>>, rm, "i", 0), Slash(<<"rmw", "cl">>, <<211>>, rm, "i", 0)>>
JumpIfSchemas(op) == <<Plain(<<"sl">>, op, "r", 1), Slash(<<"ll">>, <<15, op + 16>>, 9, "r", 2)>>

Instructions ==
    [op \in ToSet(Arithmetic) |-> ArithmeticSchemas((CHOOSE k \in 1..8 : Arithmetic[k] = op) - 1)]
    @@ "mov" :> MovSchemas
    @@ "test" :> <<MR(<<"rmb", "rmb">>, 132), MR(<<"rmw", "rmw">>, 133), Plain(<<"al", "ib">>, 168, "i", 1),
                   Plain(<<"ax", "iw">>, 169, "i", 2), Slash(<<"rmb", "ib">>, <<246>>, 0, "i", 1),
                   Slash(<<"rmw", "iw">>, <<247>>, 0, "i", 2)>>
    @@ "inc" :> StepSchemas(64, 0) @@ "dec" :> StepSchemas(72, 1)
    @@ "not" :> Unary(2) @@ "neg" :> Unary(3) @@ "mul" :> Unary(4)
    @@ "lea" :> <<MR(<<"rw", "mw">>, 141)>>
    @@ "xchg" :> <<MR(<<"rb", "rmb">>, 134), MR(<<"rmb", "rb">>, 134), MR(<<"rmw", "rw">>, 135), MR(<<"rw", "rmw">>, 135)>>
                   \o [k \in 1..7 |-> Plain(<<"ax", Names16[k + 1]>>, 144 + k, "i", 0)]
    @@ "rol" :> ShiftSchemas(0) @@ "shl" :> ShiftSchemas(4) @@ "shr" :> ShiftSchemas(5)
    @@ "jmp" :> <<Plain(<<"np">>, 233, "r", 2), Plain(<<"sl">>, 235, "r", 1), Slash(<<"rmw">>, <<255>>, 4, "i", 0)>>
    @@ "jz" :> JumpIfSchemas(116) @@ "jnz" :> JumpIfSchemas(117)

(***************************************************************************)
(* The choice of a schema: the shortest one that matches, in the order of  *)
(* the table among those of a length.                                      *)
(***************************************************************************)
Fits(schema, args, address) ==
    Len(schema.args) = Len(args) /\ \A i \in DOMAIN args : Matches(schema.args[i], args[i], address)

MatchingSchemas(schemas, args, address) == {i \in DOMAIN schemas : Fits(schemas[i], args, address)}

BestSchema(schemas, fitting) ==
    schemas[Min({i \in fitting : \A k \in fitting : SchemaSize(schemas[i]) <= SchemaSize(schemas[k])})]

(***************************************************************************)
(* The ModRM byte.                                                         *)
(***************************************************************************)
Combinations == <<"bx", "si">> :> 0 @@ <<"bx", "di">> :> 1 @@ <<"bp", "si">> :> 2 @@ <<"bp", "di">> :> 3
                  @@ <<"si", None>> :> 4 @@ <<"di", None>> :> 5 @@ <<"bp", None>> :> 6 @@ <<"bx", None>> :> 7

\* Mutant of DispSize: the size of the unsigned displacement.
UnsignedDispSize(m) == RoundToPowerOfTwo(Min({2, NumberByteSize(m.disp)}))

DispSize(m) == RoundToPowerOfTwo(Min({2, SignedNumberByteSize(m.disp)}))

\* Mutant of MemMode: the registers of the address are not tried in the other order.
MemModeInOrder(m) ==
    LET pair == <<m.reg, m.reg2>>
        known == pair \in DOMAIN Combinations
    IN CASE m.hasDisp /\ m.reg = None -> [mod |-> 0, rm |-> 6]
         [] m.hasDisp /\ m.reg # None /\ known -> [mod |-> DispSize(m), rm |-> Combinations[pair]]
         [] ~m.hasDisp /\ known /\ pair # <<"bp", None>> -> [mod |-> 0, rm |-> Combinations[pair]]
         [] OTHER -> [mod |-> 3, rm |-> 0]

\* findMatchingMemAddressingRMByte: mod 3 says that there is no such addressing mode.
MemMode(m) ==
    LET pair == IF <<m.reg, m.reg2>> \in DOMAIN Combinations THEN <<m.reg, m.reg2>> ELSE <<m.reg2, m.reg>>
        known == pair \in DOMAIN Combinations
    IN CASE m.hasDisp /\ m.reg = None -> [mod |-> 0, rm |-> 6]
         [] m.hasDisp /\ m.reg # None /\ known -> [mod |-> DispSize(m), rm |-> Combinations[pair]]
         [] ~m.hasDisp /\ known /\ pair # <<"bp", None>> -> [mod |-> 0, rm |-> Combinations[pair]]
         [] OTHER -> [mod |-> 3, rm |-> 0]

(***************************************************************************)
(* An instruction with its arguments and its schema.                       *)
(***************************************************************************)
Ordinals(args, type) == {i \in DOMAIN args : args[i].type = type}
FirstOf(args, is) == IF is = {} THEN 0 ELSE Min(is)
MemOf(args) == FirstOf(args, Ordinals(args, "mem"))
ImmOf(args) == FirstOf(args, Ordinals(args, "num"))
RMOf(schema, args) == FirstOf(args, {i \in DOMAIN args : IsRMSchemaArg(schema.args[i])})
RegOf(schema, args) == FirstOf(args, Ordinals(args, "reg") \ {RMOf(schema, args)})

\* encodeRMByte
RMByte(schema, args) ==
    LET rm == args[RMOf(schema, args)]
        reg == RegOf(schema, args)
        with(mode) == [mod |-> mode.mod, rm |-> mode.rm, reg |-> IF reg = 0 THEN 0 ELSE RegisterIndex[args[reg].r]]
    IN CASE rm.type = "reg" -> with([mod |-> 3, rm |-> RegisterIndex[rm.r]])
         [] rm.type = "mem" /\ ~rm.mem.resolved -> [mod |-> 0, reg |-> 0, rm |-> 0]
         [] OTHER -> with(MemMode(rm.mem))

NthByte(n, value) == (value \div 256^n) % 256

SregPrefix == "es" :> 38 @@ "cs" :> 46 @@ "ss" :> 54 @@ "ds" :> 62

CompileError(schema, args, prefixes) ==
    LET arg == args[MemOf(args)]
        rm == args[RMOf(schema, args)]
    IN CASE MemOf(args) = 0 \/ ~arg.mem.resolved -> "ok"
         [] MemOf(args) # 0 /\ rm.type = "mem" /\ arg.mem.resolved /\ RMByte(schema, args).mod = 3 -> "INVALID_ADDRESSING_MODE"
         [] MemOf(args) # 0 /\ arg.mem.scale > 1 -> "SCALE_INDEX_IS_UNSUPPORTED_IN_MODE"
         [] MemOf(args) # 0 /\ DispByteSize(arg.mem) > Word -> "DISPLACEMENT_EXCEEDING_BYTE_SIZE"
         [] MemOf(args) # 0 /\ arg.mem.sreg \notin DOMAIN SregPrefix \cup {None} -> "INCORRECT_SREG_OVERRIDE"
         [] MemOf(args) # 0 /\ arg.mem.sreg # None /\ ToSet(prefixes) \cap {SregPrefix[s] : s \in DOMAIN SregPrefix} # {} ->
                "CONFLICT_SREG_OVERRIDE"
         [] OTHER -> "ok"

DispLimit(mod) == CASE mod = 2 -> 4 [] mod = 1 -> 1 [] OTHER -> InfiniteSize

\* Mutant of DispBytes: an address that is not known yet takes one byte.
DispBytesTight(schema, args) ==
    LET m == args[MemOf(args)].mem
        limit == Max({DispLimit(RMByte(schema, args).mod), DispByteSize(m)})
    IN CASE schema.disp = 0 \/ MemOf(args) = 0 -> <<>>
         [] schema.disp # 0 /\ MemOf(args) # 0 /\ ~m.resolved -> <<0>>
         [] schema.disp # 0 /\ MemOf(args) # 0 /\ m.resolved /\ ~m.hasDisp -> <<>>
         [] OTHER -> [k \in 1..Min({2, limit}) |-> NthByte(k - 1, m.disp)]

\* An argument whose label is not known yet takes all the bytes of its schema.
DispBytes(schema, args) ==
    LET m == args[MemOf(args)].mem
        limit == Max({DispLimit(RMByte(schema, args).mod), DispByteSize(m)})
    IN CASE schema.disp = 0 \/ MemOf(args) = 0 -> <<>>
         [] schema.disp # 0 /\ MemOf(args) # 0 /\ ~m.resolved -> <<0, 0>>
         [] schema.disp # 0 /\ MemOf(args) # 0 /\ m.resolved /\ ~m.hasDisp -> <<>>
         [] OTHER -> [k \in 1..Min({2, limit}) |-> NthByte(k - 1, m.disp)]

ModRMBytes(schema, args) ==
    LET encoded(byte) == 64 * byte.mod + 8 * (IF schema.rm = 8 THEN byte.reg ELSE schema.rm) + byte.rm
    IN IF schema.rm = 9 THEN <<>> ELSE <<encoded(RMByte(schema, args))>>

SregPrefixes(args) ==
    LET sreg == args[MemOf(args)].mem.sreg
    IN IF MemOf(args) = 0 \/ sreg = None THEN <<>> ELSE <<SregPrefix[sreg]>>

\* A relative address counts from the end of the instruction as its schema and its prefixes measure it.
LastBytes(schema, args, prefixes, address) ==
    LET size == SchemaSize(schema) + Len(prefixes)
        value == IF schema.kind = "r" THEN args[ImmOf(args)].n - address - size ELSE args[ImmOf(args)].n
    IN IF ImmOf(args) = 0 THEN [k \in 1..schema.count |-> 0] ELSE [k \in 1..schema.count |-> NthByte(k - 1, value)]

Compile(schema, args, prefixes, address) ==
    prefixes \o SregPrefixes(args) \o schema.op \o ModRMBytes(schema, args) \o DispBytes(schema, args)
      \o LastBytes(schema, args, prefixes, address)
=============================================================================
