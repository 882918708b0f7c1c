-------------------------------- MODULE X86ALU --------------------------------
(***************************************************************************)
(* The arithmetic of the CPU: the operators of X86ALU, the flags exec sets *)
(* after them, and the shifts of X86CPU.  Flags are numbers 0 and 1 in a   *)
(* record; an operation returns its value and the flags after it.          *)
(***************************************************************************)
EXTENDS Integers, FiniteSets, Bitwise

Flags == [cf : 0..1, pf : 0..1, zf : 0..1, sf : 0..1, of : 0..1]

Modulus(size) == 256^size
Flag(condition) == IF condition THEN 1 ELSE 0
MSbit(n, size) == (n \div (128 * 256^(size - 1))) % 2
Bit(i, n) == (n \div 2^i) % 2

\* toUnsignedNumber: one turn of the modulus, no more.
Unsigned(n, size) == IF n >= Modulus(size) THEN n - Modulus(size) ELSE IF n < 0 THEN n + Modulus(size) ELSE n

\* pf counts the bits of the whole number.
Parity(n) == Flag(Cardinality({i \in 0..24 : Bit(i, n) = 1}) % 2 = 0)

ZSP(flags, n, size) ==
    [flags EXCEPT !.zf = Flag(n % Modulus(size) = 0), !.sf = MSbit(n, size), !.pf = Parity(n)]

Subtraction == {"sub", "cmp"}
Logic == {"and", "or", "xor"}
Steps == {"inc", "dec"}

Computed(op, l, r, cf) ==
    CASE op = "add" -> l + r
      [] op = "adc" -> l + r + cf
      [] op \in Subtraction -> l - r
      [] op = "sbb" -> l - r - cf
      [] op = "and" -> l & r
      [] op = "or" -> l | r
      [] op = "xor" -> l ^^ r
      [] op = "inc" -> l + 1
      [] op = "dec" -> l - 1

\* The right operand of inc and dec is null, which exec takes for 0.
Overflow(op, l, r, n, size) ==
    LET right == IF op = "dec" THEN 1 - MSbit(r, size) ELSE MSbit(r, size)
    IN Flag(MSbit(l, size) = right /\ MSbit(l, size) # MSbit(n, size))

\* Mutant of Exec: the logic operators leave the carry of the last instruction.
ExecKeepsCarry(op, l, r, flags, size) ==
    LET value == Computed(op, l, r, flags.cf)
        n == Unsigned(value, size)
    IN [value |-> IF op = "cmp" THEN l ELSE n,
        flags |-> CASE op \in Logic -> [ZSP(flags, n, size) EXCEPT !.of = 0]
                    [] op \in Steps -> [ZSP(flags, n, size) EXCEPT !.of = Overflow(op, l, 0, n, size)]
                    [] OTHER -> [ZSP(flags, n, size) EXCEPT !.cf = Flag(value # n)]]

\* The default mask of the flags to set, 0xFF, does not reach the overflow flag.
Exec(op, l, r, flags, size) ==
    LET value == Computed(op, l, r, flags.cf)
        n == Unsigned(value, size)
    IN [value |-> IF op = "cmp" THEN l ELSE n,
        flags |-> CASE op \in Logic -> [ZSP(flags, n, size) EXCEPT !.cf = 0, !.of = 0]
                    [] op \in Steps -> [ZSP(flags, n, size) EXCEPT !.of = Overflow(op, l, 0, n, size)]
                    [] OTHER -> [ZSP(flags, n, size) EXCEPT !.cf = Flag(value # n)]]

(***************************************************************************)
(* Shifts and rotations.                                                   *)
(***************************************************************************)
RECURSIVE ShiftedLeft(_, _, _)
ShiftedLeft(s, times, size) ==
    IF times = 0 THEN s
    ELSE ShiftedLeft([value |-> (2 * s.value) % Modulus(size), cf |-> MSbit(s.value, size)], times - 1, size)

\* The overflow flag of a word is taken from its low byte.
Shl(n, times, flags, size) ==
    LET s == ShiftedLeft([value |-> n, cf |-> flags.cf], times, size)
    IN [value |-> s.value,
        flags |-> [ZSP(flags, s.value, size) EXCEPT !.cf = s.cf, !.of = (MSbit(s.value, 1) + s.cf) % 2]]

Shr(n, times, flags, size) ==
    LET value == n \div 2^times
    IN IF times = 0 THEN [value |-> n, flags |-> flags]
       ELSE [value |-> value, flags |-> [ZSP(flags, value, size) EXCEPT !.cf = Bit(times - 1, n), !.of = MSbit(n, size)]]

RECURSIVE RotatedLeft(_, _, _)
RotatedLeft(n, times, size) == IF times = 0 THEN n ELSE RotatedLeft(2 * n + MSbit(n, size), times - 1, size)

\* The rotated number keeps the bits that left it on the left.
Rol(n, times, flags, size) ==
    LET value == RotatedLeft(n, times % (8 * size), size)
        carry == value % 2
    IN IF times = 0 THEN [value |-> n, flags |-> flags]
       ELSE [value |-> value,
             flags |-> [flags EXCEPT !.cf = carry, !.zf = Flag(value = 0),
                                     !.of = IF times = 1 THEN (MSbit(value, size) + carry) % 2 ELSE 0]]

Shift(op, n, times, flags, size) ==
    CASE op = "rol" -> Rol(n, times, flags, size)
      [] op = "shl" -> Shl(n, times, flags, size)
      [] op = "shr" -> Shr(n, times, flags, size)

\* MUL of two words, in parts that stay below 2^31: the high and the low word.
HighWord(a, b) == ((a \div 256) * b + (((a % 256) * b) \div 256)) \div 256
LowWord(a, b) == ((((a \div 256) * b + (((a % 256) * b) \div 256)) % 256) * 256) + (((a % 256) * b) % 256)
=============================================================================
