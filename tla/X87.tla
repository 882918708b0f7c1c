-------------------------------- MODULE X87 --------------------------------
(***************************************************************************)
(* The floating point unit (x87/X87.ts, x87/X87Regs.ts): eight physical    *)
(* registers with a tag each, a stack pointer that the instructions number *)
(* st(0)..st(7) from, a copy of it in the status word, exception masks and *)
(* the instructions that push, pop, exchange, save and restore.            *)
(*                                                                         *)
(* An instruction is a sequence of register operations (nth, setNthValue,  *)
(* safePush, safePop, ...), any of which may throw and leave the ones      *)
(* before it done.  Each operation is an operator from a unit to a unit    *)
(* that does nothing once something was thrown.  Numbers are abstracted to *)
(* what the tags tell apart; arithmetic may return any of them.            *)
(***************************************************************************)
EXTENDS Integers

CONSTANTS
  NRegs,    \* X87_STACK_REGS_COUNT, 8 in the code
  Reals,    \* the values that memory and arithmetic yield
  Programs  \* what programs contain: sets of instructions of Optional

\* Instructions that not every program has: those that compute, those that save
\* and restore, and those that go around the discipline of the stack.
Optional ==
  {"arithmetic", "FSTENV", "FLDENV", "FSAVE", "FRSTOR", "FLDCW", "FCLEX",
   "FNINIT", "FLD st", "FSTP", "FFREE", "FINCSTP", "FUCOMPP"}

ASSUME X87Assumption ==
  /\ NRegs \in Nat /\ NRegs >= 2
  /\ {"zero", "inf"} \subseteq Reals /\ "undefined" \notin Reals
  /\ Programs \subseteq SUBSET Optional

Index  == 0 .. NRegs - 1
Values == Reals \cup {"undefined"}
Tags   == {"VALID", "ZERO", "SPECIAL", "EMPTY"}
Masks  == {"IM", "ZM", "OM", "UM"}
Traps  == {"none", "stack", "invalid", "zero divide", "TypeError"}

Status == [top : Index, c1 : BOOLEAN, sf : BOOLEAN, ie : BOOLEAN, ze : BOOLEAN]

\* X87RegsStore; initialized is isStackInitialized(), trap what the running
\* instruction has thrown.
Units ==
  [initialized : BOOLEAN, stack : [Index -> Values], stackPointer : Index,
   tags : [Index -> Tags], status : Status, control : SUBSET Masks, trap : Traps]

\* What FSTENV writes, and with the registers FSAVE; written tells a program
\* that has saved from one that has not.
Environments == [control : SUBSET Masks, status : Status, tags : [Index -> Tags]]
Images ==
  [control : SUBSET Masks, status : Status, tags : [Index -> Tags],
   stack : [Index -> Reals], written : BOOLEAN]

VARIABLES
  uses,   \* the optional instructions that the running program contains
  unit,   \* the registers
  mem,    \* what the last FST, FSTP, FIST or FISTP wrote
  env,    \* memory image of the last FSTENV
  saved   \* memory image of the last FSAVE

vars == <<uses, unit, mem, env, saved>>

-----------------------------------------------------------------------------
(* Register operations.                                                    *)

Finite(v) == v \notin {"inf", "nan", "undefined"}
Falsy(v)  == v \in {"zero", "nan", "undefined"}

\* checkFloatingNumberTag
TagOf(v) ==
  CASE v = "undefined"      -> "EMPTY"
    [] v = "zero"           -> "ZERO"
    [] v \in {"inf", "nan"} -> "SPECIAL"
    [] OTHER                -> "VALID"

Phys(u, i) == (u.stackPointer + i) % NRegs
St(u, i)   == u.stack[Phys(u, i)]

Throw(u, trap) == [u EXCEPT !.trap = trap]

\* An exception is thrown unless the control word masks it.
Raise(u, mask, trap) == IF mask \in u.control THEN u ELSE Throw(u, trap)

\* Touching stack[...] before any reset() is a TypeError: stack is null.
NeedsStack(u) == IF u.initialized THEN u ELSE Throw(u, "TypeError")

\* nth: reading an empty register only reports a stack fault.
Nth(u, i) ==
  IF u.trap # "none" THEN u
  ELSE NeedsStack([u EXCEPT !.status.sf = @ \/ u.tags[Phys(u, i)] = "EMPTY"])

\* Mutants of SetNthValue: nth is taken for an index of the file;
\* withoutTagUpdate by default.
SetNthValueAbsolute(u, i, v) ==
  IF u.trap # "none" THEN u
  ELSE IF ~u.initialized THEN Throw(u, "TypeError")
  ELSE [u EXCEPT !.stack[i] = v, !.tags[i] = TagOf(v)]

SetNthValueUntagged(u, i, v) ==
  IF u.trap # "none" THEN u
  ELSE IF ~u.initialized THEN Throw(u, "TypeError")
  ELSE [u EXCEPT !.stack[Phys(u, i)] = v]

\* setNthValue
SetNthValue(u, i, v) ==
  IF u.trap # "none" THEN u
  ELSE IF ~u.initialized THEN Throw(u, "TypeError")
  ELSE [u EXCEPT !.stack[Phys(u, i)] = v, !.tags[Phys(u, i)] = TagOf(v)]

\* setStackPointer
SetStackPointer(u, n) ==
  [u EXCEPT !.stackPointer = n % NRegs, !.status.top = n % NRegs]

\* Mutant of SafePop: the tag is set after the pointer has moved.
SafePopTagsNewTop(u) ==
  IF u.trap # "none" THEN u
  ELSE LET moved == SetStackPointer(u, u.stackPointer + 1)
       IN  NeedsStack([moved EXCEPT !.tags[moved.stackPointer] = "EMPTY"])

\* safePop; the value it returns is St(SafePop(u), 0).
SafePop(u) ==
  IF u.trap # "none" THEN u
  ELSE LET moved == SetStackPointer([u EXCEPT !.tags[u.stackPointer] = "EMPTY"],
                                    u.stackPointer + 1)
           fault == [moved EXCEPT !.status.c1 = FALSE, !.status.sf = TRUE, !.status.ie = TRUE]
           popped == IF u.tags[u.stackPointer] = "EMPTY" THEN Raise(fault, "UM", "stack")
                     ELSE moved
       IN  IF popped.trap = "none" THEN NeedsStack(popped) ELSE popped

\* Mutant of SafePush: it looks at no tag.
SafePushUnchecked(u, v) ==
  IF u.trap # "none" THEN u
  ELSE LET moved == SetStackPointer(u, u.stackPointer - 1)
       IN  SetNthValue([moved EXCEPT !.status.c1 = FALSE], 0, v)

\* safePush
SafePush(u, v) ==
  IF u.trap # "none" THEN u
  ELSE LET moved == SetStackPointer(u, u.stackPointer - 1)
           top   == moved.stackPointer
       IN  IF u.tags[top] # "EMPTY"
             THEN LET fault == [moved EXCEPT !.status.c1 = TRUE, !.status.sf = TRUE,
                                             !.status.ie = TRUE, !.tags[top] = "VALID"]
                  IN  IF u.initialized THEN Raise([fault EXCEPT !.stack[top] = "inf"], "OM", "stack")
                      ELSE Throw(fault, "TypeError")
             ELSE LET pushed == [moved EXCEPT !.status.c1 = FALSE, !.tags[top] = TagOf(v)]
                  IN  IF u.initialized THEN [pushed EXCEPT !.stack[top] = v]
                      ELSE Throw(pushed, "TypeError")

\* checkOperandFlags
CheckOperands(u, a, b) ==
  IF u.trap # "none" \/ (Finite(a) /\ Finite(b)) THEN u
  ELSE Raise([u EXCEPT !.status.ie = TRUE], "IM", "invalid")

\* the checks of fdiv: a falsy divisor is a division by zero
CheckDivision(u, a, b) ==
  IF u.trap # "none" THEN u
  ELSE IF Falsy(b) THEN Raise([u EXCEPT !.status.ze = TRUE], "ZM", "zero divide")
  ELSE CheckOperands([u EXCEPT !.status.ze = FALSE], a, b)

\* reset
ResetUnit(u) ==
  [initialized |-> TRUE, stack |-> [r \in Index |-> "inf"], stackPointer |-> 0,
   tags |-> [r \in Index |-> "EMPTY"],
   status |-> [top |-> 0, c1 |-> FALSE, sf |-> FALSE, ie |-> FALSE, ze |-> FALSE],
   control |-> Masks, trap |-> u.trap]

-----------------------------------------------------------------------------
(* Instructions.                                                           *)

\* tick clears the fault bits of the instruction before.
Fetched ==
  [unit EXCEPT !.status.sf = FALSE, !.status.ie = FALSE, !.trap = "none"]

\* Before FINIT the registers are null, in arithmetic 0: every tag reads VALID,
\* the stack pointer 0, and nothing is masked; zeroed memory reads the same.
Init ==
  /\ uses \in Programs
  /\ unit = [ResetUnit([trap |-> "none"]) EXCEPT
               !.initialized = FALSE, !.tags = [r \in Index |-> "VALID"], !.control = {}]
  /\ mem = "zero"
  /\ env = [control |-> {}, status |-> unit.status, tags |-> unit.tags]
  /\ saved = [control |-> {}, status |-> unit.status, tags |-> unit.tags,
              stack |-> [i \in Index |-> "zero"], written |-> FALSE]

Exec(u) ==
  /\ unit' = u
  /\ UNCHANGED <<uses, mem, env, saved>>

\* Memory is written when nothing was thrown before; undefined is written as a
\* zero.  Rounding to the width of the operand is left out.
Written(v) == IF v = "undefined" THEN "zero" ELSE v

Store(u, v) ==
  /\ unit' = u
  /\ mem' = IF u.trap = "none" THEN Written(v) ELSE mem
  /\ UNCHANGED <<uses, env, saved>>

\* Reads of several registers, in order.
Nth2(u, i, j) == Nth(Nth(u, i), j)

\* FLD m, FILD, FLD1, FLDZ, ...: loads a value.
FLD(v) == Exec(SafePush(Fetched, v))

\* FLD st(i): registers[i] is not a register, so it pushes undefined.
FLDst(i) == "FLD st" \in uses /\ Exec(SafePush(Fetched, "undefined"))

\* FST m
FST == Store(Nth(Fetched, 0), St(unit, 0))

\* fist truncates to an integer n; FISTP then pops, which may throw after
\* memory was written.
FIST(n) == Finite(n) /\ Store(Nth(Fetched, 0), n)

FISTP(n) ==
  /\ Finite(n)
  /\ unit' = SafePop(Nth(Fetched, 0))
  /\ mem' = IF unit.initialized THEN n ELSE mem
  /\ UNCHANGED <<uses, env, saved>>

\* FSTP m: stores what safePop returns.
FSTP == "FSTP" \in uses /\ Store(SafePop(Fetched), St(SafePop(Fetched), 0))

\* FST st(i), FSTP st(i)
FSTst(i)  == Exec(SetNthValue(Nth(Fetched, 0), i, St(unit, 0)))
FSTPst(i) == Exec(SafePop(SetNthValue(Nth(Fetched, 0), i, St(unit, 0))))

\* FXCH st(i)
FXCH(i) ==
  LET cached == St(unit, 0)
      first  == SetNthValue(Nth2(Fetched, 0, i), 0, St(unit, i))
  IN  Exec(SetNthValue(first, i, cached))

\* FCHS, FABS, FSIN, FSQRT read st(0), FSCALE st(1) too, FPREM1 only st(1);
\* st(0) becomes any result.
Unary(i, j, v) == Exec(SetNthValue(Nth2(Fetched, i, j), 0, v))

\* FPREM reports a bit of the quotient in c1, and leaves c1 when it is 0.
FPREM(v) ==
  \E bit \in BOOLEAN :
    Exec(LET u == SetNthValue(Nth2(Fetched, 0, 1), 0, v)
         IN  IF u.trap = "none" THEN [u EXCEPT !.status.c1 = @ \/ bit] ELSE u)

\* FADD, FSUB, FMUL, ... of st(0) and st(i) into st(0) or st(i), with or without a pop.
Arith(i, dest, v) ==
  Exec(SetNthValue(CheckOperands(Nth2(Fetched, 0, i), St(unit, 0), St(unit, i)), dest, v))

ArithP(i, v) ==
  Exec(SafePop(SetNthValue(
         CheckOperands(Nth2(Fetched, 0, i), St(unit, 0), St(unit, i)), i, v)))

\* FDIV and FDIVR by st(i) or by st(0); pops when it is FDIVP or FDIVRP.
Divide(i, dest, v) ==
  \E a, b \in {0, i} :
    /\ {a, b} = {0, i}
    /\ Exec(SetNthValue(CheckDivision(Nth2(Fetched, a, b), St(unit, a), St(unit, b)), dest, v))

DivideP(i, v) ==
  \E a, b \in {0, i} :
    /\ {a, b} = {0, i}
    /\ Exec(SafePop(SetNthValue(
              CheckDivision(Nth2(Fetched, a, b), St(unit, a), St(unit, b)), i, v)))

\* FADD m, FIADD m, FDIV m, ...: the memory operand is any number.
ArithMem(m, v) ==
  \/ Exec(SetNthValue(CheckOperands(Nth(Fetched, 0), St(unit, 0), m), 0, v))
  \/ Exec(SetNthValue(CheckDivision(Nth(Fetched, 0), St(unit, 0), m), 0, v))
  \/ Exec(SetNthValue(CheckDivision(Nth(Fetched, 0), m, St(unit, 0)), 0, v))

\* FCOM, FUCOM, FTST, FCOMP, FCOMPP compare and pop as often as they say.
Compared(i) == CheckOperands(Nth2(Fetched, 0, i), St(unit, 0), St(unit, i))

FCOM(i)  == Exec(Compared(i))
FCOMP(i) == Exec(SafePop(Compared(i)))
FCOMPP   == Exec(SafePop(SafePop(Compared(1))))

FCOMmem(m)  == Exec(CheckOperands(Nth(Fetched, 0), St(unit, 0), m))
FCOMPmem(m) == Exec(SafePop(CheckOperands(Nth(Fetched, 0), St(unit, 0), m)))

\* FUCOMPP: its matcher is called without the unit as this, and throws at once.
FUCOMPP == "FUCOMPP" \in uses /\ Exec(Throw(Fetched, "TypeError"))

\* FYL2X, FYL2XP1: into st(1), and pop; FPATAN divides first.
FYL2X(v) == Exec(SafePop(SetNthValue(Nth2(Fetched, 1, 0), 1, v)))
FPATAN(v) ==
  Exec(SafePop(SetNthValue(
         CheckDivision(Nth2(Fetched, 1, 0), St(unit, 1), St(unit, 0)), 1, v)))

\* FPTAN, FXTRACT, FSINCOS: into st(0), and push.
FSINCOS(v, w) == Exec(SafePush(SetNthValue(Nth(Fetched, 0), 0, v), w))

\* FFREE st(i) empties the register i of the file, not of the stack.
FFREE(i) == "FFREE" \in uses /\ Exec([Fetched EXCEPT !.tags[i] = "EMPTY"])

\* Mutant of FINCSTP: the pointer is not masked.
FINCSTPUnmasked ==
  /\ "FINCSTP" \in uses
  /\ \E d \in {-1, 1} : Exec([Fetched EXCEPT !.stackPointer = @ + d, !.status.top = @ + d])

FINCSTP ==
  /\ "FINCSTP" \in uses
  /\ \E d \in {-1, 1} : Exec(SetStackPointer(Fetched, unit.stackPointer + d))

FINIT == Exec(ResetUnit(Fetched))

\* FNINIT, FNOP, FENI, FDISI, FSETPM: nothing, FXAM only reads.
FNINIT == "FNINIT" \in uses /\ Exec(Fetched)
FXAM   == Exec(Nth(Fetched, 0))

\* FCLEX (9B DB E2) clears the whole status word, top included.
FCLEX ==
  /\ "FCLEX" \in uses
  /\ Exec([Fetched EXCEPT !.status = ResetUnit(Fetched).status])

\* FNCLEX (DB E2) keeps the condition codes and the top.
FNCLEX == Exec([Fetched EXCEPT !.status.ze = FALSE])

FLDCW(masks) == "FLDCW" \in uses /\ Exec([Fetched EXCEPT !.control = masks])

\* fstenv
FSTENV ==
  /\ "FSTENV" \in uses
  /\ unit' = Fetched
  /\ env' = [control |-> unit.control, status |-> Fetched.status, tags |-> unit.tags]
  /\ UNCHANGED <<uses, mem, saved>>

\* Mutant of LoadEnv: the status is loaded and the stack pointer left where it is.
LoadEnvStatusOnly(u, image) ==
  [u EXCEPT !.control = image.control, !.status = image.status, !.tags = image.tags]

\* fldenv: setStatus moves the stack pointer to the top of the loaded status.
LoadEnv(u, image) ==
  [u EXCEPT !.control = image.control, !.status = image.status,
            !.stackPointer = image.status.top, !.tags = image.tags]

FLDENV == "FLDENV" \in uses /\ Exec(LoadEnv(Fetched, env))

\* fsave: the registers are written from st(0) on, and the unit reset.
SavedRegisters(u) == [i \in Index |-> Written(St(u, i))]

FSAVE ==
  /\ "FSAVE" \in uses
  /\ unit' = IF unit.initialized THEN ResetUnit(Fetched) ELSE Nth(Fetched, 0)
  /\ saved' =
       [control |-> unit.control, status |-> Fetched.status, tags |-> unit.tags,
        stack   |-> IF unit.initialized THEN SavedRegisters(unit)
                    ELSE saved.stack,
        written |-> unit.initialized]
  /\ UNCHANGED <<uses, mem, env>>

\* Mutant of Restored: the registers are written where they lie in memory.
RestoredInPlace(u, image) ==
  IF u.initialized THEN [LoadEnv(u, image) EXCEPT !.stack = image.stack]
  ELSE Throw(LoadEnv(u, image), "TypeError")

\* frstor: from st(0) of the loaded environment on, without touching the tags.
Restored(u, image) ==
  LET loaded == LoadEnv(u, image) IN
  IF ~u.initialized THEN Throw(loaded, "TypeError")
  ELSE [loaded EXCEPT !.stack =
          [r \in Index |-> image.stack[(r - loaded.stackPointer) % NRegs]]]

\* A program restores an image that a FSAVE has written.
FRSTOR ==
  /\ "FRSTOR" \in uses /\ saved.written
  /\ Exec(Restored(Fetched, saved))

Stack ==
  \/ \E v \in Reals : FLD(v) \/ FIST(v) \/ FISTP(v)
  \/ FST \/ FSTP \/ FXAM \/ FINCSTP
  \/ \E i \in Index : FLDst(i) \/ FSTst(i) \/ FSTPst(i) \/ FXCH(i) \/ FFREE(i)

Arithmetic ==
  \/ \E v \in Reals :
       \/ FPREM(v) \/ FYL2X(v) \/ FPATAN(v)
       \/ \E i, j \in {0, 1} : Unary(i, j, v)
       \/ \E i \in Index :
            \/ \E dest \in {0, i} : Arith(i, dest, v) \/ Divide(i, dest, v)
            \/ ArithP(i, v) \/ DivideP(i, v)
  \/ \E i \in Index : FCOM(i) \/ FCOMP(i)
  \/ \E m \in Reals : FCOMmem(m) \/ FCOMPmem(m)
  \/ \E m, v \in Reals : ArithMem(m, v) \/ FSINCOS(m, v)
  \/ FCOMPP \/ FUCOMPP

Control ==
  \/ FINIT \/ FNINIT \/ FCLEX \/ FNCLEX
  \/ \E masks \in SUBSET Masks : FLDCW(masks)
  \/ FSTENV \/ FLDENV \/ FSAVE \/ FRSTOR

Next == Stack \/ ("arithmetic" \in uses /\ Arithmetic) \/ Control

Spec == Init /\ [][Next]_vars

-----------------------------------------------------------------------------
(* Properties.                                                             *)

\* The shape of the state: the pointer stays within the file and registers,
\* tags and images hold what they can.
TypeOK ==
  /\ uses \in Programs /\ unit \in Units /\ env \in Environments /\ saved \in Images
  /\ mem \in Reals

\* The two copies of the top agree: what FSTENV, FSAVE and FNSTSW tell a program
\* of the stack is where the unit pushes and pops, across wrap-around, faults
\* and restored environments, once FCLEX is left out, which clears the status
\* word with the top in it.
TopTracked(u) == u.status.top = u.stackPointer

TopsAgree ==
  "FCLEX" \notin uses => TopTracked(unit)

\* With FCLEX they may differ, but only by a top that reads zero.
TopNeverStray == unit.status.top \in {unit.stackPointer, 0}

\* A tag tells the truth about its register: a register that is not empty
\* holds a value of the class its tag names, the indefinite value of a push on
\* a full stack excepted.  Holds while no instruction loads tags that belong to
\* other contents (FLDENV) or to another top (FRSTOR after FCLEX).
Truthful(u, r) ==
  u.tags[r] = "EMPTY" \/ u.tags[r] = TagOf(u.stack[r])
    \/ (u.tags[r] = "VALID" /\ u.stack[r] = "inf")

TagsTruthful ==
  unit.initialized /\ {"FLDENV", "FCLEX"} \cap uses = {}
    => \A r \in Index : Truthful(unit, r)

\* The stack as a program sees it: st(i) with its tag.
Live(u) ==
  [i \in Index |-> IF u.tags[Phys(u, i)] = "EMPTY" THEN "empty"
                   ELSE <<u.tags[Phys(u, i)], St(u, i)>>]

\* What an FSAVE image says the program's stack was.
LiveImage(image) ==
  [i \in Index |-> IF image.tags[(image.status.top + i) % NRegs] = "EMPTY" THEN "empty"
                   ELSE <<image.tags[(image.status.top + i) % NRegs], image.stack[i]>>]

\* A register that is in use holds a number: FLD st(i) pushes undefined with an
\* empty tag, and only FLDENV gives that a tag of something else.
InUseIsDefined(u) == \A r \in Index : u.stack[r] = "undefined" => u.tags[r] = "EMPTY"

\* FSAVE writes what the program sees and FRSTOR gives it back, wherever the top
\* was at either: a task switch loses no register and moves none.
SaveKeepsStack ==
  [][FSAVE /\ unit.initialized /\ InUseIsDefined(unit) /\ TopTracked(unit)
       => LiveImage(saved') = Live(unit)]_vars

RestoreGivesBack ==
  [][FRSTOR /\ unit.initialized => Live(unit') = LiveImage(saved)]_vars

\* A task switch gives the program its stack back: the image that FSAVE writes
\* and the unit that FRSTOR loads hold the same values from st(0) on, from
\* whatever top either of them starts.
TaskSwitchKeepsStack == SaveKeepsStack /\ RestoreGivesBack

\* A push never destroys a live register in silence: c1, stack fault and invalid
\* operation are raised, and the program is stopped unless it masked that.
OverflowReported ==
  [][\A v \in Reals :
       FLD(v) /\ unit.initialized /\ unit.tags[(unit.stackPointer - 1) % NRegs] # "EMPTY"
         => /\ unit'.status.c1 /\ unit'.status.sf /\ unit'.status.ie
            /\ unit'.trap = IF "OM" \in unit.control THEN "none" ELSE "stack"]_vars

\* After FINIT and as long as everything stays masked, no instruction throws:
\* the emulator is never stopped by arithmetic of the program (FUCOMPP apart).
AllMasked == unit.initialized /\ unit.control = Masks

MaskedNeverThrows ==
  [][AllMasked /\ "FUCOMPP" \notin uses => unit'.trap = "none"]_vars

\* Exceptions are told as the program asked: masked ones in the status only, and
\* an overflow of the stack always there.
ExceptionsAreTold == OverflowReported /\ MaskedNeverThrows

=============================================================================
