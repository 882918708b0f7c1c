--------------------------- MODULE X87Discipline ---------------------------
(***************************************************************************)
(* X87 run by a program that keeps the discipline of the stack: it starts  *)
(* with FINIT, keeps every exception masked, pushes only while a register  *)
(* is free and names only st(i) that it has pushed.  For such a program    *)
(* the unit, its wrapping pointer and its tags implement FpuStack.         *)
(***************************************************************************)
EXTENDS X87, Sequences, FiniteSets

Occupied == {r \in Index : unit.tags[r] # "EMPTY"}
Height   == IF unit.initialized THEN Cardinality(Occupied) ELSE 0

StackSteps ==
  \/ Height < NRegs /\ \E v \in Reals : FLD(v)
  \/ Height > 0 /\ (FST \/ FXAM \/ \E v \in Reals : FIST(v) \/ FISTP(v))
  \/ \E i \in 0 .. Height - 1 : FSTst(i) \/ FSTPst(i) \/ FXCH(i)

ArithmeticSteps ==
  \/ \E v \in Reals :
       \/ Height > 0 /\ Unary(0, 0, v)
       \/ Height > 1 /\ (FPREM(v) \/ FYL2X(v) \/ FPATAN(v))
       \/ \E i \in 0 .. Height - 1 :
            \/ \E dest \in {0, i} : Arith(i, dest, v) \/ Divide(i, dest, v)
            \/ ArithP(i, v) \/ DivideP(i, v)
  \/ \E i \in 0 .. Height - 1 : FCOM(i) \/ FCOMP(i)
  \/ Height > 0 /\ \E m, v \in Reals : FCOMmem(m) \/ FCOMPmem(m) \/ ArithMem(m, v)
  \/ Height > 0 /\ Height < NRegs /\ \E v, w \in Reals : FSINCOS(v, w)
  \/ Height > 1 /\ FCOMPP

ControlSteps == FINIT \/ FNCLEX \/ FSAVE \/ FRSTOR

DisciplinedNext ==
  IF unit.initialized THEN StackSteps \/ ArithmeticSteps \/ ControlSteps ELSE FINIT

DisciplinedSpec == Init /\ [][DisciplinedNext]_vars

-----------------------------------------------------------------------------
ImageHeight == Cardinality({r \in Index : saved.tags[r] # "EMPTY"})

Operands == [i \in 1 .. Height |-> St(unit, i - 1)]
Kept == IF saved.written THEN [i \in 1 .. ImageHeight |-> saved.stack[i - 1]] ELSE <<>>

Abstract == INSTANCE FpuStack WITH Depth <- NRegs, st <- Operands, out <- mem, kept <- Kept

\* The registers in use are st(0) up to the height of the stack and no others:
\* pushes and pops, from any top and after any restore, leave no hole.
NoHoles ==
  unit.initialized => Occupied = {Phys(unit, i) : i \in 0 .. Height - 1}

\* A disciplined program sees a stack: what the register file, its pointer
\* and its tags do, step by step, is a step of FpuStack.
ImplementsStack == Abstract!Spec

\* A disciplined program never meets a stack fault.
NeverFaults == unit.initialized => ~unit.status.sf /\ unit.trap = "none"

\* To a program that keeps the discipline the registers are a stack without
\* holes that never faults.
NoHolesNoFaults == NoHoles /\ NeverFaults
=============================================================================
