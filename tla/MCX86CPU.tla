------------------------------ MODULE MCX86CPU ------------------------------
(***************************************************************************)
(* Bounds for X86CPU: code segments of five bytes, so that instructions and*)
(* return addresses meet their end; a stack of six words, which two nested *)
(* interrupts fill; three cells of data, which a repeated instruction goes *)
(* around; an interrupt within a call or an interrupt, but no deeper.  cs  *)
(* leaves its width behind the second segment and again behind the fourth. *)
(***************************************************************************)
EXTENDS X86CPU

MCRelatives == {-3, 2}
MCMinIp == -2
MCMinCx == -1

MCPrograms ==
  { \* interrupts and faults within calls
    {"PUSHF", "CALL", "INT3", "DIV", "IRET", "STI"},
    \* subroutines with arguments, far calls and software interrupts
    {"PUSH", "RETN", "CALL", "CALLF", "INT", "IRET"},
    \* one that saves all of its registers
    {"MOV", "PUSHA", "PUSH"},
    \* loops, jumps and strings
    {"MOV", "CMP", "STD", "LOOP", "STOS", "SCAS", "REP", "JMP"},
    \* prefixes
    {"UD", "X87", "IRET", "STI", "REP", "REPNE"} }
=============================================================================
