------------------------------- MODULE MCX87 -------------------------------
(***************************************************************************)
(* Bounds for X87: with two registers the pointer wraps, a push meets a    *)
(* full stack, a pop an empty one, and st(1) differs from register 1; the  *)
(* values are one that is VALID or ZERO and one that is SPECIAL.           *)
(***************************************************************************)
EXTENDS X87

TwoReals == {"zero", "inf"}

MCPrograms ==
  { \* one that goes around the stack's discipline
    {"arithmetic", "FCLEX", "FNINIT", "FLD st", "FSTP", "FFREE", "FINCSTP", "FUCOMPP"},
    \* one that unmasks exceptions
    {"arithmetic", "FLDCW", "FSTP", "FLD st"},
    \* one that switches tasks, from any top
    {"FSAVE", "FRSTOR", "FINCSTP"},
    \* one that saves and loads the environment only
    {"FSTENV", "FLDENV", "FLD st", "FINCSTP"} }
=============================================================================
