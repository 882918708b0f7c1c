---------------------------- MODULE MCX86Machine ----------------------------
(***************************************************************************)
(* Bounds for X86Machine: two programs are run one after the other, which  *)
(* is enough for a released CPU to meet its successor, and two keys, of    *)
(* which one is a modifier.                                                *)
(***************************************************************************)
EXTENDS X86Machine
=============================================================================
