------------------------------- MODULE MCPIT -------------------------------
(***************************************************************************)
(* Bounds for PIT: bytes of two values, so that the bytes of a count can   *)
(* differ; programs that use one counter each, since a counter knows       *)
(* nothing of the others, and the gates with any of them.                  *)
(***************************************************************************)
EXTENDS PIT

MCPrograms == {{0}, {2}}
=============================================================================
