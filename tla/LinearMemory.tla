---------------------------- MODULE LinearMemory ----------------------------
(***************************************************************************)
(* Abstract: the memory a program believes in.  A cell in the window holds *)
(* the byte written last, a cell outside has none.  Switching the mode     *)
(* clears memory in a way of its own; a program that writes the registers  *)
(* of the adapter itself is promised nothing until then.  What was stored  *)
(* last is part of the state: a store that goes lost is not a stutter.     *)
(***************************************************************************)
EXTENDS Naturals

CONSTANTS Addresses, Values, None
VARIABLES mem, trusted, epoch, last

Init == trusted = TRUE /\ epoch = 0

Store(a, v) ==
  /\ trusted = TRUE
  /\ mem[a] # None
  /\ mem' = [mem EXCEPT ![a] = v]
  /\ last' = <<a, v>>
  /\ UNCHANGED <<trusted, epoch>>

SwitchMode ==
  /\ epoch' = epoch + 1
  /\ trusted' = TRUE
  /\ UNCHANGED last

Distrusted ==
  /\ trusted' = FALSE
  /\ UNCHANGED epoch

Next ==
  \/ \E a \in Addresses, v \in Values : Store(a, v)
  \/ SwitchMode
  \/ Distrusted

Spec == Init /\ [][Next]_<<mem, trusted, epoch, last>>
=============================================================================
