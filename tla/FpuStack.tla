----------------------------- MODULE FpuStack -----------------------------
(***************************************************************************)
(* What the floating point unit promises a program that neither overflows  *)
(* nor underflows it: a stack of at most Depth values, of which the top is *)
(* st[1], a value that was stored in memory, and a stack that was saved.   *)
(* Computed values are any.                                                *)
(***************************************************************************)
EXTENDS Naturals, Sequences

CONSTANTS Depth, Reals

VARIABLES
  st,    \* the stack, top first
  out,   \* what was stored last
  kept   \* the stack that FSAVE saved last

vars == <<st, out, kept>>

Init == st = <<>> /\ out \in Reals /\ kept = <<>>

Becomes(s) == Len(s) <= Depth /\ st' = s /\ UNCHANGED <<out, kept>>

Exchanged(i) == [st EXCEPT ![1] = st[i], ![i] = st[1]]

Push     == \E v \in Reals : Becomes(<<v>> \o st)
Drop     == st # <<>> /\ Becomes(Tail(st))
DropTwo  == Len(st) > 1 /\ Becomes(Tail(Tail(st)))
Exchange == \E i \in DOMAIN st : Becomes(Exchanged(i))
Copy     == \E i \in DOMAIN st : Becomes([st EXCEPT ![i] = st[1]])
CopyDrop == \E i \in DOMAIN st : Becomes(Tail([st EXCEPT ![i] = st[1]]))
Compute  == \E i \in DOMAIN st, v \in Reals : Becomes([st EXCEPT ![i] = v])
ComputeDrop ==
  \E i \in DOMAIN st, v \in Reals : Becomes(Tail([st EXCEPT ![i] = v]))
ComputePush ==
  st # <<>> /\ \E v, w \in Reals : Becomes(<<w>> \o [st EXCEPT ![1] = v])

Store == st # <<>> /\ out' = st[1] /\ UNCHANGED <<st, kept>>
StoreInteger ==
  /\ st # <<>> /\ out' \in Reals
  /\ st' \in {st, Tail(st)}
  /\ UNCHANGED kept

Clear  == Becomes(<<>>)
Save   == kept' = st /\ st' = <<>> /\ UNCHANGED out
Recall == Becomes(kept)

Next ==
  \/ Push \/ Drop \/ DropTwo \/ Exchange \/ Copy \/ CopyDrop
  \/ Compute \/ ComputeDrop \/ ComputePush
  \/ Store \/ StoreInteger \/ Clear \/ Save \/ Recall

Spec == Init /\ [][Next]_vars
=============================================================================
