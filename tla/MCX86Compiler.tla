--------------------------- MODULE MCX86Compiler ---------------------------
(***************************************************************************)
(* Bounded programs for X86Compiler.  Every program has a label "a" before *)
(* its first node and "b" before a last instruction; the nodes in between  *)
(* are all sequences of at most MaxNodes items, so jumps go backwards and  *)
(* forwards over whatever other items make of the layout.  ShortMax is     *)
(* scaled down so that a few bytes are a long jump.                        *)
(***************************************************************************)
EXTENDS X86Compiler

CONSTANTS MaxNodes

Items ==
  { Label("a"), Fixed(2), Jmp("a"), Jmp("b"), Near("b"), Jcc("b"), Mov("e"), DataRef("b"),
    Equ("e", 2, 1, "b"), Equ("e", 1, -1, "e"), Equ("f", 1, 1, "e"),
    Times(2, Jmp("b")), Times(0, Fixed(1)), PadTo(5, Fixed(1)) }

Between(body, last) == <<Label("a")>> \o body \o <<Label("b"), last>>

\* An EQU with nothing behind it keeps an entry of its own; a chain of them in
\* reverse gets its values in as many passes.
Trailing ==
  {<<Equ("g", 1, 1, "b")>>,
   <<Equ("g", 1, 1, "h"), Equ("h", 2, 1, "b")>>,
   <<Equ("g", 1, 1, "h"), Equ("h", 2, 1, "k"), Equ("k", 1, -1, "l"), Equ("l", 2, 1, "b")>>}

MCPrograms ==
  {Between(body, last) : body \in BoundedSeq(Items, MaxNodes), last \in {Jmp("a"), Fixed(2)}}
  \cup {Between(body, Jmp("a")) \o end : body \in BoundedSeq(Items, MaxNodes - 1), end \in Trailing}
=============================================================================
