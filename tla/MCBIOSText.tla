----------------------------- MODULE MCBIOSText -----------------------------
EXTENDS BIOSText

(* Two text modes of different shapes, both smaller than their memory, the *)
(* second with its cursor on the second row as the preset of 40x25 has it, *)
(* and a graphics mode, whose preset has no cursor.                        *)
MCModes ==
  {[w |-> 2, h |-> 2, pages |-> 2, text |-> TRUE,  home |-> 2],
   [w |-> 1, h |-> 3, pages |-> 2, text |-> TRUE,  home |-> 2],
   [w |-> 3, h |-> 3, pages |-> 1, text |-> FALSE, home |-> 0]}
=============================================================================
