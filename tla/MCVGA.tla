------------------------------- MODULE MCVGA -------------------------------
EXTENDS VGA

MCPresets == {"m40x25", "m80x25", "m640x480x16", "m640x480x2", "m320x200x256", "mModeX"}
MCOffsets == 0..3
MCValues == {{0, 7}, {1, 2, 4}}

(* Map mask; set/reset; its enable; rotation by one with XOR, by three     *)
(* with AND, with OR; write modes 1, 2, 3; read mode 1; graphics in the    *)
(* last window; the bit mask; chain-4 off.                                 *)
MCSettings ==
  {<<"seq", 2, 5>>, <<"gc", 0, 9>>, <<"gc", 1, 3>>,
   <<"gc", 3, 25>>, <<"gc", 3, 11>>, <<"gc", 3, 16>>,
   <<"gc", 5, 1>>, <<"gc", 5, 2>>, <<"gc", 5, 3>>, <<"gc", 5, 8>>,
   <<"gc", 6, 13>>, <<"gc", 8, 60>>, <<"seq", 4, 6>>}
=============================================================================
