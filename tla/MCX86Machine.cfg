SPECIFICATION Spec
CONSTANTS
  Machines = {m1, m2}
  Keys = {a, shift}
  Modifiers = {shift}
  None = none
INVARIANTS
  WaitsKeepApart
  ScreenShowsTheEnd
PROPERTIES
  OnlyMountedDraws
  WhatIsLeftEnds
