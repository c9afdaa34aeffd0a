--------------------------- MODULE MCTrayRegistry ----------------------------
(* Two applications: one offers an item and a window, one an item.  Both items *)
(* have the same name.                                                         *)
EXTENDS TrayRegistry, TLC

CONSTANTS p3, i1, i2, w1, w2, p1, p2, name

OneOfEach == i1 :> p1 @@ i2 :> p2
WindowOfFirst == w1 :> p1
TwoWindows == w1 :> p1 @@ w2 :> p3
OneItem == i1 :> p1
OneName == i1 :> name
NoWindows == << >>
SameName == i1 :> name @@ i2 :> name
==============================================================================
