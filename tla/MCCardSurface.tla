--------------------------- MODULE MCCardSurface -----------------------------
(* Four EmbedPlugin objects: a card and a quick panel, and the two before them  *)
(* that are waiting for their deletion.                                         *)
EXTENDS CardSurface, TLC
==============================================================================
