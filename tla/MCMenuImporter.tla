---------------------------- MODULE MCMenuImporter ----------------------------
(* A menu with an item and a submenu that has an item. *)
EXTENDS MenuImporter, TLC

CONSTANTS a, s, b

OneSubmenu == a :> Root @@ s :> Root @@ b :> s
==============================================================================
