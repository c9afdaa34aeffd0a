------------------------------ MODULE IconTable -------------------------------
(***************************************************************************)
(* What the application tray promises the dock, and through it the user:   *)
(* icons come and go, any number of them at once, but an icon that stays   *)
(* belongs to the same application under the same id, no two share an id   *)
(* or an application, and no icon takes the id, which is what the dock     *)
(* keeps its place and its settings under, in the step that removes the    *)
(* icon that had it.                                                       *)
(***************************************************************************)
CONSTANTS
  Ids,            \* the names of icons
  Owners          \* the items and windows the icons stand for

VARIABLE icons    \* the icons in the tray: an id and an owner each

Paired(S) == \A x, y \in S : x.id = y.id <=> x.owner = y.owner

Init == icons = {}

Change ==
  /\ icons' \subseteq [id : Ids, owner : Owners]
  /\ Paired(icons \cup icons')

Spec == Init /\ [][Change]_icons
==============================================================================
