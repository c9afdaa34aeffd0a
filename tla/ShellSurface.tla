----------------------------- MODULE ShellSurface -----------------------------
(***************************************************************************)
(* What the Wayland shell integration promises the dock of a window: from  *)
(* show to hide its surface stands for one object, EmbedPlugin or          *)
(* PluginPopup, that lives and is not about to be deleted.  A window that  *)
(* one handler closes and opens again gets a surface of an object that     *)
(* lives, and the old object is left to its deletion.                      *)
(*                                                                         *)
(* The card (module CardSurface) and each popup window of an item (module  *)
(* PopupTable) are shown to implement this specification.                  *)
(***************************************************************************)
CONSTANT None     \* no object

VARIABLES
  shown,          \* the window is shown
  surface,        \* the object its surface stands for
  keeps           \* the window's objects that live and are not to be deleted

vars == <<shown, surface, keeps>>

Init == ~shown /\ surface = None

\* A window may be shown without a surface, as a tooltip may that lost its entry.
Show == ~shown /\ shown' /\ surface' \in keeps' \cup {None}

Hide == shown /\ ~shown' /\ surface' = None

Reopen == shown /\ shown' /\ surface' \in keeps' /\ surface \notin keeps'

\* Objects come and go, but not the one of the surface.
Stay ==
  /\ shown' = shown /\ surface' = surface
  /\ surface # None => surface \in keeps'

Next == Show \/ Hide \/ Reopen \/ Stay

Spec == Init /\ [][Next]_vars
==============================================================================
