----------------------------- MODULE ForwardView -----------------------------
(***************************************************************************)
(* What a local mirror of a remote object promises its readers.            *)
(*                                                                         *)
(* A service owns a value per property and numbers the values it gives a   *)
(* property 1, 2, 3, ...; a view shows, per property, the number of one    *)
(* value the service has had.  The view may lag, may skip values, and may  *)
(* refresh several properties at once, but it never shows a value that the *)
(* service has not had yet and never goes back to an older one.            *)
(*                                                                         *)
(* DBusPower (module PowerCache) is shown to implement this specification. *)
(***************************************************************************)
EXTENDS Naturals

CONSTANT Props            \* the properties that are mirrored

VARIABLES value,          \* value[p]: number of the service's current value
          view            \* view[p]: number of the value the reader sees

vars == <<value, view>>

Init ==
  /\ value \in [Props -> Nat]
  /\ view = [p \in Props |-> 0]

\* The service gives one or several properties a newer value.
ServiceMoves ==
  /\ value' \in [Props -> Nat]
  /\ \A p \in Props : value'[p] >= value[p]
  /\ UNCHANGED view

\* The view moves closer to the service, in any of its properties.
ViewMoves ==
  /\ view' \in [Props -> Nat]
  /\ \A p \in Props : view'[p] >= view[p] /\ view'[p] <= value[p]
  /\ UNCHANGED value

Next == ServiceMoves \/ ViewMoves

Spec == Init /\ [][Next]_vars
==============================================================================
