---------------------------- MODULE MCXembedWindows ---------------------------
(* One id that two windows have, one after the other. *)
EXTENDS XembedWindows, TLC

CONSTANTS v, a, b
==============================================================================
