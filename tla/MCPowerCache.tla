---------------------------- MODULE MCPowerCache -----------------------------
(* A power service with two properties, two processes and one failed call.      *)
EXTENDS PowerCache, TLC
==============================================================================
