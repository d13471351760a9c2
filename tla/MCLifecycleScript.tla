------------------------- MODULE MCLifecycleScript -------------------------
(***************************************************************************)
(* LifecycleScript for TLC: two people at the same machine.                *)
(***************************************************************************)
EXTENDS LifecycleScript

CONSTANTS u1, u2

TwoUsers == {u1, u2}
=============================================================================
