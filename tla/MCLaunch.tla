------------------------------- MODULE MCLaunch -------------------------------
(***************************************************************************)
(* Two dispatches, of one unit or of two, on one account that admits a     *)
(* single run: a unit that is held, an account that is full, and a slot    *)
(* returned while the other launch waits for it all happen.                *)
(***************************************************************************)
EXTENDS Launch
=============================================================================
