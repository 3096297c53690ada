-------------------------- MODULE MCFactoryLanding ---------------------------
(***************************************************************************)
(* Two land dispatches of one unit against one other factory: enough for a *)
(* land and its re-land, or a land of a newer build, with a push of        *)
(* somebody else's between any two steps and one revision of the unit.     *)
(***************************************************************************)
EXTENDS FactoryLanding
CONSTANTS d1, d2
=============================================================================
