--------------------------- MODULE MCEngineUpgrade ----------------------------
(***************************************************************************)
(* Three releases of an engine with two owning modules.  The oldest knows  *)
(* nothing of rebinding; the second changes one module, the third the      *)
(* other.                                                                  *)
(***************************************************************************)
EXTENDS EngineUpgrade, TLC
CONSTANTS m1, m2
MCBytes == (1 :> (m1 :> 1 @@ m2 :> 1)) @@ (2 :> (m1 :> 2 @@ m2 :> 1))
           @@ (3 :> (m1 :> 2 @@ m2 :> 3))
=============================================================================
