------------------------------ MODULE MCLander -------------------------------
(***************************************************************************)
(* Two landers on one clock, two heartbeats to a claim's life: one beat in *)
(* a row may be lost, as two may with the code's three.                    *)
(***************************************************************************)
EXTENDS Lander, TLC

CONSTANTS l1, l2

MCProcs == Landers \X {"main", "beat"}
MCWorkerOf == [p \in MCProcs |-> p[1]]
MCSkew == [l \in Landers |-> 0]
MCUnits == {LandLock}
MCSymmetry == Permutations({l1, l2})
=============================================================================
