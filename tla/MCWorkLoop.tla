----------------------------- MODULE MCWorkLoop ------------------------------
(***************************************************************************)
(* Two workers, whose clocks differ by a tick, over one unit.              *)
(***************************************************************************)
EXTENDS WorkLoop, TLC

CONSTANTS p1, p2, u1

MCWorkerOf == (p1 :> "w1" @@ p2 :> "w2")
MCSkew == ("w1" :> 0 @@ "w2" :> 1)
=============================================================================
