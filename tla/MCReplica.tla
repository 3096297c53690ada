------------------------------ MODULE MCReplica ------------------------------
(***************************************************************************)
(* Two records, the first older than the publication cursor, a publisher   *)
(* of either grade, two kills and two tamperings at any moment.            *)
(***************************************************************************)
EXTENDS Replica
=============================================================================
