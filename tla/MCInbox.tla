------------------------------- MODULE MCInbox -------------------------------
(***************************************************************************)
(* The inbox for TLC: one agent in two sessions, a founding unit and one   *)
(* that may be appended, an owner who is asked and a member who leads the  *)
(* project.  Sessions of one agent are alike, and so are assignments.      *)
(***************************************************************************)
EXTENDS Inbox, TLC

CONSTANTS w1, s1, s2, u1, u2, a1, a2, o, m

MCAgentOf == (s1 :> w1 @@ s2 :> w1)

Symmetry == Permutations(Sessions) \cup Permutations(Assignments)
=============================================================================
