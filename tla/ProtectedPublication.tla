------------------------ MODULE ProtectedPublication -------------------------
(***************************************************************************)
(* The protected effect executor (.veldo/control_effects.py,               *)
(* .veldo/control_effect_executor.py) at work on publications of one unit  *)
(* of work.  A land dispatch's supervisor writes a contract, has a handle  *)
(* issued for it and starts an executor: a process of its own, which       *)
(* accepts the effect (at most one for a dispatch), lists the destination, *)
(* pushes the candidate under a lease on the contract's old tip, reads     *)
(* what the destination then holds, and records the answer.  It can be     *)
(* killed anywhere, by its supervisor's time limit or with its machine;    *)
(* the git process it started, and the push it sent, live on.              *)
(*                                                                         *)
(* Abstracted: a candidate is named by its dispatch and its tree by the    *)
(* tip it was built on; who has which authority until when, whose refusals *)
(* may come at any time; provider effects.  External: the remote, which applies a  *)
(* leased push in one transaction, and the other factories that push to    *)
(* it.  Nothing is ever forced there.                                      *)
(***************************************************************************)
EXTENDS Naturals, Sequences

CONSTANTS
  Dispatch,     \* land dispatches, each with a candidate commit of its own
  Others,       \* commits other factories publish
  Root,         \* what the trunk holds at first
  NoCommit

Calls == {"land", "again"}
Commits == Dispatch \cup Others \cup {Root}

ASSUME PublicationAssumption ==
  /\ Dispatch \cap Others = {}
  /\ Root \notin Dispatch \cup Others
  /\ NoCommit \notin Commits

VARIABLES
  trunk,      \* the destination's trunk, oldest first
  contract,   \* effect_contract and effect_permission of each dispatch
  effect,     \* protected_effect of each dispatch
  worker,     \* the executor serving each call
  push        \* the git push each dispatch sent

publicationVars == <<trunk, contract, effect, worker, push>>

Tip == trunk[Len(trunk)]
OnTrunk(c) == \E i \in DOMAIN trunk : trunk[i] = c

NoContract == [write |-> 0, base |-> NoCommit, revision |-> 0]
NoEffect == [status |-> "none", base |-> NoCommit, revision |-> 0]
NoWorker == [step |-> "none", handle |-> 0, verdict |-> "none"]

Gone == [step |-> "ended", handle |-> 0, verdict |-> "none"]

Unanswered == {"accepted", "unknown"}
Verdicts == {"completed", "moved", "refused", "unknown"}

PublicationInit ==
  /\ trunk = <<Root>>
  /\ contract = [d \in Dispatch |-> NoContract]
  /\ effect = [d \in Dispatch |-> NoEffect]
  /\ worker = [d \in Dispatch |-> [k \in Calls |-> NoWorker]]
  /\ push = [d \in Dispatch |-> "none"]

Goes(d, k, s) == worker' = [worker EXCEPT ![d][k].step = s]
Exits(d, k) == worker' = [worker EXCEPT ![d][k] = Gone]
Concludes(d, k, v) ==
  worker' = [worker EXCEPT ![d][k].step = "judged", ![d][k].verdict = v]

-----------------------------------------------------------------------------
\* The destination.

\* Another factory publishes.
OthersPush(o) ==
  /\ ~OnTrunk(o)
  /\ trunk' = Append(trunk, o)
  /\ UNCHANGED <<contract, effect, worker, push>>

\* The compare-and-swap at the remote: the ref must still hold the old tip.
LeaseHeld(d) == Tip = effect[d].base

RemoteSwaps(d) ==
  /\ push[d] = "flying"
  /\ LeaseHeld(d)
  /\ trunk' = Append(trunk, d)
  /\ push' = [push EXCEPT ![d] = "applied"]
  /\ UNCHANGED <<contract, effect, worker>>

\* The lease is lost, the remote rejects the push, or it never arrives.
PushFails(d) ==
  /\ push[d] = "flying"
  /\ push' = [push EXCEPT ![d] = "failed"]
  /\ UNCHANGED <<trunk, contract, effect, worker>>

-----------------------------------------------------------------------------
\* The executor of one call.

\* authorize and the handle, inside the transaction of the acceptance: the
\* contract must be the one the handle was issued for, and the dispatch without
\* an effect.  An authority revoked meanwhile refuses as well (WorkerEnds).
MayAccept(d, k) ==
  /\ worker[d][k].handle = contract[d].write
  /\ effect[d].status = "none"

Accept(d, k) ==
  /\ worker[d][k].step = "asked"
  /\ IF MayAccept(d, k)
     THEN /\ effect' = [effect EXCEPT ![d] = [status |-> "accepted",
                          base |-> contract[d].base, revision |-> contract[d].revision]]
          /\ Goes(d, k, "accepted")
     ELSE Exits(d, k) /\ UNCHANGED effect
  /\ UNCHANGED <<trunk, contract, push>>

\* Before anything is pushed: the destination holds the old tip, or the
\* publication is refused, as it is when it cannot be listed, and for reasons
\* of the clone's or the identity's own.
List(d, k) ==
  /\ worker[d][k].step = "accepted"
  /\ \/ Tip = effect[d].base /\ Goes(d, k, "listed")
     \/ Concludes(d, k, "moved")
     \/ Concludes(d, k, "refused")
  /\ UNCHANGED <<trunk, contract, effect, push>>

StartPush(d, k) ==
  /\ worker[d][k].step = "listed"
  /\ push' = [push EXCEPT ![d] = "flying"]
  /\ Goes(d, k, "pushing")
  /\ UNCHANGED <<trunk, contract, effect>>

\* git push exits: cleanly only when the remote said the swap was made, but
\* with an error also when that answer was lost.
PushExits(d, k) ==
  /\ worker[d][k].step = "pushing"
  /\ \/ push[d] = "applied" /\ Goes(d, k, "clean")
     \/ Goes(d, k, "error")
  /\ UNCHANGED <<trunk, contract, effect, push>>

\* trunk_moved: a commit that is neither the old tip nor the candidate and does
\* not contain the candidate.
MovedPastAny(d) == Tip \notin {effect[d].base, d}
MovedPast(d) == Tip # effect[d].base /\ ~OnTrunk(d)

\* What the listing after the push shows.  One that fails, or shows anything
\* else, leaves the publication unknown.
Judge(d, k) ==
  /\ worker[d][k].step \in {"clean", "error"}
  /\ \/ worker[d][k].step = "clean" /\ Tip = d /\ Concludes(d, k, "completed")
     \/ worker[d][k].step = "error" /\ MovedPast(d) /\ Concludes(d, k, "moved")
     \/ Concludes(d, k, "unknown")
  /\ UNCHANGED <<trunk, contract, effect, push>>

\* A git step that takes too long or cannot run: nothing is known of it.
StepTimesOut(d, k) ==
  /\ worker[d][k].step \in {"accepted", "listed", "pushing", "clean", "error"}
  /\ Concludes(d, k, "unknown")
  /\ UNCHANGED <<trunk, contract, effect, push>>

Finish(d, k) ==
  /\ worker[d][k].step = "judged"
  /\ effect' = [effect EXCEPT ![d].status = worker[d][k].verdict]
  /\ Exits(d, k)
  /\ UNCHANGED <<trunk, contract, push>>

\* The process dies, or its command is refused because an authority was revoked
\* or an entity it read has changed: it ends without the record it was to write.
WorkerEnds(d, k) ==
  /\ worker[d][k].step \notin {"none", "ended"}
  /\ Exits(d, k)
  /\ UNCHANGED <<trunk, contract, effect, push>>

Executor(d, k) ==
  \/ Accept(d, k) \/ List(d, k) \/ StartPush(d, k) \/ PushExits(d, k)
  \/ Judge(d, k) \/ StepTimesOut(d, k) \/ Finish(d, k)

PublicationNext ==
  \/ \E o \in Others : OthersPush(o)
  \/ \E d \in Dispatch : RemoteSwaps(d) \/ PushFails(d)
  \/ \E d \in Dispatch, k \in Calls : Executor(d, k) \/ WorkerEnds(d, k)

PublicationTypeOK ==
  /\ trunk \in Seq(Commits) /\ trunk # <<>>
  /\ contract \in [Dispatch -> [write : Nat, base : Commits \cup {NoCommit}, revision : Nat]]
  /\ effect \in [Dispatch -> [status : {"none", "accepted"} \cup Verdicts,
                              base : Commits \cup {NoCommit}, revision : Nat]]
  /\ worker \in [Dispatch -> [Calls ->
       [step : {"none", "asked", "accepted", "listed", "pushing", "clean", "error",
                "judged", "ended"},
        handle : Nat, verdict : {"none"} \cup Verdicts]]]
  /\ push \in [Dispatch -> {"none", "flying", "applied", "failed"}]
=============================================================================
