---------------------------- MODULE FactoryLanding ----------------------------
(***************************************************************************)
(* One unit of work on its way to the trunk: the land station              *)
(* (.veldo/control_landing_station.py) opens land dispatches of it one     *)
(* after another, each builds a candidate on a watermark fetched for it,   *)
(* and the Landing (.veldo/control_landing.py) publishes and completes the *)
(* candidate through the protected effect executor.  Meanwhile the trunk   *)
(* moves, the unit is revised, owners grant approvals, and the landing     *)
(* process or its executor dies.                                           *)
(*                                                                         *)
(* Publications run under the land lock (module Lander), so one call of    *)
(* Landing.publish is alive at a time.  The record of a run that died      *)
(* stays running; its publication may be asked for again under the same    *)
(* dispatch and candidate, which Landing.publish is written for.           *)
(*                                                                         *)
(* Abstracted: the evidence chain's links between Git, proof, review and   *)
(* gate (any may fail, and refuses); what a merge computes; the projection *)
(* after the receipt.  An approval is bound to a revision, a build and a   *)
(* tree, and a tree is named by the watermark the build was merged onto.   *)
(***************************************************************************)
EXTENDS ProtectedPublication

CONSTANTS
  NoDispatch,
  MaxRevision  \* bound: revisions of the unit

ASSUME LandingAssumption ==
  /\ NoDispatch \notin Dispatch
  /\ MaxRevision \in Nat \ {0}

VARIABLES
  revision,  \* the unit's current revision
  grants,    \* approval: the exact subjects the owners granted
  land,      \* land_dispatch: the record of each dispatch
  index,     \* land_dispatch_unit: the unit's latest land dispatch
  call,      \* where each call of Landing.publish is
  receipt    \* revision_landed: the revision each dispatch's receipt is about

landingVars == <<revision, grants, land, index, call, receipt>>
vars == <<publicationVars, landingVars>>

Ends == {"landed", "trunk_moved", "conflict", "awaiting_approval", "unknown", "failed"}
Followed == {"trunk_moved", "awaiting_approval"}
Results == {"landed", "moved", "approval", "unknown", "refused"}
Live == {"start", "checked", "written", "waiting", "answered", "completing", "confirmed"}

NewLand == [state |-> "none", follows |-> NoDispatch, build |-> NoDispatch,
            base |-> NoCommit, asked |-> 0]
NewCall == [step |-> "none", revision |-> 0, result |-> "none"]

Init ==
  /\ PublicationInit
  /\ revision = 1
  /\ grants = {}
  /\ land = [d \in Dispatch |-> NewLand]
  /\ index = NoDispatch
  /\ call = [d \in Dispatch |-> [k \in Calls |-> NewCall]]
  /\ receipt = [d \in Dispatch |-> 0]

At(d, k, s) == call[d][k].step = s
Steps(d, k, s) == call' = [call EXCEPT ![d][k].step = s]
Returns(d, k, r) ==
  call' = [call EXCEPT ![d][k] = [step |-> "returned", revision |-> 0, result |-> r]]

LockFree == \A d \in Dispatch, k \in Calls : call[d][k].step \notin Live
Subject(d, r) == [revision |-> r, build |-> land[d].build, base |-> land[d].base]

-----------------------------------------------------------------------------
\* The land dispatches of the unit.

\* transition `open`: one runs at a time, and one that follows another follows
\* the latest, which must have ended so that it may be followed.
MayOpen(f) ==
  /\ index # NoDispatch => land[index].state # "running"
  /\ f # NoDispatch => f = index /\ land[index].state \in Followed

Open(d, f) ==
  /\ land[d].state = "none"
  /\ MayOpen(f)
  /\ land' = [land EXCEPT ![d] = [NewLand EXCEPT !.state = "running", !.follows = f,
                !.build = IF f = NoDispatch THEN d ELSE land[f].build]]
  /\ index' = d
  /\ UNCHANGED <<publicationVars, revision, grants, call, receipt>>

\* The candidate: the build merged onto the watermark fetched now, gated and
\* admitted by the policy.  Without one the land ends here.
Build(d) ==
  /\ land[d].state = "running"
  /\ land[d].base = NoCommit
  /\ \/ /\ LockFree
        /\ land' = [land EXCEPT ![d].base = Tip]
        /\ Steps(d, "land", "start")
     \/ \E e \in {"conflict", "failed"} :
          land' = [land EXCEPT ![d].state = e] /\ UNCHANGED call
  /\ UNCHANGED <<publicationVars, revision, grants, index, receipt>>

\* classify, and transition `end`.
OutcomeAsAnswered(r) == r
Outcome(r) ==
  CASE r = "landed"   -> "landed"
    [] r = "moved"    -> "trunk_moved"
    [] r = "approval" -> "awaiting_approval"
    [] r = "unknown"  -> "unknown"
    [] OTHER          -> "failed"

End(d) ==
  /\ land[d].state = "running"
  /\ At(d, "land", "returned")
  /\ land' = [land EXCEPT ![d].state = Outcome(call[d]["land"].result)]
  /\ call' = [call EXCEPT ![d]["land"].result = "none"]
  /\ UNCHANGED <<publicationVars, revision, grants, index, receipt>>

\* Line.after_land: a re-land follows a trunk that moved at once, and a missing
\* grant once the owner has given it for the exact subject that was refused.
AfterLand(d) ==
  \/ /\ land[index].state = "trunk_moved"
     /\ Open(d, index)
  \/ /\ land[index].state = "awaiting_approval"
     /\ Subject(index, land[index].asked) \in grants
     /\ Open(d, index)

Reland(d) == index # NoDispatch /\ AfterLand(d)

\* LandStation.land for a new build, by the loop or by anyone else.
LandBuild(d) == Open(d, NoDispatch)

\* LandStation.grant: nothing is granted that no earlier tree was granted for.
Grant(d) ==
  /\ index = d
  /\ land[d].state = "awaiting_approval"
  /\ \E g \in grants : g.revision = land[d].asked /\ g.build = land[d].build
  /\ grants' = grants \cup {Subject(d, land[d].asked)}
  /\ UNCHANGED <<publicationVars, revision, land, index, call, receipt>>

\* The owner approves a build as it merges onto the trunk of the moment.
Approve(d) ==
  /\ land[d].build \in {d, NoDispatch}
  /\ \A g \in grants : g.build # d
  /\ grants' = grants \cup {[revision |-> revision, build |-> d, base |-> Tip]}
  /\ UNCHANGED <<publicationVars, revision, land, index, call, receipt>>

Revise ==
  /\ revision < MaxRevision
  /\ revision' = revision + 1
  /\ UNCHANGED <<publicationVars, grants, land, index, call, receipt>>

-----------------------------------------------------------------------------
\* Landing.publish.

OutstandingInFlight(d) == {e \in Dispatch \ {d} : effect[e].status = "accepted"}
Outstanding(d) == {e \in Dispatch \ {d} : effect[e].status \in Unanswered}

\* Each required approval is bound to exactly this subject at this revision.
GrantedForSomeTree(d) ==
  \E g \in grants : g.revision = revision /\ g.build = land[d].build
Granted(d) == Subject(d, revision) \in grants

\* The same call again, for a run that died.
Again(d) ==
  /\ At(d, "land", "dead")
  /\ At(d, "again", "none")
  /\ LockFree
  /\ land[d].base # NoCommit
  /\ Steps(d, "again", "start")
  /\ UNCHANGED <<publicationVars, revision, grants, land, index, receipt>>

\* A recorded answer is final; another publication without one is a stop; and
\* the exact subject must be granted, all else about it being in order.
Check(d, k) ==
  /\ At(d, k, "start")
  /\ \/ effect[d].status # "none" /\ Steps(d, k, "answered") /\ UNCHANGED land
     \/ /\ effect[d].status = "none"
        /\ Outstanding(d) # {}
        /\ Returns(d, k, "unknown")
        /\ UNCHANGED land
     \/ /\ effect[d].status = "none"
        /\ Outstanding(d) = {}
        /\ \/ /\ Granted(d)
              /\ call' = [call EXCEPT ![d][k].step = "checked", ![d][k].revision = revision]
              /\ UNCHANGED land
           \/ /\ ~Granted(d)
              /\ GrantedForSomeTree(d)
              /\ Returns(d, k, "approval")
              /\ land' = [land EXCEPT ![d].asked = revision]
           \/ Returns(d, k, "refused") /\ UNCHANGED land
  /\ UNCHANGED <<publicationVars, revision, grants, index, receipt>>

\* _transfer and _authorize: the contract and permission of this publication.
Authorize(d, k) ==
  /\ At(d, k, "checked")
  /\ contract' = [contract EXCEPT ![d] = [write |-> contract[d].write + 1,
                    base |-> land[d].base, revision |-> call[d][k].revision]]
  /\ call' = [call EXCEPT ![d][k].step = "written", ![d][k].revision = 0]
  /\ UNCHANGED <<trunk, effect, worker, push>>
  /\ UNCHANGED <<revision, grants, land, index, receipt>>

\* _execute: a handle issued for the contract as it now is, and an executor;
\* or the refusal to issue one.
Execute(d, k) ==
  /\ At(d, k, "written")
  /\ \/ /\ worker' = [worker EXCEPT ![d][k] = [step |-> "asked",
                          handle |-> contract[d].write, verdict |-> "none"]]
        /\ Steps(d, k, "waiting")
     \/ Returns(d, k, "refused") /\ UNCHANGED worker
  /\ UNCHANGED <<trunk, contract, effect, push>>
  /\ UNCHANGED <<revision, grants, land, index, receipt>>

\* The executor answers or dies, or the time it announced passes and it is
\* killed; the recorded answer is read whichever it was.
AwaitsRecord(d, k) ==
  /\ At(d, k, "waiting")
  /\ worker[d][k].step = "ended"
  /\ effect[d].status # "none"
  /\ Steps(d, k, "answered")
  /\ UNCHANGED <<publicationVars, revision, grants, land, index, receipt>>
AwaitsAnswer(d, k) ==
  /\ At(d, k, "waiting")
  /\ Exits(d, k)
  /\ Steps(d, k, "answered")
  /\ UNCHANGED <<trunk, contract, effect, push>>
  /\ UNCHANGED <<revision, grants, land, index, receipt>>

\* What the record says: nothing accepted is nothing done, and a refused
\* publication is read together with the tip found now, which may not be had.
Recorded(d, k) ==
  /\ At(d, k, "answered")
  /\ \/ effect[d].status \in {"none", "refused", "moved"} /\ Returns(d, k, "refused")
     \/ effect[d].status = "moved" /\ Returns(d, k, "moved")
     \/ effect[d].status \in Unanswered /\ Returns(d, k, "unknown")
     \/ effect[d].status = "completed" /\ Steps(d, k, "completing")
  /\ UNCHANGED <<publicationVars, revision, grants, land, index, receipt>>

-----------------------------------------------------------------------------
\* Landing.complete.

\* The unit must be at the revision it published, and the remote must hold
\* exactly the candidate now; any other link of the chain may refuse too.
Confirm(d, k) ==
  /\ At(d, k, "completing")
  /\ \/ receipt[d] # 0 /\ Returns(d, k, "landed")
     \/ receipt[d] = 0 /\ Returns(d, k, "refused")
     \/ receipt[d] = 0 /\ revision = effect[d].revision /\ Tip # d /\ Returns(d, k, "unknown")
     \/ receipt[d] = 0 /\ revision = effect[d].revision /\ Tip = d /\ Steps(d, k, "confirmed")
  /\ UNCHANGED <<publicationVars, revision, grants, land, index, receipt>>

\* _receipt_transition, against the state it commits to.
StillAt(d) == receipt[d] = 0 /\ revision = effect[d].revision

CommitReceipt(d, k) ==
  /\ At(d, k, "confirmed")
  /\ IF StillAt(d)
     THEN /\ receipt' = [receipt EXCEPT ![d] = effect[d].revision]
          /\ Returns(d, k, "landed")
     ELSE Returns(d, k, "refused") /\ UNCHANGED receipt
  /\ UNCHANGED <<publicationVars, revision, grants, land, index>>

Publish(d, k) ==
  \/ Check(d, k) \/ Authorize(d, k) \/ Execute(d, k) \/ AwaitsAnswer(d, k)
  \/ Recorded(d, k) \/ Confirm(d, k) \/ CommitReceipt(d, k)

\* The landing process dies; its executor does not.
Dies(d, k) ==
  /\ call[d][k].step \in Live
  /\ call' = [call EXCEPT ![d][k] = [NewCall EXCEPT !.step = "dead"]]
  /\ UNCHANGED <<publicationVars, revision, grants, land, index, receipt>>

-----------------------------------------------------------------------------
Next ==
  \/ PublicationNext /\ UNCHANGED landingVars
  \/ \E d \in Dispatch : LandBuild(d) \/ Reland(d) \/ Build(d) \/ End(d)
                         \/ Grant(d) \/ Approve(d) \/ Again(d)
  \/ Revise
  \/ \E d \in Dispatch, k \in Calls : Publish(d, k) \/ Dies(d, k)

\* A live process takes its next step.  Nobody owes anything else: the remote
\* may answer late or never, people may never grant, processes may die.
LandProcess(d) == Build(d) \/ End(d) \/ Publish(d, "land")

Fairness == \A d \in Dispatch :
  WF_vars(LandProcess(d)) /\ WF_vars(Publish(d, "again"))

Spec == Init /\ [][Next]_vars /\ Fairness

TypeOK ==
  /\ PublicationTypeOK
  /\ revision \in 1 .. MaxRevision
  /\ grants \subseteq [revision : Nat, build : Dispatch, base : Commits]
  /\ land \in [Dispatch -> [state : {"none", "running"} \cup Ends,
                            follows : Dispatch \cup {NoDispatch},
                            build : Dispatch \cup {NoDispatch},
                            base : Commits \cup {NoCommit}, asked : Nat]]
  /\ index \in Dispatch \cup {NoDispatch}
  /\ call \in [Dispatch -> [Calls -> [step : {"none", "returned", "dead"} \cup Live,
                                      revision : Nat, result : {"none"} \cup Results]]]
  /\ receipt \in [Dispatch -> Nat]

-----------------------------------------------------------------------------
\* Safety.

\* At most one publication of the unit is without a conclusive answer at any
\* time, through crashes of the landing process and of its executors: while one
\* may yet reach the trunk, or already has, no other is accepted
\* (control_landing.py:556-562, control_landing_station.py open).
OneOpenPublication ==
  \A d, e \in Dispatch :
    effect[d].status \in Unanswered /\ effect[e].status \in Unanswered => d = e

\* A recorded answer is the truth and stays it, although pushes outlive their
\* executors: what was completed stands on the trunk right on the tip it was
\* gated on; what was refused is not there, and never comes to be; and a land
\* that another one follows, or that ended in failure with nothing accepted,
\* published nothing.
CompletedIsThere ==
  \A d \in Dispatch : effect[d].status = "completed" =>
    \E i \in 1 .. Len(trunk) - 1 : trunk[i] = effect[d].base /\ trunk[i + 1] = d
RefusedIsNot ==
  \A d \in Dispatch : effect[d].status \in {"moved", "refused"} => ~OnTrunk(d)
FollowedPublishedNothing ==
  \A d \in Dispatch : land[d].follows # NoDispatch => ~OnTrunk(land[d].follows)
UnacceptedIsNot ==
  \A d \in Dispatch : land[d].state = "failed" /\ effect[d].status = "none" => ~OnTrunk(d)
AnswersHold ==
  CompletedIsThere /\ RefusedIsNot /\ FollowedPublishedNothing /\ UnacceptedIsNot

\* A receipt says what happened: the candidate is on the trunk right on its
\* watermark, the publication was of the receipt's revision, and that revision
\* of that build was approved for exactly the tree that landed, not for the tree
\* of an earlier attempt (_receipt_transition, subject).
LandedAsApproved ==
  \A d \in Dispatch : receipt[d] # 0 =>
    /\ \E i \in 1 .. Len(trunk) - 1 : trunk[i] = land[d].base /\ trunk[i + 1] = d
    /\ effect[d].status = "completed"
    /\ Subject(d, receipt[d]) \in grants

-----------------------------------------------------------------------------
\* Liveness.

\* A land whose process lives ends, whatever becomes of its executor, of the
\* push and of the remote: call's limit follows the executor, and an answer that
\* does not come is an answer (control_effect_executor.call, publish).
EveryLandEnds ==
  \A d \in Dispatch :
    land[d].state = "running" ~> land[d].state # "running" \/ At(d, "land", "dead")
=============================================================================
