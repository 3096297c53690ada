------------------------- MODULE FactoryLandingProofs -------------------------
(***************************************************************************)
(* Theorems about FactoryLanding for any dispatches, revisions and pushes  *)
(* of other factories.  The inductive invariant has four layers, each      *)
(* using the ones before it: who may act (Order), what the writes were     *)
(* approved for (Approval), what the destination holds (Truth), and what a *)
(* land that another follows was answered (Followable).                    *)
(***************************************************************************)
EXTENDS FactoryLanding, TLAPS

\* An executor that may still write, and one whose acceptance stands unanswered.
Active(d, k) == worker[d][k].step \notin {"none", "ended"}
Serving(d, k) == Active(d, k) /\ worker[d][k].step # "asked"

\* Who may act: only calls of the one running dispatch live, a second call only
\* after the first died, an executor only for a call that waits for it or died,
\* and an acceptance is answered by the executor that made it.
Order ==
  /\ \A d \in Dispatch : land[d].state = "running" => d = index
  /\ \A d \in Dispatch : land[d].state = "none" => land[d].base = NoCommit
  /\ \A d \in Dispatch : land[d].base = NoCommit => \A k \in Calls : At(d, k, "none")
  /\ \A d \in Dispatch : ~At(d, "again", "none") => At(d, "land", "dead")
  /\ \A d \in Dispatch, k \in Calls :
       call[d][k].step \in Live \cup {"dead"} => land[d].state = "running"
  /\ \A d \in Dispatch, k \in Calls : Active(d, k) => call[d][k].step \in {"waiting", "dead"}
  /\ \A d \in Dispatch, k \in Calls : Serving(d, k) => effect[d].status = "accepted"
  /\ \A d \in Dispatch, j, k \in Calls : Serving(d, j) /\ Serving(d, k) => j = k
  /\ \A d \in Dispatch, k \in Calls :
       call[d][k].step \in {"checked", "written", "waiting"} \/ Active(d, k) => Outstanding(d) = {}

\* What was approved: from the check of the grants to the receipt, each write is
\* of the revision and the tree that the grants name.
Approval ==
  /\ \A d \in Dispatch, k \in Calls :
       At(d, k, "checked") => Subject(d, call[d][k].revision) \in grants
  /\ \A d \in Dispatch : contract[d].write > 0 =>
       /\ contract[d].base = land[d].base /\ land[d].base # NoCommit
       /\ Subject(d, contract[d].revision) \in grants
  /\ \A d \in Dispatch, k \in Calls :
       /\ At(d, k, "written") => contract[d].write > 0
       /\ worker[d][k].step = "asked" => worker[d][k].handle > 0
  /\ \A d \in Dispatch : effect[d].status # "none" =>
       /\ effect[d].base = land[d].base /\ land[d].base # NoCommit
       /\ Subject(d, effect[d].revision) \in grants
  /\ \A d \in Dispatch, k \in Calls :
       call[d][k].step \in {"completing", "confirmed"} => effect[d].status = "completed"
  /\ \A d \in Dispatch : receipt[d] # 0 =>
       effect[d].status = "completed" /\ receipt[d] = effect[d].revision

\* What the destination holds: commits are there once, a candidate exactly when
\* its push was applied, right on its base, and an answer is recorded when no
\* push that may still arrive can make it false.
Buried(c) == \E i \in 1 .. Len(trunk) - 1 : trunk[i] = c
Landed(d) == \E i \in 1 .. Len(trunk) - 1 : trunk[i] = effect[d].base /\ trunk[i + 1] = d
Rejected(d) == push[d] # "applied" /\ (push[d] = "flying" => Buried(effect[d].base))

Truth ==
  /\ \A i, j \in 1 .. Len(trunk) : trunk[i] = trunk[j] => i = j
  /\ \A d \in Dispatch : OnTrunk(d) <=> push[d] = "applied"
  /\ \A d \in Dispatch : land[d].base # NoCommit => OnTrunk(land[d].base)
  /\ \A d \in Dispatch : push[d] # "none" => effect[d].status # "none"
  /\ \A d \in Dispatch : push[d] = "applied" => Landed(d)
  /\ \A d \in Dispatch : effect[d].status = "completed" => push[d] = "applied"
  /\ \A d \in Dispatch : effect[d].status \in {"moved", "refused"} => Rejected(d)
  /\ \A d \in Dispatch, k \in Calls :
       /\ worker[d][k].step \in {"accepted", "listed"} => push[d] = "none"
       /\ worker[d][k].step = "clean" => push[d] = "applied"
       /\ worker[d][k].step = "judged" =>
            /\ worker[d][k].verdict \in Verdicts
            /\ worker[d][k].verdict = "completed" => push[d] = "applied"
            /\ worker[d][k].verdict \in {"moved", "refused"} => Rejected(d)

\* What a land that another one follows was answered.
Followable ==
  /\ \A d \in Dispatch : At(d, "land", "returned") =>
       /\ call[d]["land"].result = "moved" => effect[d].status = "moved"
       /\ call[d]["land"].result = "approval" => effect[d].status = "none"
  /\ \A d \in Dispatch :
       /\ land[d].state = "trunk_moved" => effect[d].status = "moved"
       /\ land[d].state = "awaiting_approval" =>
            effect[d].status = "none" /\ land[d].base # NoCommit
       /\ land[d].follows # NoDispatch => land[land[d].follows].state \in Followed

IInv == TypeOK /\ Order /\ OneOpenPublication /\ Approval /\ Truth /\ Followable

-----------------------------------------------------------------------------
\* What the updates of one executor and of one call do.

WorkerSteps == {"none", "asked", "accepted", "listed", "pushing", "clean", "error",
                "judged", "ended"}
CallSteps == {"none", "returned", "dead"} \cup Live

Workers == [step : WorkerSteps, handle : Nat, verdict : {"none"} \cup Verdicts]
CallRecords == [step : CallSteps, revision : Nat, result : {"none"} \cup Results]

\* The executor, or the call, of one (dispatch, call) became w; the others stay.
WorkerIs(d, k, w) ==
  /\ worker' \in [Dispatch -> [Calls -> Workers]]
  /\ worker'[d][k] = w
  /\ \A e \in Dispatch, j \in Calls : e # d \/ j # k => worker'[e][j] = worker[e][j]

CallIs(d, k, c) ==
  /\ call' \in [Dispatch -> [Calls -> CallRecords]]
  /\ call'[d][k] = c
  /\ \A e \in Dispatch, j \in Calls : e # d \/ j # k => call'[e][j] = call[e][j]

\* Setting one entry of a function of functions (every EXCEPT below).
LEMMA SetsEntry ==
  ASSUME NEW R, NEW f \in [Dispatch -> [Calls -> R]], NEW g,
         NEW d \in Dispatch, NEW k \in Calls, NEW x \in R,
         g = [f EXCEPT ![d][k] = x]
  PROVE  /\ g \in [Dispatch -> [Calls -> R]]
         /\ g[d][k] = x
         /\ \A e \in Dispatch, j \in Calls : e # d \/ j # k => g[e][j] = f[e][j]
<1>1. f[d] \in [Calls -> R]
  OBVIOUS
<1>2. g = [f EXCEPT ![d] = [f[d] EXCEPT ![k] = x]]
  OBVIOUS
<1>3. [f[d] EXCEPT ![k] = x] \in [Calls -> R]
  BY <1>1
<1> QED BY <1>1, <1>2, <1>3

\* An executor that becomes a record (Goes, Concludes, Exits, Execute).
LEMMA WorkerSets ==
  ASSUME TypeOK, NEW d \in Dispatch, NEW k \in Calls, NEW w \in Workers,
         worker' = [worker EXCEPT ![d][k] = w]
  PROVE  WorkerIs(d, k, w)
<1>1. worker \in [Dispatch -> [Calls -> Workers]]
  BY DEF TypeOK, PublicationTypeOK, Workers, WorkerSteps
<1> QED BY <1>1, SetsEntry DEF WorkerIs

LEMMA WorkerTyped ==
  ASSUME TypeOK, NEW d \in Dispatch, NEW k \in Calls
  PROVE  worker[d][k] \in Workers
BY DEF TypeOK, PublicationTypeOK, Workers, WorkerSteps

LEMMA CallTyped ==
  ASSUME TypeOK, NEW d \in Dispatch, NEW k \in Calls
  PROVE  call[d][k] \in CallRecords
BY DEF TypeOK, CallRecords, CallSteps

LEMMA GoesSets ==
  ASSUME TypeOK, NEW d \in Dispatch, NEW k \in Calls, NEW s \in WorkerSteps, Goes(d, k, s)
  PROVE  WorkerIs(d, k, [worker[d][k] EXCEPT !.step = s])
<1>1. worker[d][k] \in Workers
  BY DEF TypeOK, PublicationTypeOK, Workers, WorkerSteps
<1>2. [worker[d][k] EXCEPT !.step = s] \in Workers
  BY <1>1 DEF Workers
<1>3. worker' = [worker EXCEPT ![d][k] = [worker[d][k] EXCEPT !.step = s]]
  BY DEF Goes
<1> QED BY <1>2, <1>3, WorkerSets

LEMMA ConcludesSets ==
  ASSUME TypeOK, NEW d \in Dispatch, NEW k \in Calls, NEW v \in Verdicts, Concludes(d, k, v)
  PROVE  WorkerIs(d, k, [worker[d][k] EXCEPT !.step = "judged", !.verdict = v])
<1>1. worker[d][k] \in Workers
  BY DEF TypeOK, PublicationTypeOK, Workers, WorkerSteps
<1>2. [worker[d][k] EXCEPT !.step = "judged", !.verdict = v] \in Workers
  BY <1>1 DEF Workers, WorkerSteps
<1>3. worker' = [worker EXCEPT ![d][k] = [worker[d][k] EXCEPT !.step = "judged", !.verdict = v]]
  BY <1>1 DEF Concludes, TypeOK, PublicationTypeOK
<1> QED BY <1>2, <1>3, WorkerSets

LEMMA ExitsSets ==
  ASSUME TypeOK, NEW d \in Dispatch, NEW k \in Calls, Exits(d, k)
  PROVE  WorkerIs(d, k, Gone)
<1>1. Gone \in Workers
  BY DEF Gone, Workers, WorkerSteps
<1> QED BY <1>1, WorkerSets DEF Exits

\* A call that becomes a record (Check, Authorize, Dies).
LEMMA CallSets ==
  ASSUME TypeOK, NEW d \in Dispatch, NEW k \in Calls, NEW c \in CallRecords,
         call' = [call EXCEPT ![d][k] = c]
  PROVE  CallIs(d, k, c)
<1>1. call \in [Dispatch -> [Calls -> CallRecords]]
  BY DEF TypeOK, CallRecords, CallSteps
<1> QED BY <1>1, SetsEntry DEF CallIs

LEMMA StepsSets ==
  ASSUME TypeOK, NEW d \in Dispatch, NEW k \in Calls, NEW s \in CallSteps, Steps(d, k, s)
  PROVE  CallIs(d, k, [call[d][k] EXCEPT !.step = s])
<1>1. call[d][k] \in CallRecords
  BY DEF TypeOK, CallRecords, CallSteps
<1>2. [call[d][k] EXCEPT !.step = s] \in CallRecords
  BY <1>1 DEF CallRecords
<1>3. call' = [call EXCEPT ![d][k] = [call[d][k] EXCEPT !.step = s]]
  BY DEF Steps
<1> QED BY <1>2, <1>3, CallSets

LEMMA ReturnsSets ==
  ASSUME TypeOK, NEW d \in Dispatch, NEW k \in Calls, NEW r \in Results, Returns(d, k, r)
  PROVE  CallIs(d, k, [step |-> "returned", revision |-> 0, result |-> r])
<1>1. [step |-> "returned", revision |-> 0, result |-> r] \in CallRecords
  BY DEF CallRecords, CallSteps
<1> QED BY <1>1, CallSets DEF Returns

-----------------------------------------------------------------------------
\* What keeps each layer, for the actions that hardly touch it.

LEMMA OrderFrame ==
  ASSUME Order, UNCHANGED <<land, index, call, effect>>,
         \A e \in Dispatch, j \in Calls :
           (Active(e, j)' => Active(e, j)) /\ (Serving(e, j)' => Serving(e, j))
  PROVE  Order'
<1>1. \A e \in Dispatch : Outstanding(e)' = Outstanding(e)
  BY DEF Outstanding
<1>2. \A e \in Dispatch, j \in Calls : Serving(e, j)' => effect'[e].status = "accepted"
  BY DEF Order
<1>3. \A e \in Dispatch, i, j \in Calls : Serving(e, i)' /\ Serving(e, j)' => i = j
  BY DEF Order
<1>4. \A e \in Dispatch, j \in Calls :
        call'[e][j].step \in {"checked", "written", "waiting"} \/ Active(e, j)'
          => Outstanding(e)' = {}
  BY <1>1 DEF Order
<1> QED BY <1>2, <1>3, <1>4 DEF Order, At

LEMMA ApprovalFrame ==
  ASSUME Approval, UNCHANGED <<land, contract, effect, receipt>>, grants \subseteq grants',
         \A e \in Dispatch, j \in Calls :
           /\ call'[e][j].step \in {"checked", "written", "completing", "confirmed"}
                => call'[e][j] = call[e][j]
           /\ worker'[e][j].step = "asked" => worker'[e][j] = worker[e][j]
  PROVE  Approval'
<1>1. \A e \in Dispatch, r \in Nat : Subject(e, r)' = Subject(e, r)
  BY DEF Subject
<1> QED BY <1>1 DEF Approval, At, Subject

LEMMA TruthFrame ==
  ASSUME Truth, UNCHANGED <<trunk, push, effect>>,
         \A e \in Dispatch : land'[e].base # NoCommit =>
           land'[e].base = land[e].base \/ OnTrunk(land'[e].base),
         \A e \in Dispatch, j \in Calls : worker'[e][j] # worker[e][j] =>
           worker'[e][j].step \notin {"accepted", "listed", "clean", "judged"}
  PROVE  Truth'
<1>1. \A e \in Dispatch : (Rejected(e)' <=> Rejected(e)) /\ (Landed(e)' <=> Landed(e))
  BY DEF Rejected, Landed, Buried
<1> QED BY <1>1 DEF Truth, OnTrunk

LEMMA FollowableFrame ==
  ASSUME Followable, UNCHANGED <<land, effect>>,
         \A e \in Dispatch : call'[e]["land"].step = "returned" =>
           call'[e]["land"] = call[e]["land"]
  PROVE  Followable'
BY DEF Followable, At

-----------------------------------------------------------------------------
\* The destination.

\* A new commit on the trunk: commits stay there once, what stood keeps what it
\* stands on, and everything before the new one is buried.
LEMMA TrunkGrows ==
  ASSUME TypeOK, Truth, NEW c \in Commits, ~OnTrunk(c), trunk' = Append(trunk, c),
         UNCHANGED effect
  PROVE  /\ trunk' \in Seq(Commits) /\ trunk' # <<>>
         /\ \A i, j \in 1 .. Len(trunk') : trunk'[i] = trunk'[j] => i = j
         /\ \A x \in Commits : OnTrunk(x)' <=> OnTrunk(x) \/ x = c
         /\ \A x \in Commits : OnTrunk(x) => Buried(x)'
         /\ \A d \in Dispatch : Landed(d) => Landed(d)'
         /\ trunk[Len(trunk)] = trunk'[Len(trunk') - 1] /\ trunk'[Len(trunk')] = c
         /\ Len(trunk') - 1 \in 1 .. Len(trunk')
<1>1. trunk \in Seq(Commits) /\ Len(trunk) \in Nat /\ Len(trunk) > 0
  BY DEF TypeOK, PublicationTypeOK
<1>2. Len(trunk') = Len(trunk) + 1 /\ trunk' \in Seq(Commits) /\ trunk' # <<>>
  BY <1>1
<1>3. /\ \A i \in 1 .. Len(trunk) : trunk'[i] = trunk[i]
      /\ trunk'[Len(trunk) + 1] = c
  BY <1>1
<1>4. DOMAIN trunk = 1 .. Len(trunk) /\ DOMAIN trunk' = 1 .. Len(trunk')
  BY <1>1, <1>2
<1>5. \A i \in 1 .. Len(trunk) : trunk[i] # c
  BY <1>4 DEF OnTrunk
<1>6. \A i, j \in 1 .. Len(trunk) : trunk[i] = trunk[j] => i = j
  BY DEF Truth
<1>7. ASSUME NEW i \in 1 .. Len(trunk'), NEW j \in 1 .. Len(trunk'), trunk'[i] = trunk'[j]
      PROVE  i = j
  <2>1. \A n \in 1 .. Len(trunk') : n \in 1 .. Len(trunk) \/ n = Len(trunk) + 1
    BY <1>1, <1>2
  <2>2. (i \in 1 .. Len(trunk) /\ j \in 1 .. Len(trunk)) => i = j
    BY <1>3, <1>6, <1>7
  <2> QED BY <2>1, <2>2, <1>3, <1>5, <1>7
<1>8. ASSUME NEW x \in Commits PROVE OnTrunk(x)' <=> OnTrunk(x) \/ x = c
  <2>1. \A n \in 1 .. Len(trunk') : n \in 1 .. Len(trunk) \/ n = Len(trunk) + 1
    BY <1>1, <1>2
  <2>2. \A n \in 1 .. Len(trunk) : n \in 1 .. Len(trunk')
    BY <1>1, <1>2
  <2>3. Len(trunk) + 1 \in 1 .. Len(trunk')
    BY <1>1, <1>2
  <2> QED BY <2>1, <2>2, <2>3, <1>3, <1>4 DEF OnTrunk
<1>9. ASSUME NEW x \in Commits, OnTrunk(x) PROVE Buried(x)'
  BY <1>1, <1>2, <1>3, <1>4, <1>9 DEF OnTrunk, Buried
<1>10. ASSUME NEW d \in Dispatch, Landed(d) PROVE Landed(d)'
  <2>1. PICK i \in 1 .. Len(trunk) - 1 : trunk[i] = effect[d].base /\ trunk[i + 1] = d
    BY <1>10 DEF Landed
  <2>2. i \in 1 .. Len(trunk') - 1 /\ i \in 1 .. Len(trunk) /\ i + 1 \in 1 .. Len(trunk)
    BY <1>1, <1>2
  <2> QED BY <2>1, <2>2, <1>3 DEF Landed
<1>11. /\ trunk[Len(trunk)] = trunk'[Len(trunk') - 1] /\ trunk'[Len(trunk')] = c
       /\ Len(trunk') - 1 \in 1 .. Len(trunk')
  BY <1>1, <1>2, <1>3
<1> QED BY <1>2, <1>7, <1>8, <1>9, <1>10, <1>11

\* The tip is not buried, and everything on the trunk but the tip is.
LEMMA TipOrBuried ==
  ASSUME TypeOK, Truth
  PROVE  /\ Tip \in Commits /\ OnTrunk(Tip) /\ ~Buried(Tip)
         /\ \A x \in Commits : OnTrunk(x) => x = Tip \/ Buried(x)
<1>1. trunk \in Seq(Commits) /\ Len(trunk) \in Nat /\ Len(trunk) > 0
  BY DEF TypeOK, PublicationTypeOK
<1>2. DOMAIN trunk = 1 .. Len(trunk) /\ Len(trunk) \in 1 .. Len(trunk)
  BY <1>1
<1>3. \A i \in 1 .. Len(trunk) : i = Len(trunk) \/ i \in 1 .. Len(trunk) - 1
  BY <1>1
<1>4. \A i \in 1 .. Len(trunk) - 1 : i \in 1 .. Len(trunk) /\ i # Len(trunk)
  BY <1>1
<1>5. \A i, j \in 1 .. Len(trunk) : trunk[i] = trunk[j] => i = j
  BY DEF Truth
<1>6. Tip \in Commits
  BY <1>1, <1>2 DEF Tip
<1>7. OnTrunk(Tip)
  BY <1>2 DEF Tip, OnTrunk
<1>8. ~Buried(Tip)
  BY <1>2, <1>4, <1>5 DEF Tip, Buried
<1>9. \A x \in Commits : OnTrunk(x) => x = Tip \/ Buried(x)
  BY <1>2, <1>3 DEF Tip, OnTrunk, Buried
<1> QED BY <1>6, <1>7, <1>8, <1>9

\* A conclusion that nothing landed stays true when the trunk grows by another.
LEMMA RejectedStays ==
  ASSUME TypeOK, Truth, NEW c \in Commits, ~OnTrunk(c), trunk' = Append(trunk, c),
         UNCHANGED effect, NEW d \in Dispatch, push'[d] = push[d], Rejected(d),
         effect[d].base \in Commits
  PROVE  Rejected(d)'
<1>1. Buried(effect[d].base) => OnTrunk(effect[d].base)
  <2>1. trunk \in Seq(Commits) /\ Len(trunk) \in Nat
    BY DEF TypeOK, PublicationTypeOK
  <2> QED BY <2>1 DEF Buried, OnTrunk
<1>2. OnTrunk(effect[d].base) => Buried(effect[d].base)'
  BY TrunkGrows
<1> QED BY <1>1, <1>2 DEF Rejected

\* The tip an accepted publication was gated on is a commit that stood on the trunk.
LEMMA BaseStands ==
  ASSUME IInv, NEW d \in Dispatch, effect[d].status # "none"
  PROVE  effect[d].base \in Commits /\ OnTrunk(effect[d].base)
<1>1. effect[d].base = land[d].base /\ land[d].base # NoCommit
  BY DEF IInv, Approval
<1>2. land[d].base \in Commits \cup {NoCommit}
  BY DEF IInv, TypeOK
<1> QED BY <1>1, <1>2 DEF IInv, Truth

\* Growing the trunk by a commit nobody's push here carries.
LEMMA OthersPushKeeps ==
  ASSUME IInv, NEW o \in Others, OthersPush(o), UNCHANGED landingVars
  PROVE  IInv'
<1>0. /\ TypeOK /\ Order /\ OneOpenPublication /\ Approval /\ Truth /\ Followable
      /\ o \in Commits /\ o \notin Dispatch
  BY PublicationAssumption DEF IInv, Commits
<1>1. /\ ~OnTrunk(o) /\ trunk' = Append(trunk, o)
      /\ UNCHANGED <<contract, effect, worker, push>>
      /\ UNCHANGED <<revision, grants, land, index, call, receipt>>
  BY DEF OthersPush, landingVars
<1>2. TypeOK'
  BY <1>0, <1>1, TrunkGrows DEF TypeOK, PublicationTypeOK
<1>3. Order' /\ Approval' /\ Followable'
  BY <1>0, <1>1, OrderFrame, ApprovalFrame, FollowableFrame DEF Active, Serving
<1>4. OneOpenPublication'
  BY <1>0, <1>1 DEF OneOpenPublication
<1>5. \A d \in Dispatch : OnTrunk(d)' <=> OnTrunk(d)
  BY <1>0, <1>1, TrunkGrows DEF Commits
<1>6. \A d \in Dispatch : Landed(d) => Landed(d)'
  BY <1>0, <1>1, TrunkGrows
<1>7. ASSUME NEW d \in Dispatch, Rejected(d) PROVE Rejected(d)'
  <2>1. CASE push[d] = "flying"
    <3>1. effect[d].base \in Commits
      BY <2>1, BaseStands DEF IInv, Truth
    <3> QED BY <3>1, <1>0, <1>1, <1>7, RejectedStays
  <2>2. CASE push[d] # "flying"
    BY <2>2, <1>1, <1>7 DEF Rejected
  <2> QED BY <2>1, <2>2
<1>8. \A d \in Dispatch : land[d].base # NoCommit => OnTrunk(land[d].base)'
  <2>1. \A d \in Dispatch : land[d].base # NoCommit =>
          land[d].base \in Commits /\ OnTrunk(land[d].base)
    BY <1>0 DEF TypeOK, Truth
  <2>2. \A x \in Commits : OnTrunk(x) => OnTrunk(x)'
    BY <1>0, <1>1, TrunkGrows
  <2> QED BY <2>1, <2>2, <1>1 DEF OnTrunk
<1>9. \A i, j \in 1 .. Len(trunk') : trunk'[i] = trunk'[j] => i = j
  BY <1>0, <1>1, TrunkGrows
<1>10. Truth'
  BY <1>0, <1>1, <1>5, <1>6, <1>7, <1>8, <1>9 DEF Truth
<1> QED BY <1>2, <1>3, <1>4, <1>10 DEF IInv

LEMMA RemoteSwapsKeeps ==
  ASSUME IInv, NEW d \in Dispatch, RemoteSwaps(d), UNCHANGED landingVars
  PROVE  IInv'
<1>0. /\ TypeOK /\ Order /\ OneOpenPublication /\ Approval /\ Truth /\ Followable
      /\ d \in Commits
  BY DEF IInv, Commits
<1>1. /\ push[d] = "flying" /\ Tip = effect[d].base /\ trunk' = Append(trunk, d)
      /\ push' = [push EXCEPT ![d] = "applied"]
      /\ UNCHANGED <<contract, effect, worker>>
      /\ UNCHANGED <<revision, grants, land, index, call, receipt>>
  BY DEF RemoteSwaps, LeaseHeld, landingVars
<1>2. ~OnTrunk(d)
  BY <1>0, <1>1 DEF Truth
<1>3. push'[d] = "applied" /\ \A e \in Dispatch \ {d} : push'[e] = push[e]
  BY <1>0, <1>1 DEF TypeOK, PublicationTypeOK
<1>4. TypeOK'
  BY <1>0, <1>1, <1>2, TrunkGrows DEF TypeOK, PublicationTypeOK
<1>5. Order' /\ Approval' /\ Followable'
  BY <1>0, <1>1, OrderFrame, ApprovalFrame, FollowableFrame DEF Active, Serving
<1>6. OneOpenPublication'
  BY <1>0, <1>1 DEF OneOpenPublication
<1>7. \A e \in Dispatch : OnTrunk(e)' <=> push'[e] = "applied"
  BY <1>0, <1>1, <1>2, <1>3, TrunkGrows DEF Truth, Commits
<1>8. Landed(d)'
  <2>1. /\ trunk'[Len(trunk') - 1] = effect[d].base /\ trunk'[Len(trunk')] = d
        /\ Len(trunk') - 1 \in 1 .. Len(trunk') - 1
    <3>1. Len(trunk') - 1 \in 1 .. Len(trunk') /\ Len(trunk') \in Nat
      BY <1>0, <1>1, <1>2, TrunkGrows
    <3>2. Len(trunk') - 1 \in 1 .. Len(trunk') - 1
      BY <3>1
    <3> QED BY <3>2, <1>0, <1>1, <1>2, TrunkGrows DEF Tip
  <2>2. Len(trunk') - 1 + 1 = Len(trunk')
    BY <1>0, <1>1, <1>2, TrunkGrows
  <2> QED BY <2>1, <2>2, <1>1 DEF Landed
<1>9. \A e \in Dispatch : push'[e] = "applied" => Landed(e)'
  BY <1>0, <1>1, <1>2, <1>3, <1>8, TrunkGrows DEF Truth
<1>10. ~Rejected(d)
  BY <1>0, <1>1, TipOrBuried DEF Rejected
<1>11. ASSUME NEW e \in Dispatch, Rejected(e) PROVE Rejected(e)'
  <2>1. CASE push[e] = "flying"
    <3>1. effect[e].base \in Commits
      BY <2>1, BaseStands DEF IInv, Truth
    <3> QED BY <3>1, <1>0, <1>1, <1>2, <1>3, <1>10, <1>11, RejectedStays
  <2>2. CASE push[e] # "flying"
    BY <2>2, <1>3, <1>10, <1>11 DEF Rejected
  <2> QED BY <2>1, <2>2
<1>12. \A e \in Dispatch : land[e].base # NoCommit => OnTrunk(land[e].base)'
  <2>1. \A e \in Dispatch : land[e].base # NoCommit =>
          land[e].base \in Commits /\ OnTrunk(land[e].base)
    BY <1>0 DEF TypeOK, Truth
  <2>2. \A x \in Commits : OnTrunk(x) => OnTrunk(x)'
    BY <1>0, <1>1, <1>2, TrunkGrows
  <2> QED BY <2>1, <2>2, <1>1 DEF OnTrunk
<1>13. \A i, j \in 1 .. Len(trunk') : trunk'[i] = trunk'[j] => i = j
  BY <1>0, <1>1, <1>2, TrunkGrows
<1>14. Truth'
  BY <1>0, <1>1, <1>3, <1>7, <1>9, <1>11, <1>12, <1>13 DEF Truth
<1> QED BY <1>4, <1>5, <1>6, <1>14 DEF IInv

LEMMA PushFailsKeeps ==
  ASSUME IInv, NEW d \in Dispatch, PushFails(d), UNCHANGED landingVars
  PROVE  IInv'
<1>0. TypeOK /\ Order /\ OneOpenPublication /\ Approval /\ Truth /\ Followable
  BY DEF IInv
<1>1. /\ push[d] = "flying" /\ push' = [push EXCEPT ![d] = "failed"]
      /\ UNCHANGED <<trunk, contract, effect, worker>>
      /\ UNCHANGED <<revision, grants, land, index, call, receipt>>
  BY DEF PushFails, landingVars
<1>2. push'[d] = "failed" /\ \A e \in Dispatch \ {d} : push'[e] = push[e]
  BY <1>0, <1>1 DEF TypeOK, PublicationTypeOK
<1>3. TypeOK'
  BY <1>0, <1>1 DEF TypeOK, PublicationTypeOK
<1>4. Order' /\ Approval' /\ Followable'
  BY <1>0, <1>1, OrderFrame, ApprovalFrame, FollowableFrame DEF Active, Serving
<1>5. OneOpenPublication'
  BY <1>0, <1>1 DEF OneOpenPublication
<1>6. \A e \in Dispatch : (Rejected(e) => Rejected(e)') /\ (Landed(e) => Landed(e)')
  BY <1>1, <1>2 DEF Rejected, Landed, Buried
<1>7. \A c : OnTrunk(c)' <=> OnTrunk(c)
  BY <1>1 DEF OnTrunk
<1>8. Truth'
  BY <1>0, <1>1, <1>2, <1>6, <1>7 DEF Truth
<1> QED BY <1>3, <1>4, <1>5, <1>8 DEF IInv

-----------------------------------------------------------------------------
\* The executor.

\* What a step of an executor may rely on, and must show of the step it reaches.
Justified(d, w) ==
  /\ w.step \in {"accepted", "listed"} => push[d] = "none"
  /\ w.step = "clean" => push[d] = "applied"
  /\ w.step = "judged" =>
       /\ w.verdict \in Verdicts
       /\ w.verdict = "completed" => push[d] = "applied"
       /\ w.verdict \in {"moved", "refused"} => Rejected(d)

\* An executor that goes on, or ends, and writes nothing else.
LEMMA WorkerMoves ==
  ASSUME IInv, NEW d \in Dispatch, NEW k \in Calls, NEW w \in Workers, WorkerIs(d, k, w),
         Active(d, k), UNCHANGED <<trunk, contract, effect, push, landingVars>>,
         w.step = "ended" \/ (Serving(d, k) /\ w.step \notin {"none", "asked"}),
         Justified(d, w)
  PROVE  IInv'
<1>0. TypeOK /\ Order /\ OneOpenPublication /\ Approval /\ Truth /\ Followable
  BY DEF IInv
<1>1. UNCHANGED <<revision, grants, land, index, call, receipt>>
  BY DEF landingVars
<1>2. /\ worker' \in [Dispatch -> [Calls -> Workers]] /\ worker'[d][k] = w
      /\ \A e \in Dispatch, j \in Calls : e # d \/ j # k => worker'[e][j] = worker[e][j]
  BY DEF WorkerIs
<1>3. TypeOK'
  BY <1>0, <1>1, <1>2 DEF TypeOK, PublicationTypeOK, Workers, WorkerSteps
<1>4. \A e \in Dispatch, j \in Calls :
        (Active(e, j)' => Active(e, j)) /\ (Serving(e, j)' => Serving(e, j))
  <2>1. ASSUME NEW e \in Dispatch, NEW j \in Calls, e # d \/ j # k
        PROVE  (Active(e, j)' => Active(e, j)) /\ (Serving(e, j)' => Serving(e, j))
    BY <2>1, <1>2 DEF Active, Serving
  <2>2. (Active(d, k)' => Active(d, k)) /\ (Serving(d, k)' => Serving(d, k))
    BY <1>2 DEF Active, Serving
  <2> QED BY <2>1, <2>2
<1>5. Order'
  BY <1>0, <1>1, <1>4, OrderFrame
<1>6. OneOpenPublication'
  BY <1>0 DEF OneOpenPublication
<1>7. Approval'
  <2>1. \A e \in Dispatch, j \in Calls :
          worker'[e][j].step = "asked" => worker'[e][j] = worker[e][j]
    BY <1>2
  <2> QED BY <2>1, <1>0, <1>1, ApprovalFrame
<1>8. Followable'
  BY <1>0, <1>1, FollowableFrame
<1>9. \A e \in Dispatch :
        (Rejected(e) => Rejected(e)') /\ (Landed(e) => Landed(e)') /\ (OnTrunk(e)' <=> OnTrunk(e))
  BY DEF Rejected, Landed, Buried, OnTrunk
<1>10. \A e \in Dispatch : (land[e].base # NoCommit => OnTrunk(land[e].base))'
  BY <1>0, <1>1 DEF Truth, OnTrunk
<1>11. ASSUME NEW e \in Dispatch, NEW j \in Calls PROVE Justified(e, worker[e][j])'
  <2>1. CASE e = d /\ j = k
    BY <2>1, <1>2, <1>9 DEF Justified
  <2>2. CASE e # d \/ j # k
    BY <2>2, <1>0, <1>2, <1>9 DEF Justified, Truth
  <2> QED BY <2>1, <2>2
<1>12. Truth'
  BY <1>0, <1>9, <1>10, <1>11 DEF Truth, Justified
<1> QED BY <1>3, <1>5, <1>6, <1>7, <1>8, <1>12 DEF IInv

LEMMA ListKeeps ==
  ASSUME IInv, NEW d \in Dispatch, NEW k \in Calls, List(d, k), UNCHANGED landingVars
  PROVE  IInv'
<1>1. /\ worker[d][k].step = "accepted" /\ Active(d, k) /\ Serving(d, k)
      /\ push[d] = "none" /\ TypeOK /\ UNCHANGED <<trunk, contract, effect, push, landingVars>>
      /\ worker[d][k] \in Workers
  BY WorkerTyped DEF List, IInv, Active, Serving, Truth
<1>2. CASE Goes(d, k, "listed")
  <2> DEFINE w == [worker[d][k] EXCEPT !.step = "listed"]
  <2>1. WorkerIs(d, k, w) /\ w \in Workers /\ w.step = "listed"
    BY <1>1, <1>2, GoesSets DEF Workers, WorkerSteps
  <2>2. Justified(d, w)
    BY <1>1, <2>1 DEF Justified
  <2> HIDE DEF w
  <2> QED BY <1>1, <2>1, <2>2, WorkerMoves
<1>3. ASSUME NEW v \in {"moved", "refused"}, Concludes(d, k, v) PROVE IInv'
  <2> DEFINE w == [worker[d][k] EXCEPT !.step = "judged", !.verdict = v]
  <2>1. WorkerIs(d, k, w) /\ w \in Workers /\ w.step = "judged" /\ w.verdict = v
    BY <1>1, <1>3, ConcludesSets DEF Workers, WorkerSteps, Verdicts
  <2>2. Justified(d, w)
    BY <1>1, <2>1 DEF Justified, Rejected, Verdicts
  <2> HIDE DEF w
  <2> QED BY <1>1, <2>1, <2>2, WorkerMoves
<1> QED BY <1>2, <1>3 DEF List

LEMMA PushExitsKeeps ==
  ASSUME IInv, NEW d \in Dispatch, NEW k \in Calls, PushExits(d, k), UNCHANGED landingVars
  PROVE  IInv'
<1>1. /\ worker[d][k].step = "pushing" /\ Active(d, k) /\ Serving(d, k) /\ TypeOK
      /\ UNCHANGED <<trunk, contract, effect, push, landingVars>> /\ worker[d][k] \in Workers
  BY WorkerTyped DEF PushExits, IInv, Active, Serving
<1>2. PICK s \in {"clean", "error"} : Goes(d, k, s) /\ (s = "clean" => push[d] = "applied")
  BY DEF PushExits
<1> DEFINE w == [worker[d][k] EXCEPT !.step = s]
<1>3. WorkerIs(d, k, w) /\ w \in Workers /\ w.step = s
  BY <1>1, <1>2, GoesSets DEF Workers, WorkerSteps
<1>4. Justified(d, w)
  BY <1>2, <1>3 DEF Justified
<1> HIDE DEF w
<1> QED BY <1>1, <1>3, <1>4, WorkerMoves

\* The destination moved past a candidate that is not there: its push, if it is
\* still under way, has lost its lease for good.
LEMMA JudgeKeeps ==
  ASSUME IInv, NEW d \in Dispatch, NEW k \in Calls, Judge(d, k), UNCHANGED landingVars
  PROVE  IInv'
<1>1. /\ Active(d, k) /\ Serving(d, k) /\ TypeOK /\ Truth /\ worker[d][k] \in Workers
      /\ UNCHANGED <<trunk, contract, effect, push, landingVars>>
  BY WorkerTyped DEF Judge, IInv, Active, Serving
<1>2. effect[d].base \in Commits /\ OnTrunk(effect[d].base)
  BY <1>1, BaseStands DEF IInv, Order
<1>3. PICK v \in {"completed", "moved", "unknown"} :
        /\ Concludes(d, k, v)
        /\ v = "completed" => worker[d][k].step = "clean"
        /\ v = "moved" => Tip # effect[d].base /\ ~OnTrunk(d)
  BY DEF Judge, MovedPast
<1>4. v = "completed" => push[d] = "applied"
  BY <1>1, <1>3 DEF Truth
<1>5. v = "moved" => Rejected(d)
  BY <1>1, <1>2, <1>3, TipOrBuried DEF Rejected, Truth
<1> DEFINE w == [worker[d][k] EXCEPT !.step = "judged", !.verdict = v]
<1>6. WorkerIs(d, k, w) /\ w \in Workers /\ w.step = "judged" /\ w.verdict = v
  BY <1>1, <1>3, ConcludesSets DEF Workers, WorkerSteps, Verdicts
<1>7. Justified(d, w)
  BY <1>4, <1>5, <1>6 DEF Justified, Verdicts
<1> HIDE DEF w
<1> QED BY <1>1, <1>6, <1>7, WorkerMoves

LEMMA StepTimesOutKeeps ==
  ASSUME IInv, NEW d \in Dispatch, NEW k \in Calls, StepTimesOut(d, k), UNCHANGED landingVars
  PROVE  IInv'
<1>1. /\ Active(d, k) /\ Serving(d, k) /\ TypeOK /\ worker[d][k] \in Workers
      /\ UNCHANGED <<trunk, contract, effect, push, landingVars>>
  BY WorkerTyped DEF StepTimesOut, IInv, Active, Serving
<1> DEFINE w == [worker[d][k] EXCEPT !.step = "judged", !.verdict = "unknown"]
<1>2. WorkerIs(d, k, w) /\ w \in Workers /\ w.step = "judged" /\ w.verdict = "unknown"
  BY <1>1, ConcludesSets DEF StepTimesOut, Workers, WorkerSteps, Verdicts
<1>3. Justified(d, w)
  BY <1>2 DEF Justified, Verdicts
<1> HIDE DEF w
<1> QED BY <1>1, <1>2, <1>3, WorkerMoves

LEMMA WorkerEndsKeeps ==
  ASSUME IInv, NEW d \in Dispatch, NEW k \in Calls, WorkerEnds(d, k), UNCHANGED landingVars
  PROVE  IInv'
<1>1. /\ Active(d, k) /\ TypeOK /\ UNCHANGED <<trunk, contract, effect, push, landingVars>>
  BY DEF WorkerEnds, IInv, Active
<1>2. WorkerIs(d, k, Gone) /\ Gone \in Workers /\ Gone.step = "ended"
  BY <1>1, ExitsSets DEF WorkerEnds, Gone, Workers, WorkerSteps
<1>3. Justified(d, Gone)
  BY <1>2 DEF Justified
<1> QED BY <1>1, <1>2, <1>3, WorkerMoves

\* While an executor is at work, the dispatch runs, is the unit's latest, and its
\* land has not returned: no other dispatch has a live call or executor.
LEMMA OnlyTheRunning ==
  ASSUME IInv, NEW d \in Dispatch, NEW k \in Calls, Active(d, k)
  PROVE  /\ land[d].state = "running" /\ call[d][k].step \in {"waiting", "dead"}
         /\ ~At(d, "land", "returned") /\ Outstanding(d) = {}
         /\ \A e \in Dispatch, j \in Calls : Active(e, j) => e = d
         /\ \A e \in Dispatch, j \in Calls : call[e][j].step \in Live \cup {"dead"} => e = d
<1>1. Order /\ call[d][k].step \in {"waiting", "dead"} /\ Outstanding(d) = {}
  BY DEF IInv, Order
<1>2. \A e \in Dispatch, j \in Calls : Active(e, j) => call[e][j].step \in Live \cup {"dead"}
  BY <1>1 DEF Order, Live
<1>3. land[d].state = "running" /\ index = d
  BY <1>1 DEF Order, Live
<1>4. \A e \in Dispatch, j \in Calls : call[e][j].step \in Live \cup {"dead"} => e = d
  BY <1>1, <1>3 DEF Order
<1>5. ~At(d, "land", "returned")
  BY <1>1 DEF Order, At, Calls
<1> QED BY <1>1, <1>2, <1>3, <1>4, <1>5

\* An acceptance: the first of its dispatch, while no other stands unanswered.
LEMMA AcceptsKeeps ==
  ASSUME IInv, NEW d \in Dispatch, NEW k \in Calls, Accept(d, k), MayAccept(d, k),
         UNCHANGED landingVars
  PROVE  IInv'
<1>0. TypeOK /\ Order /\ OneOpenPublication /\ Approval /\ Truth /\ Followable
  BY DEF IInv
<1>1. /\ worker[d][k].step = "asked" /\ worker[d][k].handle = contract[d].write
      /\ effect[d].status = "none" /\ Goes(d, k, "accepted")
      /\ effect' = [effect EXCEPT ![d] = [status |-> "accepted",
                      base |-> contract[d].base, revision |-> contract[d].revision]]
      /\ UNCHANGED <<trunk, contract, push>>
      /\ UNCHANGED <<revision, grants, land, index, call, receipt>>
  BY DEF Accept, MayAccept, landingVars
<1> DEFINE w == [worker[d][k] EXCEPT !.step = "accepted"]
<1>2. WorkerIs(d, k, w) /\ w.step = "accepted"
  BY <1>0, <1>1, GoesSets, WorkerTyped DEF Workers, WorkerSteps
<1> HIDE DEF w
<1>3. /\ worker' \in [Dispatch -> [Calls -> Workers]] /\ worker'[d][k].step = "accepted"
      /\ \A e \in Dispatch, j \in Calls : e # d \/ j # k => worker'[e][j] = worker[e][j]
  BY <1>2 DEF WorkerIs
<1>4. /\ effect'[d].status = "accepted" /\ effect'[d].base = contract[d].base
      /\ effect'[d].revision = contract[d].revision
      /\ \A e \in Dispatch \ {d} : effect'[e] = effect[e]
  BY <1>0, <1>1 DEF TypeOK, PublicationTypeOK
<1>5. TypeOK'
  BY <1>0, <1>1, <1>3 DEF TypeOK, PublicationTypeOK, Workers, WorkerSteps
<1>6. /\ Active(d, k) /\ ~At(d, "land", "returned") /\ Outstanding(d) = {}
      /\ land[d].state = "running"
      /\ \A e \in Dispatch, j \in Calls : Active(e, j) => e = d
      /\ \A e \in Dispatch, j \in Calls : call[e][j].step \in Live \cup {"dead"} => e = d
  BY <1>1, OnlyTheRunning DEF Active
<1>7. \A e \in Dispatch, j \in Calls : Active(e, j)' => Active(e, j)
  BY <1>3, <1>6 DEF Active
<1>8. \A e \in Dispatch, j \in Calls : Serving(e, j)' => e = d /\ j = k
  BY <1>0, <1>1, <1>3, <1>6, <1>7 DEF Order, Serving, Active
<1>9. Order'
  <2>1. Outstanding(d)' = {}
    BY <1>4, <1>6 DEF Outstanding
  <2>2. \A e \in Dispatch, j \in Calls :
          call'[e][j].step \in {"checked", "written", "waiting"} \/ Active(e, j)' => e = d
    BY <1>1, <1>6, <1>7 DEF Live
  <2>3. \A e \in Dispatch, j \in Calls : Active(e, j)' => call'[e][j].step \in {"waiting", "dead"}
    BY <1>0, <1>1, <1>7 DEF Order
  <2> QED BY <2>1, <2>2, <2>3, <1>0, <1>1, <1>4, <1>8 DEF Order, At
<1>10. OneOpenPublication'
  <2>1. \A e \in Dispatch : e # d => effect'[e].status \notin Unanswered
    BY <1>4, <1>6 DEF Outstanding
  <2> QED BY <2>1 DEF OneOpenPublication
<1>11. contract[d].write > 0
  BY <1>0, <1>1 DEF Approval
<1>12. Approval'
  <2>1. \A e \in Dispatch : \A r : Subject(e, r)' = Subject(e, r)
    BY <1>1 DEF Subject
  <2>2. \A e \in Dispatch, j \in Calls :
          worker'[e][j].step = "asked" => worker[e][j] = worker'[e][j]
    BY <1>3
  <2>3. effect'[d].base = land[d].base /\ land[d].base # NoCommit
        /\ Subject(d, effect'[d].revision) \in grants
    BY <1>0, <1>4, <1>11 DEF Approval
  <2>4. receipt[d] = 0 /\ \A j \in Calls : call[d][j].step \notin {"completing", "confirmed"}
    BY <1>0, <1>1 DEF Approval
  <2>5. \A e \in Dispatch : effect'[e].status # "none" =>
           effect'[e].base = land[e].base /\ land[e].base # NoCommit
           /\ Subject(e, effect'[e].revision) \in grants
    BY <2>3, <1>0, <1>4 DEF Approval
  <2>6. /\ \A e \in Dispatch, j \in Calls :
             call[e][j].step \in {"completing", "confirmed"} => effect'[e].status = "completed"
        /\ \A e \in Dispatch : receipt[e] # 0 =>
             effect'[e].status = "completed" /\ receipt[e] = effect'[e].revision
    BY <2>4, <1>0, <1>4 DEF Approval
  <2> QED BY <2>1, <2>2, <2>5, <2>6, <1>0, <1>1 DEF Approval, At, Subject
<1>13. push[d] = "none"
  BY <1>0, <1>1 DEF Truth
<1>14. \A e \in Dispatch \ {d} : (Rejected(e) => Rejected(e)') /\ (Landed(e) => Landed(e)')
  BY <1>1, <1>4 DEF Rejected, Landed, Buried
<1>15. ASSUME NEW e \in Dispatch, NEW j \in Calls PROVE Justified(e, worker[e][j])'
  <2>1. CASE e = d /\ j = k
    BY <2>1, <1>1, <1>3, <1>13 DEF Justified
  <2>2. CASE e = d /\ j # k
    BY <2>2, <1>3, <1>8 DEF Justified, Serving, Active
  <2>3. CASE e # d
    BY <2>3, <1>0, <1>1, <1>3, <1>14 DEF Justified, Truth
  <2> QED BY <2>1, <2>2, <2>3
<1>16. Truth'
  BY <1>0, <1>1, <1>4, <1>13, <1>14, <1>15 DEF Truth, Justified, OnTrunk
<1>17. Followable'
  <2>1. \A e \in Dispatch : At(e, "land", "returned")' => At(e, "land", "returned") /\ e # d
    BY <1>1, <1>6 DEF At
  <2> QED BY <2>1, <1>0, <1>1, <1>4, <1>6 DEF Followable
<1> QED BY <1>5, <1>9, <1>10, <1>12, <1>16, <1>17 DEF IInv

LEMMA AcceptKeeps ==
  ASSUME IInv, NEW d \in Dispatch, NEW k \in Calls, Accept(d, k), UNCHANGED landingVars
  PROVE  IInv'
<1>1. CASE MayAccept(d, k)
  BY <1>1, AcceptsKeeps
<1>2. CASE ~MayAccept(d, k)
  <2>1. /\ Active(d, k) /\ TypeOK /\ Exits(d, k)
        /\ UNCHANGED <<trunk, contract, effect, push, landingVars>>
    BY <1>2 DEF Accept, IInv, Active
  <2>2. WorkerIs(d, k, Gone) /\ Gone \in Workers /\ Gone.step = "ended"
    BY <2>1, ExitsSets DEF Gone, Workers, WorkerSteps
  <2>3. Justified(d, Gone)
    BY <2>2 DEF Justified
  <2> QED BY <2>1, <2>2, <2>3, WorkerMoves
<1> QED BY <1>1, <1>2

LEMMA StartPushKeeps ==
  ASSUME IInv, NEW d \in Dispatch, NEW k \in Calls, StartPush(d, k), UNCHANGED landingVars
  PROVE  IInv'
<1>0. TypeOK /\ Order /\ OneOpenPublication /\ Approval /\ Truth /\ Followable
  BY DEF IInv
<1>1. /\ worker[d][k].step = "listed" /\ Goes(d, k, "pushing")
      /\ push' = [push EXCEPT ![d] = "flying"]
      /\ UNCHANGED <<trunk, contract, effect>>
      /\ UNCHANGED <<revision, grants, land, index, call, receipt>>
  BY DEF StartPush, landingVars
<1> DEFINE w == [worker[d][k] EXCEPT !.step = "pushing"]
<1>2. WorkerIs(d, k, w) /\ w.step = "pushing"
  BY <1>0, <1>1, GoesSets, WorkerTyped DEF Workers, WorkerSteps
<1> HIDE DEF w
<1>3. /\ worker' \in [Dispatch -> [Calls -> Workers]] /\ worker'[d][k].step = "pushing"
      /\ \A e \in Dispatch, j \in Calls : e # d \/ j # k => worker'[e][j] = worker[e][j]
  BY <1>2 DEF WorkerIs
<1>4. push'[d] = "flying" /\ \A e \in Dispatch \ {d} : push'[e] = push[e]
  BY <1>0, <1>1 DEF TypeOK, PublicationTypeOK
<1>5. TypeOK'
  BY <1>0, <1>1, <1>3 DEF TypeOK, PublicationTypeOK, Workers, WorkerSteps
<1>6. Serving(d, k) /\ effect[d].status = "accepted" /\ push[d] = "none"
  BY <1>0, <1>1 DEF Serving, Active, Order, Truth
<1>7. \A e \in Dispatch, j \in Calls :
        (Active(e, j)' => Active(e, j)) /\ (Serving(e, j)' => Serving(e, j))
  <2>1. ASSUME NEW e \in Dispatch, NEW j \in Calls, e # d \/ j # k
        PROVE  (Active(e, j)' => Active(e, j)) /\ (Serving(e, j)' => Serving(e, j))
    BY <2>1, <1>3 DEF Active, Serving
  <2>2. Active(d, k) /\ Serving(d, k)
    BY <1>6 DEF Serving
  <2> QED BY <2>1, <2>2
<1>8. Order' /\ Followable'
  BY <1>0, <1>1, <1>7, OrderFrame, FollowableFrame
<1>9. OneOpenPublication'
  BY <1>0, <1>1 DEF OneOpenPublication
<1>10. Approval'
  <2>1. \A e \in Dispatch, j \in Calls :
          worker'[e][j].step = "asked" => worker'[e][j] = worker[e][j]
    BY <1>3
  <2> QED BY <2>1, <1>0, <1>1, ApprovalFrame
<1>11. \A e \in Dispatch : (Rejected(e) /\ e # d => Rejected(e)') /\ (Landed(e) => Landed(e)')
  BY <1>1, <1>4 DEF Rejected, Landed, Buried
<1>12. ASSUME NEW e \in Dispatch, NEW j \in Calls PROVE Justified(e, worker[e][j])'
  <2>1. CASE e = d /\ j = k
    BY <2>1, <1>3 DEF Justified
  <2>2. CASE e = d /\ j # k
    <3>1. worker[d][j].step \notin {"accepted", "listed", "clean", "judged"}
      BY <2>2, <1>0, <1>6 DEF Order, Serving, Active
    <3> QED BY <2>2, <3>1, <1>3 DEF Justified
  <2>3. CASE e # d
    BY <2>3, <1>0, <1>3, <1>4, <1>11 DEF Justified, Truth
  <2> QED BY <2>1, <2>2, <2>3
<1>13. Truth'
  BY <1>0, <1>1, <1>4, <1>6, <1>11, <1>12 DEF Truth, Justified, OnTrunk
<1> QED BY <1>5, <1>8, <1>9, <1>10, <1>13 DEF IInv

\* An answer recorded: it is the one its executor could justify.
LEMMA FinishKeeps ==
  ASSUME IInv, NEW d \in Dispatch, NEW k \in Calls, Finish(d, k), UNCHANGED landingVars
  PROVE  IInv'
<1>0. TypeOK /\ Order /\ OneOpenPublication /\ Approval /\ Truth /\ Followable
  BY DEF IInv
<1> DEFINE v == worker[d][k].verdict
<1>1. /\ worker[d][k].step = "judged" /\ Exits(d, k)
      /\ effect' = [effect EXCEPT ![d].status = v]
      /\ UNCHANGED <<trunk, contract, push>>
      /\ UNCHANGED <<revision, grants, land, index, call, receipt>>
  BY DEF Finish, landingVars
<1>2. /\ v \in Verdicts /\ (v = "completed" => push[d] = "applied")
      /\ (v \in {"moved", "refused"} => Rejected(d))
  BY <1>0, <1>1 DEF Truth
<1> HIDE DEF v
<1>3. /\ worker' \in [Dispatch -> [Calls -> Workers]] /\ worker'[d][k].step = "ended"
      /\ \A e \in Dispatch, j \in Calls : e # d \/ j # k => worker'[e][j] = worker[e][j]
  BY <1>0, <1>1, ExitsSets DEF WorkerIs, Gone
<1>4. /\ effect'[d].status = v /\ effect'[d].base = effect[d].base
      /\ effect'[d].revision = effect[d].revision
      /\ \A e \in Dispatch \ {d} : effect'[e] = effect[e]
  BY <1>0, <1>1 DEF TypeOK, PublicationTypeOK
<1>5. TypeOK'
  <2> DEFINE Effects == [status : {"none", "accepted"} \cup Verdicts,
                         base : Commits \cup {NoCommit}, revision : Nat]
  <2>1. effect \in [Dispatch -> Effects]
    BY <1>0 DEF TypeOK, PublicationTypeOK
  <2>2. [effect[d] EXCEPT !.status = v] \in Effects
    BY <1>2, <2>1
  <2>3. effect' = [effect EXCEPT ![d] = [effect[d] EXCEPT !.status = v]]
    BY <1>1
  <2>4. effect' \in [Dispatch -> Effects]
    <3> HIDE DEF Effects
    <3> QED BY <2>1, <2>2, <2>3
  <2> QED BY <2>4, <1>0, <1>1, <1>3 DEF TypeOK, PublicationTypeOK, Workers, WorkerSteps
<1>6. /\ Serving(d, k) /\ Active(d, k) /\ effect[d].status = "accepted"
      /\ \A j \in Calls : Serving(d, j) => j = k
  BY <1>0, <1>1 DEF Serving, Active, Order
<1>7. /\ ~At(d, "land", "returned") /\ Outstanding(d) = {} /\ land[d].state = "running"
      /\ \A e \in Dispatch, j \in Calls : Active(e, j) => e = d
      /\ \A e \in Dispatch, j \in Calls : call[e][j].step \in Live \cup {"dead"} => e = d
  BY <1>6, OnlyTheRunning
<1>8. \A e \in Dispatch, j \in Calls : ~Serving(e, j)' /\ (Active(e, j)' => Active(e, j))
  <2>1. \A e \in Dispatch, j \in Calls : Serving(e, j) => e = d /\ j = k
    BY <1>6, <1>7 DEF Serving
  <2>2. ~Active(d, k)'
    BY <1>3 DEF Active
  <2> QED BY <2>1, <2>2, <1>3 DEF Serving, Active
<1>9. Order'
  <2>1. Outstanding(d)' = {}
    BY <1>4, <1>7 DEF Outstanding
  <2>2. \A e \in Dispatch, j \in Calls :
          call'[e][j].step \in {"checked", "written", "waiting"} \/ Active(e, j)' => e = d
    BY <1>1, <1>7, <1>8 DEF Live
  <2>3. \A e \in Dispatch, j \in Calls : Active(e, j)' => call'[e][j].step \in {"waiting", "dead"}
    BY <1>0, <1>1, <1>8 DEF Order
  <2> QED BY <2>1, <2>2, <2>3, <1>0, <1>1, <1>8 DEF Order, At
<1>10. OneOpenPublication'
  <2>1. \A e \in Dispatch : e # d => effect'[e].status \notin Unanswered
    BY <1>4, <1>7 DEF Outstanding
  <2> QED BY <2>1 DEF OneOpenPublication
<1>11. Approval'
  <2>1. \A e \in Dispatch : \A r : Subject(e, r)' = Subject(e, r)
    BY <1>1 DEF Subject
  <2>2. \A e \in Dispatch, j \in Calls :
          worker'[e][j].step = "asked" => worker[e][j] = worker'[e][j]
    BY <1>3
  <2>3. \A e \in Dispatch : effect'[e].status # "none" =>
           effect'[e].base = land[e].base /\ land[e].base # NoCommit
           /\ Subject(e, effect'[e].revision) \in grants
    BY <1>0, <1>4, <1>6 DEF Approval
  <2>4. receipt[d] = 0 /\ \A j \in Calls : call[d][j].step \notin {"completing", "confirmed"}
    BY <1>0, <1>6 DEF Approval
  <2>5. /\ \A e \in Dispatch, j \in Calls :
             call[e][j].step \in {"completing", "confirmed"} => effect'[e].status = "completed"
        /\ \A e \in Dispatch : receipt[e] # 0 =>
             effect'[e].status = "completed" /\ receipt[e] = effect'[e].revision
    BY <2>4, <1>0, <1>4 DEF Approval
  <2> QED BY <2>1, <2>2, <2>3, <2>5, <1>0, <1>1 DEF Approval, At, Subject
<1>12. \A e \in Dispatch : (Rejected(e) => Rejected(e)') /\ (Landed(e) => Landed(e)')
  <2>1. \A e \in Dispatch : effect'[e].base = effect[e].base
    BY <1>4
  <2> QED BY <2>1, <1>1 DEF Rejected, Landed, Buried
<1>13. ASSUME NEW e \in Dispatch, NEW j \in Calls PROVE Justified(e, worker[e][j])'
  <2>1. worker'[e][j].step \notin {"accepted", "listed", "clean", "judged"}
    BY <1>8 DEF Serving, Active
  <2> QED BY <2>1 DEF Justified
<1>14. Truth'
  <2>1. effect[d].status # "none" /\ v # "none"
    BY <1>2, <1>6 DEF Verdicts
  <2>2. \A e \in Dispatch : effect'[e].status = "completed" => push[e] = "applied"
    BY <1>0, <1>2, <1>4 DEF Truth
  <2>3. \A e \in Dispatch : effect'[e].status \in {"moved", "refused"} => Rejected(e)'
    BY <1>0, <1>2, <1>4, <1>12 DEF Truth
  <2>4. \A e \in Dispatch : push[e] # "none" => effect'[e].status # "none"
    BY <2>1, <1>0, <1>4 DEF Truth
  <2> QED BY <2>2, <2>3, <2>4, <1>0, <1>1, <1>12, <1>13 DEF Truth, Justified, OnTrunk
<1>15. Followable'
  <2>1. \A e \in Dispatch : At(e, "land", "returned")' => At(e, "land", "returned") /\ e # d
    BY <1>1, <1>7 DEF At
  <2> QED BY <2>1, <1>0, <1>1, <1>4, <1>7 DEF Followable
<1> QED BY <1>5, <1>9, <1>10, <1>11, <1>14, <1>15 DEF IInv

-----------------------------------------------------------------------------
\* A call of Landing.publish takes a step.

LandRecords == [state : {"none", "running"} \cup Ends,
                follows : Dispatch \cup {NoDispatch}, build : Dispatch \cup {NoDispatch},
                base : Commits \cup {NoCommit}, asked : Nat]

\* The land records but for what was asked of the owner last.
LandSame ==
  /\ land' \in [Dispatch -> LandRecords]
  /\ \A e \in Dispatch :
       /\ land'[e].state = land[e].state /\ land'[e].follows = land[e].follows
       /\ land'[e].build = land[e].build /\ land'[e].base = land[e].base

\* The step c may be the next of this call.
MayStep(d, k, c) ==
  /\ c.step # "none" /\ land[d].base # NoCommit
  /\ c.step \in Live \cup {"dead"} => land[d].state = "running"
  /\ k = "again" => At(d, "land", "dead")
  /\ k = "land" /\ ~At(d, "again", "none") => c.step = "dead"
  /\ c.step \in {"checked", "written", "waiting"} => Outstanding(d) = {}

LEMMA OrderCall ==
  ASSUME Order, NEW d \in Dispatch, NEW k \in Calls, NEW c \in CallRecords,
         CallIs(d, k, c), LandSame, UNCHANGED <<index, effect>>, MayStep(d, k, c),
         \A e \in Dispatch, j \in Calls :
           /\ Active(e, j)' => Active(e, j) \/ (e = d /\ j = k)
           /\ Serving(e, j)' => Serving(e, j),
         Active(d, k)' => c.step \in {"waiting", "dead"},
         Active(d, k)' => Outstanding(d) = {}
  PROVE  Order'
<1>1. /\ call'[d][k] = c
      /\ \A e \in Dispatch, j \in Calls : e # d \/ j # k => call'[e][j] = call[e][j]
  BY DEF CallIs
<1>2. \A e \in Dispatch : Outstanding(e)' = Outstanding(e)
  BY DEF Outstanding
<1>3. \A e \in Dispatch :
        /\ land'[e].state = land[e].state /\ land'[e].base = land[e].base
  BY DEF LandSame
<1>4. \A e \in Dispatch : land'[e].base = NoCommit => \A j \in Calls : At(e, j, "none")'
  BY <1>1, <1>3 DEF Order, At, MayStep
<1>5. \A e \in Dispatch : ~At(e, "again", "none")' => At(e, "land", "dead")'
  <2>1. "again" \in Calls /\ "land" \in Calls /\ k \in {"land", "again"}
    BY DEF Calls
  <2>2. ASSUME NEW e \in Dispatch, e # d, ~At(e, "again", "none")'
        PROVE  At(e, "land", "dead")'
    BY <1>1, <2>1, <2>2 DEF Order, At
  <2>3. CASE k = "again"
    BY <1>1, <2>1, <2>2, <2>3 DEF MayStep, At
  <2>4. CASE k = "land"
    BY <1>1, <2>1, <2>2, <2>4 DEF MayStep, At
  <2> QED BY <2>1, <2>3, <2>4
<1>6. \A e \in Dispatch, j \in Calls :
        call'[e][j].step \in Live \cup {"dead"} => land'[e].state = "running"
  BY <1>1, <1>3 DEF Order, MayStep
<1>7. \A e \in Dispatch, j \in Calls :
        Active(e, j)' => call'[e][j].step \in {"waiting", "dead"}
  BY <1>1 DEF Order
<1>8. \A e \in Dispatch, j \in Calls :
        call'[e][j].step \in {"checked", "written", "waiting"} \/ Active(e, j)'
          => Outstanding(e)' = {}
  BY <1>1, <1>2 DEF Order, MayStep
<1>9. /\ \A e \in Dispatch, j \in Calls : Serving(e, j)' => effect'[e].status = "accepted"
      /\ \A e \in Dispatch, i, j \in Calls : Serving(e, i)' /\ Serving(e, j)' => i = j
  BY DEF Order
<1>10. /\ \A e \in Dispatch : land'[e].state = "running" => e = index'
       /\ \A e \in Dispatch : land'[e].state = "none" => land'[e].base = NoCommit
  BY <1>3 DEF Order
<1> QED BY <1>4, <1>5, <1>6, <1>7, <1>8, <1>9, <1>10 DEF Order

LEMMA ApprovalCall ==
  ASSUME Approval, NEW d \in Dispatch, NEW k \in Calls, NEW c \in CallRecords,
         CallIs(d, k, c), LandSame, UNCHANGED <<grants, effect>>,
         c.step = "checked" => Subject(d, c.revision) \in grants,
         c.step = "written" => contract'[d].write > 0,
         c.step \in {"completing", "confirmed"} => effect[d].status = "completed",
         \A e \in Dispatch : contract'[e] = contract[e] \/
           /\ contract'[e].write > 0
           /\ contract'[e].base = land[e].base /\ land[e].base # NoCommit
           /\ Subject(e, contract'[e].revision) \in grants,
         \A e \in Dispatch, j \in Calls : worker'[e][j].step = "asked" =>
           worker'[e][j] = worker[e][j] \/ worker'[e][j].handle > 0,
         \A e \in Dispatch : receipt'[e] = receipt[e] \/
           (effect[e].status = "completed" /\ receipt'[e] = effect[e].revision)
  PROVE  Approval'
<1>1. /\ call'[d][k] = c
      /\ \A e \in Dispatch, j \in Calls : e # d \/ j # k => call'[e][j] = call[e][j]
  BY DEF CallIs
<1>2. \A e \in Dispatch : land'[e].base = land[e].base /\ land'[e].build = land[e].build
  BY DEF LandSame
<1>3. \A e \in Dispatch, j \in Calls : call'[e][j].step = "checked" =>
        [revision |-> call'[e][j].revision, build |-> land'[e].build, base |-> land'[e].base]
          \in grants'
  BY <1>1, <1>2 DEF Approval, At, Subject
<1>4. \A e \in Dispatch : contract'[e].write > 0 =>
        /\ contract'[e].base = land'[e].base /\ land'[e].base # NoCommit
        /\ [revision |-> contract'[e].revision, build |-> land'[e].build,
            base |-> land'[e].base] \in grants'
  BY <1>2 DEF Approval, Subject
<1>5. \A e \in Dispatch, j \in Calls :
        /\ call'[e][j].step = "written" => contract'[e].write > 0
        /\ worker'[e][j].step = "asked" => worker'[e][j].handle > 0
  BY <1>1 DEF Approval, At
<1>6. \A e \in Dispatch : effect'[e].status # "none" =>
        /\ effect'[e].base = land'[e].base /\ land'[e].base # NoCommit
        /\ [revision |-> effect'[e].revision, build |-> land'[e].build,
            base |-> land'[e].base] \in grants'
  BY <1>2 DEF Approval, Subject
<1>7. \A e \in Dispatch, j \in Calls :
        call'[e][j].step \in {"completing", "confirmed"} => effect'[e].status = "completed"
  BY <1>1 DEF Approval
<1>8. \A e \in Dispatch : receipt'[e] # 0 =>
        effect'[e].status = "completed" /\ receipt'[e] = effect'[e].revision
  BY DEF Approval
<1> QED BY <1>3, <1>4, <1>5, <1>6, <1>7, <1>8 DEF Approval, At, Subject

LEMMA FollowableCall ==
  ASSUME Followable, NEW d \in Dispatch, NEW k \in Calls, NEW c \in CallRecords,
         CallIs(d, k, c), LandSame, UNCHANGED effect,
         k = "land" /\ c.step = "returned" =>
           /\ c.result = "moved" => effect[d].status = "moved"
           /\ c.result = "approval" => effect[d].status = "none"
  PROVE  Followable'
<1>1. /\ call'[d][k] = c /\ "land" \in Calls
      /\ \A e \in Dispatch, j \in Calls : e # d \/ j # k => call'[e][j] = call[e][j]
  BY DEF CallIs, Calls
<1>2. \A e \in Dispatch : land'[e].state = land[e].state /\ land'[e].follows = land[e].follows
  BY DEF LandSame
<1>3. \A e \in Dispatch : call'[e]["land"].step = "returned" =>
        /\ call'[e]["land"].result = "moved" => effect[e].status = "moved"
        /\ call'[e]["land"].result = "approval" => effect[e].status = "none"
  BY <1>1 DEF Followable, At
<1>4. \A e \in Dispatch :
       /\ land'[e].state = "trunk_moved" => effect[e].status = "moved"
       /\ land'[e].state = "awaiting_approval" =>
            effect[e].status = "none" /\ land'[e].base # NoCommit
  BY <1>2 DEF Followable, LandSame
<1>5. \A e \in Dispatch : land'[e].follows # NoDispatch => land'[land'[e].follows].state \in Followed
  <2> SUFFICES ASSUME NEW e \in Dispatch, land'[e].follows # NoDispatch
               PROVE  land'[land'[e].follows].state \in Followed
    OBVIOUS
  <2>1. land'[e].follows \in Dispatch
    BY DEF LandSame, LandRecords
  <2>2. land[land'[e].follows].state \in Followed
    BY <1>2 DEF Followable
  <2> QED BY <2>1, <2>2, <1>2
<1> QED BY <1>3, <1>4, <1>5 DEF Followable, At

LEMMA CallMoves ==
  ASSUME IInv, NEW d \in Dispatch, NEW k \in Calls, NEW c \in CallRecords,
         CallIs(d, k, c), LandSame, MayStep(d, k, c),
         UNCHANGED <<trunk, contract, effect, worker, push>>,
         UNCHANGED <<revision, grants, index>>,
         receipt' \in [Dispatch -> Nat],
         \A e \in Dispatch : receipt'[e] = receipt[e] \/
           (effect[e].status = "completed" /\ receipt'[e] = effect[e].revision),
         Active(d, k) => c.step \in {"waiting", "dead"},
         c.step = "checked" => Subject(d, c.revision) \in grants,
         c.step = "written" => contract[d].write > 0,
         c.step \in {"completing", "confirmed"} => effect[d].status = "completed",
         k = "land" /\ c.step = "returned" =>
           /\ c.result = "moved" => effect[d].status = "moved"
           /\ c.result = "approval" => effect[d].status = "none"
  PROVE  IInv'
<1>0. TypeOK /\ Order /\ OneOpenPublication /\ Approval /\ Truth /\ Followable
  BY DEF IInv
<1>1. TypeOK'
  BY <1>0 DEF TypeOK, PublicationTypeOK, CallIs, CallRecords, CallSteps, LandSame, LandRecords
<1>2. Order'
  <2>1. \A e \in Dispatch, j \in Calls :
          (Active(e, j)' => Active(e, j)) /\ (Serving(e, j)' => Serving(e, j))
    BY DEF Active, Serving
  <2>2. Active(d, k) => Outstanding(d) = {}
    BY <1>0 DEF Order
  <2> QED BY <2>1, <2>2, <1>0, OrderCall
<1>3. Approval'
  BY <1>0, ApprovalCall
<1>4. Followable'
  BY <1>0, FollowableCall
<1>5. Truth'
  BY <1>0, TruthFrame DEF LandSame
<1>6. OneOpenPublication'
  BY <1>0 DEF OneOpenPublication
<1> QED BY <1>1, <1>2, <1>3, <1>4, <1>5, <1>6 DEF IInv

\* A live call is of the running dispatch, and the only one that goes on there.
LEMMA LiveCall ==
  ASSUME IInv, NEW d \in Dispatch, NEW k \in Calls, call[d][k].step \in Live
  PROVE  /\ land[d].state = "running" /\ land[d].base # NoCommit
         /\ k = "again" => At(d, "land", "dead")
         /\ k = "land" => At(d, "again", "none")
         /\ Active(d, k) => call[d][k].step = "waiting"
<1>1. Order /\ call[d][k].step # "none" /\ call[d][k].step # "dead"
  BY DEF IInv, Live
<1>2. land[d].base # NoCommit /\ land[d].state = "running"
  BY <1>1 DEF Order, At
<1>3. (k = "again" => At(d, "land", "dead")) /\ (k = "land" => At(d, "again", "none"))
  BY <1>1 DEF Order, At
<1>4. Active(d, k) => call[d][k].step = "waiting"
  BY <1>1 DEF Order
<1> QED BY <1>2, <1>3, <1>4

LEMMA LandUnchanged ==
  ASSUME TypeOK, UNCHANGED land
  PROVE  LandSame
BY DEF TypeOK, LandSame, LandRecords

\* A call returns, its executor being none or ended.
LEMMA ReturnKeeps ==
  ASSUME IInv, NEW d \in Dispatch, NEW k \in Calls, call[d][k].step \in Live,
         NEW r \in Results, Returns(d, k, r), ~Active(d, k), LandSame,
         UNCHANGED publicationVars, UNCHANGED <<revision, grants, index>>,
         receipt' \in [Dispatch -> Nat],
         \A e \in Dispatch : receipt'[e] = receipt[e] \/
           (effect[e].status = "completed" /\ receipt'[e] = effect[e].revision),
         r = "moved" => effect[d].status = "moved",
         r = "approval" => effect[d].status = "none"
  PROVE  IInv'
<1> DEFINE c == [step |-> "returned", revision |-> 0, result |-> r]
<1>1. CallIs(d, k, c) /\ c \in CallRecords /\ c.step = "returned" /\ c.result = r
  BY ReturnsSets DEF IInv, CallRecords, CallSteps
<1> HIDE DEF c
<1>2. MayStep(d, k, c)
  BY <1>1, LiveCall DEF MayStep, Live
<1>3. UNCHANGED <<trunk, contract, effect, worker, push>>
  BY DEF publicationVars
<1> QED BY <1>1, <1>2, <1>3, CallMoves

LEMMA CheckKeeps ==
  ASSUME IInv, NEW d \in Dispatch, NEW k \in Calls, Check(d, k)
  PROVE  IInv'
<1>1. /\ At(d, k, "start") /\ call[d][k].step \in Live /\ TypeOK /\ call[d][k] \in CallRecords
      /\ UNCHANGED publicationVars /\ UNCHANGED <<trunk, contract, effect, worker, push>>
      /\ UNCHANGED <<revision, grants, index>> /\ UNCHANGED receipt
      /\ receipt' \in [Dispatch -> Nat] /\ revision \in Nat
  BY CallTyped DEF Check, IInv, At, Live, publicationVars, TypeOK
<1>2. ~Active(d, k)
  BY <1>1, LiveCall DEF At
<1>3. CASE /\ effect[d].status # "none" /\ Steps(d, k, "answered") /\ UNCHANGED land
  <2> DEFINE c == [call[d][k] EXCEPT !.step = "answered"]
  <2>1. CallIs(d, k, c) /\ c \in CallRecords /\ c.step = "answered"
    BY <1>1, <1>3, StepsSets DEF CallRecords, CallSteps, Live
  <2> HIDE DEF c
  <2>2. MayStep(d, k, c)
    BY <1>1, <2>1, LiveCall DEF MayStep, Live
  <2> QED BY <1>1, <1>2, <1>3, <2>1, <2>2, LandUnchanged, CallMoves
<1>4. CASE \E r \in {"unknown", "refused"} : Returns(d, k, r) /\ UNCHANGED land
  BY <1>1, <1>2, <1>4, LandUnchanged, ReturnKeeps DEF Results
<1>5. CASE /\ Outstanding(d) = {} /\ Granted(d) /\ UNCHANGED land
           /\ call' = [call EXCEPT ![d][k].step = "checked", ![d][k].revision = revision]
  <2> DEFINE c == [call[d][k] EXCEPT !.step = "checked", !.revision = revision]
  <2>1. c \in CallRecords /\ c.step = "checked" /\ c.revision = revision
    BY <1>1 DEF CallRecords, CallSteps, Live
  <2>2. call' = [call EXCEPT ![d][k] = c]
    BY <1>1, <1>5 DEF TypeOK
  <2>3. CallIs(d, k, c)
    BY <1>1, <2>1, <2>2, CallSets
  <2> HIDE DEF c
  <2>4. MayStep(d, k, c)
    BY <1>1, <1>5, <2>1, LiveCall DEF MayStep, Live
  <2>5. Subject(d, c.revision) \in grants
    BY <1>5, <2>1 DEF Granted
  <2> QED BY <1>1, <1>2, <1>5, <2>1, <2>3, <2>4, <2>5, LandUnchanged, CallMoves
<1>6. CASE /\ effect[d].status = "none" /\ Returns(d, k, "approval")
           /\ land' = [land EXCEPT ![d].asked = revision]
  <2>1. land \in [Dispatch -> LandRecords]
    BY <1>1 DEF TypeOK, LandRecords
  <2>2. LandSame
    BY <1>1, <1>6, <2>1 DEF LandSame, LandRecords
  <2> QED BY <1>1, <1>2, <1>6, <2>2, ReturnKeeps DEF Results
<1> QED BY <1>3, <1>4, <1>5, <1>6 DEF Check

LEMMA AgainKeeps ==
  ASSUME IInv, NEW d \in Dispatch, Again(d)
  PROVE  IInv'
<1>1. /\ At(d, "land", "dead") /\ At(d, "again", "none") /\ land[d].base # NoCommit
      /\ TypeOK /\ "again" \in Calls /\ "land" \in Calls /\ call[d]["again"] \in CallRecords
      /\ Steps(d, "again", "start") /\ UNCHANGED <<trunk, contract, effect, worker, push>>
      /\ UNCHANGED <<revision, grants, index>> /\ UNCHANGED receipt /\ UNCHANGED land
      /\ receipt' \in [Dispatch -> Nat]
  BY CallTyped DEF Again, IInv, publicationVars, TypeOK, Calls
<1> DEFINE c == [call[d]["again"] EXCEPT !.step = "start"]
<1>2. CallIs(d, "again", c) /\ c \in CallRecords /\ c.step = "start"
  BY <1>1, StepsSets DEF CallRecords, CallSteps, Live
<1> HIDE DEF c
<1>3. land[d].state = "running" /\ ~Active(d, "again")
  BY <1>1 DEF IInv, Order, At
<1>4. MayStep(d, "again", c)
  BY <1>1, <1>2, <1>3 DEF MayStep
<1> QED BY <1>1, <1>2, <1>3, <1>4, LandUnchanged, CallMoves

LEMMA RecordedKeeps ==
  ASSUME IInv, NEW d \in Dispatch, NEW k \in Calls, Recorded(d, k)
  PROVE  IInv'
<1>1. /\ call[d][k].step = "answered" /\ call[d][k].step \in Live /\ TypeOK
      /\ call[d][k] \in CallRecords
      /\ UNCHANGED publicationVars /\ UNCHANGED <<trunk, contract, effect, worker, push>>
      /\ UNCHANGED <<revision, grants, index>> /\ UNCHANGED receipt /\ UNCHANGED land
      /\ receipt' \in [Dispatch -> Nat]
  BY CallTyped DEF Recorded, IInv, At, Live, publicationVars, TypeOK
<1>2. ~Active(d, k)
  BY <1>1, LiveCall
<1>3. CASE \E r \in {"refused", "unknown"} : Returns(d, k, r)
  BY <1>1, <1>2, <1>3, LandUnchanged, ReturnKeeps DEF Results
<1>4. CASE effect[d].status = "moved" /\ Returns(d, k, "moved")
  BY <1>1, <1>2, <1>4, LandUnchanged, ReturnKeeps DEF Results
<1>5. CASE effect[d].status = "completed" /\ Steps(d, k, "completing")
  <2> DEFINE c == [call[d][k] EXCEPT !.step = "completing"]
  <2>1. CallIs(d, k, c) /\ c \in CallRecords /\ c.step = "completing"
    BY <1>1, <1>5, StepsSets DEF CallRecords, CallSteps, Live
  <2> HIDE DEF c
  <2>2. MayStep(d, k, c)
    BY <1>1, <2>1, LiveCall DEF MayStep, Live
  <2> QED BY <1>1, <1>2, <1>5, <2>1, <2>2, LandUnchanged, CallMoves
<1> QED BY <1>3, <1>4, <1>5 DEF Recorded

LEMMA ConfirmKeeps ==
  ASSUME IInv, NEW d \in Dispatch, NEW k \in Calls, Confirm(d, k)
  PROVE  IInv'
<1>1. /\ call[d][k].step = "completing" /\ call[d][k].step \in Live /\ TypeOK
      /\ call[d][k] \in CallRecords
      /\ UNCHANGED publicationVars /\ UNCHANGED <<trunk, contract, effect, worker, push>>
      /\ UNCHANGED <<revision, grants, index>> /\ UNCHANGED receipt /\ UNCHANGED land
      /\ receipt' \in [Dispatch -> Nat] /\ effect[d].status = "completed"
  BY CallTyped DEF Confirm, IInv, At, Live, publicationVars, TypeOK, Approval
<1>2. ~Active(d, k)
  BY <1>1, LiveCall
<1>3. CASE \E r \in {"landed", "refused", "unknown"} : Returns(d, k, r)
  BY <1>1, <1>2, <1>3, LandUnchanged, ReturnKeeps DEF Results
<1>4. CASE Steps(d, k, "confirmed")
  <2> DEFINE c == [call[d][k] EXCEPT !.step = "confirmed"]
  <2>1. CallIs(d, k, c) /\ c \in CallRecords /\ c.step = "confirmed"
    BY <1>1, <1>4, StepsSets DEF CallRecords, CallSteps, Live
  <2> HIDE DEF c
  <2>2. MayStep(d, k, c)
    BY <1>1, <2>1, LiveCall DEF MayStep, Live
  <2> QED BY <1>1, <1>2, <1>4, <2>1, <2>2, LandUnchanged, CallMoves
<1> QED BY <1>3, <1>4 DEF Confirm

LEMMA CommitReceiptKeeps ==
  ASSUME IInv, NEW d \in Dispatch, NEW k \in Calls, CommitReceipt(d, k)
  PROVE  IInv'
<1>1. /\ call[d][k].step = "confirmed" /\ call[d][k].step \in Live /\ TypeOK
      /\ UNCHANGED publicationVars /\ UNCHANGED <<revision, grants, index>> /\ UNCHANGED land
      /\ effect[d].status = "completed" /\ effect[d].revision \in Nat
      /\ receipt \in [Dispatch -> Nat]
  BY DEF CommitReceipt, IInv, At, Live, TypeOK, Approval, PublicationTypeOK
<1>2. ~Active(d, k)
  BY <1>1, LiveCall
<1>3. PICK r \in {"landed", "refused"} : Returns(d, k, r)
  BY DEF CommitReceipt
<1>4. receipt' = receipt \/ receipt' = [receipt EXCEPT ![d] = effect[d].revision]
  BY DEF CommitReceipt
<1>5. /\ receipt' \in [Dispatch -> Nat]
      /\ \A e \in Dispatch : receipt'[e] = receipt[e] \/
           (effect[e].status = "completed" /\ receipt'[e] = effect[e].revision)
  BY <1>1, <1>4
<1> QED BY <1>1, <1>2, <1>3, <1>5, LandUnchanged, ReturnKeeps DEF Results

LEMMA DiesKeeps ==
  ASSUME IInv, NEW d \in Dispatch, NEW k \in Calls, Dies(d, k)
  PROVE  IInv'
<1>1. /\ call[d][k].step \in Live /\ TypeOK
      /\ UNCHANGED <<trunk, contract, effect, worker, push>>
      /\ UNCHANGED <<revision, grants, index>> /\ UNCHANGED receipt /\ UNCHANGED land
      /\ receipt' \in [Dispatch -> Nat]
  BY DEF Dies, IInv, publicationVars, TypeOK
<1> DEFINE c == [NewCall EXCEPT !.step = "dead"]
<1>2. c \in CallRecords /\ c.step = "dead"
  BY DEF CallRecords, CallSteps, NewCall
<1>3. CallIs(d, k, c)
  BY <1>1, <1>2, CallSets DEF Dies
<1> HIDE DEF c
<1>4. MayStep(d, k, c)
  BY <1>1, <1>2, LiveCall DEF MayStep
<1> QED BY <1>1, <1>2, <1>3, <1>4, LandUnchanged, CallMoves

\* A step of a call that writes a contract or starts or ends its executor: what
\* the new executor relies on is nothing yet.
LEMMA CallServed ==
  ASSUME IInv, NEW d \in Dispatch, NEW k \in Calls, NEW s \in CallSteps,
         call[d][k].step \in Live, s \in Live, NEW c \in CallRecords, CallIs(d, k, c),
         c.step = s, s \notin {"checked", "completing", "confirmed"},
         NEW w \in Workers, WorkerIs(d, k, w),
         w = worker[d][k] \/ w.step \in {"asked", "ended"},
         (w.step = "asked" /\ w # worker[d][k]) => w.handle > 0,
         w.step \notin {"none", "ended"} => s = "waiting",
         s \in {"written", "waiting"} => Outstanding(d) = {},
         UNCHANGED <<trunk, effect, push>>, UNCHANGED <<revision, grants, land, index, receipt>>,
         contract' \in [Dispatch -> [write : Nat, base : Commits \cup {NoCommit}, revision : Nat]],
         s = "written" => contract'[d].write > 0,
         \A e \in Dispatch : contract'[e] = contract[e] \/
           /\ contract'[e].write > 0
           /\ contract'[e].base = land[e].base /\ land[e].base # NoCommit
           /\ Subject(e, contract'[e].revision) \in grants
  PROVE  IInv'
<1>0. TypeOK /\ Order /\ OneOpenPublication /\ Approval /\ Truth /\ Followable /\ LandSame
  BY LandUnchanged DEF IInv
<1>1. /\ worker' \in [Dispatch -> [Calls -> Workers]] /\ worker'[d][k] = w
      /\ \A e \in Dispatch, j \in Calls : e # d \/ j # k => worker'[e][j] = worker[e][j]
  BY DEF WorkerIs
<1>2. TypeOK'
  BY <1>0, <1>1 DEF TypeOK, PublicationTypeOK, CallIs, CallRecords, CallSteps, Workers, WorkerSteps
<1>3. Order'
  <2>1. ASSUME NEW e \in Dispatch, NEW j \in Calls, e # d \/ j # k
        PROVE  (Active(e, j)' => Active(e, j)) /\ (Serving(e, j)' => Serving(e, j))
    BY <1>1, <2>1 DEF Active, Serving
  <2>2. Serving(d, k)' => Serving(d, k)
    BY <1>1 DEF Active, Serving
  <2>3. Active(d, k)' => s = "waiting"
    BY <1>1 DEF Active
  <2>4. MayStep(d, k, c)
    BY LiveCall DEF MayStep, Live
  <2>5. \A e \in Dispatch, j \in Calls :
           /\ Active(e, j)' => Active(e, j) \/ (e = d /\ j = k)
           /\ Serving(e, j)' => Serving(e, j)
    BY <2>1, <2>2
  <2> QED BY <2>3, <2>4, <2>5, <1>0, OrderCall
<1>4. Approval'
  <2>1. \A e \in Dispatch, j \in Calls : worker'[e][j].step = "asked" =>
           worker'[e][j] = worker[e][j] \/ worker'[e][j].handle > 0
    BY <1>1
  <2> QED BY <2>1, <1>0, ApprovalCall
<1>5. Followable'
  BY <1>0, FollowableCall DEF Live
<1>6. Truth'
  <2>1. \A e \in Dispatch, j \in Calls : worker'[e][j] # worker[e][j] =>
           worker'[e][j].step \notin {"accepted", "listed", "clean", "judged"}
    BY <1>1
  <2> QED BY <2>1, <1>0, TruthFrame
<1>7. OneOpenPublication'
  BY <1>0 DEF OneOpenPublication
<1> QED BY <1>2, <1>3, <1>4, <1>5, <1>6, <1>7 DEF IInv

LEMMA AuthorizeKeeps ==
  ASSUME IInv, NEW d \in Dispatch, NEW k \in Calls, Authorize(d, k)
  PROVE  IInv'
<1>1. /\ call[d][k].step = "checked" /\ call[d][k].step \in Live /\ TypeOK
      /\ call[d][k] \in CallRecords /\ worker[d][k] \in Workers
      /\ UNCHANGED <<trunk, effect, push>> /\ UNCHANGED worker
      /\ UNCHANGED <<revision, grants, land, index, receipt>>
      /\ Subject(d, call[d][k].revision) \in grants /\ Outstanding(d) = {}
  BY CallTyped, WorkerTyped DEF Authorize, IInv, At, Live, Approval, Order
<1>2. ~Active(d, k) /\ land[d].base # NoCommit /\ land[d].base \in Commits \cup {NoCommit}
  BY <1>1, LiveCall DEF TypeOK
<1> DEFINE c == [call[d][k] EXCEPT !.step = "written", !.revision = 0]
           p == [write |-> contract[d].write + 1, base |-> land[d].base,
                 revision |-> call[d][k].revision]
<1>3. c \in CallRecords /\ c.step = "written" /\ call' = [call EXCEPT ![d][k] = c]
  BY <1>1 DEF Authorize, TypeOK, CallRecords, CallSteps, Live
<1>4. CallIs(d, k, c)
  BY <1>1, <1>3, CallSets
<1>5. WorkerIs(d, k, worker[d][k])
  BY <1>1 DEF WorkerIs, TypeOK, PublicationTypeOK, Workers, WorkerSteps
<1>6. /\ p \in [write : Nat, base : Commits \cup {NoCommit}, revision : Nat]
      /\ contract' = [contract EXCEPT ![d] = p] /\ p.write > 0
      /\ contract \in [Dispatch -> [write : Nat, base : Commits \cup {NoCommit}, revision : Nat]]
  <2>1. contract \in [Dispatch -> [write : Nat, base : Commits \cup {NoCommit}, revision : Nat]]
    BY <1>1 DEF TypeOK, PublicationTypeOK
  <2>2. contract[d].write \in Nat /\ call[d][k].revision \in Nat
    BY <1>1, <2>1 DEF CallRecords
  <2>3. p \in [write : Nat, base : Commits \cup {NoCommit}, revision : Nat] /\ p.write > 0
    BY <1>2, <2>2
  <2>4. contract' = [contract EXCEPT ![d] = p]
    BY DEF Authorize
  <2> QED BY <2>1, <2>3, <2>4
<1>7. /\ contract' \in [Dispatch -> [write : Nat, base : Commits \cup {NoCommit}, revision : Nat]]
      /\ contract'[d].write > 0
      /\ \A e \in Dispatch : contract'[e] = contract[e] \/
           /\ contract'[e].write > 0
           /\ contract'[e].base = land[e].base /\ land[e].base # NoCommit
           /\ Subject(e, contract'[e].revision) \in grants
  BY <1>1, <1>2, <1>6
<1>8. worker[d][k].step \in {"none", "ended"}
  BY <1>2 DEF Active
<1> HIDE DEF c, p
<1> QED BY <1>1, <1>3, <1>4, <1>5, <1>7, <1>8, CallServed DEF CallSteps, Live

LEMMA ExecuteKeeps ==
  ASSUME IInv, NEW d \in Dispatch, NEW k \in Calls, Execute(d, k)
  PROVE  IInv'
<1>1. /\ call[d][k].step = "written" /\ call[d][k].step \in Live /\ TypeOK
      /\ call[d][k] \in CallRecords
      /\ UNCHANGED <<trunk, contract, effect, push>>
      /\ UNCHANGED <<revision, grants, land, index, receipt>>
      /\ contract[d].write > 0 /\ Outstanding(d) = {}
  BY CallTyped DEF Execute, IInv, At, Live, Approval, Order
<1>2. /\ contract \in [Dispatch -> [write : Nat, base : Commits \cup {NoCommit}, revision : Nat]]
      /\ receipt \in [Dispatch -> Nat] /\ contract[d].write \in Nat
  BY <1>1 DEF TypeOK, PublicationTypeOK
<1>3. CASE Returns(d, k, "refused") /\ UNCHANGED worker
  <2>1. ~Active(d, k)
    BY <1>1, LiveCall
  <2> QED BY <1>1, <1>2, <1>3, <2>1, LandUnchanged, ReturnKeeps DEF Results, publicationVars
<1>4. CASE /\ worker' = [worker EXCEPT ![d][k] = [step |-> "asked",
                           handle |-> contract[d].write, verdict |-> "none"]]
           /\ Steps(d, k, "waiting")
  <2> DEFINE c == [call[d][k] EXCEPT !.step = "waiting"]
             w == [step |-> "asked", handle |-> contract[d].write, verdict |-> "none"]
  <2>1. CallIs(d, k, c) /\ c \in CallRecords /\ c.step = "waiting"
    BY <1>1, <1>4, StepsSets DEF CallRecords, CallSteps, Live
  <2>2. w \in Workers /\ w.step = "asked" /\ w.handle > 0 /\ worker' = [worker EXCEPT ![d][k] = w]
    BY <1>1, <1>2, <1>4 DEF Workers, WorkerSteps
  <2>3. WorkerIs(d, k, w)
    BY <1>1, <2>2, WorkerSets
  <2> HIDE DEF c, w
  <2> QED BY <1>1, <1>2, <2>1, <2>2, <2>3, CallServed DEF CallSteps, Live
<1> QED BY <1>3, <1>4 DEF Execute

LEMMA AwaitsAnswerKeeps ==
  ASSUME IInv, NEW d \in Dispatch, NEW k \in Calls, AwaitsAnswer(d, k)
  PROVE  IInv'
<1>1. /\ call[d][k].step = "waiting" /\ call[d][k].step \in Live /\ TypeOK
      /\ call[d][k] \in CallRecords
      /\ UNCHANGED <<trunk, contract, effect, push>>
      /\ UNCHANGED <<revision, grants, land, index, receipt>>
      /\ Exits(d, k) /\ Steps(d, k, "answered")
  BY CallTyped DEF AwaitsAnswer, IInv, At, Live
<1>2. contract \in [Dispatch -> [write : Nat, base : Commits \cup {NoCommit}, revision : Nat]]
  BY <1>1 DEF TypeOK, PublicationTypeOK
<1> DEFINE c == [call[d][k] EXCEPT !.step = "answered"]
<1>3. CallIs(d, k, c) /\ c \in CallRecords /\ c.step = "answered"
  BY <1>1, StepsSets DEF CallRecords, CallSteps, Live
<1>4. WorkerIs(d, k, Gone) /\ Gone \in Workers /\ Gone.step = "ended"
  BY <1>1, ExitsSets DEF Gone, Workers, WorkerSteps
<1> HIDE DEF c
<1> QED BY <1>1, <1>2, <1>3, <1>4, CallServed DEF CallSteps, Live

-----------------------------------------------------------------------------
\* The land dispatches.

\* A new dispatch: nothing runs, so nothing is live, dead or being served, and
\* nothing is known of the dispatch yet.
LEMMA OpenKeeps ==
  ASSUME IInv, NEW d \in Dispatch, NEW f \in Dispatch \cup {NoDispatch}, Open(d, f)
  PROVE  IInv'
<1>0. TypeOK /\ Order /\ OneOpenPublication /\ Approval /\ Truth /\ Followable
  BY DEF IInv
<1>1. /\ land[d].state = "none" /\ index' = d
      /\ UNCHANGED <<trunk, contract, effect, worker, push>>
      /\ UNCHANGED <<revision, grants, call, receipt>>
      /\ index # NoDispatch => land[index].state # "running"
      /\ f # NoDispatch => f \in Dispatch /\ land[f].state \in Followed /\ f # d
  BY DEF Open, MayOpen, publicationVars, Followed
<1> DEFINE r == [NewLand EXCEPT !.state = "running", !.follows = f,
                   !.build = IF f = NoDispatch THEN d ELSE land[f].build]
<1>2. /\ land \in [Dispatch -> LandRecords] /\ land' = [land EXCEPT ![d] = r]
  BY <1>0 DEF Open, TypeOK, LandRecords
<1>3. /\ r \in LandRecords /\ r.state = "running" /\ r.follows = f /\ r.base = NoCommit
  BY <1>1, <1>2 DEF LandRecords, NewLand
<1> HIDE DEF r
<1>4. /\ land' \in [Dispatch -> LandRecords] /\ land'[d] = r
      /\ \A e \in Dispatch \ {d} : land'[e] = land[e]
  BY <1>2, <1>3
<1>5. TypeOK'
  BY <1>0, <1>1, <1>4 DEF TypeOK, PublicationTypeOK, LandRecords
<1>6. land[d].base = NoCommit /\ \A e \in Dispatch : land[e].state # "running"
  <2>1. \A e \in Dispatch : land[e].state = "running" => e = index
    BY <1>0 DEF Order
  <2>2. index \in Dispatch => index # NoDispatch
    BY LandingAssumption
  <2> QED BY <2>1, <2>2, <1>0, <1>1 DEF Order
<1>7. \A e \in Dispatch, j \in Calls :
        call[e][j].step \notin Live \cup {"dead"} /\ ~Active(e, j)
  BY <1>0, <1>6 DEF Order, Live
<1>8. Order'
  <2>1. \A e \in Dispatch, j \in Calls : ~Active(e, j)' /\ ~Serving(e, j)'
    BY <1>1, <1>7 DEF Serving, Active
  <2>2. \A e \in Dispatch : land'[e].state = "running" => e = d
    BY <1>4, <1>6
  <2>3. \A e \in Dispatch : land'[e].state = "none" => land'[e].base = NoCommit
    BY <1>0, <1>3, <1>4 DEF Order
  <2>4. \A e \in Dispatch : land'[e].base = NoCommit => \A j \in Calls : At(e, j, "none")'
    BY <1>0, <1>1, <1>4, <1>6 DEF Order, At
  <2>5. \A e \in Dispatch, j \in Calls : call'[e][j].step \notin Live \cup {"dead"}
    BY <1>1, <1>7
  <2>6. \A e \in Dispatch : ~At(e, "again", "none")' => At(e, "land", "dead")'
    BY <1>0, <1>1 DEF Order, At
  <2> QED BY <2>1, <2>2, <2>3, <2>4, <2>5, <2>6, <1>1 DEF Order, Live
<1>9. OneOpenPublication'
  BY <1>0, <1>1 DEF OneOpenPublication
<1>10. Approval'
  <2>1. contract[d].write = 0 /\ effect[d].status = "none"
    <3>1. contract[d].write \in Nat
      BY <1>0 DEF TypeOK, PublicationTypeOK
    <3> QED BY <3>1, <1>0, <1>6 DEF Approval
  <2>2. \A j \in Calls : At(d, j, "none")
    BY <1>0, <1>6 DEF Order
  <2>3. \A e \in Dispatch : e # d => land'[e].build = land[e].build /\ land'[e].base = land[e].base
    BY <1>4
  <2>4. \A e \in Dispatch, j \in Calls : At(e, j, "checked")' => Subject(e, call[e][j].revision)' \in grants
    BY <2>2, <2>3, <1>0, <1>1 DEF Approval, At, Subject
  <2>5. ASSUME NEW e \in Dispatch, contract[e].write > 0
        PROVE  /\ contract[e].base = land'[e].base /\ land'[e].base # NoCommit
               /\ Subject(e, contract[e].revision)' \in grants
    <3>1. e # d
      BY <2>1, <2>5
    <3> QED BY <3>1, <2>3, <2>5, <1>0, <1>1 DEF Approval, Subject
  <2>6. ASSUME NEW e \in Dispatch, effect[e].status # "none"
        PROVE  /\ effect[e].base = land'[e].base /\ land'[e].base # NoCommit
               /\ Subject(e, effect[e].revision)' \in grants
    <3>1. e # d
      BY <2>1, <2>6
    <3> QED BY <3>1, <2>3, <2>6, <1>0, <1>1 DEF Approval, Subject
  <2> QED BY <2>4, <2>5, <2>6, <1>0, <1>1 DEF Approval, At, Subject
<1>11. Truth'
  <2>1. \A e \in Dispatch : land'[e].base # NoCommit => land'[e].base = land[e].base
    BY <1>3, <1>4
  <2> QED BY <2>1, <1>0, <1>1, TruthFrame
<1>12. Followable'
  <2>1. \A e \in Dispatch :
         /\ land'[e].state = "trunk_moved" => effect[e].status = "moved"
         /\ land'[e].state = "awaiting_approval" =>
              effect[e].status = "none" /\ land'[e].base # NoCommit
    BY <1>0, <1>3, <1>4 DEF Followable
  <2>2. ASSUME NEW e \in Dispatch, land'[e].follows # NoDispatch
        PROVE  land'[land'[e].follows].state \in Followed
    <3>1. CASE e = d
      BY <3>1, <2>2, <1>1, <1>3, <1>4
    <3>2. CASE e # d
      <4>1. land'[e].follows = land[e].follows /\ land[e].follows \in Dispatch
        BY <3>2, <2>2, <1>2, <1>4 DEF LandRecords
      <4>2. land[land[e].follows].state \in Followed /\ land[e].follows # d
        BY <4>1, <2>2, <1>0, <1>1 DEF Followable, Followed
      <4> QED BY <4>1, <4>2, <1>4
    <3> QED BY <3>1, <3>2
  <2> QED BY <2>1, <2>2, <1>0, <1>1 DEF Followable, At
<1> QED BY <1>5, <1>8, <1>9, <1>10, <1>11, <1>12 DEF IInv

\* A candidate: the watermark is a commit that stands on the trunk, and nothing
\* was approved for, or known of, this dispatch before.
LEMMA BuildStartsKeeps ==
  ASSUME IInv, NEW d \in Dispatch, land[d].state = "running", land[d].base = NoCommit,
         land' = [land EXCEPT ![d].base = Tip], Steps(d, "land", "start"),
         UNCHANGED publicationVars, UNCHANGED <<revision, grants, index, receipt>>
  PROVE  IInv'
<1>0. /\ TypeOK /\ Order /\ OneOpenPublication /\ Approval /\ Truth /\ Followable
      /\ "land" \in Calls /\ "again" \in Calls
      /\ UNCHANGED <<trunk, contract, effect, worker, push>>
  BY DEF IInv, Calls, publicationVars
<1>1. Tip \in Commits /\ OnTrunk(Tip) /\ Tip # NoCommit
  BY <1>0, TipOrBuried, PublicationAssumption
<1>2. /\ land' \in [Dispatch -> LandRecords]
      /\ land'[d] = [land[d] EXCEPT !.base = Tip] /\ \A e \in Dispatch \ {d} : land'[e] = land[e]
  <2>1. land \in [Dispatch -> LandRecords]
    BY <1>0 DEF TypeOK, LandRecords
  <2>2. [land[d] EXCEPT !.base = Tip] \in LandRecords
    BY <1>1, <2>1 DEF LandRecords
  <2>3. land' = [land EXCEPT ![d] = [land[d] EXCEPT !.base = Tip]]
    OBVIOUS
  <2> QED BY <2>1, <2>2, <2>3
<1>3. /\ land'[d].state = "running" /\ land'[d].base = Tip /\ land'[d].follows = land[d].follows
      /\ land'[d].build = land[d].build
  <2>1. land[d] \in LandRecords
    BY <1>0 DEF TypeOK, LandRecords
  <2> QED BY <2>1, <1>2 DEF LandRecords
<1> DEFINE c == [call[d]["land"] EXCEPT !.step = "start"]
<1>4. CallIs(d, "land", c) /\ c \in CallRecords /\ c.step = "start"
  BY <1>0, StepsSets, CallTyped DEF CallRecords, CallSteps, Live
<1> HIDE DEF c
<1>5. /\ call' \in [Dispatch -> [Calls -> CallRecords]] /\ call'[d]["land"].step = "start"
      /\ \A e \in Dispatch, j \in Calls : e # d \/ j # "land" => call'[e][j] = call[e][j]
  BY <1>4 DEF CallIs
<1>6. TypeOK'
  BY <1>0, <1>2, <1>5 DEF TypeOK, PublicationTypeOK, LandRecords, CallRecords, CallSteps
<1>7. /\ \A j \in Calls : At(d, j, "none") /\ ~Active(d, j)
      /\ contract[d].write = 0 /\ effect[d].status = "none"
  <2>1. \A j \in Calls : At(d, j, "none")
    BY <1>0 DEF Order
  <2>2. \A j \in Calls : ~Active(d, j)
    BY <2>1, <1>0 DEF Order, At
  <2>3. contract[d].write \in Nat
    BY <1>0 DEF TypeOK, PublicationTypeOK
  <2> QED BY <2>1, <2>2, <2>3, <1>0 DEF Approval
<1>8. Order'
  <2>1. \A e \in Dispatch, j \in Calls :
          (Active(e, j)' <=> Active(e, j)) /\ (Serving(e, j)' <=> Serving(e, j))
    BY <1>0 DEF Active, Serving
  <2>2. \A e \in Dispatch : Outstanding(e)' = Outstanding(e)
    BY <1>0 DEF Outstanding
  <2>3. /\ \A e \in Dispatch : land'[e].state = "running" => e = index'
        /\ \A e \in Dispatch : land'[e].state = "none" => land'[e].base = NoCommit
    BY <1>0, <1>2, <1>3 DEF Order
  <2>4. \A e \in Dispatch : land'[e].base = NoCommit => \A j \in Calls : At(e, j, "none")'
    BY <1>0, <1>1, <1>2, <1>3, <1>5 DEF Order, At
  <2>5. \A e \in Dispatch : ~At(e, "again", "none")' => At(e, "land", "dead")'
    BY <1>0, <1>5, <1>7 DEF Order, At
  <2>6. \A e \in Dispatch, j \in Calls :
          call'[e][j].step \in Live \cup {"dead"} => land'[e].state = "running"
    BY <1>0, <1>2, <1>3, <1>5 DEF Order
  <2>7. \A e \in Dispatch, j \in Calls :
          Active(e, j)' => call'[e][j].step \in {"waiting", "dead"}
    BY <2>1, <1>0, <1>5, <1>7 DEF Order
  <2>8. \A e \in Dispatch, j \in Calls :
          call'[e][j].step \in {"checked", "written", "waiting"} \/ Active(e, j)'
            => Outstanding(e)' = {}
    BY <2>1, <2>2, <1>0, <1>5 DEF Order
  <2>9. /\ \A e \in Dispatch, j \in Calls : Serving(e, j)' => effect'[e].status = "accepted"
        /\ \A e \in Dispatch, i, j \in Calls : Serving(e, i)' /\ Serving(e, j)' => i = j
    BY <2>1, <1>0 DEF Order
  <2> QED BY <2>3, <2>4, <2>5, <2>6, <2>7, <2>8, <2>9 DEF Order
<1>9. OneOpenPublication'
  BY <1>0 DEF OneOpenPublication
<1>10. Approval'
  <2>1. \A e \in Dispatch : e # d => land'[e].build = land[e].build /\ land'[e].base = land[e].base
    BY <1>2
  <2>2. \A e \in Dispatch, j \in Calls : At(e, j, "checked")' => At(e, j, "checked") /\ e # d
    BY <1>5, <1>7 DEF At
  <2>3. \A e \in Dispatch, j \in Calls :
          At(e, j, "checked")' => Subject(e, call[e][j].revision)' \in grants
    BY <2>1, <2>2, <1>0, <1>5 DEF Approval, At, Subject
  <2>4. ASSUME NEW e \in Dispatch, contract[e].write > 0
        PROVE  /\ contract[e].base = land'[e].base /\ land'[e].base # NoCommit
               /\ Subject(e, contract[e].revision)' \in grants
    <3>1. e # d
      BY <2>4, <1>7
    <3> QED BY <3>1, <2>1, <2>4, <1>0 DEF Approval, Subject
  <2>5. ASSUME NEW e \in Dispatch, effect[e].status # "none"
        PROVE  /\ effect[e].base = land'[e].base /\ land'[e].base # NoCommit
               /\ Subject(e, effect[e].revision)' \in grants
    <3>1. e # d
      BY <2>5, <1>7
    <3> QED BY <3>1, <2>1, <2>5, <1>0 DEF Approval, Subject
  <2>6. \A e \in Dispatch, j \in Calls :
          call'[e][j].step \in {"written", "completing", "confirmed"} => call'[e][j] = call[e][j]
    BY <1>5
  <2>7. \A e \in Dispatch, j \in Calls :
          /\ call'[e][j].step = "written" => contract'[e].write > 0
          /\ worker'[e][j].step = "asked" => worker'[e][j].handle > 0
          /\ call'[e][j].step \in {"completing", "confirmed"} => effect'[e].status = "completed"
    BY <2>6, <1>0 DEF Approval, At
  <2>8. \A e \in Dispatch : receipt'[e] # 0 =>
          effect'[e].status = "completed" /\ receipt'[e] = effect'[e].revision
    BY <1>0 DEF Approval
  <2>9. \A e \in Dispatch, j \in Calls :
          At(e, j, "checked")' => Subject(e, call[e][j].revision)' \in grants'
    BY <2>3
  <2>10. \A e \in Dispatch : contract'[e].write > 0 =>
           /\ contract'[e].base = land'[e].base /\ land'[e].base # NoCommit
           /\ Subject(e, contract[e].revision)' \in grants'
    BY <2>4, <1>0
  <2>11. \A e \in Dispatch : effect'[e].status # "none" =>
           /\ effect'[e].base = land'[e].base /\ land'[e].base # NoCommit
           /\ Subject(e, effect[e].revision)' \in grants'
    BY <2>5, <1>0
  <2> QED BY <2>7, <2>8, <2>9, <2>10, <2>11 DEF Approval, At
<1>11. Truth'
  <2>1. \A e \in Dispatch : land'[e].base # NoCommit =>
           land'[e].base = land[e].base \/ OnTrunk(land'[e].base)
    BY <1>1, <1>2, <1>3
  <2> QED BY <2>1, <1>0, TruthFrame
<1>12. Followable'
  <2>1. \A e \in Dispatch : call'[e]["land"].step = "returned" => call'[e]["land"] = call[e]["land"]
    BY <1>0, <1>5
  <2>2. \A e \in Dispatch : land'[e].state = land[e].state /\ land'[e].follows = land[e].follows
    BY <1>2, <1>3
  <2>3. ASSUME NEW e \in Dispatch, land'[e].follows # NoDispatch
        PROVE  land'[land'[e].follows].state \in Followed
    <3>1. land'[e].follows \in Dispatch
      BY <2>3, <1>2 DEF LandRecords
    <3>2. land[land'[e].follows].state \in Followed
      BY <2>2, <2>3, <1>0 DEF Followable
    <3> QED BY <3>1, <3>2, <2>2
  <2>4. \A e \in Dispatch : land'[e].state = "awaiting_approval" => land'[e].base # NoCommit
    BY <1>0, <1>2, <1>3 DEF Followable
  <2> QED BY <2>1, <2>2, <2>3, <2>4, <1>0 DEF Followable, At
<1> QED BY <1>6, <1>8, <1>9, <1>10, <1>11, <1>12 DEF IInv

\* The running dispatch ends: its land has no live call, and what a re-land may
\* follow is what was answered.
LEMMA EndsKeeps ==
  ASSUME IInv, NEW d \in Dispatch, land[d].state = "running", NEW s \in Ends,
         land' = [land EXCEPT ![d].state = s],
         \A j \in Calls : call[d][j].step \notin Live \cup {"dead"},
         call' \in [Dispatch -> [Calls -> CallRecords]],
         \A e \in Dispatch, j \in Calls : call'[e][j].step = call[e][j].step
                                          /\ call'[e][j].revision = call[e][j].revision,
         \A e \in Dispatch, j \in Calls : call'[e][j].result \in {call[e][j].result, "none"},
         s = "trunk_moved" => effect[d].status = "moved",
         s = "awaiting_approval" => effect[d].status = "none" /\ land[d].base # NoCommit,
         UNCHANGED publicationVars, UNCHANGED <<revision, grants, index, receipt>>
  PROVE  IInv'
<1>0. /\ TypeOK /\ Order /\ OneOpenPublication /\ Approval /\ Truth /\ Followable
      /\ "land" \in Calls /\ UNCHANGED <<trunk, contract, effect, worker, push>>
  BY DEF IInv, Calls, publicationVars
<1>1. /\ land' \in [Dispatch -> LandRecords] /\ land'[d].state = s
      /\ \A e \in Dispatch \ {d} : land'[e] = land[e]
      /\ \A e \in Dispatch : /\ land'[e].base = land[e].base /\ land'[e].build = land[e].build
                             /\ land'[e].follows = land[e].follows
  <2>1. land \in [Dispatch -> LandRecords]
    BY <1>0 DEF TypeOK, LandRecords
  <2>2. [land[d] EXCEPT !.state = s] \in LandRecords
    BY <2>1 DEF LandRecords
  <2>3. land' = [land EXCEPT ![d] = [land[d] EXCEPT !.state = s]]
    OBVIOUS
  <2>4. /\ land' \in [Dispatch -> LandRecords] /\ \A e \in Dispatch \ {d} : land'[e] = land[e]
        /\ land'[d] = [land[d] EXCEPT !.state = s]
    BY <2>1, <2>2, <2>3
  <2>5. land[d] \in LandRecords
    BY <2>1
  <2> QED BY <2>4, <2>5 DEF LandRecords
<1>2. s \notin {"none", "running"}
  BY DEF Ends
<1>3. TypeOK'
  BY <1>0, <1>1 DEF TypeOK, PublicationTypeOK, LandRecords, CallRecords, CallSteps
<1>4. Order'
  <2>1. \A e \in Dispatch, j \in Calls :
          (Active(e, j)' <=> Active(e, j)) /\ (Serving(e, j)' <=> Serving(e, j))
    BY <1>0 DEF Active, Serving
  <2>2. \A e \in Dispatch : Outstanding(e)' = Outstanding(e)
    BY <1>0 DEF Outstanding
  <2>3. /\ \A e \in Dispatch : land'[e].state = "running" => land[e].state = "running"
        /\ \A e \in Dispatch : land'[e].state = "none" => land[e].state = "none"
        /\ \A e \in Dispatch : e # d => land'[e].state = land[e].state
    BY <1>1, <1>2
  <2>4. \A e \in Dispatch, j \in Calls :
          call'[e][j].step \in Live \cup {"dead"} => land'[e].state = "running"
    BY <2>3, <1>0 DEF Order
  <2>5. \A e \in Dispatch, j \in Calls : \A x : At(e, j, x)' <=> At(e, j, x)
    BY DEF At
  <2>6. /\ \A e \in Dispatch : land'[e].base = NoCommit => \A j \in Calls : At(e, j, "none")'
        /\ \A e \in Dispatch : ~At(e, "again", "none")' => At(e, "land", "dead")'
    BY <2>5, <1>0, <1>1 DEF Order, Calls
  <2>7. \A e \in Dispatch, j \in Calls : Active(e, j)' => call'[e][j].step \in {"waiting", "dead"}
    BY <2>1, <1>0 DEF Order
  <2>9. \A e \in Dispatch, j \in Calls :
          call'[e][j].step \in {"checked", "written", "waiting"} \/ Active(e, j)'
            => Outstanding(e)' = {}
    BY <2>1, <2>2, <1>0 DEF Order
  <2>10. \A e \in Dispatch, j \in Calls : Serving(e, j)' => effect'[e].status = "accepted"
    BY <2>1, <1>0 DEF Order
  <2>11. \A e \in Dispatch, i, j \in Calls : Serving(e, i)' /\ Serving(e, j)' => i = j
    BY <2>1, <1>0 DEF Order
  <2>8. /\ \A e \in Dispatch : land'[e].state = "running" => e = index'
        /\ \A e \in Dispatch : land'[e].state = "none" => land'[e].base = NoCommit
    BY <2>3, <1>0, <1>1 DEF Order
  <2> QED BY <2>4, <2>6, <2>7, <2>8, <2>9, <2>10, <2>11 DEF Order
<1>5. OneOpenPublication'
  BY <1>0 DEF OneOpenPublication
<1>6. Approval'
  <2>1. \A e \in Dispatch, j \in Calls :
          At(e, j, "checked")' => Subject(e, call[e][j].revision)' \in grants'
    <3> SUFFICES ASSUME NEW e \in Dispatch, NEW j \in Calls, call'[e][j].step = "checked"
                 PROVE  [revision |-> call'[e][j].revision, build |-> land'[e].build,
                         base |-> land'[e].base] \in grants'
      BY DEF At, Subject
    <3>1. call[e][j].step = "checked" /\ call'[e][j].revision = call[e][j].revision
      OBVIOUS
    <3>2. Subject(e, call[e][j].revision) \in grants
      BY <3>1, <1>0 DEF Approval, At
    <3> QED BY <3>1, <3>2, <1>1 DEF Subject
  <2>2. \A e \in Dispatch : contract'[e].write > 0 =>
          /\ contract'[e].base = land'[e].base /\ land'[e].base # NoCommit
          /\ Subject(e, contract[e].revision)' \in grants'
    BY <1>0, <1>1 DEF Approval, Subject
  <2>3. \A e \in Dispatch : effect'[e].status # "none" =>
          /\ effect'[e].base = land'[e].base /\ land'[e].base # NoCommit
          /\ Subject(e, effect[e].revision)' \in grants'
    BY <1>0, <1>1 DEF Approval, Subject
  <2>4. \A e \in Dispatch, j \in Calls :
          /\ call'[e][j].step = "written" => contract'[e].write > 0
          /\ worker'[e][j].step = "asked" => worker'[e][j].handle > 0
          /\ call'[e][j].step \in {"completing", "confirmed"} => effect'[e].status = "completed"
    BY <1>0 DEF Approval, At
  <2>5. \A e \in Dispatch : receipt'[e] # 0 =>
          effect'[e].status = "completed" /\ receipt'[e] = effect'[e].revision
    BY <1>0 DEF Approval
  <2> QED BY <2>1, <2>2, <2>3, <2>4, <2>5 DEF Approval, At
<1>7. Truth'
  BY <1>0, <1>1, TruthFrame
<1>8. Followable'
  <2>1. \A e \in Dispatch : land'[e].follows # NoDispatch => land'[e].follows # d
    BY <1>0, <1>1 DEF Followable, Followed
  <2>2. ASSUME NEW e \in Dispatch, land'[e].follows # NoDispatch
        PROVE  land'[land'[e].follows].state \in Followed
    <3>1. land'[e].follows \in Dispatch \ {d}
      BY <2>1, <2>2, <1>1 DEF LandRecords
    <3>2. land[land'[e].follows].state \in Followed
      BY <2>2, <1>0, <1>1 DEF Followable
    <3> QED BY <3>1, <3>2, <1>1
  <2>3. \A e \in Dispatch :
         /\ land'[e].state = "trunk_moved" => effect[e].status = "moved"
         /\ land'[e].state = "awaiting_approval" =>
              effect[e].status = "none" /\ land'[e].base # NoCommit
    BY <1>0, <1>1 DEF Followable
  <2>4. \A e \in Dispatch : call'[e]["land"].step = "returned" =>
          /\ call'[e]["land"].result = "moved" => effect[e].status = "moved"
          /\ call'[e]["land"].result = "approval" => effect[e].status = "none"
    BY <1>0 DEF Followable, At
  <2> QED BY <2>2, <2>3, <2>4, <1>0 DEF Followable, At
<1> QED BY <1>3, <1>4, <1>5, <1>6, <1>7, <1>8 DEF IInv

LEMMA BuildKeeps ==
  ASSUME IInv, NEW d \in Dispatch, Build(d)
  PROVE  IInv'
<1>1. CASE land' = [land EXCEPT ![d].base = Tip] /\ Steps(d, "land", "start")
  BY <1>1, BuildStartsKeeps DEF Build
<1>2. CASE \E e \in {"conflict", "failed"} : land' = [land EXCEPT ![d].state = e] /\ UNCHANGED call
  <2>1. PICK e \in {"conflict", "failed"} : land' = [land EXCEPT ![d].state = e] /\ UNCHANGED call
    BY <1>2
  <2>2. /\ land[d].state = "running" /\ UNCHANGED publicationVars
        /\ UNCHANGED <<revision, grants, index, receipt>>
        /\ \A j \in Calls : call[d][j].step \notin Live \cup {"dead"}
        /\ call' \in [Dispatch -> [Calls -> CallRecords]]
    BY <2>1 DEF Build, IInv, Order, At, Live, TypeOK, CallRecords, CallSteps
  <2> QED BY <2>1, <2>2, EndsKeeps DEF Ends
<1> QED BY <1>1, <1>2 DEF Build

LEMMA EndKeeps ==
  ASSUME IInv, NEW d \in Dispatch, End(d)
  PROVE  IInv'
<1> DEFINE r == call[d]["land"].result
           c == [call[d]["land"] EXCEPT !.result = "none"]
<1>1. /\ land[d].state = "running" /\ call[d]["land"].step = "returned" /\ TypeOK
      /\ UNCHANGED publicationVars /\ UNCHANGED <<revision, grants, index, receipt>>
      /\ land' = [land EXCEPT ![d].state = Outcome(r)]
      /\ call' = [call EXCEPT ![d]["land"] = c]
      /\ "land" \in Calls /\ "again" \in Calls /\ Calls = {"land", "again"}
      /\ call[d]["land"] \in CallRecords
  BY CallTyped DEF End, At, IInv, Calls
<1>2. c \in CallRecords /\ c.step = "returned" /\ c.result = "none"
      /\ c.revision = call[d]["land"].revision
  BY <1>1 DEF CallRecords
<1>3. CallIs(d, "land", c)
  BY <1>1, <1>2, CallSets
<1> HIDE DEF c
<1>4. /\ call' \in [Dispatch -> [Calls -> CallRecords]]
      /\ \A e \in Dispatch, j \in Calls : call'[e][j].step = call[e][j].step
                                          /\ call'[e][j].revision = call[e][j].revision
      /\ \A e \in Dispatch, j \in Calls : call'[e][j].result \in {call[e][j].result, "none"}
  BY <1>1, <1>2, <1>3 DEF CallIs
<1>5. call[d]["again"].step = "none"
  BY <1>1 DEF IInv, Order, At
<1>6. \A j \in Calls : call[d][j].step \notin Live \cup {"dead"}
  BY <1>1, <1>5 DEF Live
<1>7. /\ r = "moved" => effect[d].status = "moved"
      /\ r = "approval" => effect[d].status = "none"
      /\ land[d].base # NoCommit
  BY <1>1 DEF IInv, Followable, Order, At
<1>8. /\ Outcome(r) \in Ends
      /\ Outcome(r) = "trunk_moved" => r = "moved"
      /\ Outcome(r) = "awaiting_approval" => r = "approval"
  BY DEF Outcome, Ends
<1> HIDE DEF r
<1> QED BY <1>1, <1>4, <1>6, <1>7, <1>8, EndsKeeps

\* What the owners do, and a revision, take no approval back.
LEMMA PeopleKeep ==
  ASSUME IInv, grants \subseteq grants',
         grants' \subseteq [revision : Nat, build : Dispatch, base : Commits],
         revision' \in 1 .. MaxRevision,
         UNCHANGED publicationVars, UNCHANGED <<land, index, call, receipt>>
  PROVE  IInv'
<1>0. /\ TypeOK /\ Order /\ OneOpenPublication /\ Approval /\ Truth /\ Followable
      /\ UNCHANGED <<trunk, contract, effect, worker, push>>
  BY DEF IInv, publicationVars
<1>1. TypeOK'
  BY <1>0 DEF TypeOK, PublicationTypeOK
<1>2. Order' /\ Approval' /\ Truth' /\ Followable'
  BY <1>0, OrderFrame, ApprovalFrame, TruthFrame, FollowableFrame DEF Active, Serving
<1>3. OneOpenPublication'
  BY <1>0 DEF OneOpenPublication
<1> QED BY <1>1, <1>2, <1>3 DEF IInv

LEMMA GrantKeeps ==
  ASSUME IInv, NEW d \in Dispatch, Grant(d)
  PROVE  IInv'
<1>1. land[d].state = "awaiting_approval" /\ TypeOK /\ land[d].asked \in Nat
      /\ land[d].build \in Dispatch \cup {NoDispatch} /\ land[d].base \in Commits \cup {NoCommit}
  BY DEF Grant, IInv, TypeOK
<1>2. PICK g \in grants : g.revision = land[d].asked /\ g.build = land[d].build
  BY DEF Grant
<1>3. g.build \in Dispatch
  BY <1>1, <1>2 DEF TypeOK
<1>4. land[d].base # NoCommit
  BY DEF Grant, IInv, Followable
<1>5. Subject(d, land[d].asked) \in [revision : Nat, build : Dispatch, base : Commits]
  BY <1>1, <1>2, <1>3, <1>4 DEF Subject
<1> QED BY <1>1, <1>5, PeopleKeep DEF Grant, TypeOK

\* An approval is of a build, at the revision and the trunk of the moment.
LEMMA ApproveKeeps ==
  ASSUME IInv, NEW d \in Dispatch, Approve(d)
  PROVE  IInv'
<1>1. TypeOK /\ Truth /\ revision \in 1 .. MaxRevision
  BY DEF IInv, TypeOK
<1>2. [revision |-> revision, build |-> d, base |-> Tip]
        \in [revision : Nat, build : Dispatch, base : Commits]
  BY <1>1, TipOrBuried
<1> QED BY <1>1, <1>2, PeopleKeep DEF Approve, TypeOK

LEMMA ReviseKeeps ==
  ASSUME IInv, Revise
  PROVE  IInv'
<1>1. revision' \in 1 .. MaxRevision /\ grants' = grants
      /\ grants \subseteq [revision : Nat, build : Dispatch, base : Commits]
  BY LandingAssumption DEF Revise, IInv, TypeOK
<1> QED BY <1>1, PeopleKeep DEF Revise

-----------------------------------------------------------------------------
\* The specification.

LEMMA InitHolds ==
  ASSUME Init
  PROVE  IInv
<1>0. /\ trunk = <<Root>> /\ contract = [d \in Dispatch |-> NoContract]
      /\ effect = [d \in Dispatch |-> NoEffect]
      /\ worker = [d \in Dispatch |-> [k \in Calls |-> NoWorker]]
      /\ push = [d \in Dispatch |-> "none"] /\ revision = 1 /\ grants = {}
      /\ land = [d \in Dispatch |-> NewLand] /\ index = NoDispatch
      /\ call = [d \in Dispatch |-> [k \in Calls |-> NewCall]]
      /\ receipt = [d \in Dispatch |-> 0]
  BY DEF Init, PublicationInit
<1>1. TypeOK
  <2>1. trunk \in Seq(Commits) /\ trunk # <<>>
    BY <1>0 DEF Commits
  <2>2. PublicationTypeOK
    BY <2>1, <1>0 DEF PublicationTypeOK, NoContract, NoEffect, NoWorker
  <2>3. revision \in 1 .. MaxRevision
    BY <1>0, LandingAssumption
  <2> QED BY <2>2, <2>3, <1>0 DEF TypeOK, NewLand, NewCall
<1>2. /\ \A d \in Dispatch : /\ land[d].state = "none" /\ land[d].base = NoCommit
                             /\ land[d].follows = NoDispatch
                             /\ contract[d].write = 0 /\ effect[d].status = "none"
                             /\ push[d] = "none" /\ receipt[d] = 0
      /\ \A d \in Dispatch, k \in Calls : call[d][k].step = "none" /\ worker[d][k].step = "none"
  BY <1>0 DEF NewLand, NewCall, NoContract, NoEffect, NoWorker
<1>3. \A d \in Dispatch, k \in Calls : ~Active(d, k) /\ ~Serving(d, k)
  BY <1>2 DEF Active, Serving
<1>4. Order
  BY <1>2, <1>3 DEF Order, At, Live, Calls
<1>5. OneOpenPublication
  BY <1>2 DEF OneOpenPublication, Unanswered
<1>6. Approval
  BY <1>2 DEF Approval, At
<1>7. Len(trunk) = 1 /\ trunk[1] = Root /\ DOMAIN trunk = 1 .. 1
  BY <1>0
<1>8. \A d \in Dispatch : ~OnTrunk(d)
  BY <1>7, PublicationAssumption DEF OnTrunk
<1>9. Truth
  BY <1>2, <1>7, <1>8 DEF Truth
<1>10. Followable
  BY <1>2 DEF Followable, At, Calls
<1> QED BY <1>1, <1>4, <1>5, <1>6, <1>9, <1>10 DEF IInv

LEMMA NextKeeps ==
  ASSUME IInv, [Next]_vars
  PROVE  IInv'
<1>1. CASE PublicationNext /\ UNCHANGED landingVars
  <2>1. ASSUME NEW o \in Others, OthersPush(o) PROVE IInv'
    BY <1>1, <2>1, OthersPushKeeps
  <2>2. ASSUME NEW d \in Dispatch, RemoteSwaps(d) \/ PushFails(d) PROVE IInv'
    BY <1>1, <2>2, RemoteSwapsKeeps, PushFailsKeeps
  <2>3. ASSUME NEW d \in Dispatch, NEW k \in Calls, Executor(d, k) \/ WorkerEnds(d, k)
        PROVE  IInv'
    <3>1. CASE Executor(d, k)
      BY <1>1, <3>1, AcceptKeeps, ListKeeps, StartPushKeeps, PushExitsKeeps, JudgeKeeps,
         StepTimesOutKeeps, FinishKeeps DEF Executor
    <3>2. CASE WorkerEnds(d, k)
      BY <1>1, <3>2, WorkerEndsKeeps
    <3> QED BY <2>3, <3>1, <3>2
  <2> QED BY <1>1, <2>1, <2>2, <2>3 DEF PublicationNext
<1>2. ASSUME NEW d \in Dispatch,
             LandBuild(d) \/ Reland(d) \/ Build(d) \/ End(d) \/ Grant(d) \/ Approve(d) \/ Again(d)
      PROVE  IInv'
  <2>1. CASE LandBuild(d)
    BY <2>1, OpenKeeps DEF LandBuild
  <2>2. CASE Reland(d)
    <3>1. index \in Dispatch /\ Open(d, index)
      BY <2>2 DEF Reland, AfterLand, IInv, TypeOK
    <3> QED BY <3>1, OpenKeeps
  <2>3. CASE Build(d) \/ End(d) \/ Grant(d) \/ Approve(d) \/ Again(d)
    BY <2>3, BuildKeeps, EndKeeps, GrantKeeps, ApproveKeeps, AgainKeeps
  <2> QED BY <1>2, <2>1, <2>2, <2>3
<1>3. CASE Revise
  BY <1>3, ReviseKeeps
<1>4. ASSUME NEW d \in Dispatch, NEW k \in Calls, Publish(d, k) \/ Dies(d, k) PROVE IInv'
  BY <1>4, CheckKeeps, AuthorizeKeeps, ExecuteKeeps, AwaitsAnswerKeeps, RecordedKeeps,
     ConfirmKeeps, CommitReceiptKeeps, DiesKeeps DEF Publish
<1>5. CASE UNCHANGED vars
  <2>1. UNCHANGED publicationVars /\ UNCHANGED <<revision, grants, land, index, call, receipt>>
    BY <1>5 DEF vars, landingVars
  <2> QED BY <2>1, PeopleKeep DEF IInv, TypeOK
<1> QED BY <1>1, <1>2, <1>3, <1>4, <1>5 DEF Next

\* The strengthened invariant holds in every reachable state.
THEOREM Invariant == Spec => []IInv
<1>1. Init => IInv
  BY InitHolds
<1>2. IInv /\ [Next]_vars => IInv'
  BY NextKeeps
<1> QED BY <1>1, <1>2, PTL DEF Spec

\* Every variable has its type, for any dispatches, revisions and other pushes.
THEOREM TypeCorrect == Spec => []TypeOK
<1>1. IInv => TypeOK
  BY DEF IInv
<1> QED BY <1>1, Invariant, PTL

\* At most one publication of the unit is without a conclusive answer, through
\* the death of the landing process and of its executors (control_landing.py:556-562).
THEOREM OneOpen == Spec => []OneOpenPublication
<1>1. IInv => OneOpenPublication
  BY DEF IInv
<1> QED BY <1>1, Invariant, PTL

\* Recorded answers are the truth and stay it although pushes outlive their
\* executors: completed candidates stand right on their tips, and refused,
\* followed or unaccepted ones are not on the trunk and never come to be.
THEOREM Answers == Spec => []AnswersHold
<1>1. IInv => AnswersHold
  <2> SUFFICES ASSUME IInv PROVE AnswersHold
    OBVIOUS
  <2>0. TypeOK /\ Truth /\ Followable
    BY DEF IInv
  <2>1. CompletedIsThere
    BY <2>0 DEF CompletedIsThere, Truth, Landed
  <2>2. RefusedIsNot
    BY <2>0 DEF RefusedIsNot, Truth, Rejected
  <2>3. \A d \in Dispatch : effect[d].status = "none" => ~OnTrunk(d)
    BY <2>0 DEF Truth
  <2>4. FollowedPublishedNothing
    <3> SUFFICES ASSUME NEW d \in Dispatch, land[d].follows # NoDispatch
                 PROVE  ~OnTrunk(land[d].follows)
      BY DEF FollowedPublishedNothing
    <3>1. land[d].follows \in Dispatch
      BY <2>0 DEF TypeOK
    <3>2. effect[land[d].follows].status \in {"moved", "none"}
      BY <3>1, <2>0 DEF Followable, Followed
    <3> QED BY <3>1, <3>2, <2>2, <2>3 DEF RefusedIsNot
  <2>5. UnacceptedIsNot
    BY <2>3 DEF UnacceptedIsNot
  <2> QED BY <2>1, <2>2, <2>4, <2>5 DEF AnswersHold
<1> QED BY <1>1, Invariant, PTL

\* A receipt is of a candidate that stands right on its watermark, published at
\* the receipt's revision and approved for exactly that tree.
THEOREM Approved == Spec => []LandedAsApproved
<1>1. IInv => LandedAsApproved
  <2> SUFFICES ASSUME IInv, NEW d \in Dispatch, receipt[d] # 0
               PROVE  /\ \E i \in 1 .. Len(trunk) - 1 : trunk[i] = land[d].base /\ trunk[i + 1] = d
                      /\ effect[d].status = "completed"
                      /\ Subject(d, receipt[d]) \in grants
    BY DEF LandedAsApproved
  <2>1. Approval /\ Truth
    BY DEF IInv
  <2>2. effect[d].status = "completed" /\ receipt[d] = effect[d].revision
    BY <2>1 DEF Approval
  <2>3. effect[d].base = land[d].base /\ Subject(d, effect[d].revision) \in grants
    BY <2>1, <2>2 DEF Approval
  <2>4. Landed(d)
    BY <2>1, <2>2 DEF Truth
  <2> QED BY <2>2, <2>3, <2>4 DEF Landed
<1> QED BY <1>1, Invariant, PTL
=============================================================================
