------------------------------ MODULE WorkLoop -------------------------------
(***************************************************************************)
(* The worker loop of the fleet (.veldo/work.py, with the frontier it asks *)
(* and the ledger it claims in).  Each worker is one process: it lists     *)
(* what is claimable, claims the units one after the other until one is    *)
(* granted, rereads the unit's status, dispatches it, releases the claim,  *)
(* and leaves a unit it failed to others.  A dispatch takes as long as it  *)
(* takes and nobody beats for the claim meanwhile.                         *)
(*                                                                         *)
(* Abstracted: dependencies, plans, scope and capabilities of units        *)
(* (decided once, before the claim); the enrolled repository, whose        *)
(* recheck reads floor records; max_units.  External: the dispatcher,      *)
(* which moves a unit's status when it succeeds and may report failure     *)
(* with or without having moved it.                                        *)
(***************************************************************************)
EXTENDS ClaimLedger

CONSTANTS
  MaxKills  \* bound: workers killed

\* Every loop claims under an id of its own.
ASSUME WorkLoopAssumption ==
  /\ \A p, q \in Procs : WorkerOf[p] = WorkerOf[q] => p = q
  /\ MaxKills \in Nat

VARIABLES
  status,   \* the status line of each unit
  pc,       \* where each worker process is
  offers,   \* what its snapshot of the frontier has left
  unit,     \* the unit it has in hand
  kind,     \* the station it was offered for
  failed,   \* (unit, station) pairs it will not claim again
  lapsed,   \* the claim of the unit in hand has gone stale by somebody's clock
  overrun,  \* that has happened to some worker
  kills

workVars == <<status, pc, offers, unit, kind, failed, lapsed, overrun, kills>>
vars == <<ledgerVars, workVars>>

Kinds == {"build", "review"}
NoUnit == "none"

\* The station a status line puts a unit at, and back.
Expected(k) == IF k = "review" THEN "review" ELSE "ready"
Offers(w) ==
  {o \in Units \X Kinds : status[o[1]] = Expected(o[2]) /\ ~ClaimedFor(w, o[1])}

Init ==
  /\ LedgerInit
  /\ status = [u \in Units |-> "ready"]
  /\ pc = [p \in Procs |-> "idle"]
  /\ offers = [p \in Procs |-> {}]
  /\ unit = [p \in Procs |-> NoUnit]
  /\ kind = [p \in Procs |-> "build"]
  /\ failed = [p \in Procs |-> {}]
  /\ lapsed = [p \in Procs |-> FALSE]
  /\ overrun = FALSE
  /\ kills = 0

GoTo(p, l) == pc' = [pc EXCEPT ![p] = l]

\* The frontier's offers, without the units this worker failed at their station.
Snapshot(p) ==
  /\ pc[p] = "idle"
  /\ offers' = [offers EXCEPT ![p] = Offers(Me(p)) \ failed[p]]
  /\ GoTo(p, "choosing")
  /\ UNCHANGED <<ledgerVars, status, unit, kind, failed, lapsed, overrun, kills>>

\* Nothing claimable is left: the loop has drained.
Drain(p) ==
  /\ pc[p] = "choosing"
  /\ offers[p] = {}
  /\ GoTo(p, "drained")
  /\ UNCHANGED <<ledgerVars, status, offers, unit, kind, failed, lapsed, overrun, kills>>

AskClaim(p) ==
  /\ pc[p] = "choosing"
  /\ \E o \in offers[p] :
       /\ offers' = [offers EXCEPT ![p] = @ \ {o}]
       /\ unit' = [unit EXCEPT ![p] = o[1]]
       /\ kind' = [kind EXCEPT ![p] = o[2]]
       /\ Call(p, "claim", o[1])
  /\ GoTo(p, "claiming")
  /\ UNCHANGED <<status, failed, lapsed, overrun, kills>>

Claimed(p) == pc[p] = "claiming" /\ call[p].step = "idle"

NotGranted(p) ==
  /\ Claimed(p)
  /\ call[p].result # "granted"
  /\ GoTo(p, "choosing")
  /\ unit' = [unit EXCEPT ![p] = NoUnit]
  /\ kind' = [kind EXCEPT ![p] = "build"]
  /\ UNCHANGED <<ledgerVars, status, offers, failed, lapsed, overrun, kills>>

\* Mutant: the claim alone is taken as proof that there is work.
StillClaimableAssumed(p) == TRUE
StillClaimable(p) == status[unit[p]] = Expected(kind[p])

Recheck(p) ==
  /\ Claimed(p)
  /\ call[p].result = "granted"
  /\ \/ /\ StillClaimable(p)
        /\ GoTo(p, "dispatching")
        /\ UNCHANGED <<ledgerVars, status, offers, unit, kind, failed, lapsed, overrun, kills>>
     \/ /\ ~StillClaimable(p)
        /\ Call(p, "release", unit[p])
        /\ GoTo(p, "skipping")
        /\ UNCHANGED <<status, offers, unit, kind, failed, lapsed, overrun, kills>>

\* The dispatcher's outcome: a build moves a unit to review, a review ships it or
\* sends it back; a failed or crashed dispatch moves nothing.
Outcome(k) == IF k = "build" THEN {"review"} ELSE {"shipped", "ready"}

\* The dispatch ends and the claim is released, whatever came of it.
EndDispatch(p) ==
  /\ pc[p] = "dispatching"
  /\ \/ /\ \E s \in Outcome(kind[p]) :
             /\ status' = [status EXCEPT ![unit[p]] = s]
             /\ failed' = IF s = "ready" THEN [failed EXCEPT ![p] = @ \cup {<<unit[p], kind[p]>>}]
                                         ELSE failed
     \/ /\ failed' = [failed EXCEPT ![p] = @ \cup {<<unit[p], kind[p]>>}]
        /\ UNCHANGED status
  /\ Call(p, "release", unit[p])
  /\ GoTo(p, "releasing")
  /\ UNCHANGED <<offers, unit, kind, lapsed, overrun, kills>>

\* A released unit in hand: after a skip the loop goes on with its snapshot, after a
\* dispatch it takes a new one.
Released(p) ==
  /\ pc[p] \in {"skipping", "releasing"}
  /\ call[p].step = "idle"
  /\ GoTo(p, IF pc[p] = "skipping" THEN "choosing" ELSE "idle")
  /\ unit' = [unit EXCEPT ![p] = NoUnit]
  /\ kind' = [kind EXCEPT ![p] = "build"]
  /\ lapsed' = [lapsed EXCEPT ![p] = FALSE]
  /\ UNCHANGED <<ledgerVars, status, offers, failed, overrun, kills>>

\* The steps of its calls to the ledger.
AskLedger(p) ==
  /\ LedgerStep(p)
  /\ UNCHANGED workVars

Busy(p) == pc[p] \notin {"idle", "drained"}

\* A worker is killed; another loop may be started under its id.
Kill(p) ==
  /\ Busy(p)
  /\ kills < MaxKills
  /\ kills' = kills + 1
  /\ Killed({p})
  /\ GoTo(p, "idle")
  /\ offers' = [offers EXCEPT ![p] = {}]
  /\ unit' = [unit EXCEPT ![p] = NoUnit]
  /\ kind' = [kind EXCEPT ![p] = "build"]
  /\ failed' = [failed EXCEPT ![p] = {}]
  /\ lapsed' = [lapsed EXCEPT ![p] = FALSE]
  /\ UNCHANGED <<status, overrun>>

\* A drained worker is started again by whoever runs the fleet.
Restart(p) ==
  /\ pc[p] = "drained"
  /\ GoTo(p, "idle")
  /\ failed' = [failed EXCEPT ![p] = {}]
  /\ UNCHANGED <<ledgerVars, status, offers, unit, kind, lapsed, overrun, kills>>

Dispatching(p) == pc[p] = "dispatching"
InHand(p) == Dispatching(p) \/ (Claimed(p) /\ call[p].result = "granted")

Tick ==
  /\ LedgerTick
  /\ lapsed' = [p \in Procs |-> lapsed[p] \/
       (InHand(p) /\ \E w \in Workers : Liveness(w, ledger'[unit[p]]) = "stale")]
  /\ overrun' = (overrun \/ \E p \in Procs : lapsed'[p])
  /\ UNCHANGED <<status, pc, offers, unit, kind, failed, kills>>

Step(p) ==
  \/ Snapshot(p) \/ Drain(p) \/ AskClaim(p) \/ NotGranted(p) \/ Recheck(p)
  \/ EndDispatch(p) \/ Released(p) \/ AskLedger(p)

Next ==
  \/ \E p \in Procs : Step(p) \/ Kill(p) \/ Restart(p)
  \/ Tick

Spec == Init /\ [][Next]_vars

\* Every worker that runs keeps running, a drained one is started again, dispatches
\* end and time passes.
Fairness ==
  /\ \A p \in Procs : WF_vars(Step(p)) /\ WF_vars(Restart(p))
  /\ WF_vars(Tick)

FairSpec == Spec /\ Fairness

-----------------------------------------------------------------------------
(* Properties.                                                             *)

\* Type invariant: the ledger is well typed and every worker is at a step of its loop.
TypeOK ==
  /\ LedgerTypeOK
  /\ status \in [Units -> {"ready", "review", "shipped"}]
  /\ pc \in [Procs -> {"idle", "choosing", "claiming", "dispatching", "skipping",
                       "releasing", "drained"}]
  /\ offers \in [Procs -> SUBSET (Units \X Kinds)]
  /\ unit \in [Procs -> Units \cup {NoUnit}]
  /\ kind \in [Procs -> Kinds]
  /\ failed \in [Procs -> SUBSET (Units \X Kinds)]
  /\ lapsed \in [Procs -> BOOLEAN]
  /\ overrun \in BOOLEAN
  /\ kills \in 0..MaxKills

\* Two workers have one unit in hand only when the first of them has had it for longer
\* than a claim lives: racing for a unit, restarting, skipping and releasing late never
\* put two on it.
SecondWorkerMeansOverrun ==
  \A p, q \in Procs :
    (p # q /\ InHand(p) /\ InHand(q) /\ unit[p] = unit[q]) =>
      lapsed[p] \/ lapsed[q]

\* What a worker dispatches is still the work it was offered: unless some dispatch
\* outlived its claim, nobody finished the unit between the snapshot and now.
WorkIsCurrent ==
  ~overrun => \A p \in Procs : Dispatching(p) => status[unit[p]] = Expected(kind[p])

\* No unit is stuck: one that is not shipped is dispatched again and again, even when
\* its worker died holding the claim or every worker failed it once.
EveryUnitIsWorkedOn ==
  \A u \in Units :
    (status[u] # "shipped") ~> (\/ status[u] = "shipped"
                                \/ \E p \in Procs : Dispatching(p) /\ unit[p] = u)

\* The module's own words: "The loop holds the claim across the dispatch so no other
\* worker takes the same unit", "so two workers never dispatch the same unit".
TwoWorkersNeverDispatchOneUnit ==
  \A p, q \in Procs :
    p # q /\ Dispatching(p) /\ Dispatching(q) => unit[p] # unit[q]
=============================================================================
