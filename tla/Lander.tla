------------------------------- MODULE Lander --------------------------------
(***************************************************************************)
(* The serialized land of the fleet (.veldo/lander.py) over the claim      *)
(* ledger.  A lander is two threads of one process: the main one takes the *)
(* land lock, which is a claim like any other, builds a candidate on the   *)
(* trunk it fetched (the watermark), gates it, stops and joins the         *)
(* heartbeat, checks it still holds the lock, and pushes the candidate     *)
(* under a lease on the watermark; the other one beats for the lock while  *)
(* the candidate is built and gated.  Stages take as long as they take.    *)
(*                                                                         *)
(* Abstracted: what a stage computes (it succeeds or fails), the policy's  *)
(* and the acceptance's answers, the factory's Landing and its authority   *)
(* claims.  A trunk is the sequence of what was landed on it.  External:   *)
(* the remote, which applies a leased push atomically and may lose the     *)
(* answer, and whoever else pushes to it.                                  *)
(***************************************************************************)
EXTENDS ClaimLedger, Sequences

CONSTANTS
  Landers,     \* each lands once, under its own worker id
  LandLock,    \* LAND_LOCK_UNIT
  Interval,    \* hb_interval, in ticks
  MaxMisses,   \* bound: consecutive beats lost to a transient error
  MaxKills,    \* bound: landers killed
  MaxOutside   \* bound: pushes by anybody else

Main(l) == <<l, "main">>
Beat(l) == <<l, "beat">>

ASSUME LanderAssumption ==
  /\ Procs = Landers \X {"main", "beat"}
  /\ Workers = Landers
  /\ \A l \in Landers : WorkerOf[Main(l)] = l /\ WorkerOf[Beat(l)] = l
  /\ Units = {LandLock}
  /\ "outside" \notin Landers
  /\ {Interval, MaxMisses, MaxKills, MaxOutside} \subseteq Nat

VARIABLES
  trunk,      \* the remote trunk
  stage,      \* where each lander's main thread is
  watermark,  \* the trunk its candidate is built on
  candidate,  \* its candidate
  gated,      \* the candidate its gate passed
  beat,       \* where its heartbeat thread is
  waited,     \* how long the thread has been waiting for its next beat
  misses,     \* consecutive beats it lost
  stop,       \* _hb_stop
  error,      \* _hb_error
  lapsed,     \* its lock has gone stale by somebody's clock while it held it
  prompt,     \* whether, in this behaviour, heartbeats are never late
  kills

landVars == <<stage, watermark, candidate, gated>>
beatVars == <<beat, waited, misses, stop, error>>
restVars == <<lapsed, prompt, kills>>
vars == <<ledgerVars, trunk, landVars, beatVars, restVars>>

Init ==
  /\ LedgerInit
  /\ trunk = <<>>
  /\ stage = [l \in Landers |-> "new"]
  /\ watermark = [l \in Landers |-> <<>>]
  /\ candidate = [l \in Landers |-> <<>>]
  /\ gated = [l \in Landers |-> <<>>]
  /\ beat = [l \in Landers |-> "off"]
  /\ waited = [l \in Landers |-> 0]
  /\ misses = [l \in Landers |-> 0]
  /\ stop = [l \in Landers |-> FALSE]
  /\ error = [l \in Landers |-> FALSE]
  /\ lapsed = [l \in Landers |-> FALSE]
  /\ prompt \in BOOLEAN
  /\ kills = 0

GoTo(l, s) == stage' = [stage EXCEPT ![l] = s]
Idle(p) == call[p].step = "idle"
Answered(l, r) == Idle(Main(l)) /\ call[Main(l)].result = r

\* A failing stage aborts the land: what is left is to discard and to release.
Abort(l) == GoTo(l, "discard")

-----------------------------------------------------------------------------
(* Taking the lock.                                                        *)

\* The first try, and every poll after a refusal.
TryAcquire(l) ==
  /\ stage[l] \in {"new", "acquiring"}
  /\ ~Answered(l, "granted")
  /\ Call(Main(l), "claim", LandLock)
  /\ GoTo(l, "acquiring")
  /\ UNCHANGED <<trunk, watermark, candidate, gated, beatVars, restVars>>

GiveUp(l) ==
  /\ stage[l] = "acquiring"
  /\ Idle(Main(l)) /\ ~Answered(l, "granted")
  /\ GoTo(l, "done")
  /\ UNCHANGED <<ledgerVars, trunk, watermark, candidate, gated, beatVars, restVars>>

StartBeat(l) ==
  /\ stage[l] = "acquiring"
  /\ Answered(l, "granted")
  /\ GoTo(l, "sync_main")
  /\ beat' = [beat EXCEPT ![l] = "waiting"]
  /\ UNCHANGED <<ledgerVars, trunk, watermark, candidate, gated,
                 waited, misses, stop, error, restVars>>

-----------------------------------------------------------------------------
(* The stages.                                                             *)

SyncMain(l) ==
  /\ stage[l] = "sync_main"
  /\ \/ /\ watermark' = [watermark EXCEPT ![l] = trunk]
        /\ GoTo(l, "reconcile")
     \/ Abort(l) /\ UNCHANGED watermark
  /\ UNCHANGED <<ledgerVars, trunk, candidate, gated, beatVars, restVars>>

\* The unit's commits are merged onto the watermark, unless they conflict.
Reconcile(l) ==
  /\ stage[l] = "reconcile"
  /\ \/ /\ candidate' = [candidate EXCEPT ![l] = Append(watermark[l], l)]
        /\ GoTo(l, "gate")
     \/ Abort(l) /\ UNCHANGED candidate
  /\ UNCHANGED <<ledgerVars, trunk, watermark, gated, beatVars, restVars>>

\* Mutant: a red gate does not end the land.
GateAdvisory(l) ==
  /\ stage[l] = "gate"
  /\ \E green \in BOOLEAN : gated' = [gated EXCEPT ![l] = IF green THEN candidate[l] ELSE <<>>]
  /\ GoTo(l, "joining")
  /\ stop' = [stop EXCEPT ![l] = TRUE]
  /\ UNCHANGED <<ledgerVars, trunk, watermark, candidate, beat, waited, misses,
                 error, restVars>>

\* Green on exactly this candidate; the heartbeat is then told to stop.
Gate(l) ==
  /\ stage[l] = "gate"
  /\ \/ /\ gated' = [gated EXCEPT ![l] = candidate[l]]
        /\ GoTo(l, "joining")
        /\ stop' = [stop EXCEPT ![l] = TRUE]
     \/ Abort(l) /\ UNCHANGED <<gated, stop>>
  /\ UNCHANGED <<ledgerVars, trunk, watermark, candidate, beat, waited, misses, error, restVars>>

\* Neither a heartbeat was refused nor is the lock, by our own clock, another's or stale.
Owned(l) ==
  /\ ~error[l]
  /\ ledger[LandLock].worker = l
  /\ ClaimedFor(l, LandLock)

\* The heartbeat is joined before the last use of the lock is checked.
CheckOwnership(l) ==
  /\ stage[l] = "joining"
  /\ beat[l] = "off"
  /\ \/ Owned(l) /\ GoTo(l, "finalize")
     \/ ~Owned(l) /\ Abort(l)
  /\ UNCHANGED <<ledgerVars, trunk, watermark, candidate, gated, beatVars, restVars>>

\* Mutant: the push is forced, whatever the trunk is now.
LeaseNone(l) == TRUE
Leased(l) == trunk = watermark[l]

\* The policy, the acceptance or the remote refuses, or the push is made, which the
\* remote takes while the trunk is still the watermark; the answer may be lost.
Finalize(l) ==
  /\ stage[l] = "finalize"
  /\ GoTo(l, "discard")
  /\ \/ UNCHANGED trunk
     \/ /\ Leased(l)
        /\ trunk' = candidate[l]
  /\ UNCHANGED <<ledgerVars, watermark, candidate, gated, beatVars, restVars>>

-----------------------------------------------------------------------------
(* The end of a land: discard, stop the heartbeat, release.                *)

\* What a lander keeps of its candidate goes with the workspace.
Forget(l) ==
  /\ watermark' = [watermark EXCEPT ![l] = <<>>]
  /\ candidate' = [candidate EXCEPT ![l] = <<>>]
  /\ gated' = [gated EXCEPT ![l] = <<>>]

\* The second join is bounded: the release goes on with or without it.
Discard(l) ==
  /\ stage[l] = "discard"
  /\ Forget(l)
  /\ stop' = [stop EXCEPT ![l] = TRUE]
  /\ Call(Main(l), "release", LandLock)
  /\ GoTo(l, "releasing")
  /\ UNCHANGED <<trunk, beat, waited, misses, error, restVars>>

Released(l) ==
  /\ stage[l] = "releasing"
  /\ Idle(Main(l))
  /\ GoTo(l, "done")
  /\ lapsed' = [lapsed EXCEPT ![l] = FALSE]
  /\ UNCHANGED <<ledgerVars, trunk, watermark, candidate, gated, beatVars, prompt, kills>>

-----------------------------------------------------------------------------
(* The heartbeat thread.                                                   *)

Due(l) == beat[l] = "waiting" /\ ~stop[l] /\ waited[l] >= Interval

StartsBeat(l) ==
  /\ Due(l)
  /\ Call(Beat(l), "heartbeat", LandLock)
  /\ beat' = [beat EXCEPT ![l] = "beating"]
  /\ UNCHANGED <<trunk, landVars, waited, misses, stop, error, restVars>>

\* Mutant: the thread dies of a transient error.
MissesBeatAndDies(l) ==
  /\ Due(l)
  /\ beat' = [beat EXCEPT ![l] = "off"]
  /\ UNCHANGED <<ledgerVars, trunk, landVars, waited, misses, stop, error, restVars>>

\* A transient error costs one beat and no more.
MissesBeat(l) ==
  /\ Due(l)
  /\ misses[l] < MaxMisses
  /\ misses' = [misses EXCEPT ![l] = @ + 1]
  /\ waited' = [waited EXCEPT ![l] = 0]
  /\ UNCHANGED <<ledgerVars, trunk, landVars, beat, stop, error, restVars>>

Rewind(l) ==
  /\ waited' = [waited EXCEPT ![l] = 0]
  /\ misses' = [misses EXCEPT ![l] = 0]

\* A beat that is refused says the lock is lost, and ends the thread.
BeatAnswered(l) ==
  /\ beat[l] = "beating"
  /\ Idle(Beat(l))
  /\ IF call[Beat(l)].result = "true"
     THEN /\ beat' = [beat EXCEPT ![l] = "waiting"]
          /\ UNCHANGED error
     ELSE /\ beat' = [beat EXCEPT ![l] = "off"]
          /\ error' = [error EXCEPT ![l] = TRUE]
  /\ Rewind(l)
  /\ UNCHANGED <<ledgerVars, trunk, landVars, stop, restVars>>

BeatEnds(l) ==
  /\ beat[l] = "waiting"
  /\ stop[l]
  /\ beat' = [beat EXCEPT ![l] = "off"]
  /\ Rewind(l)
  /\ UNCHANGED <<ledgerVars, trunk, landVars, stop, error, restVars>>

-----------------------------------------------------------------------------
(* The environment.                                                        *)

AskLedger(l) ==
  /\ LedgerStep(Main(l)) \/ LedgerStep(Beat(l))
  /\ UNCHANGED <<trunk, landVars, beatVars, restVars>>

\* The lander's process dies, with both its threads and the locks they hold.
Kill(l) ==
  /\ kills < MaxKills
  /\ stage[l] \notin {"new", "done", "dead"}
  /\ kills' = kills + 1
  /\ GoTo(l, "dead")
  /\ beat' = [beat EXCEPT ![l] = "off"]
  /\ Killed({Main(l), Beat(l)})
  /\ Forget(l)
  /\ Rewind(l)
  /\ lapsed' = [lapsed EXCEPT ![l] = FALSE]
  /\ UNCHANGED <<trunk, stop, error, prompt>>

\* Somebody pushes to the trunk without the land lock.
OutsidePush ==
  /\ Len(SelectSeq(trunk, LAMBDA c : c = "outside")) < MaxOutside
  /\ trunk' = Append(trunk, "outside")
  /\ UNCHANGED <<ledgerVars, landVars, beatVars, restVars>>

Holding(l) ==
  \/ stage[l] = "acquiring" /\ Answered(l, "granted")
  \/ stage[l] \in {"sync_main", "reconcile", "gate", "joining", "finalize", "discard"}

\* What takes no time when heartbeats are never late: starting the thread, a beat that
\* is due, and joining the thread before the last check.
BeatPending(l) ==
  \/ stage[l] = "acquiring" /\ Answered(l, "granted")
  \/ stage[l] = "joining"
  \/ ~stop[l] /\ (Due(l) \/ beat[l] = "beating")

Tick ==
  /\ prompt => \A l \in Landers : ~BeatPending(l)
  /\ LedgerTick
  /\ waited' = [l \in Landers |->
       IF beat[l] = "waiting" /\ ~stop[l] /\ waited[l] < Interval
       THEN waited[l] + 1 ELSE waited[l]]
  /\ lapsed' = [l \in Landers |-> lapsed[l] \/
       (Holding(l) /\ \E w \in Workers : Liveness(w, ledger'[LandLock]) = "stale")]
  /\ UNCHANGED <<trunk, landVars, beat, misses, stop, error, prompt, kills>>

MainStep(l) ==
  \/ TryAcquire(l) \/ StartBeat(l) \/ SyncMain(l) \/ Reconcile(l) \/ Gate(l)
  \/ CheckOwnership(l) \/ Finalize(l) \/ Discard(l) \/ Released(l)

BeatStep(l) == StartsBeat(l) \/ MissesBeat(l) \/ BeatAnswered(l) \/ BeatEnds(l)

Next ==
  \/ \E l \in Landers : MainStep(l) \/ BeatStep(l) \/ AskLedger(l) \/ GiveUp(l) \/ Kill(l)
  \/ OutsidePush
  \/ Tick

Spec == Init /\ [][Next]_vars

-----------------------------------------------------------------------------
(* Properties.                                                             *)

Stages == {"new", "acquiring", "sync_main", "reconcile", "gate", "joining", "finalize",
           "discard", "releasing", "done", "dead"}
Commits == Landers \cup {"outside"}
Tips == Seq(Commits)

\* Type invariant: the ledger is well typed and every thread is at a step of its program.
TypeOK ==
  /\ LedgerTypeOK
  /\ trunk \in Tips
  /\ stage \in [Landers -> Stages]
  /\ {watermark, candidate, gated} \subseteq [Landers -> Tips]
  /\ beat \in [Landers -> {"off", "waiting", "beating"}]
  /\ waited \in [Landers -> 0..Interval]
  /\ misses \in [Landers -> 0..MaxMisses]
  /\ stop \in [Landers -> BOOLEAN] /\ error \in [Landers -> BOOLEAN]
  /\ lapsed \in [Landers -> BOOLEAN] /\ prompt \in BOOLEAN
  /\ kills \in 0..MaxKills

\* Lands are serialized: two landers hold the land lock at once only when it went stale
\* under the first, by somebody's clock.
OneLanderUnlessStale ==
  \A l, m \in Landers : (l # m /\ Holding(l) /\ Holding(m)) => lapsed[l] \/ lapsed[m]

\* The heartbeats fit into a claim's life, missed ones and skewed clocks included.
BeatsKeepUp == (MaxMisses + 1) * Interval + MaxSkew <= StaleAfter

\* While the candidate is fetched, merged and gated, however long that takes, a lander
\* whose heartbeats are on time keeps a lock that nobody finds stale, even when some
\* beats fail.
BeatenLockStaysLive ==
  (prompt /\ BeatsKeepUp) =>
    \A l \in Landers : stage[l] \in {"sync_main", "reconcile", "gate"} =>
      /\ ledger[LandLock].worker = l
      /\ \A w \in Workers : Liveness(w, ledger[LandLock]) # "stale"

\* Nothing that reached the trunk is ever overwritten, whoever else pushes and however
\* many landers believe they hold the lock.
TrunkOnlyGrows ==
  [][trunk' # trunk => /\ Len(trunk) < Len(trunk')
                       /\ SubSeq(trunk', 1, Len(trunk)) = trunk]_vars

\* What a lander put on the trunk was gated as it stands there: on the very base it
\* landed on, never rebased after its gate.
EveryTipWasGated ==
  [][trunk' # trunk => \/ trunk' = Append(trunk, "outside")
                       \/ \E l \in Landers : trunk' = gated[l]]_vars
=============================================================================
