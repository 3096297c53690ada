---------------------------- MODULE LanderProofs -----------------------------
(***************************************************************************)
(* What reaches the trunk and who holds the land lock, for any number of   *)
(* landers, any clocks and any pushes from outside.                        *)
(*                                                                         *)
(* The trunk: from the gate on, what a lander would push is what its gate  *)
(* passed, and that is its watermark with its own commit on top.  The lock *)
(* plays no part in this: the lease on the watermark alone keeps the       *)
(* trunk, so a lock that goes stale during a push costs a rejected land    *)
(* and nothing more.                                                       *)
(*                                                                         *)
(* The lock: it is held, as everybody sees it, until it has lapsed, and    *)
(* where heartbeats are never late it is no older than the beats that were *)
(* missed in a row and the wait for the next one.                          *)
(***************************************************************************)
EXTENDS Lander, ClaimLedgerProofs

Ready == {"joining", "finalize"}

\* Between the gate and the push nothing touches the candidate or its base.
CandidateInv ==
  /\ trunk \in Tips
  /\ stage \in [Landers -> Stages]
  /\ watermark \in [Landers -> Tips]
  /\ candidate \in [Landers -> Tips]
  /\ gated \in [Landers -> Tips]
  /\ \A l \in Landers : stage[l] \in Ready \cup {"gate"} => candidate[l] = Append(watermark[l], l)
  /\ \A l \in Landers : stage[l] \in Ready => gated[l] = candidate[l]

\* A trunk may be empty, and a lander's or anybody's commit goes on top of one.
LEMMA TipFacts ==
  /\ <<>> \in Tips
  /\ \A t \in Tips, c \in Commits : Append(t, c) \in Tips
  /\ "outside" \in Commits
  /\ Landers \subseteq Commits
BY DEF Tips, Commits

\* Landers start with empty workspaces.
LEMMA InitCandidate == Init => CandidateInv
<1> SUFFICES ASSUME Init PROVE CandidateInv
  OBVIOUS
<1>1. <<>> \in Tips
  BY TipFacts
<1>2. QED
  BY <1>1 DEF Init, CandidateInv, Ready, Stages

\* The stages hand the candidate on as it was built and gated.
LEMMA MainKeeps ==
  ASSUME CandidateInv, NEW l \in Landers, MainStep(l)
  PROVE  CandidateInv'
<1>1. CASE TryAcquire(l)
  BY <1>1 DEF TryAcquire, CandidateInv, GoTo, Ready, Stages
<1>2. CASE StartBeat(l)
  BY <1>2 DEF StartBeat, CandidateInv, GoTo, Ready, Stages
<1>3. CASE SyncMain(l)
  BY <1>3 DEF SyncMain, Abort, CandidateInv, GoTo, Ready, Stages
<1>4. CASE Reconcile(l)
  <2>1. Append(watermark[l], l) \in Tips
    BY TipFacts DEF CandidateInv
  <2>2. QED
    BY <1>4, <2>1 DEF Reconcile, Abort, CandidateInv, GoTo, Ready, Stages
<1>5. CASE Gate(l)
  BY <1>5 DEF Gate, Abort, CandidateInv, GoTo, Ready, Stages
<1>6. CASE CheckOwnership(l)
  BY <1>6 DEF CheckOwnership, Abort, CandidateInv, GoTo, Ready, Stages
<1>7. CASE Finalize(l)
  BY <1>7 DEF Finalize, CandidateInv, GoTo, Ready, Stages
<1>8. CASE Discard(l)
  <2>1. <<>> \in Tips
    BY TipFacts
  <2>2. QED
    BY <1>8, <2>1 DEF Discard, Forget, CandidateInv, GoTo, Ready, Stages
<1>9. CASE Released(l)
  BY <1>9 DEF Released, CandidateInv, GoTo, Ready, Stages
<1>10. QED
  BY <1>1, <1>2, <1>3, <1>4, <1>5, <1>6, <1>7, <1>8, <1>9 DEF MainStep

\* Everything that is not a stage leaves the candidates alone, or forgets them.
LEMMA OthersKeep ==
  ASSUME CandidateInv, NEW l \in Landers,
         BeatStep(l) \/ AskLedger(l) \/ GiveUp(l) \/ Kill(l)
  PROVE  CandidateInv'
<1>1. CASE BeatStep(l) \/ AskLedger(l)
  BY <1>1 DEF BeatStep, StartsBeat, MissesBeat, BeatAnswered, BeatEnds, AskLedger, landVars,
              CandidateInv
<1>2. CASE GiveUp(l)
  BY <1>2 DEF GiveUp, CandidateInv, GoTo, Ready, Stages
<1>3. CASE Kill(l)
  <2>1. <<>> \in Tips
    BY TipFacts
  <2>2. QED
    BY <1>3, <2>1 DEF Kill, Forget, CandidateInv, GoTo, Ready, Stages
<1>4. QED
  BY <1>1, <1>2, <1>3

\* Every step keeps the invariant.
LEMMA NextCandidate == CandidateInv /\ [Next]_vars => CandidateInv'
<1>1. ASSUME CandidateInv, OutsidePush
      PROVE  CandidateInv'
  <2>1. Append(trunk, "outside") \in Tips
    BY <1>1, TipFacts DEF CandidateInv
  <2>2. QED
    BY <1>1, <2>1 DEF OutsidePush, CandidateInv, landVars
<1>2. ASSUME CandidateInv, Tick
      PROVE  CandidateInv'
  BY <1>2 DEF Tick, CandidateInv, landVars
<1>3. ASSUME CandidateInv, UNCHANGED vars
      PROVE  CandidateInv'
  BY <1>3 DEF vars, CandidateInv, landVars
<1>4. QED
  BY <1>1, <1>2, <1>3, MainKeeps, OthersKeep DEF Next

\* The invariant holds of every behaviour of the landers.
THEOREM CandidateInvariant == Spec => []CandidateInv
<1>1. QED
  BY InitCandidate, NextCandidate, PTL DEF Spec

-----------------------------------------------------------------------------
(* The trunk.                                                              *)

\* The trunk moves by a push from outside or by a leased push of a gated candidate.
LEMMA TrunkMoves ==
  ASSUME CandidateInv, Next, trunk' # trunk
  PROVE  \/ trunk' = Append(trunk, "outside")
         \/ \E l \in Landers : trunk' = gated[l] /\ trunk' = Append(trunk, l)
<1>1. CASE OutsidePush
  BY <1>1 DEF OutsidePush
<1>2. CASE Tick
  BY <1>2 DEF Tick
<1>3. ASSUME NEW l \in Landers, BeatStep(l) \/ AskLedger(l) \/ GiveUp(l) \/ Kill(l)
      PROVE  FALSE
  BY <1>3 DEF BeatStep, StartsBeat, MissesBeat, BeatAnswered, BeatEnds, AskLedger, GiveUp, Kill
<1>4. ASSUME NEW l \in Landers, MainStep(l)
      PROVE  trunk' = gated[l] /\ trunk' = Append(trunk, l)
  <2>1. Finalize(l)
    BY <1>4 DEF MainStep, TryAcquire, StartBeat, SyncMain, Reconcile, Gate, CheckOwnership,
                Discard, Released
  <2>2. stage[l] = "finalize" /\ trunk = watermark[l] /\ trunk' = candidate[l]
    BY <2>1 DEF Finalize, Leased
  <2>3. QED
    BY <2>2 DEF CandidateInv, Ready
<1>5. QED
  BY <1>1, <1>2, <1>3, <1>4 DEF Next

\* Nothing that reached the trunk is overwritten, by however many landers that believe they
\* hold the land lock (the leased push of GitLandOps.finalize).
THEOREM TrunkGrows == Spec => TrunkOnlyGrows
<1>1. ASSUME CandidateInv, [Next]_vars, trunk' # trunk
      PROVE  Len(trunk) < Len(trunk') /\ SubSeq(trunk', 1, Len(trunk)) = trunk
  <2>1. Next
    BY <1>1 DEF vars
  <2>2. PICK c \in Commits : trunk' = Append(trunk, c)
    BY <1>1, <2>1, TrunkMoves DEF Commits
  <2>3. trunk \in Seq(Commits)
    BY <1>1 DEF CandidateInv, Tips
  <2>4. Len(trunk') = Len(trunk) + 1 /\ Len(trunk) \in Nat
    BY <2>2, <2>3
  <2>5. \A i \in 1..Len(trunk) : trunk'[i] = trunk[i]
    BY <2>2, <2>3
  <2>6. SubSeq(trunk', 1, Len(trunk)) = trunk
    BY <2>2, <2>3, <2>4, <2>5
  <2>7. QED
    BY <2>4, <2>6
<1>2. QED
  BY <1>1, CandidateInvariant, PTL DEF Spec, TrunkOnlyGrows

\* What a lander puts on the trunk is, base included, what its gate passed (GitLandOps.gate
\* and finalize).
THEOREM TipsAreGated == Spec => EveryTipWasGated
<1>1. ASSUME CandidateInv, [Next]_vars, trunk' # trunk
      PROVE  \/ trunk' = Append(trunk, "outside")
             \/ \E l \in Landers : trunk' = gated[l]
  BY <1>1, TrunkMoves DEF vars
<1>2. QED
  BY <1>1, CandidateInvariant, PTL DEF Spec, EveryTipWasGated

-----------------------------------------------------------------------------
(* The lock.                                                               *)

\* A step of a lander's threads is a step of the ledger, or leaves it alone.
LEMMA LanderUsesLedger == [Next]_vars => [LedgerNext]_ledgerVars
<1> USE LanderAssumption
<1>1. LandLock \in Units /\ "claim" \in Ops /\ "release" \in Ops /\ "heartbeat" \in Ops
  BY DEF Ops
<1>2. ASSUME NEW l \in Landers
      PROVE  Main(l) \in Procs /\ Beat(l) \in Procs
  BY DEF Main, Beat
<1>3. ASSUME NEW l \in Landers, MainStep(l)
      PROVE  [LedgerNext]_ledgerVars
  <2>1. ASSUME NEW op \in Ops, Call(Main(l), op, LandLock)
        PROVE  LedgerNext
    BY <1>1, <1>2, <2>1 DEF LedgerNext
  <2>2. CASE TryAcquire(l) \/ Discard(l)
    BY <1>1, <2>1, <2>2 DEF TryAcquire, Discard
  <2>3. CASE ~TryAcquire(l) /\ ~Discard(l)
    BY <1>3, <2>3 DEF MainStep, StartBeat, SyncMain, Reconcile, Gate, CheckOwnership, Finalize,
                      Released
  <2>4. QED
    BY <2>2, <2>3
<1>4. ASSUME NEW l \in Landers, BeatStep(l)
      PROVE  [LedgerNext]_ledgerVars
  <2>1. CASE StartsBeat(l)
    BY <1>1, <1>2, <2>1 DEF StartsBeat, LedgerNext
  <2>2. CASE ~StartsBeat(l)
    BY <1>4, <2>2 DEF BeatStep, MissesBeat, BeatAnswered, BeatEnds
  <2>3. QED
    BY <2>1, <2>2
<1>5. ASSUME NEW l \in Landers, AskLedger(l)
      PROVE  LedgerNext
  BY <1>2, <1>5 DEF AskLedger, LedgerNext
<1>6. ASSUME NEW l \in Landers, GiveUp(l)
      PROVE  UNCHANGED ledgerVars
  BY <1>6 DEF GiveUp
<1>7. ASSUME NEW l \in Landers, Kill(l)
      PROVE  LedgerNext
  BY <1>2, <1>7 DEF Kill, LedgerNext
<1>8. ASSUME OutsidePush
      PROVE  UNCHANGED ledgerVars
  BY <1>8 DEF OutsidePush
<1>9. ASSUME Tick
      PROVE  LedgerNext
  BY <1>9 DEF Tick, LedgerNext
<1>10. ASSUME UNCHANGED vars
       PROVE  UNCHANGED ledgerVars
  BY <1>10 DEF vars
<1>11. QED
  BY <1>3, <1>4, <1>5, <1>6, <1>7, <1>8, <1>9, <1>10 DEF Next

\* The landers use the ledger as its callers do.
LEMMA LandersAreCallers == Spec => LedgerSpec
<1>1. Init => LedgerInit
  BY DEF Init
<1>2. QED
  BY <1>1, LanderUsesLedger, PTL DEF Spec, LedgerSpec

\* No heartbeat of a lander that lost the lock prolongs or brings back a lock that is
\* another's (the heartbeat loop of Lander, however late its thread is joined).
THEOREM HeartbeatsKeepToTheirLock == Spec => OnlyTheHolderRefreshes
<1>1. QED
  BY LandersAreCallers, HolderRefreshes, PTL

-----------------------------------------------------------------------------
(* Types.                                                                  *)

\* What the heartbeat and the bounds count.
ThreadTypes ==
  /\ beat \in [Landers -> {"off", "waiting", "beating"}]
  /\ waited \in [Landers -> 0..Interval]
  /\ misses \in [Landers -> 0..MaxMisses]
  /\ stop \in [Landers -> BOOLEAN]
  /\ error \in [Landers -> BOOLEAN]
  /\ lapsed \in [Landers -> BOOLEAN]
  /\ prompt \in BOOLEAN
  /\ kills \in 0..MaxKills

\* The bounds are numbers.
LEMMA BoundFacts == Interval \in Nat /\ MaxMisses \in Nat /\ MaxKills \in Nat
BY LanderAssumption

\* Threads start well typed.
LEMMA InitThreads == Init => ThreadTypes
<1> SUFFICES ASSUME Init PROVE ThreadTypes
  OBVIOUS
<1>1. stop \in [Landers -> BOOLEAN] /\ error \in [Landers -> BOOLEAN]
      /\ lapsed \in [Landers -> BOOLEAN] /\ prompt \in BOOLEAN
  BY DEF Init
<1>2. waited \in [Landers -> 0..Interval] /\ misses \in [Landers -> 0..MaxMisses]
      /\ kills \in 0..MaxKills
  BY BoundFacts DEF Init
<1>3. QED
  BY <1>1, <1>2 DEF Init, ThreadTypes

\* Every step keeps the threads' types.
LEMMA NextThreads == ThreadTypes /\ [Next]_vars => ThreadTypes'
<1> SUFFICES ASSUME ThreadTypes, [Next]_vars PROVE ThreadTypes'
  OBVIOUS
<1> USE BoundFacts
<1>1. ASSUME NEW l \in Landers, MainStep(l)
      PROVE  ThreadTypes'
  <2>1. CASE StartBeat(l)
    BY <2>1 DEF StartBeat, ThreadTypes, restVars
  <2>2. CASE Gate(l) \/ Discard(l)
    BY <2>2 DEF Gate, Discard, ThreadTypes, restVars
  <2>3. CASE Released(l)
    BY <2>3 DEF Released, ThreadTypes, beatVars
  <2>4. CASE TryAcquire(l) \/ SyncMain(l) \/ Reconcile(l) \/ CheckOwnership(l) \/ Finalize(l)
    BY <2>4 DEF TryAcquire, SyncMain, Reconcile, CheckOwnership, Finalize, ThreadTypes, beatVars,
                restVars
  <2>5. QED
    BY <1>1, <2>1, <2>2, <2>3, <2>4 DEF MainStep
<1>2. ASSUME NEW l \in Landers, BeatStep(l)
      PROVE  ThreadTypes'
  <2>1. CASE StartsBeat(l)
    BY <2>1 DEF StartsBeat, ThreadTypes, restVars
  <2>2. CASE MissesBeat(l)
    BY <2>2 DEF MissesBeat, ThreadTypes, restVars
  <2>3. CASE BeatAnswered(l)
    <3>1. error' \in [Landers -> BOOLEAN]
      BY <2>3 DEF BeatAnswered, ThreadTypes
    <3>2. beat' \in [Landers -> {"off", "waiting", "beating"}]
      BY <2>3 DEF BeatAnswered, ThreadTypes
    <3>3. waited' \in [Landers -> 0..Interval] /\ misses' \in [Landers -> 0..MaxMisses]
      BY <2>3 DEF BeatAnswered, Rewind, ThreadTypes
    <3>4. QED
      BY <2>3, <3>1, <3>2, <3>3 DEF BeatAnswered, ThreadTypes, restVars
  <2>4. CASE BeatEnds(l)
    BY <2>4 DEF BeatEnds, Rewind, ThreadTypes, restVars
  <2>5. QED
    BY <1>2, <2>1, <2>2, <2>3, <2>4 DEF BeatStep
<1>3. ASSUME NEW l \in Landers, AskLedger(l) \/ GiveUp(l)
      PROVE  ThreadTypes'
  BY <1>3 DEF AskLedger, GiveUp, ThreadTypes, beatVars, restVars
<1>4. ASSUME NEW l \in Landers, Kill(l)
      PROVE  ThreadTypes'
  BY <1>4 DEF Kill, Rewind, ThreadTypes
<1>5. CASE OutsidePush
  BY <1>5 DEF OutsidePush, ThreadTypes, beatVars, restVars
<1>6. CASE Tick
  <2>1. lapsed' \in [Landers -> BOOLEAN]
    BY <1>6 DEF Tick, ThreadTypes
  <2>2. waited' \in [Landers -> 0..Interval]
    BY <1>6 DEF Tick, ThreadTypes
  <2>3. QED
    BY <1>6, <2>1, <2>2 DEF Tick, ThreadTypes
<1>7. CASE UNCHANGED vars
  BY <1>7 DEF vars, beatVars, restVars, ThreadTypes
<1>8. QED
  BY <1>1, <1>2, <1>3, <1>4, <1>5, <1>6, <1>7 DEF Next

\* Type correctness of the landers (Lander of lander.py): both threads of each are at a step
\* of their programs, over a well-typed ledger and a trunk of landed commits.
THEOREM LanderTypeCorrect == Spec => []TypeOK
<1>1. CandidateInv /\ ThreadTypes /\ LedgerTypeOK => TypeOK
  BY DEF CandidateInv, ThreadTypes, TypeOK
<1>2. Spec => []LedgerTypeOK
  BY LandersAreCallers, LedgerTypeCorrect, PTL
<1>3. QED
  BY <1>1, <1>2, CandidateInvariant, InitThreads, NextThreads, PTL DEF Spec

-----------------------------------------------------------------------------
(* Who holds the land lock.                                                *)

\* What a lander's threads ask of the ledger, and a lander that has not got its lock yet has
\* no heartbeat.
CallOK(l) ==
  /\ ~Idle(Main(l)) => \/ stage[l] = "acquiring" /\ call[Main(l)].op = "claim"
                       \/ stage[l] = "releasing" /\ call[Main(l)].op = "release"
  /\ ~Idle(Beat(l)) => beat[l] = "beating" /\ call[Beat(l)].op = "heartbeat"
  /\ stage[l] \in {"new", "acquiring"} =>
       beat[l] = "off" /\ waited[l] = 0 /\ misses[l] = 0 /\ ~stop[l]

\* The lock is held until it lapses.
LockOK(l) == Holding(l) /\ ~lapsed[l] => Held(l, LandLock)

\* The lock is its holder's, and at most n ticks old on the holder's clock.
Beaten(l, n) == ledger[LandLock].worker = l /\ AgeSeenBy(l, ledger[LandLock]) <= n

Building == {"sync_main", "reconcile", "gate"}

\* What the heartbeat adds where it is never late: the lock is no older than the beats that
\* were missed and the wait for the next one.
PromptOK(l) ==
  /\ (stage[l] = "acquiring" /\ Answered(l, "granted")) => Beaten(l, 0)
  /\ stage[l] \in Building =>
       /\ ~stop[l] /\ beat[l] # "off"
       /\ Beaten(l, misses[l] * Interval + waited[l])
       /\ call[Beat(l)].step = "read" => call[Beat(l)].verdict = "own"
       /\ (beat[l] = "beating" /\ Idle(Beat(l))) =>
            call[Beat(l)].result = "true" /\ Beaten(l, 0)

LandTypes == LedgerInv /\ CandidateInv /\ ThreadTypes

\* The threads of a lander are two processes that call under its name.
LEMMA ThreadFacts ==
  /\ LandLock \in Units
  /\ \A u \in Units : u = LandLock
  /\ \A l \in Landers : /\ Main(l) \in Procs /\ Beat(l) \in Procs /\ Main(l) # Beat(l)
                        /\ Me(Main(l)) = l /\ Me(Beat(l)) = l /\ l \in Workers
  /\ \A l, m \in Landers : l # m => {Main(l), Beat(l)} \cap {Main(m), Beat(m)} = {}
  /\ \A p \in Procs, l \in Landers : Me(p) = l => p \in {Main(l), Beat(l)}
<1> USE LanderAssumption
<1>1. LandLock \in Units /\ \A u \in Units : u = LandLock
  OBVIOUS
<1>2. \A l \in Landers : /\ Main(l) \in Procs /\ Beat(l) \in Procs /\ Main(l) # Beat(l)
                         /\ Me(Main(l)) = l /\ Me(Beat(l)) = l /\ l \in Workers
  BY DEF Main, Beat, Me
<1>3. \A l, m \in Landers : l # m => {Main(l), Beat(l)} \cap {Main(m), Beat(m)} = {}
  BY DEF Main, Beat
<1>4. \A p \in Procs : \E m \in Landers : p \in {Main(m), Beat(m)}
  BY DEF Main, Beat
<1>5. ASSUME NEW p \in Procs, NEW l \in Landers, Me(p) = l
      PROVE  p \in {Main(l), Beat(l)}
  <2>1. PICK m \in Landers : p = Main(m) \/ p = Beat(m)
    BY <1>4
  <2>2. Me(p) = m
    BY <1>2, <2>1
  <2>3. QED
    BY <1>5, <2>1, <2>2
<1>6. QED
  BY <1>1, <1>2, <1>3, <1>5

\* What the invariant says of a lander changes only with that lander and with the lock.
LEMMA LanderUnmoved ==
  ASSUME NEW l \in Landers, ledger' = ledger, call'[Main(l)] = call[Main(l)],
         call'[Beat(l)] = call[Beat(l)], stage'[l] = stage[l], beat'[l] = beat[l],
         waited'[l] = waited[l], misses'[l] = misses[l], stop'[l] = stop[l],
         lapsed'[l] = lapsed[l]
  PROVE  /\ CallOK(l) => CallOK(l)'
         /\ LockOK(l) => LockOK(l)'
         /\ PromptOK(l) => PromptOK(l)'
<1>1. Holding(l)' <=> Holding(l)
  BY DEF Holding, Answered, Idle, Main
<1>2. Held(l, LandLock) => Held(l, LandLock)'
  BY DEF Held, Liveness, AgeSeenBy
<1>3. CallOK(l) => CallOK(l)'
  BY DEF CallOK, Idle, Main, Beat
<1>4. PromptOK(l) => PromptOK(l)'
  BY DEF PromptOK, Answered, Idle, Main, Beat, Beaten, AgeSeenBy
<1>5. QED
  BY <1>1, <1>2, <1>3, <1>4 DEF LockOK

\* No lander's own step moves another lander.
LEMMA OthersUnmoved ==
  ASSUME LandTypes, NEW m \in Landers, NEW l \in Landers, l # m,
         MainStep(m) \/ BeatStep(m) \/ GiveUp(m) \/ Kill(m)
  PROVE  /\ CallOK(l) => CallOK(l)'
         /\ LockOK(l) => LockOK(l)'
         /\ PromptOK(l) => PromptOK(l)'
<1>1. call \in [Procs -> Calls] /\ ThreadTypes /\ stage \in [Landers -> Stages]
  BY DEF LandTypes, LedgerInv, LedgerTypeOK, CandidateInv
<1>2. /\ {Main(l), Beat(l)} \cap {Main(m), Beat(m)} = {}
      /\ Main(l) \in Procs /\ Beat(l) \in Procs /\ Main(m) \in Procs /\ Beat(m) \in Procs
  BY ThreadFacts
<1>3. ledger' = ledger /\ call'[Main(l)] = call[Main(l)] /\ call'[Beat(l)] = call[Beat(l)]
  <2>1. ASSUME NEW p \in {Main(m), Beat(m)}, NEW op, Call(p, op, LandLock)
        PROVE  ledger' = ledger /\ call'[Main(l)] = call[Main(l)] /\ call'[Beat(l)] = call[Beat(l)]
    BY <1>1, <1>2, <2>1 DEF Call
  <2>2. CASE TryAcquire(m) \/ Discard(m) \/ StartsBeat(m)
    BY <2>1, <2>2 DEF TryAcquire, Discard, StartsBeat
  <2>3. CASE StartBeat(m) \/ SyncMain(m) \/ Reconcile(m) \/ Gate(m) \/ CheckOwnership(m)
             \/ Finalize(m) \/ Released(m) \/ MissesBeat(m) \/ BeatAnswered(m) \/ BeatEnds(m)
             \/ GiveUp(m)
    BY <2>3 DEF StartBeat, SyncMain, Reconcile, Gate, CheckOwnership, Finalize, Released,
                MissesBeat, BeatAnswered, BeatEnds, GiveUp, ledgerVars
  <2>4. CASE Kill(m)
    BY <1>2, <2>4 DEF Kill, Killed
  <2>5. QED
    BY <2>2, <2>3, <2>4 DEF MainStep, BeatStep
<1>4. stage'[l] = stage[l]
  BY <1>1 DEF MainStep, BeatStep, TryAcquire, StartBeat, SyncMain, Reconcile, Gate, CheckOwnership,
              Finalize, Discard, Released, StartsBeat, MissesBeat, BeatAnswered, BeatEnds, GiveUp,
              Kill, Abort, GoTo, landVars
<1>5. beat'[l] = beat[l] /\ waited'[l] = waited[l] /\ misses'[l] = misses[l]
  BY <1>1 DEF MainStep, BeatStep, TryAcquire, StartBeat, SyncMain, Reconcile, Gate, CheckOwnership,
              Finalize, Discard, Released, StartsBeat, MissesBeat, BeatAnswered, BeatEnds, GiveUp,
              Kill, Rewind, beatVars, ThreadTypes
<1>6. stop'[l] = stop[l] /\ lapsed'[l] = lapsed[l]
  BY <1>1 DEF MainStep, BeatStep, TryAcquire, StartBeat, SyncMain, Reconcile, Gate, CheckOwnership,
              Finalize, Discard, Released, StartsBeat, MissesBeat, BeatAnswered, BeatEnds, GiveUp,
              Kill, beatVars, restVars, ThreadTypes
<1>7. QED
  BY <1>3, <1>4, <1>5, <1>6, LanderUnmoved

-----------------------------------------------------------------------------
(* A lander's own steps.                                                   *)

\* What a process asks is under way, and the other thread's call stays as it was.
LEMMA AskFacts ==
  ASSUME LandTypes, NEW l \in Landers, NEW p \in Procs, NEW q \in Procs, p # q, NEW op,
         Call(p, op, LandLock)
  PROVE  /\ call[p].step = "idle"
         /\ call'[p].step = "waiting" /\ call'[p].op = op /\ call'[p].result = "none"
         /\ call'[q] = call[q] /\ ledger' = ledger
BY DEF Call, NoCall, LandTypes, LedgerInv, LedgerTypeOK

\* The main thread: it claims, is granted, builds, and releases in this order.
LEMMA MainStepOK ==
  ASSUME LandTypes, NEW l \in Landers, MainStep(l), CallOK(l)
  PROVE  /\ CallOK(l)'
         /\ LockOK(l) => LockOK(l)'
         /\ PromptOK(l) => PromptOK(l)'
<1> USE DEF Idle
<1>1. /\ ThreadTypes /\ stage \in [Landers -> Stages]
      /\ Main(l) \in Procs /\ Beat(l) \in Procs /\ Main(l) # Beat(l)
  BY ThreadFacts DEF LandTypes, CandidateInv
<1>2. ledger' = ledger => /\ Held(l, LandLock) => Held(l, LandLock)'
                          /\ \A n : Beaten(l, n) => (ledger'[LandLock].worker = l
                                       /\ AgeSeenBy(l, ledger'[LandLock]) <= n)
  BY DEF Held, Beaten, Liveness, AgeSeenBy
<1>3. CASE TryAcquire(l)
  <2>1. /\ stage[l] \in {"new", "acquiring"} /\ stage' = [stage EXCEPT ![l] = "acquiring"]
        /\ UNCHANGED beatVars
        /\ call[Main(l)].step = "idle"
        /\ call'[Main(l)].step = "waiting" /\ call'[Main(l)].op = "claim"
        /\ call'[Beat(l)] = call[Beat(l)]
    BY <1>1, <1>3, AskFacts DEF TryAcquire, GoTo
  <2>2. stage'[l] = "acquiring" /\ ~Answered(l, "granted")'
    BY <1>1, <2>1 DEF Answered, Main
  <2>3. CallOK(l)'
    BY <1>1, <2>1, <2>2 DEF CallOK, beatVars, Main, Beat
  <2>4. QED
    BY <2>2, <2>3 DEF LockOK, Holding, PromptOK, Building
<1>4. CASE StartBeat(l)
  <2>1. /\ stage[l] = "acquiring" /\ Answered(l, "granted") /\ stage'[l] = "sync_main"
        /\ beat[l] = "off" /\ beat'[l] = "waiting" /\ UNCHANGED <<ledgerVars, waited, misses, stop,
                                                                lapsed>>
        /\ waited[l] = 0 /\ misses[l] = 0 /\ ~stop[l] /\ call[Beat(l)].step = "idle"
    BY <1>1, <1>4 DEF StartBeat, GoTo, ThreadTypes, CallOK, restVars
  <2>2. CallOK(l)'
    BY <2>1 DEF CallOK, ledgerVars, Answered, Main, Beat
  <2>3. LockOK(l) => LockOK(l)'
    BY <1>2, <2>1 DEF LockOK, Holding, ledgerVars
  <2>4. PromptOK(l) => PromptOK(l)'
    <3>1. misses'[l] * Interval + waited'[l] = 0
      BY <2>1, BoundFacts
    <3>2. Beaten(l, 0) => Beaten(l, misses[l] * Interval + waited[l])'
      BY <1>2, <2>1, <3>1 DEF Beaten, ledgerVars, AgeSeenBy
    <3>3. QED
      BY <2>1, <3>2 DEF PromptOK, Building, ledgerVars, Beat
  <2>5. QED
    BY <2>2, <2>3, <2>4
<1>5. CASE SyncMain(l) \/ Reconcile(l) \/ CheckOwnership(l) \/ Finalize(l)
  <2>1. /\ UNCHANGED <<ledgerVars, beatVars, lapsed>>
        /\ stage[l] \in {"sync_main", "reconcile", "joining", "finalize"}
        /\ stage'[l] \in {"reconcile", "gate", "finalize", "discard"}
        /\ stage'[l] \in Building => stage[l] \in Building
    BY <1>1, <1>5 DEF SyncMain, Reconcile, CheckOwnership, Finalize, Abort, GoTo, restVars, Building
  <2>2. CallOK(l)'
    BY <2>1 DEF CallOK, ledgerVars, beatVars, Main, Beat
  <2>3. LockOK(l) => LockOK(l)'
    BY <1>2, <2>1 DEF LockOK, Holding, ledgerVars
  <2>4. PromptOK(l) => PromptOK(l)'
    BY <1>2, <2>1 DEF PromptOK, Beaten, ledgerVars, beatVars, Beat, AgeSeenBy
  <2>5. QED
    BY <2>2, <2>3, <2>4
<1>6. CASE Gate(l)
  <2>1. /\ UNCHANGED <<ledgerVars, beat, waited, misses, lapsed>>
        /\ stage[l] = "gate" /\ stage'[l] \in {"joining", "discard"}
    BY <1>1, <1>6 DEF Gate, Abort, GoTo, restVars
  <2>2. CallOK(l)'
    BY <2>1 DEF CallOK, ledgerVars, Main, Beat
  <2>3. LockOK(l) => LockOK(l)'
    BY <1>2, <2>1 DEF LockOK, Holding, ledgerVars
  <2>4. QED
    BY <2>1, <2>2, <2>3 DEF PromptOK, Building
<1>7. CASE Discard(l)
  <2>1. /\ stage'[l] = "releasing" /\ UNCHANGED beat
        /\ call'[Main(l)].step = "waiting" /\ call'[Main(l)].op = "release"
        /\ call'[Beat(l)] = call[Beat(l)]
    BY <1>1, <1>7, AskFacts DEF Discard, GoTo
  <2>2. QED
    BY <2>1 DEF CallOK, LockOK, Holding, PromptOK, Building, Main, Beat
<1>8. CASE Released(l)
  <2>1. stage'[l] = "done" /\ UNCHANGED <<ledgerVars, beatVars>> /\ call[Main(l)].step = "idle"
    BY <1>1, <1>8 DEF Released, GoTo
  <2>2. QED
    BY <2>1 DEF CallOK, LockOK, Holding, PromptOK, Building, Main, Beat, ledgerVars, beatVars
<1>9. QED
  BY <1>3, <1>4, <1>5, <1>6, <1>7, <1>8 DEF MainStep

\* A missed beat leaves what it owes to the next one.
LEMMA MissFacts ==
  ASSUME NEW m \in Nat
  PROVE  (m + 1) * Interval = m * Interval + Interval
BY BoundFacts

\* The heartbeat thread: a beat that is due is asked for or missed, and its answer heard.
LEMMA BeatStepOK ==
  ASSUME LandTypes, NEW l \in Landers, BeatStep(l), CallOK(l)
  PROVE  /\ CallOK(l)'
         /\ LockOK(l) => LockOK(l)'
         /\ PromptOK(l) => PromptOK(l)'
<1> USE DEF Idle
<1>1. /\ ThreadTypes /\ Main(l) \in Procs /\ Beat(l) \in Procs /\ Main(l) # Beat(l)
      /\ call[Main(l)]' = call'[Main(l)] /\ call[Beat(l)]' = call'[Beat(l)]
  BY ThreadFacts DEF LandTypes, Main, Beat
<1>2. ledger' = ledger /\ UNCHANGED <<landVars, stop, lapsed>> /\ call'[Main(l)] = call[Main(l)]
  <2>1. CASE StartsBeat(l)
    BY <1>1, <2>1, AskFacts DEF StartsBeat, restVars
  <2>2. CASE MissesBeat(l) \/ BeatAnswered(l) \/ BeatEnds(l)
    BY <2>2 DEF MissesBeat, BeatAnswered, BeatEnds, restVars, ledgerVars
  <2>3. QED
    BY <2>1, <2>2 DEF BeatStep
<1>3. UNCHANGED stage
  BY <1>2 DEF landVars
<1>4. beat[l] # "off"
  BY DEF BeatStep, StartsBeat, MissesBeat, BeatAnswered, BeatEnds, Due
<1>5. stage[l] \notin {"new", "acquiring"}
  BY <1>4 DEF CallOK
<1>6. LockOK(l) => LockOK(l)'
  <2>1. Held(l, LandLock) => Held(l, LandLock)'
    BY <1>2 DEF Held, Liveness, AgeSeenBy
  <2>2. Holding(l)' => Holding(l)
    BY <1>2, <1>3 DEF Holding, Answered, Main
  <2>3. QED
    BY <1>2, <2>1, <2>2 DEF LockOK
<1>7. \A n : Beaten(l, n) => (ledger'[LandLock].worker = l /\ AgeSeenBy(l, ledger'[LandLock]) <= n)
  BY <1>2 DEF Beaten, AgeSeenBy
<1>8. CASE StartsBeat(l)
  <2>1. /\ beat[l] = "waiting" /\ beat'[l] = "beating" /\ UNCHANGED <<waited, misses>>
        /\ call[Beat(l)].step = "idle"
        /\ call'[Beat(l)].step = "waiting" /\ call'[Beat(l)].op = "heartbeat"
    BY <1>1, <1>8, AskFacts DEF StartsBeat, Due, ThreadTypes
  <2>2. CallOK(l)'
    BY <1>1, <1>2, <1>3, <1>5, <2>1 DEF CallOK
  <2>3. PromptOK(l) => PromptOK(l)'
    BY <1>1, <1>2, <1>3, <1>5, <1>7, <2>1 DEF PromptOK, Beaten, Building
  <2>4. QED
    BY <1>6, <2>2, <2>3
<1>9. CASE MissesBeat(l)
  <2>1. /\ beat[l] = "waiting" /\ UNCHANGED <<beat, call>>
        /\ waited[l] = Interval /\ waited'[l] = 0 /\ misses'[l] = misses[l] + 1
        /\ misses[l] \in Nat
    BY <1>1, <1>9, BoundFacts DEF MissesBeat, Due, ThreadTypes, ledgerVars
  <2>2. CallOK(l)'
    BY <1>1, <1>3, <1>5, <2>1 DEF CallOK
  <2>3. misses'[l] * Interval + waited'[l] = misses[l] * Interval + waited[l]
    <3>1. misses[l] * Interval \in Int
      BY <2>1, BoundFacts
    <3>2. QED
      BY <2>1, <3>1, MissFacts, BoundFacts
  <2>4. PromptOK(l) => PromptOK(l)'
    BY <1>1, <1>2, <1>3, <1>5, <1>7, <2>1, <2>3 DEF PromptOK, Beaten, Building
  <2>5. QED
    BY <1>6, <2>2, <2>4
<1>10. CASE BeatAnswered(l)
  <2>1. /\ beat[l] = "beating" /\ call[Beat(l)].step = "idle" /\ UNCHANGED call
        /\ beat'[l] = IF call[Beat(l)].result = "true" THEN "waiting" ELSE "off"
        /\ waited'[l] = 0 /\ misses'[l] = 0
    BY <1>1, <1>10 DEF BeatAnswered, Rewind, ThreadTypes, ledgerVars
  <2>2. CallOK(l)'
    BY <1>1, <1>3, <1>5, <2>1 DEF CallOK
  <2>3. misses'[l] * Interval + waited'[l] = 0
    BY <2>1, BoundFacts
  <2>4. PromptOK(l) => PromptOK(l)'
    BY <1>1, <1>2, <1>3, <1>5, <1>7, <2>1, <2>3 DEF PromptOK, Beaten, Building
  <2>5. QED
    BY <1>6, <2>2, <2>4
<1>11. CASE BeatEnds(l)
  <2>1. beat[l] = "waiting" /\ stop[l] /\ UNCHANGED call /\ beat'[l] = "off"
    BY <1>1, <1>11 DEF BeatEnds, ThreadTypes, ledgerVars
  <2>2. CallOK(l)'
    BY <1>1, <1>3, <1>5, <2>1 DEF CallOK
  <2>3. PromptOK(l) => PromptOK(l)'
    BY <1>3, <1>5, <2>1 DEF PromptOK, Building
  <2>4. QED
    BY <1>6, <2>2, <2>3
<1>12. QED
  BY <1>8, <1>9, <1>10, <1>11 DEF BeatStep

\* A lander that gives up or dies holds nothing any more.
LEMMA EndOK ==
  ASSUME LandTypes, NEW l \in Landers, GiveUp(l) \/ Kill(l), CallOK(l)
  PROVE  CallOK(l)' /\ LockOK(l)' /\ PromptOK(l)'
<1>1. /\ ThreadTypes /\ stage \in [Landers -> Stages]
      /\ Main(l) \in Procs /\ Beat(l) \in Procs
  BY ThreadFacts DEF LandTypes, CandidateInv
<1>2. stage'[l] \in {"done", "dead"} /\ call'[Main(l)].step = "idle"
  BY <1>1 DEF GiveUp, Kill, Killed, GoTo, Idle, NoCall, ledgerVars
<1>3. ~Idle(Beat(l))' => ~Idle(Beat(l)) /\ call'[Beat(l)] = call[Beat(l)] /\ beat'[l] = beat[l]
  BY <1>1 DEF GiveUp, Kill, Killed, Idle, NoCall, ledgerVars, beatVars, Beat
<1>4. CallOK(l)'
  BY <1>2, <1>3 DEF CallOK, Idle, Main, Beat
<1>5. QED
  BY <1>2, <1>4 DEF LockOK, Holding, PromptOK, Building

-----------------------------------------------------------------------------
(* Calls to the ledger, and time.                                          *)

\* A lander in possession of the lock is not releasing it.
LEMMA HolderIsQuiet ==
  ASSUME LandTypes, NEW l \in Landers, CallOK(l), Holding(l),
         NEW q \in Procs, Me(q) = l
  PROVE  ~(call[q].step = "read" /\ call[q].op = "release")
<1>1. q \in {Main(l), Beat(l)}
  BY ThreadFacts
<1>2. Idle(Main(l))
  BY DEF CallOK, Holding, Answered
<1>3. QED
  BY <1>1, <1>2 DEF CallOK, Idle

\* Callers of the ledger keep to what a lander's threads ask.
LEMMA AskKeepsCalls ==
  ASSUME LandTypes, NEW m \in Landers, AskLedger(m), NEW l \in Landers, CallOK(l)
  PROVE  CallOK(l)'
<1>1. PICK p \in Procs : LedgerStep(p)
  BY ThreadFacts DEF AskLedger
<1>2. UNCHANGED <<stage, beat, waited, misses, stop>>
  BY DEF AskLedger, landVars, beatVars
<1>3. \A q \in Procs : call'[q].step # "idle" => call[q].step # "idle" /\ call'[q].op = call[q].op
  BY <1>1, CallGoesOn DEF LandTypes
<1>4. Main(l) \in Procs /\ Beat(l) \in Procs
  BY ThreadFacts
<1>5. QED
  BY <1>2, <1>3, <1>4 DEF CallOK, Idle, Main, Beat

\* A grant comes from the main thread's own claim.
LEMMA GrantFacts ==
  ASSUME LandTypes, NEW m \in Landers, AskLedger(m), NEW l \in Landers, CallOK(l),
         stage[l] = "acquiring", Answered(l, "granted")', ~Answered(l, "granted")
  PROVE  Claim(Main(l)) /\ call'[Main(l)].result = "granted" /\ UnitOf(Main(l)) = LandLock
<1>1. PICK p \in Procs : LedgerStep(p)
  BY ThreadFacts DEF AskLedger
<1>2. call'[Main(l)].step = "idle" /\ call'[Main(l)].result = "granted" /\ Main(l) \in Procs
  BY ThreadFacts DEF Answered, Idle, Main
<1>3. p = Main(l)
  BY <1>1, <1>2, CallGoesOn DEF LandTypes, Answered, Idle
<1>4. call[p].step # "idle" /\ call[p].op = "claim"
  BY <1>1, <1>3, CallGoesOn DEF LandTypes, CallOK, Idle
<1>5. Claim(p)
  BY <1>1, <1>2, <1>3, <1>4, CallGoesOn DEF LandTypes
<1>6. UnitOf(p) \in Units
  BY <1>4, CallFacts DEF LandTypes, LedgerInv, LedgerTypeOK, UnitOf
<1>7. QED
  BY <1>2, <1>3, <1>5, <1>6, ThreadFacts

\* A held lock stays held under everybody's calls, and a granted one is held.
LEMMA AskKeepsLock ==
  ASSUME MaxSkew <= StaleAfter, LandTypes, NEW m \in Landers, AskLedger(m),
         NEW l \in Landers, CallOK(l), LockOK(l)
  PROVE  LockOK(l)'
<1>1. PICK p \in Procs : LedgerStep(p)
  BY ThreadFacts DEF AskLedger
<1>2. UNCHANGED <<stage, lapsed>>
  BY DEF AskLedger, landVars, restVars
<1>3. LandLock \in Units /\ l \in Workers /\ Main(l) \in Procs /\ Me(Main(l)) = l
  BY ThreadFacts
<1>4. CASE Holding(l) /\ ~lapsed[l]
  <2>1. Held(l, LandLock)'
    BY <1>1, <1>3, <1>4, HolderIsQuiet, HeldStays DEF LandTypes, LockOK
  <2>2. QED
    BY <2>1 DEF LockOK
<1>5. CASE Holding(l)' /\ ~Holding(l)
  <2>1. stage[l] = "acquiring" /\ Answered(l, "granted")' /\ ~Answered(l, "granted")
    BY <1>2, <1>5 DEF Holding
  <2>2. Claim(Main(l)) /\ call'[Main(l)].result = "granted" /\ UnitOf(Main(l)) = LandLock
    BY <2>1, GrantFacts
  <2>3. Held(Me(Main(l)), LandLock)'
    BY <1>3, <2>2, GrantIsHeld DEF LandTypes
  <2>4. Me(Main(l))' = l
    BY <1>3 DEF Me, Main
  <2>5. QED
    BY <2>3, <2>4 DEF LockOK
<1>6. QED
  BY <1>2, <1>4, <1>5 DEF LockOK

\* Time: a lock that goes stale under its lander is marked as lapsed, and nobody asks or
\* answers.
LEMMA TimeKeeps ==
  ASSUME LandTypes, Tick, NEW l \in Landers, CallOK(l)
  PROVE  CallOK(l)' /\ (LockOK(l) => LockOK(l)')
<1>1. LedgerInv /\ LedgerTick /\ UNCHANGED <<call, stage, beat, misses, stop>> /\ LandLock \in Units
  BY ThreadFacts DEF LandTypes, Tick, LedgerTick, landVars
<1>2. beat[l] # "waiting" => waited'[l] = waited[l]
  BY DEF Tick
<1>3. CallOK(l)'
  BY <1>1, <1>2 DEF CallOK, Idle, Main, Beat
<1>4. lapsed'[l] = (lapsed[l] \/
        (Holding(l) /\ \E w \in Workers : Liveness(w, ledger'[LandLock]) = "stale"))
  BY DEF Tick
<1>5. ASSUME LockOK(l), Holding(l)', ~lapsed'[l]
      PROVE  Held(l, LandLock)'
  <2>1. Holding(l)
    BY <1>1, <1>5 DEF Holding, Answered, Idle, Main
  <2>2. Held(l, LandLock)
    BY <1>4, <1>5, <2>1 DEF LockOK
  <2>3. ledger'[LandLock].worker = ledger[LandLock].worker
    BY <1>1, TickFacts
  <2>4. QED
    BY <1>4, <1>5, <2>1, <2>2, <2>3 DEF Held, Liveness, AgeSeenBy
<1>6. QED
  BY <1>3, <1>5 DEF LockOK

-----------------------------------------------------------------------------
(* Lands are serialized.                                                   *)

LandInv ==
  /\ LandTypes
  /\ \A l \in Landers : CallOK(l)

LockInv == \A l \in Landers : LockOK(l)

\* Nobody asks or holds anything at first.
LEMMA InitLand == Init => LandInv /\ LockInv /\ \A l \in Landers : PromptOK(l)
<1> SUFFICES ASSUME Init PROVE LandInv /\ LockInv /\ \A l \in Landers : PromptOK(l)
  OBVIOUS
<1>1. LandTypes
  BY InitCandidate, InitThreads, InitLedgerInv DEF Init, LandTypes
<1>2. \A p \in Procs : call[p].step = "idle"
  BY DEF Init, LedgerInit, NoCall
<1>3. \A l \in Landers : stage[l] = "new" /\ beat[l] = "off" /\ waited[l] = 0 /\ misses[l] = 0
                         /\ ~stop[l]
  BY DEF Init
<1>4. \A l \in Landers : CallOK(l)
  BY <1>2, <1>3, ThreadFacts DEF CallOK, Idle
<1>5. QED
  BY <1>1, <1>3, <1>4 DEF LandInv, LockInv, LockOK, Holding, PromptOK, Building

\* Types and calls, under any clocks.
LEMMA NextLand == LandInv /\ [Next]_vars => LandInv'
<1> SUFFICES ASSUME LandInv, [Next]_vars PROVE LandInv'
  OBVIOUS
<1>1. LandTypes'
  BY LanderUsesLedger, NextKeeps, NextCandidate, NextThreads DEF LandInv, LandTypes
<1>2. ASSUME NEW l \in Landers
      PROVE  CallOK(l)'
  <2>1. CallOK(l) /\ LandTypes
    BY DEF LandInv
  <2>2. ASSUME NEW m \in Landers, MainStep(m) \/ BeatStep(m) \/ GiveUp(m) \/ Kill(m)
        PROVE  CallOK(l)'
    BY <2>1, <2>2, OthersUnmoved, MainStepOK, BeatStepOK, EndOK
  <2>3. CASE OutsidePush \/ UNCHANGED vars
    BY <2>1, <2>3, LanderUnmoved DEF OutsidePush, vars, ledgerVars, landVars, beatVars, restVars
  <2>4. QED
    BY <2>1, <2>2, <2>3, AskKeepsCalls, TimeKeeps DEF Next
<1>3. QED
  BY <1>1, <1>2 DEF LandInv

\* The lock, when clocks differ by less than a claim lives.
LEMMA NextLock ==
  ASSUME MaxSkew <= StaleAfter
  PROVE  LandInv /\ LockInv /\ [Next]_vars => LockInv'
<1> SUFFICES ASSUME LandInv, LockInv, [Next]_vars, NEW l \in Landers PROVE LockOK(l)'
  BY DEF LockInv
<1>1. CallOK(l) /\ LandTypes /\ LockOK(l)
  BY DEF LandInv, LockInv
<1>2. ASSUME NEW m \in Landers, MainStep(m) \/ BeatStep(m) \/ GiveUp(m) \/ Kill(m)
      PROVE  LockOK(l)'
  BY <1>1, <1>2, OthersUnmoved, MainStepOK, BeatStepOK, EndOK
<1>3. CASE OutsidePush \/ UNCHANGED vars
  BY <1>1, <1>3, LanderUnmoved DEF OutsidePush, vars, ledgerVars, landVars, beatVars, restVars
<1>4. QED
  BY <1>1, <1>2, <1>3, AskKeepsLock, TimeKeeps DEF Next

\* Two landers hold the land lock at once only when it went stale under the first of them by
\* somebody's clock (_acquire_lock and _release_lock, with the heartbeat between them).
THEOREM LandsAreSerialized ==
  ASSUME MaxSkew <= StaleAfter
  PROVE  Spec => []OneLanderUnlessStale
<1>1. LockInv => OneLanderUnlessStale
  BY DEF LockInv, LockOK, Held, OneLanderUnlessStale
<1>2. QED
  BY <1>1, InitLand, NextLand, NextLock, PTL DEF Spec

-----------------------------------------------------------------------------
(* Heartbeats that are on time.                                            *)

\* A lock that is a beat's and some missed beats' time old is held, where beats keep up.
LEMMA BeatenIsHeld ==
  ASSUME LandTypes, NEW l \in Landers, NEW n \in Nat, n + MaxSkew <= StaleAfter, Beaten(l, n)
  PROVE  Held(l, LandLock)
<1>1. ledger[LandLock] \in Record /\ l \in Workers
  BY ThreadFacts DEF LandTypes, LedgerInv, LedgerTypeOK
<1>2. ledger[LandLock] \in [worker : Workers, age : Ages]
  BY <1>1, NobodyWorks DEF Beaten
<1>3. ledger[LandLock].age \in Int
  BY <1>2, LedgerAssumption DEF Ages, OldAge
<1>4. ASSUME NEW v \in Workers
      PROVE  Liveness(v, ledger[LandLock]) # "stale"
  <2>1. Skew[v] \in 0..MaxSkew /\ Skew[l] \in 0..MaxSkew /\ MaxSkew \in Nat /\ StaleAfter \in Nat
    BY <1>1, LedgerAssumption
  <2>2. ledger[LandLock].age + Skew[l] <= n
    BY DEF Beaten, AgeSeenBy
  <2>3. ledger[LandLock].age + Skew[v] <= StaleAfter
    BY <1>3, <2>1, <2>2
  <2>4. QED
    BY <1>3, <2>1, <2>3 DEF Liveness, AgeSeenBy
<1>5. QED
  BY <1>4 DEF Beaten, Held

\* However many beats were missed in a row, the lock has not outlived its claim.
LEMMA BeatsInTime ==
  ASSUME LandTypes, BeatsKeepUp, NEW l \in Landers
  PROVE  /\ misses[l] * Interval + waited[l] \in Nat
         /\ misses[l] * Interval + waited[l] + MaxSkew <= StaleAfter
<1>1. misses[l] \in 0..MaxMisses /\ waited[l] \in 0..Interval /\ Interval \in Nat
      /\ MaxMisses \in Nat /\ MaxSkew \in Nat /\ StaleAfter \in Nat
  BY BoundFacts, LedgerAssumption DEF LandTypes, ThreadTypes
<1>2. \A i, j, k \in Nat : i <= j => i * k <= j * k
  <2>1. SUFFICES ASSUME NEW i \in Nat, NEW j \in Nat, NEW k \in Nat, i <= j
                 PROVE  i * k <= j * k
    OBVIOUS
  <2>2. PICK d \in Nat : j = i + d
    BY <2>1
  <2>3. j * k = i * k + d * k
    BY <2>2
  <2>4. i * k \in Nat /\ d * k \in Nat
    OBVIOUS
  <2>5. QED
    BY <2>3, <2>4
<1>3. misses[l] * Interval <= MaxMisses * Interval
  BY <1>1, <1>2
<1>4. (MaxMisses + 1) * Interval = MaxMisses * Interval + Interval
  BY <1>1
<1>5. misses[l] * Interval \in Nat /\ MaxMisses * Interval \in Nat
  BY <1>1
<1>6. MaxMisses * Interval + Interval + MaxSkew <= StaleAfter
  BY <1>4 DEF BeatsKeepUp
<1>7. QED
  BY <1>1, <1>3, <1>5, <1>6

\* No call but its lander's own makes a held lock older, and that one makes it new.
LEMMA BeatenStays ==
  ASSUME LandTypes, NEW p \in Procs, LedgerStep(p), NEW l \in Landers, CallOK(l), Holding(l),
         NEW n \in Nat, n + MaxSkew <= StaleAfter, Beaten(l, n)
  PROVE  ledger'[LandLock].worker = l /\ AgeSeenBy(l, ledger'[LandLock]) <= n
<1>1. LandLock \in Units /\ l \in Workers
  BY ThreadFacts
<1>2. Held(l, LandLock)
  BY BeatenIsHeld
<1>3. \/ ledger'[LandLock] = ledger[LandLock]
      \/ ledger'[LandLock].worker = l /\ ledger'[LandLock].age = -Skew[l]
  BY <1>1, <1>2, HolderIsQuiet, HeldUnderCalls DEF LandTypes
<1>4. Skew[l] \in Int
  BY <1>1, LedgerAssumption
<1>5. QED
  BY <1>3, <1>4 DEF Beaten, AgeSeenBy

\* A beat for a lock that is its lander's is answered with true, and renews it.
LEMMA BeatRenews ==
  ASSUME LandTypes, NEW l \in Landers, LedgerStep(Beat(l)), CallOK(l),
         ledger[LandLock].worker = l,
         call[Beat(l)].step = "read" => call[Beat(l)].verdict = "own"
  PROVE  /\ call'[Beat(l)].step = "read" => call'[Beat(l)].verdict = "own"
         /\ call'[Beat(l)].step = "idle" => /\ call'[Beat(l)].result = "true"
                                            /\ ledger'[LandLock].worker = l
                                            /\ AgeSeenBy(l, ledger'[LandLock]) <= 0
<1> DEFINE p == Beat(l)
<1>1. p \in Procs /\ Me(p) = l /\ l \in Workers /\ LandLock \in Units /\ LedgerInv
  BY ThreadFacts DEF LandTypes
<1>2. call[p] \in [op : Ops, unit : Units, step : {"waiting", "read"}, seen : Record,
                   verdict : Verdicts, result : {"none"}]
      /\ call[p].op = "heartbeat" /\ call[p].unit = LandLock
  <2>1. call[p].step # "idle"
    BY <1>1, CallGoesOn
  <2>2. QED
    BY <1>1, <2>1, CallFacts, ThreadFacts DEF LedgerInv, LedgerTypeOK, CallOK, Idle
<1> HIDE DEF p
<1>3. CASE Lock(p)
  <2>1. ledger[LandLock] \in Record /\ ledger[LandLock] # NoRecord
    BY <1>1, NobodyWorks DEF LedgerInv, LedgerTypeOK
  <2>2. Verdict(p, ledger[LandLock]) = "own"
    BY <1>1, <2>1 DEF Verdict
  <2>3. call'[p].step = "read" /\ call'[p].verdict = "own"
    BY <1>1, <1>2, <1>3, <2>2 DEF Lock, Judged, UnitOf, LedgerInv, LedgerTypeOK
  <2>4. QED
    BY <2>3 DEF p
<1>4. CASE Heartbeat(p)
  <2>1. call[p].verdict = "own"
    BY <1>4 DEF Heartbeat, p
  <2>2. /\ ledger' = [ledger EXCEPT ![LandLock] = [call[p].seen EXCEPT !.age = -Skew[l]]]
        /\ call' = [call EXCEPT ![p] = [NoCall EXCEPT !.result = "true"]]
    BY <1>1, <1>2, <1>4, <2>1 DEF Heartbeat, Refreshes, Publish, Return, UnitOf
  <2>3. call[p].seen # NoRecord /\ call[p].seen.worker = l
    BY <1>1, <1>4, <2>1 DEF Heartbeat, LedgerInv, Believed
  <2>4. call[p].seen \in [worker : Workers, age : Ages]
    BY <1>2, <2>3, RecordFacts
  <2>5. ledger'[LandLock].worker = l /\ ledger'[LandLock].age = -Skew[l]
    BY <1>1, <2>2, <2>3, <2>4 DEF LedgerInv, LedgerTypeOK
  <2>6. Skew[l] \in Int
    BY <1>1, LedgerAssumption
  <2>7. call'[p].step = "idle" /\ call'[p].result = "true"
    BY <1>1, <2>2 DEF NoCall, LedgerInv, LedgerTypeOK
  <2>8. QED
    BY <2>5, <2>6, <2>7 DEF AgeSeenBy, p
<1>5. QED
  BY <1>2, <1>3, <1>4 DEF LedgerStep, Claim, Release, p

\* The calls: a grant is new, a beat that is answered renews, nobody else touches the lock.
LEMMA AskKeepsPrompt ==
  ASSUME LandTypes, BeatsKeepUp, NEW m \in Landers, AskLedger(m), NEW l \in Landers,
         CallOK(l), PromptOK(l)
  PROVE  PromptOK(l)'
<1>1. PICK p \in Procs : LedgerStep(p)
  BY ThreadFacts DEF AskLedger
<1>2. UNCHANGED <<stage, beat, waited, misses, stop>>
  BY DEF AskLedger, landVars, beatVars
<1>3. /\ LandLock \in Units /\ l \in Workers /\ Main(l) \in Procs /\ Beat(l) \in Procs
      /\ Me(Main(l)) = l /\ Main(l) # Beat(l)
  BY ThreadFacts
<1>4. MaxSkew <= StaleAfter
  <2>1. misses[l] * Interval + waited[l] \in Nat
        /\ misses[l] * Interval + waited[l] + MaxSkew <= StaleAfter
    BY BeatsInTime
  <2>2. QED
    BY <2>1, LedgerAssumption
<1>5. ASSUME NEW n \in Nat, n + MaxSkew <= StaleAfter, Beaten(l, n), Holding(l)
      PROVE  ledger'[LandLock].worker = l /\ AgeSeenBy(l, ledger'[LandLock]) <= n
  BY <1>1, <1>5, BeatenStays
<1>6. 0 \in Nat /\ 0 + MaxSkew <= StaleAfter
  BY <1>4, LedgerAssumption
<1>7. CASE stage[l] = "acquiring"
  <2>1. SUFFICES ASSUME Answered(l, "granted")'
                 PROVE  ledger'[LandLock].worker = l /\ AgeSeenBy(l, ledger'[LandLock]) <= 0
    BY <1>2, <1>7 DEF PromptOK, Building, Beaten, AgeSeenBy
  <2>2. CASE Answered(l, "granted")
    BY <1>5, <1>6, <1>7, <2>2 DEF PromptOK, Holding
  <2>3. CASE ~Answered(l, "granted")
    <3>1. Claim(Main(l)) /\ call'[Main(l)].result = "granted" /\ UnitOf(Main(l)) = LandLock
      BY <1>7, <2>1, <2>3, GrantFacts
    <3>2. ledger'[LandLock].worker = l /\ ledger'[LandLock].age = -Skew[l]
      BY <1>3, <3>1, GrantIsFresh DEF LandTypes
    <3>3. Skew[l] \in Int
      BY <1>3, LedgerAssumption
    <3>4. QED
      BY <3>2, <3>3 DEF AgeSeenBy
  <2>4. QED
    BY <2>2, <2>3
<1>8. CASE stage[l] \in Building
  <2>1. Holding(l)
    BY <1>8 DEF Holding, Building
  <2>2. PICK n \in Nat : n = misses[l] * Interval + waited[l]
    BY BeatsInTime
  <2>3. n + MaxSkew <= StaleAfter /\ Beaten(l, n)
    BY <1>8, <2>2, BeatsInTime DEF PromptOK
  <2>4. ledger'[LandLock].worker = l /\ AgeSeenBy(l, ledger'[LandLock]) <= n
    BY <1>5, <2>1, <2>3
  <2>5. Beaten(l, misses[l] * Interval + waited[l])'
    BY <1>2, <2>2, <2>4 DEF Beaten, AgeSeenBy
  <2>6. CASE p = Beat(l)
    <3>1. ledger[LandLock].worker = l
      BY <2>3 DEF Beaten
    <3>2. LedgerStep(Beat(l)) /\ call[Beat(l)].step = "read" => call[Beat(l)].verdict = "own"
      BY <1>1, <1>8, <2>6 DEF PromptOK
    <3>3. /\ call'[Beat(l)].step = "read" => call'[Beat(l)].verdict = "own"
          /\ call'[Beat(l)].step = "idle" => /\ call'[Beat(l)].result = "true"
                                             /\ ledger'[LandLock].worker = l
                                             /\ AgeSeenBy(l, ledger'[LandLock]) <= 0
      BY <1>1, <1>8, <2>6, <3>1, <3>2, BeatRenews DEF PromptOK
    <3>4. QED
      BY <1>2, <1>8, <2>5, <3>3 DEF PromptOK, Building, Idle, Beat, Beaten, AgeSeenBy
  <2>7. CASE p # Beat(l)
    <3>1. call'[Beat(l)] = call[Beat(l)]
      BY <1>1, <1>3, <2>7, CallGoesOn DEF LandTypes
    <3>2. (beat[l] = "beating" /\ Idle(Beat(l))) =>
             ledger'[LandLock].worker = l /\ AgeSeenBy(l, ledger'[LandLock]) <= 0
      BY <1>5, <1>6, <1>8, <2>1 DEF PromptOK
    <3>3. QED
      BY <1>2, <1>8, <2>5, <3>1, <3>2 DEF PromptOK, Building, Idle, Beat, Beaten, AgeSeenBy
  <2>8. QED
    BY <2>6, <2>7
<1>9. QED
  BY <1>2, <1>7, <1>8 DEF PromptOK, Building

\* Time adds to the lock's age what it adds to the wait.
LEMMA TimeKeepsPrompt ==
  ASSUME LandTypes, prompt, Tick, NEW l \in Landers, CallOK(l), PromptOK(l)
  PROVE  PromptOK(l)'
<1>1. UNCHANGED <<call, stage, beat, misses, stop>> /\ LedgerTick /\ ~BeatPending(l)
  BY DEF Tick, LedgerTick, landVars
<1>2. ~(stage[l] = "acquiring" /\ Answered(l, "granted"))
  BY <1>1 DEF BeatPending
<1>3. CASE stage[l] \in Building
  <2>1. /\ ~stop[l] /\ beat[l] = "waiting"
        /\ Beaten(l, misses[l] * Interval + waited[l])
        /\ call[Beat(l)].step = "read" => call[Beat(l)].verdict = "own"
    BY <1>1, <1>3 DEF PromptOK, BeatPending, LandTypes, ThreadTypes
  <2>2. waited[l] < Interval
    BY <1>1, <2>1, BoundFacts DEF BeatPending, Due, LandTypes, ThreadTypes
  <2>3. waited'[l] = waited[l] + 1
    BY <2>1, <2>2 DEF Tick
  <2>4. LandLock \in Units /\ l \in Workers /\ ledger[LandLock] \in Record
    BY ThreadFacts DEF LandTypes, LedgerInv, LedgerTypeOK
  <2>5. ledger[LandLock] # NoRecord /\ ledger[LandLock] \in [worker : Workers, age : Ages]
    BY <2>1, <2>4, NobodyWorks DEF Beaten
  <2>6. ledger[LandLock].age \in Int
    BY <2>5, LedgerAssumption DEF Ages, OldAge
  <2>7. ledger'[LandLock].worker = l /\ ledger'[LandLock].age \in {ledger[LandLock].age,
                                                                  ledger[LandLock].age + 1}
    BY <1>1, <2>1, <2>4, <2>5, <2>6 DEF LedgerTick, Beaten
  <2>8. Skew[l] \in Int /\ waited[l] \in Nat /\ misses[l] * Interval \in Int
    BY <2>4, LedgerAssumption, BoundFacts DEF LandTypes, ThreadTypes
  <2>9. misses'[l] * Interval + waited'[l] = misses[l] * Interval + waited[l] + 1
    BY <1>1, <2>3, <2>8
  <2>10. AgeSeenBy(l, ledger'[LandLock]) <= misses'[l] * Interval + waited'[l]
    BY <2>1, <2>6, <2>7, <2>8, <2>9 DEF Beaten, AgeSeenBy
  <2>11. QED
    BY <1>1, <1>3, <2>1, <2>7, <2>10 DEF PromptOK, Building, Beaten, Beat, AgeSeenBy
<1>4. CASE stage[l] \notin Building
  BY <1>1, <1>2, <1>4 DEF PromptOK, Building, Answered, Idle, Main
<1>5. QED
  BY <1>3, <1>4

PromptInv == prompt /\ BeatsKeepUp => \A l \in Landers : PromptOK(l)

\* Where heartbeats are on time and keep up, every step keeps the lock young.
LEMMA NextPrompt == LandInv /\ PromptInv /\ [Next]_vars => PromptInv'
<1> SUFFICES ASSUME LandInv, PromptInv, [Next]_vars, prompt', BeatsKeepUp, NEW l \in Landers
             PROVE  PromptOK(l)'
  BY DEF PromptInv, BeatsKeepUp
<1>1. prompt
  BY DEF Next, MainStep, BeatStep, TryAcquire, StartBeat, SyncMain, Reconcile, Gate, CheckOwnership,
         Finalize, Discard, Released, StartsBeat, MissesBeat, BeatAnswered, BeatEnds, AskLedger,
         GiveUp, Kill, OutsidePush, Tick, restVars, vars
<1>2. CallOK(l) /\ LandTypes /\ PromptOK(l)
  BY <1>1 DEF LandInv, PromptInv
<1>3. ASSUME NEW m \in Landers, MainStep(m) \/ BeatStep(m) \/ GiveUp(m) \/ Kill(m)
      PROVE  PromptOK(l)'
  BY <1>2, <1>3, OthersUnmoved, MainStepOK, BeatStepOK, EndOK
<1>4. CASE OutsidePush \/ UNCHANGED vars
  BY <1>2, <1>4, LanderUnmoved DEF OutsidePush, vars, ledgerVars, landVars, beatVars, restVars
<1>5. QED
  BY <1>1, <1>2, <1>3, <1>4, AskKeepsPrompt, TimeKeepsPrompt DEF Next

\* While its candidate is built, however long that takes and however many beats in a row are
\* lost, a lander whose heartbeats are on time keeps a lock that nobody finds stale, if the
\* beats and the skew of the clocks fit into a claim's life (the heartbeat loop of Lander).
THEOREM BeatenLockIsLive == Spec => []BeatenLockStaysLive
<1>1. LandInv /\ PromptInv => BeatenLockStaysLive
  <2>1. SUFFICES ASSUME LandInv, PromptInv, prompt, BeatsKeepUp, NEW l \in Landers,
                        stage[l] \in Building
                 PROVE  Held(l, LandLock)
    BY DEF BeatenLockStaysLive, Held, Building
  <2>2. LandTypes /\ PromptOK(l)
    BY <2>1 DEF LandInv, PromptInv
  <2>3. PICK n \in Nat : n = misses[l] * Interval + waited[l]
    BY <2>1, <2>2, BeatsInTime
  <2>4. n + MaxSkew <= StaleAfter /\ Beaten(l, n)
    BY <2>1, <2>2, <2>3, BeatsInTime DEF PromptOK
  <2>5. QED
    BY <2>2, <2>4, BeatenIsHeld
<1>2. Init => PromptInv
  BY InitLand DEF PromptInv
<1>3. QED
  BY <1>1, <1>2, InitLand, NextLand, NextPrompt, PTL DEF Spec
=============================================================================
