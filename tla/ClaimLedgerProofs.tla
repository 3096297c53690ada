-------------------------- MODULE ClaimLedgerProofs --------------------------
(***************************************************************************)
(* What the flock and the rename give the callers of the claim ledger,     *)
(* for any number of processes, workers and units and any clocks.          *)
(*                                                                         *)
(* The invariant: while a process holds a unit's lock, what it concluded   *)
(* from the record it read stays true of the record, whatever time passes: *)
(* no record stays no record, its own stays its own, and a stale record    *)
(* only gets staler.                                                       *)
(***************************************************************************)
EXTENDS ClaimLedger, TLAPS

\* What a process that has read a record may still believe of it.
Believed(p) ==
  /\ call[p].verdict = "none" => ledger[UnitOf(p)] = NoRecord
  /\ call[p].verdict = "own" =>
       /\ ledger[UnitOf(p)] # NoRecord /\ ledger[UnitOf(p)].worker = Me(p)
       /\ call[p].seen # NoRecord /\ call[p].seen.worker = Me(p)
  /\ call[p].verdict = "stale" => Liveness(Me(p), ledger[UnitOf(p)]) = "stale"

LedgerInv ==
  /\ LedgerTypeOK
  /\ \A p \in Procs : call[p].step = "read" => Believed(p)

-----------------------------------------------------------------------------
(* Types.                                                                  *)

\* A worker's record is not the absent one.
LEMMA RecordFacts ==
  ASSUME NEW r \in Record, r # NoRecord
  PROVE  r \in [worker : Workers, age : Ages]
BY DEF Record

\* The absent record names nobody, who is no worker.
LEMMA NobodyWorks ==
  ASSUME NEW r \in Record, r.worker \in Workers
  PROVE  r # NoRecord /\ r \in [worker : Workers, age : Ages]
BY LedgerAssumption DEF Record, NoRecord

\* A call that is under way has an operation, a unit and a record it has seen.
LEMMA CallFacts ==
  ASSUME NEW c \in Calls
  PROVE  /\ c.step \in {"idle", "waiting", "read"}
         /\ c.step # "idle" =>
              c \in [op : Ops, unit : Units, step : {"waiting", "read"}, seen : Record,
                     verdict : Verdicts, result : {"none"}]
BY DEF Calls, NoCall

\* What is said of no call, of a call that is made and of an answer is a call.
LEMMA CallShapes ==
  /\ NoCall \in Calls
  /\ \A r \in Results : [NoCall EXCEPT !.result = r] \in Calls
  /\ \A op \in Ops, u \in Units :
       [NoCall EXCEPT !.op = op, !.unit = u, !.step = "waiting"] \in Calls
<1>1. \A r \in Results : [NoCall EXCEPT !.result = r] \in Calls
  BY DEF Calls
<1>2. NoCall = [NoCall EXCEPT !.result = "none"]
  BY DEF NoCall
<1>3. "none" \in Results
  BY DEF Results
<1>4. ASSUME NEW op \in Ops, NEW u \in Units
      PROVE  [NoCall EXCEPT !.op = op, !.unit = u, !.step = "waiting"] \in Calls
  BY <1>4 DEF NoCall, Calls, Record, Verdicts
<1>5. QED
  BY <1>1, <1>2, <1>3, <1>4

\* The record a worker writes carries its own name and a time it can read.
LEMMA FreshFacts ==
  ASSUME NEW p \in Procs
  PROVE  /\ -Skew[Me(p)] \in Ages
         /\ Fresh(Me(p)) \in Record
         /\ Fresh(Me(p)).worker = Me(p)
         /\ Me(p) \in Workers
BY LedgerAssumption DEF Me, Fresh, Record, Ages, OldAge

\* A verdict is one of the five.
LEMMA VerdictFacts ==
  ASSUME NEW p \in Procs, NEW r \in Record
  PROVE  /\ Verdict(p, r) \in Verdicts
         /\ Verdict(p, r) = "none" => r = NoRecord
         /\ Verdict(p, r) = "own" => r # NoRecord /\ r.worker = Me(p)
         /\ Verdict(p, r) = "stale" => Liveness(Me(p), r) = "stale"
BY DEF Verdict, Verdicts, Liveness

-----------------------------------------------------------------------------
(* The invariant, step by step.                                            *)

\* The ledger starts with no record, no lock and no call.
LEMMA InitLedgerInv == LedgerInit => LedgerInv
<1>1. \A p \in Procs : LedgerInit => call[p].step = "idle"
  BY DEF LedgerInit, NoCall
<1>2. NoRecord \in Record
  BY DEF Record
<1>3. QED
  BY <1>1, <1>2, CallShapes DEF LedgerInit, LedgerInv, LedgerTypeOK

\* Asking touches neither a record nor a lock.
LEMMA CallKeeps ==
  ASSUME LedgerInv, NEW p \in Procs, NEW op \in Ops, NEW u \in Units, Call(p, op, u)
  PROVE  LedgerInv'
<1>1. call' \in [Procs -> Calls]
  BY CallShapes DEF Call, LedgerInv, LedgerTypeOK
<1>2. ASSUME NEW q \in Procs, call'[q].step = "read"
      PROVE  q # p /\ call'[q] = call[q]
  BY <1>2 DEF Call, LedgerInv, LedgerTypeOK, NoCall
<1>3. QED
  BY <1>1, <1>2 DEF Call, LedgerInv, LedgerTypeOK, Believed, UnitOf

\* Taking the lock judges the record as it is.
LEMMA LockKeeps ==
  ASSUME LedgerInv, NEW p \in Procs, Lock(p)
  PROVE  LedgerInv'
<1> DEFINE u == call[p].unit
<1>1. /\ call[p] \in [op : Ops, unit : Units, step : {"waiting", "read"}, seen : Record,
                      verdict : Verdicts, result : {"none"}]
      /\ u \in Units /\ ledger[u] \in Record
  BY CallFacts DEF Lock, LedgerInv, LedgerTypeOK
<1>2. call' = [call EXCEPT ![p] = [call[p] EXCEPT !.step = "read", !.seen = ledger[u],
                                                  !.verdict = Verdict(p, ledger[u])]]
  BY DEF Lock, Judged, UnitOf, LedgerInv, LedgerTypeOK
<1>3. Verdict(p, ledger[u]) \in Verdicts
  BY <1>1, VerdictFacts
<1>4. [call[p] EXCEPT !.step = "read", !.seen = ledger[u],
                      !.verdict = Verdict(p, ledger[u])] \in Calls
  BY <1>1, <1>3 DEF Calls
<1>5. LedgerTypeOK'
  <2>1. call' \in [Procs -> Calls]
    BY <1>2, <1>4 DEF LedgerInv, LedgerTypeOK
  <2>2. ledger' = ledger /\ flock' = [flock EXCEPT ![u] = p]
    BY DEF Lock, UnitOf
  <2>3. ASSUME NEW q \in Procs, call'[q].step = "read"
        PROVE  flock'[UnitOf(q)'] = q
    <3>1. CASE q = p
      BY <1>1, <1>2, <2>2, <3>1 DEF LedgerInv, LedgerTypeOK, UnitOf
    <3>2. CASE q # p
      <4>1. call'[q] = call[q] /\ flock[call[q].unit] = q
        BY <1>2, <2>3, <3>2 DEF LedgerInv, LedgerTypeOK, UnitOf
      <4>2. flock[u] = NoProc
        BY DEF Lock, UnitOf
      <4>3. QED
        BY <4>1, <4>2, <2>2, LedgerAssumption DEF LedgerInv, LedgerTypeOK, UnitOf
    <3>3. QED
      BY <3>1, <3>2
  <2>4. QED
    BY <1>1, <2>1, <2>2, <2>3 DEF LedgerInv, LedgerTypeOK
<1>6. ASSUME NEW q \in Procs, call'[q].step = "read"
      PROVE  Believed(q)'
  <2>1. CASE q = p
    <3>1. /\ call'[p].unit = u /\ call'[p].seen = ledger[u]
          /\ call'[p].verdict = Verdict(p, ledger[u])
      BY <1>1, <1>2 DEF LedgerInv, LedgerTypeOK
    <3>2. QED
      BY <2>1, <3>1, <1>1, VerdictFacts DEF Believed, UnitOf, Lock, Liveness, AgeSeenBy, Me
  <2>2. CASE q # p
    BY <1>2, <1>6, <2>2 DEF LedgerInv, LedgerTypeOK, Believed, UnitOf, Lock
  <2>3. QED
    BY <2>1, <2>2
<1>7. QED
  BY <1>5, <1>6 DEF LedgerInv

\* A call that returns, whatever it did to its own unit's record, leaves the others' alone:
\* nobody else holds that unit's lock.
LEMMA ReturnKeeps ==
  ASSUME LedgerInv, NEW p \in Procs, call[p].step = "read",
         NEW res \in Results, Return(p, res),
         NEW r \in Record, ledger' \in {ledger, [ledger EXCEPT ![UnitOf(p)] = r]}
  PROVE  LedgerInv'
<1> DEFINE u == call[p].unit
<1>1. u \in Units /\ flock[u] = p
  BY CallFacts DEF LedgerInv, LedgerTypeOK, UnitOf
<1>2. call' = [call EXCEPT ![p] = [NoCall EXCEPT !.result = res]]
  BY DEF Return
<1>3. flock' = [flock EXCEPT ![u] = NoProc]
  BY DEF Return, UnitOf
<1>4. /\ ledger' \in [Units -> Record]
      /\ flock' \in [Units -> Procs \cup {NoProc}]
      /\ call' \in [Procs -> Calls]
  BY <1>1, <1>2, <1>3, CallShapes DEF LedgerInv, LedgerTypeOK, UnitOf
<1>5. ASSUME NEW q \in Procs, call'[q].step = "read"
      PROVE  /\ q # p /\ call'[q] = call[q]
             /\ call[q].unit \in Units /\ call[q].unit # u
             /\ flock[call[q].unit] = q
  <2>1. q # p /\ call'[q] = call[q]
    BY <1>2, <1>5 DEF LedgerInv, LedgerTypeOK, NoCall
  <2>2. QED
    BY <1>1, <1>5, <2>1, CallFacts DEF LedgerInv, LedgerTypeOK, UnitOf
<1>6. ASSUME NEW q \in Procs, call'[q].step = "read"
      PROVE  flock'[UnitOf(q)'] = q /\ Believed(q)'
  <2>1. ledger'[call[q].unit] = ledger[call[q].unit] /\ flock'[call[q].unit] = q
    BY <1>1, <1>3, <1>5, <1>6 DEF LedgerInv, LedgerTypeOK, UnitOf
  <2>2. call[q].step = "read" /\ Believed(q)
    BY <1>5, <1>6 DEF LedgerInv
  <2>3. QED
    BY <1>5, <1>6, <2>1, <2>2 DEF Believed, UnitOf, Liveness, AgeSeenBy, Me
<1>7. QED
  BY <1>4, <1>6 DEF LedgerInv, LedgerTypeOK

\* The three operations return under the lock they hold.
LEMMA OperationKeeps ==
  ASSUME LedgerInv, NEW p \in Procs, Claim(p) \/ Heartbeat(p) \/ Release(p)
  PROVE  LedgerInv'
<1>1. call[p] \in [op : Ops, unit : Units, step : {"waiting", "read"}, seen : Record,
                   verdict : Verdicts, result : {"none"}]
  BY CallFacts DEF Claim, Heartbeat, Release, LedgerInv, LedgerTypeOK
<1>2. NoRecord \in Record /\ Fresh(Me(p)) \in Record
  BY FreshFacts DEF Record
<1>3. CASE Claim(p)
  <2>1. call[p].step = "read"
    BY <1>3 DEF Claim
  <2>2. CASE Refuses(call[p].verdict) /\ Return(p, call[p].verdict) /\ UNCHANGED ledger
    <3>1. call[p].verdict \in Results
      BY <2>2 DEF Refuses, Results
    <3>2. QED
      BY <2>1, <2>2, <3>1, <1>2, ReturnKeeps
  <2>3. CASE Publish(p, Fresh(Me(p))) /\ Return(p, "granted")
    BY <2>1, <2>3, <1>2, ReturnKeeps DEF Publish, Results
  <2>4. QED
    BY <1>3, <2>2, <2>3 DEF Claim
<1>4. CASE Heartbeat(p)
  <2>1. call[p].step = "read"
    BY <1>4 DEF Heartbeat
  <2>2. CASE Refreshes(call[p].verdict)
    <3> DEFINE r == [call[p].seen EXCEPT !.age = -Skew[Me(p)]]
    <3>1. call[p].seen # NoRecord
      BY <2>1, <2>2 DEF Refreshes, LedgerInv, Believed
    <3>2. call[p].seen \in [worker : Workers, age : Ages]
      BY <1>1, <3>1, RecordFacts
    <3>3. r \in Record
      BY <3>2, FreshFacts DEF Record
    <3>4. ledger' = [ledger EXCEPT ![UnitOf(p)] = r] /\ Return(p, "true")
      BY <1>4, <2>2 DEF Heartbeat, Publish
    <3>5. QED
      BY <2>1, <3>3, <3>4, ReturnKeeps DEF Results
  <2>3. CASE ~Refreshes(call[p].verdict)
    <3>1. Return(p, "false") /\ UNCHANGED ledger
      BY <1>4, <2>3 DEF Heartbeat
    <3>2. QED
      BY <2>1, <3>1, <1>2, ReturnKeeps DEF Results
  <2>4. QED
    BY <2>2, <2>3
<1>5. CASE Release(p)
  <2>1. call[p].step = "read"
    BY <1>5 DEF Release
  <2>2. CASE Publish(p, NoRecord) /\ Return(p, "true")
    BY <2>1, <2>2, <1>2, ReturnKeeps DEF Publish, Results
  <2>3. CASE Return(p, "false") /\ UNCHANGED ledger
    BY <2>1, <2>3, <1>2, ReturnKeeps DEF Results
  <2>4. QED
    BY <1>5, <2>2, <2>3 DEF Release
<1>6. QED
  BY <1>3, <1>4, <1>5

\* A killed process loses its call and its locks together.
LEMMA KilledKeeps ==
  ASSUME LedgerInv, NEW dead \in SUBSET Procs, Killed(dead)
  PROVE  LedgerInv'
<1>1. /\ ledger' = ledger
      /\ flock' \in [Units -> Procs \cup {NoProc}]
      /\ call' \in [Procs -> Calls]
  BY CallShapes DEF Killed, LedgerInv, LedgerTypeOK
<1>2. ASSUME NEW q \in Procs, call'[q].step = "read"
      PROVE  q \notin dead /\ call'[q] = call[q] /\ call[q].unit \in Units
  <2>1. q \notin dead /\ call'[q] = call[q]
    BY <1>2 DEF Killed, NoCall
  <2>2. QED
    BY <1>2, <2>1, CallFacts DEF LedgerInv, LedgerTypeOK
<1>3. ASSUME NEW q \in Procs, call'[q].step = "read"
      PROVE  flock'[UnitOf(q)'] = q /\ Believed(q)'
  <2>1. flock[UnitOf(q)] = q /\ Believed(q)
    BY <1>2, <1>3 DEF LedgerInv, LedgerTypeOK
  <2>2. QED
    BY <1>1, <1>2, <1>3, <2>1 DEF Killed, Believed, UnitOf, Liveness, AgeSeenBy, Me
<1>4. QED
  BY <1>1, <1>3 DEF LedgerInv, LedgerTypeOK

\* Time only makes a record older, and an old one stale for everybody who found it stale.
LEMMA TickFacts ==
  ASSUME LedgerInv, LedgerTick, NEW u \in Units
  PROVE  /\ ledger'[u] \in Record
         /\ ledger'[u].worker = ledger[u].worker
         /\ ledger[u] = NoRecord <=> ledger'[u] = NoRecord
         /\ ledger'[u].age >= ledger[u].age
         /\ \A w \in Workers : Liveness(w, ledger[u]) = "stale" =>
                                 Liveness(w, ledger'[u]) = "stale"
<1>1. ledger[u] \in Record
  BY DEF LedgerInv, LedgerTypeOK
<1>2. CASE ledger[u] = NoRecord
  BY <1>1, <1>2 DEF LedgerTick, NoRecord
<1>3. CASE ledger[u] # NoRecord
  <2>1. ledger[u] \in [worker : Workers, age : Ages]
    BY <1>1, <1>3, RecordFacts
  <2>2. ledger'[u] = ledger[u] \/
        (ledger[u].age < OldAge /\ ledger'[u] = [worker |-> ledger[u].worker,
                                                 age |-> ledger[u].age + 1])
    BY <1>3, <2>1 DEF LedgerTick
  <2>3. ledger[u].age \in Ages /\ ledger[u].age \in Int
    BY <2>1, LedgerAssumption DEF Ages, OldAge
  <2>4. CASE ledger'[u] = ledger[u]
    BY <1>1, <1>3, <2>3, <2>4
  <2>5. CASE ledger[u].age < OldAge /\ ledger'[u] = [worker |-> ledger[u].worker,
                                                     age |-> ledger[u].age + 1]
    <3>1. ledger[u].age + 1 \in Ages
      BY <2>3, <2>5, LedgerAssumption DEF Ages, OldAge
    <3>2. ledger'[u] \in [worker : Workers, age : Ages]
      BY <2>1, <2>5, <3>1
    <3>3. ledger'[u] \in Record /\ ledger'[u] # NoRecord
      BY <3>2, LedgerAssumption DEF Record, NoRecord
    <3>4. \A w \in Workers : Liveness(w, ledger[u]) = "stale" =>
                               Liveness(w, ledger'[u]) = "stale"
      <4>1. SUFFICES ASSUME NEW w \in Workers, Liveness(w, ledger[u]) = "stale"
                     PROVE  Liveness(w, ledger'[u]) = "stale"
        OBVIOUS
      <4>2. Skew[w] \in Int /\ Tolerance \in Nat /\ StaleAfter \in Nat
        BY LedgerAssumption
      <4>3. ledger[u].age + Skew[w] > StaleAfter
        BY <4>1 DEF Liveness, AgeSeenBy
      <4>4. ledger'[u].age = ledger[u].age + 1
        BY <2>5
      <4>5. ledger'[u].age + Skew[w] > StaleAfter /\ ~(ledger'[u].age + Skew[w] < -Tolerance)
        BY <2>3, <4>2, <4>3, <4>4
      <4>6. QED
        BY <4>5 DEF Liveness, AgeSeenBy
    <3>5. QED
      BY <1>3, <2>3, <2>5, <3>3, <3>4
  <2>6. QED
    BY <2>2, <2>4, <2>5
<1>4. QED
  BY <1>2, <1>3

\* So time passing takes nothing from what a lock holder believes.
LEMMA TickKeeps ==
  ASSUME LedgerInv, LedgerTick
  PROVE  LedgerInv'
<1>1. flock' = flock /\ call' = call
  BY DEF LedgerTick
<1>2. ledger' \in [Units -> Record]
  BY TickFacts DEF LedgerTick, LedgerInv, LedgerTypeOK
<1>3. ASSUME NEW q \in Procs, call[q].step = "read"
      PROVE  Believed(q)'
  <2>1. call[q].unit \in Units /\ Believed(q) /\ Me(q) \in Workers
    BY <1>3, CallFacts, FreshFacts DEF LedgerInv, LedgerTypeOK
  <2>2. UnitOf(q)' = UnitOf(q) /\ UnitOf(q) \in Units
    BY <1>1, <2>1 DEF UnitOf
  <2>3. QED
    BY <1>1, <2>1, <2>2, TickFacts DEF Believed, Me
<1>4. QED
  BY <1>1, <1>2, <1>3 DEF LedgerInv, LedgerTypeOK, UnitOf

\* Every step of the ledger keeps the invariant.
LEMMA NextKeeps == LedgerInv /\ [LedgerNext]_ledgerVars => LedgerInv'
<1>1. ASSUME LedgerInv, UNCHANGED ledgerVars
      PROVE  LedgerInv'
  BY <1>1 DEF ledgerVars, LedgerInv, LedgerTypeOK, Believed, UnitOf, Liveness, AgeSeenBy
<1>2. ASSUME LedgerInv, LedgerNext
      PROVE  LedgerInv'
  BY <1>2, CallKeeps, LockKeeps, OperationKeeps, KilledKeeps, TickKeeps
     DEF LedgerNext, LedgerStep
<1>3. QED
  BY <1>1, <1>2

\* The invariant holds of every behaviour of the ledger.
THEOREM LedgerInvariant == LedgerSpec => []LedgerInv
<1>1. QED
  BY InitLedgerInv, NextKeeps, PTL DEF LedgerSpec

\* Type correctness of claim.py's ledger under any callers: records are workers' records,
\* and whoever has read one holds its unit's lock.
THEOREM LedgerTypeCorrect == LedgerSpec => []LedgerTypeOK
<1>1. LedgerInv => LedgerTypeOK
  BY DEF LedgerInv
<1>2. QED
  BY <1>1, LedgerInvariant, PTL

-----------------------------------------------------------------------------
(* What a step may do to a record.                                         *)

\* A record that is written, and nothing but time, changes under the lock of its unit, by
\* the three operations.
LEMMA WriterHoldsLock ==
  ASSUME LedgerInv, [LedgerNext]_ledgerVars, NEW u \in Units, ledger'[u] # ledger[u], ~LedgerTick
  PROVE  \E p \in Procs :
           /\ flock[u] = p /\ UnitOf(p) = u /\ call[p].step = "read"
           /\ \/ /\ ledger'[u] = Fresh(Me(p)) /\ ~Refuses(call[p].verdict)
                 /\ call[p].op = "claim"
              \/ /\ ledger'[u] = [call[p].seen EXCEPT !.age = -Skew[Me(p)]]
                 /\ call[p].verdict = "own" /\ call[p].op = "heartbeat"
              \/ /\ ledger'[u] = NoRecord /\ call[p].verdict = "own"
                 /\ call[p].op = "release"
<1>1. ledger' # ledger
  OBVIOUS
<1>2. PICK p \in Procs : Claim(p) \/ Heartbeat(p) \/ Release(p)
  BY <1>1 DEF LedgerNext, LedgerStep, Call, Lock, Killed, ledgerVars
<1>3. call[p].step = "read" /\ call[p].unit \in Units /\ flock[call[p].unit] = p
  BY <1>2, CallFacts DEF Claim, Heartbeat, Release, LedgerInv, LedgerTypeOK, UnitOf
<1>4. ledger \in [Units -> Record]
  BY DEF LedgerInv, LedgerTypeOK
<1>5. QED
  BY <1>1, <1>2, <1>3, <1>4
     DEF Claim, Heartbeat, Release, Publish, UnitOf, Refreshes, Removes

\* A live claim is never stolen, by however many racing callers and however late a decision
\* is carried out (claim, heartbeat and release of claim.py).
THEOREM NoLiveClaimStolen == LedgerSpec => LiveClaimIsNeverStolen
<1> DEFINE Kept(u) ==
      (ledger[u] # NoRecord /\ ledger'[u].worker # ledger[u].worker) =>
        \E p \in Procs : flock[u] = p /\ (\/ Me(p) = ledger[u].worker
                                         \/ Liveness(Me(p), ledger[u]) = "stale")
<1>1. ASSUME LedgerInv, [LedgerNext]_ledgerVars, NEW u \in Units
      PROVE  Kept(u)
  <2>1. SUFFICES ASSUME ledger[u] # NoRecord, ledger'[u].worker # ledger[u].worker
                 PROVE  \E p \in Procs : flock[u] = p /\ (\/ Me(p) = ledger[u].worker
                                                         \/ Liveness(Me(p), ledger[u]) = "stale")
    OBVIOUS
  <2>2. ~LedgerTick
    BY <1>1, <2>1, TickFacts
  <2>3. PICK p \in Procs :
           /\ flock[u] = p /\ UnitOf(p) = u /\ call[p].step = "read"
           /\ \/ ledger'[u] = Fresh(Me(p)) /\ ~Refuses(call[p].verdict)
              \/ /\ ledger'[u] = [call[p].seen EXCEPT !.age = -Skew[Me(p)]]
                 /\ call[p].verdict = "own"
              \/ ledger'[u] = NoRecord /\ call[p].verdict = "own"
    BY <1>1, <2>1, <2>2, WriterHoldsLock
  <2>4. call[p].verdict \in Verdicts /\ Believed(p)
    BY <1>1, <2>3, CallFacts DEF LedgerInv, LedgerTypeOK
  <2>5. call[p].verdict \in {"none", "own", "stale"}
    BY <2>3, <2>4 DEF Refuses, Verdicts
  <2>6. QED
    BY <2>1, <2>3, <2>4, <2>5 DEF Believed
<1>2. LedgerInv /\ [LedgerNext]_ledgerVars => [\A u \in Units : Kept(u)]_ledgerVars
  BY <1>1
<1>3. QED
  BY <1>2, LedgerInvariant, PTL DEF LedgerSpec, LiveClaimIsNeverStolen

\* Only the holder makes a record younger: no heartbeat, however late, prolongs or brings
\* back a claim that is another worker's by now.
THEOREM HolderRefreshes == LedgerSpec => OnlyTheHolderRefreshes
<1> DEFINE Kept(u) ==
      (ledger'[u] # NoRecord /\ (ledger[u] = NoRecord \/ ledger'[u].age < ledger[u].age)) =>
        \E p \in Procs : flock[u] = p /\ Me(p) = ledger'[u].worker
<1>1. ASSUME LedgerInv, [LedgerNext]_ledgerVars, NEW u \in Units
      PROVE  Kept(u)
  <2>1. SUFFICES ASSUME ledger'[u] # NoRecord,
                        ledger[u] = NoRecord \/ ledger'[u].age < ledger[u].age
                 PROVE  \E p \in Procs : flock[u] = p /\ Me(p) = ledger'[u].worker
    OBVIOUS
  <2>2. ledger[u] \in Record /\ (ledger[u].age \in Int)
    BY <1>1, RecordFacts, LedgerAssumption DEF LedgerInv, LedgerTypeOK, Ages, OldAge, NoRecord, Record
  <2>3. ~LedgerTick /\ ledger'[u] # ledger[u]
    <3>1. ledger'[u] # ledger[u]
      BY <2>1, <2>2
    <3>2. ASSUME LedgerTick PROVE FALSE
      <4>1. /\ ledger'[u] \in Record
            /\ ledger[u] = NoRecord <=> ledger'[u] = NoRecord
            /\ ledger'[u].age >= ledger[u].age
        BY <1>1, <3>2, TickFacts
      <4>2. ledger'[u].age \in Int
        BY <2>1, <4>1, RecordFacts, LedgerAssumption DEF Ages, OldAge
      <4>3. QED
        BY <2>1, <2>2, <4>1, <4>2
    <3>3. QED
      BY <3>1, <3>2
  <2>4. PICK p \in Procs :
           /\ flock[u] = p /\ UnitOf(p) = u /\ call[p].step = "read"
           /\ \/ ledger'[u] = Fresh(Me(p)) /\ ~Refuses(call[p].verdict)
              \/ /\ ledger'[u] = [call[p].seen EXCEPT !.age = -Skew[Me(p)]]
                 /\ call[p].verdict = "own"
              \/ ledger'[u] = NoRecord /\ call[p].verdict = "own"
    BY <1>1, <2>3, WriterHoldsLock
  <2>5. CASE ledger'[u] = Fresh(Me(p))
    BY <2>4, <2>5, FreshFacts
  <2>6. CASE ledger'[u] = [call[p].seen EXCEPT !.age = -Skew[Me(p)]] /\ call[p].verdict = "own"
    <3>1. call[p].seen # NoRecord /\ call[p].seen.worker = Me(p)
      BY <1>1, <2>4, <2>6 DEF LedgerInv, Believed
    <3>2. call[p].seen \in [worker : Workers, age : Ages]
      BY <1>1, <2>4, <3>1, CallFacts, RecordFacts DEF LedgerInv, LedgerTypeOK
    <3>3. QED
      BY <2>4, <2>6, <3>1, <3>2
  <2>7. QED
    BY <2>1, <2>4, <2>5, <2>6
<1>2. LedgerInv /\ [LedgerNext]_ledgerVars => [\A u \in Units : Kept(u)]_ledgerVars
  BY <1>1
<1>3. QED
  BY <1>2, LedgerInvariant, PTL DEF LedgerSpec, OnlyTheHolderRefreshes
-----------------------------------------------------------------------------
(* What a holder keeps.                                                    *)

\* A worker holds a unit as everybody sees it: the record is its own and by nobody's clock
\* stale.
Held(w, u) ==
  /\ ledger[u].worker = w
  /\ \A v \in Workers : Liveness(v, ledger[u]) # "stale"

\* A record written now is stale by nobody's clock, when clocks differ by less than a claim
\* lives.
LEMMA WrittenIsLive ==
  ASSUME MaxSkew <= StaleAfter, NEW w \in Workers, NEW v \in Workers,
         NEW r, r.age = -Skew[w]
  PROVE  Liveness(v, r) # "stale"
<1>1. Skew[w] \in 0..MaxSkew /\ Skew[v] \in 0..MaxSkew /\ MaxSkew \in Nat /\ StaleAfter \in Nat
  BY LedgerAssumption
<1>2. r.age + Skew[v] <= StaleAfter
  BY <1>1
<1>3. QED
  BY <1>2, <1>1 DEF Liveness, AgeSeenBy

\* A record that a worker holds, every step but time leaves alone or has the holder renew,
\* unless the holder releases it (claim, heartbeat and release of claim.py).
LEMMA HolderWrites ==
  ASSUME LedgerInv, [LedgerNext]_ledgerVars, ~LedgerTick,
         NEW u \in Units, NEW w \in Workers, Held(w, u)
  PROVE  \/ ledger'[u] = ledger[u]
         \/ ledger'[u].worker = w /\ ledger'[u].age = -Skew[w]
         \/ \E p \in Procs : Me(p) = w /\ call[p].step = "read" /\ call[p].op = "release"
<1>1. SUFFICES ASSUME ledger'[u] # ledger[u]
               PROVE  \/ ledger'[u].worker = w /\ ledger'[u].age = -Skew[w]
                      \/ \E p \in Procs : /\ Me(p) = w
                                          /\ call[p].step = "read" /\ call[p].op = "release"
  OBVIOUS
<1>2. PICK p \in Procs :
         /\ flock[u] = p /\ UnitOf(p) = u /\ call[p].step = "read"
         /\ \/ /\ ledger'[u] = Fresh(Me(p)) /\ ~Refuses(call[p].verdict)
               /\ call[p].op = "claim"
            \/ /\ ledger'[u] = [call[p].seen EXCEPT !.age = -Skew[Me(p)]]
               /\ call[p].verdict = "own" /\ call[p].op = "heartbeat"
            \/ /\ ledger'[u] = NoRecord /\ call[p].verdict = "own"
               /\ call[p].op = "release"
  BY <1>1, WriterHoldsLock
<1>3. call[p].verdict \in Verdicts /\ Believed(p) /\ call[p].seen \in Record /\ Me(p) \in Workers
  BY <1>2, CallFacts, FreshFacts DEF LedgerInv, LedgerTypeOK
<1>4. call[p].verdict = "own"
  <2>1. ledger[u] # NoRecord
    BY LedgerAssumption DEF Held, NoRecord
  <2>2. call[p].verdict # "stale"
    BY <1>2, <1>3 DEF Believed, Held
  <2>3. QED
    BY <1>2, <1>3, <2>1, <2>2 DEF Verdicts, Refuses, Believed
<1>5. Me(p) = w /\ call[p].seen.worker = w /\ call[p].seen # NoRecord
  BY <1>2, <1>3, <1>4 DEF Believed, Held
<1>6. CASE ledger'[u] = Fresh(Me(p))
  BY <1>5, <1>6 DEF Fresh
<1>7. CASE ledger'[u] = [call[p].seen EXCEPT !.age = -Skew[Me(p)]]
  <2>1. call[p].seen \in [worker : Workers, age : Ages]
    BY <1>3, <1>5, RecordFacts
  <2>2. QED
    BY <1>5, <1>7, <2>1
<1>8. QED
  BY <1>2, <1>5, <1>6, <1>7

\* A claim that is granted is written by its holder now.
LEMMA GrantIsFresh ==
  ASSUME LedgerInv, NEW p \in Procs, Claim(p), call'[p].result = "granted",
         NEW u, u = UnitOf(p)
  PROVE  ledger'[u].worker = Me(p) /\ ledger'[u].age = -Skew[Me(p)]
<1>1. u \in Units /\ call[p].verdict \in Verdicts /\ ledger \in [Units -> Record]
      /\ Me(p) \in Workers
  BY CallFacts, FreshFacts DEF Claim, LedgerInv, LedgerTypeOK, UnitOf
<1>2. ledger' = [ledger EXCEPT ![u] = Fresh(Me(p))]
  <2>1. ~Refuses(call[p].verdict)
    <3>1. ASSUME Refuses(call[p].verdict), Return(p, call[p].verdict)
          PROVE  FALSE
      BY <3>1 DEF Return, Refuses, NoCall, LedgerInv, LedgerTypeOK
    <3>2. QED
      BY <3>1 DEF Claim
  <2>2. QED
    BY <2>1 DEF Claim, Publish
<1>3. QED
  BY <1>1, <1>2 DEF Fresh

\* And so it is held.
LEMMA GrantIsHeld ==
  ASSUME MaxSkew <= StaleAfter, LedgerInv, NEW p \in Procs, Claim(p), call'[p].result = "granted",
         NEW u, u = UnitOf(p)
  PROVE  Held(Me(p), u)'
<1>1. Me(p) \in Workers /\ ledger'[u].worker = Me(p) /\ ledger'[u].age = -Skew[Me(p)]
  BY GrantIsFresh, FreshFacts
<1>2. \A v \in Workers : Liveness(v, ledger'[u]) # "stale"
  BY <1>1, WrittenIsLive
<1>3. QED
  BY <1>1, <1>2 DEF Held, Me, Liveness, AgeSeenBy

\* So does every step of a call but the holder's own release.
LEMMA HeldUnderCalls ==
  ASSUME LedgerInv, NEW p \in Procs, LedgerStep(p),
         NEW u \in Units, NEW w \in Workers, Held(w, u),
         \A q \in Procs : Me(q) = w => ~(call[q].step = "read" /\ call[q].op = "release")
  PROVE  \/ ledger'[u] = ledger[u]
         \/ ledger'[u].worker = w /\ ledger'[u].age = -Skew[w]
<1>1. CASE Lock(p)
  BY <1>1 DEF Lock
<1>2. CASE Claim(p) \/ Heartbeat(p) \/ Release(p)
  <2>1. call'[p] # call[p]
    BY <1>2 DEF Claim, Heartbeat, Release, Return, NoCall, LedgerInv, LedgerTypeOK
  <2>2. ~LedgerTick
    BY <2>1 DEF LedgerTick
  <2>3. [LedgerNext]_ledgerVars
    BY <1>2 DEF LedgerNext, LedgerStep
  <2>4. QED
    BY <2>2, <2>3, HolderWrites
<1>3. QED
  BY <1>1, <1>2 DEF LedgerStep

\* So a claim stays held under every step of a call but its holder's release.
LEMMA HeldStays ==
  ASSUME MaxSkew <= StaleAfter, LedgerInv, NEW p \in Procs, LedgerStep(p),
         NEW u \in Units, NEW w \in Workers, Held(w, u),
         \A q \in Procs : Me(q) = w => ~(call[q].step = "read" /\ call[q].op = "release")
  PROVE  Held(w, u)'
<1>1. CASE ledger'[u] = ledger[u]
  BY <1>1 DEF Held, Liveness, AgeSeenBy
<1>2. CASE ledger'[u].worker = w /\ ledger'[u].age = -Skew[w]
  BY <1>2, WrittenIsLive DEF Held, Liveness, AgeSeenBy
<1>3. QED
  BY <1>1, <1>2, HeldUnderCalls

\* A call that is under way goes on as it was asked, or returns; only its own process moves it.
LEMMA CallGoesOn ==
  ASSUME LedgerInv, NEW p \in Procs, LedgerStep(p)
  PROVE  /\ \A q \in Procs : q # p => call'[q] = call[q]
         /\ call[p].step # "idle"
         /\ call'[p].step # "idle" => /\ call'[p].op = call[p].op
                                      /\ call'[p].unit = call[p].unit
         /\ (call'[p].step = "idle" /\ call[p].op = "claim") => Claim(p)
<1>1. CASE Lock(p)
  BY <1>1, CallFacts DEF Lock, Judged, LedgerInv, LedgerTypeOK
<1>2. CASE Claim(p) \/ Heartbeat(p) \/ Release(p)
  BY <1>2 DEF Claim, Heartbeat, Release, Return, NoCall, LedgerInv, LedgerTypeOK
<1>3. QED
  BY <1>1, <1>2 DEF LedgerStep
=============================================================================
