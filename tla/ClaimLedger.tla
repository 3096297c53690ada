----------------------------- MODULE ClaimLedger -----------------------------
(***************************************************************************)
(* The claim ledger of the fleet (.veldo/claim.py): one record per unit,   *)
(* read and written under the unit's flock, published by an atomic rename. *)
(* A record whose heartbeat is older than StaleAfter is free for the       *)
(* taking; one from further in the future than Tolerance is nobody's.      *)
(* Holding the lock, a caller reads, judges by its own clock, and writes;  *)
(* time passes and it may be killed between any two of these.              *)
(*                                                                         *)
(* Time is relative: a record carries the age of its heartbeat on a clock  *)
(* nobody owns, and a worker's clock is off by Skew[w]; ages stop counting *)
(* where every reader judges the record stale.  Abstracted: capabilities   *)
(* (decided before the record is read) and unreadable records (judged as   *)
(* none); the stamp of a record and its rename are one step.  External:    *)
(* flock, which the kernel drops when its holder dies, and os.replace.     *)
(***************************************************************************)
EXTENDS Integers, FiniteSets

CONSTANTS
  Procs,       \* processes and threads that call the ledger
  NoProc,
  Workers,     \* worker ids
  WorkerOf,    \* the worker id each process calls under
  Units,
  Skew,        \* Skew[w]: how far ahead worker w's clock is
  StaleAfter,  \* STALE_AFTER_SECONDS, in ticks
  Tolerance,   \* CLOCK_SKEW_TOLERANCE_SECONDS, in ticks
  MaxSkew      \* a bound on Skew

ASSUME LedgerAssumption ==
  /\ NoProc \notin Procs
  /\ "nobody" \notin Workers
  /\ WorkerOf \in [Procs -> Workers]
  /\ MaxSkew \in Nat /\ StaleAfter \in Nat /\ Tolerance \in Nat
  /\ Skew \in [Workers -> 0..MaxSkew]

VARIABLES
  ledger,  \* the record of each unit
  flock,   \* who holds each unit's lock
  call     \* what each process is asking the ledger

ledgerVars == <<ledger, flock, call>>

NoRecord == [worker |-> "nobody", age |-> 0]
\* The age at which every reader judges a record stale.
OldAge == StaleAfter + 1
Ages == (-MaxSkew)..OldAge

NoCall == [op |-> "none", unit |-> "none", step |-> "idle", seen |-> NoRecord,
           verdict |-> "none", result |-> "none"]

LedgerInit ==
  /\ ledger = [u \in Units |-> NoRecord]
  /\ flock = [u \in Units |-> NoProc]
  /\ call = [p \in Procs |-> NoCall]

Me(p) == WorkerOf[p]
UnitOf(p) == call[p].unit

\* How old a record's heartbeat is on a worker's clock.
AgeSeenBy(w, r) == r.age + Skew[w]

\* liveness: the two directions are different questions with different answers.
Liveness(w, r) ==
  IF AgeSeenBy(w, r) < -Tolerance THEN "unanswerable"
  ELSE IF AgeSeenBy(w, r) > StaleAfter THEN "stale"
  ELSE "live"

\* Mutant: any record counts, however old.
ClaimedForEver(w, u) == ledger[u] # NoRecord

\* holder, is_claimed, claimed_units: what a lock-free reader is told.
ClaimedFor(w, u) == ledger[u] # NoRecord /\ Liveness(w, ledger[u]) # "stale"

Fresh(w) == [worker |-> w, age |-> -Skew[w]]

-----------------------------------------------------------------------------
(* The steps of a call.                                                    *)

\* A process asks for an operation on a unit.
Call(p, op, u) ==
  /\ call[p].step = "idle"
  /\ call' = [call EXCEPT ![p] = [NoCall EXCEPT !.op = op, !.unit = u, !.step = "waiting"]]
  /\ UNCHANGED <<ledger, flock>>

\* The record and, when it is another's, the verdict on it.
Verdict(p, r) ==
  IF r = NoRecord THEN "none"
  ELSE IF r.worker = Me(p) THEN "own"
  ELSE Liveness(Me(p), r)

Judged(p) ==
  call' = [call EXCEPT ![p].step = "read", ![p].seen = ledger[UnitOf(p)],
                       ![p].verdict = Verdict(p, ledger[UnitOf(p)])]

\* Mutant: nobody waits for the lock.
LockShared(p) ==
  /\ call[p].step = "waiting"
  /\ flock' = [flock EXCEPT ![UnitOf(p)] = p]
  /\ Judged(p)
  /\ UNCHANGED ledger

\* The lock is got and the record read under it.
Lock(p) ==
  /\ call[p].step = "waiting"
  /\ flock[UnitOf(p)] = NoProc
  /\ flock' = [flock EXCEPT ![UnitOf(p)] = p]
  /\ Judged(p)
  /\ UNCHANGED ledger

\* The call returns and the lock is let go.
Return(p, result) ==
  /\ call' = [call EXCEPT ![p] = [NoCall EXCEPT !.result = result]]
  /\ flock' = [flock EXCEPT ![UnitOf(p)] = NoProc]

Publish(p, r) == ledger' = [ledger EXCEPT ![UnitOf(p)] = r]

\* Mutant: a record that cannot be judged is taken for stale.
RefusesLiveOnly(verdict) == verdict = "live"
Refuses(verdict) == verdict \in {"live", "unanswerable"}

Claim(p) ==
  /\ call[p].op = "claim"
  /\ call[p].step = "read"
  /\ \/ /\ Refuses(call[p].verdict)
        /\ Return(p, call[p].verdict)
        /\ UNCHANGED ledger
     \/ /\ ~Refuses(call[p].verdict)
        /\ Publish(p, Fresh(Me(p)))
        /\ Return(p, "granted")

\* Mutant: whoever reads the record refreshes it.
RefreshesAny(verdict) == verdict # "none"
Refreshes(verdict) == verdict = "own"

\* heartbeat: the record that was read goes back with the time of now.
Heartbeat(p) ==
  /\ call[p].op = "heartbeat"
  /\ call[p].step = "read"
  /\ \/ /\ Refreshes(call[p].verdict)
        /\ Publish(p, [call[p].seen EXCEPT !.age = -Skew[Me(p)]])
        /\ Return(p, "true")
     \/ /\ ~Refreshes(call[p].verdict)
        /\ Return(p, "false")
        /\ UNCHANGED ledger

\* Mutant: a release does not ask whose record it removes.
RemovesAny(verdict) == verdict # "none"
Removes(verdict) == verdict = "own"

Release(p) ==
  /\ call[p].op = "release"
  /\ call[p].step = "read"
  /\ \/ /\ Removes(call[p].verdict)
        /\ Publish(p, NoRecord)
        /\ Return(p, "true")
     \/ /\ ~Removes(call[p].verdict)
        /\ Return(p, "false")
        /\ UNCHANGED ledger

LedgerStep(p) == Lock(p) \/ Claim(p) \/ Heartbeat(p) \/ Release(p)

\* Processes are killed: the kernel drops their locks, the records stay.
Killed(dead) ==
  /\ call' = [p \in Procs |-> IF p \in dead THEN NoCall ELSE call[p]]
  /\ flock' = [u \in Units |-> IF flock[u] \in dead THEN NoProc ELSE flock[u]]
  /\ UNCHANGED ledger

\* Time passes for every record.
LedgerTick ==
  /\ ledger' = [u \in Units |->
       IF ledger[u] # NoRecord /\ ledger[u].age < OldAge
       THEN [ledger[u] EXCEPT !.age = @ + 1] ELSE ledger[u]]
  /\ UNCHANGED <<flock, call>>

-----------------------------------------------------------------------------
(* The ledger under any callers.                                           *)

Ops == {"claim", "heartbeat", "release"}

LedgerNext ==
  \/ \E p \in Procs :
       \/ \E op \in Ops, u \in Units : Call(p, op, u)
       \/ LedgerStep(p)
  \/ \E dead \in SUBSET Procs : Killed(dead)
  \/ LedgerTick

LedgerSpec == LedgerInit /\ [][LedgerNext]_ledgerVars

Record == [worker : Workers, age : Ages] \cup {NoRecord}
Verdicts == {"none", "own", "live", "stale", "unanswerable"}
Results == {"none", "granted", "live", "unanswerable", "true", "false"}
Calls == [op : Ops, unit : Units, step : {"waiting", "read"},
          seen : Record, verdict : Verdicts, result : {"none"}]
           \cup {[NoCall EXCEPT !.result = r] : r \in Results}

\* Type invariant: records, locks and calls are what the ledger can hold, and a process
\* that has read a record holds that unit's lock.
LedgerTypeOK ==
  /\ ledger \in [Units -> Record]
  /\ flock \in [Units -> Procs \cup {NoProc}]
  /\ call \in [Procs -> Calls]
  /\ \A p \in Procs : call[p].step = "read" => flock[UnitOf(p)] = p

\* A live claim is never stolen: a record changes hands or disappears only by its own
\* holder's doing, or when the clock of whoever takes it says stale at that moment,
\* however long ago it was judged (the flock covers the read and the publication, and
\* an unanswerable record is not taken).
LiveClaimIsNeverStolen ==
  [][\A u \in Units :
       (ledger[u] # NoRecord /\ ledger'[u].worker # ledger[u].worker) =>
         \E p \in Procs : flock[u] = p /\ (\/ Me(p) = ledger[u].worker
                                          \/ Liveness(Me(p), ledger[u]) = "stale")]_ledgerVars

\* Only its holder makes a record younger: no late heartbeat refreshes, and so
\* prolongs or resurrects, somebody else's claim.
OnlyTheHolderRefreshes ==
  [][\A u \in Units :
       (ledger'[u] # NoRecord /\ (ledger[u] = NoRecord \/ ledger'[u].age < ledger[u].age)) =>
         \E p \in Procs : flock[u] = p /\ Me(p) = ledger'[u].worker]_ledgerVars
=============================================================================
